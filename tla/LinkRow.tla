------------------------------- MODULE LinkRow -------------------------------
(***************************************************************************)
(* A link as the repository keeps it: the row of the table "links"         *)
(* (adapters/postgres, migrations/postgres/0001_init.sql).                 *)
(*                                                                         *)
(* The process reads its clock, and clients name expirations, in ticks; a  *)
(* timestamptz column keeps microseconds, and pgx cuts off the rest.       *)
(* Resolution is the number of ticks in a microsecond, and 1 for the map of*)
(* adapters/memory, which keeps every tick.                                *)
(***************************************************************************)
EXTENDS Link

CONSTANT Resolution

KeptTime(t) == (t \div Resolution) * Resolution

(* No clock reads, and no client asks for, less than a microsecond after   *)
(* the zero time, the year 1.                                              *)
ASSUME ResolutionAssumption ==
    /\ Resolution \in Nat \ {0}
    /\ \A t \in Timestamps : KeptTime(t) \in Timestamps

KeptExpiry(e) == IF e = NoExpiry THEN NoExpiry ELSE KeptTime(e)

Row(l) == [l EXCEPT !.createdAt = KeptTime(@), !.updatedAt = KeptTime(@),
                    !.expiresAt = KeptExpiry(@)]

(* check (expires_at is null or expires_at > created_at), on the times as  *)
(* they are kept; the other checks of the table hold of every link.  The   *)
(* map has no checks, and loses nothing that could make this one fail.     *)
Storable(l) ==
    Row(l).expiresAt # NoExpiry => Row(l).expiresAt > Row(l).createdAt
=============================================================================
