--------------------------- MODULE LinkRepository ---------------------------
(***************************************************************************)
(* The source of truth: ports.LinkRepository, implemented by a map under a *)
(* mutex (adapters/memory) and by the table "links" (adapters/postgres).   *)
(* Every operation is one critical section or one SQL statement, hence one *)
(* step.  What is written is the row of the link, cut to the precision of  *)
(* the columns, and what is read is that row.  No adapter removes a link.  *)
(***************************************************************************)
EXTENDS LinkRow

CONSTANT NoLink     \* what a code without a link maps to

ASSUME NoLinkAssumption == NoLink \notin Links

VARIABLE links      \* links[c] is the stored link of code c, or NoLink

RepositoryTypeOK == links \in [Codes -> Links \cup {NoLink}]

RepositoryInit == links = [c \in Codes |-> NoLink]

Exists(c) == links[c] # NoLink

(* Seeded fault: INSERT ... ON CONFLICT DO UPDATE.                         *)
InsertOrReplace(c, l) ==
    Storable(l) /\ links' = [links EXCEPT ![c] = Row(l)]

(* Insert succeeds only for a free code: the map lookup of the memory      *)
(* adapter, the primary key of the table.                                  *)
Insert(c, l) ==
    /\ Storable(l)
    /\ ~Exists(c)
    /\ links' = [links EXCEPT ![c] = Row(l)]

(* Seeded faults: no "and version = $7"; the new version in its place.     *)
AnyVersionMatches(c, expected) == Exists(c)
NewVersionMatches(c, expected) ==
    Exists(c) /\ links[c].version = expected + 1

VersionMatches(c, expected) == Exists(c) /\ links[c].version = expected

(* UPDATE ... WHERE code = $6 AND version = $7.  The SQL statement sets the*)
(* five mutable columns, the memory adapter replaces the whole link: owner *)
(* and creation time never change, so both leave the same row.             *)
Update(c, l, expected) ==
    /\ VersionMatches(c, expected)
    /\ Storable(l)
    /\ links' = [links EXCEPT ![c] =
                   [@ EXCEPT !.destination = l.destination,
                             !.status = l.status,
                             !.updatedAt = Row(l).updatedAt,
                             !.expiresAt = Row(l).expiresAt,
                             !.version = l.version]]
=============================================================================
