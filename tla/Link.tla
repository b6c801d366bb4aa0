-------------------------------- MODULE Link --------------------------------
(***************************************************************************)
(* The link aggregate and its redirect projection                          *)
(* (src/internal/link/domain).                                             *)
(*                                                                         *)
(* A time is a natural number of clock ticks, 0 being Go's zero time;      *)
(* Times is the stretch of time in scope, Nat for the unbounded system.    *)
(* What the stores make of a time finer than they keep is not the domain's *)
(* concern: see LinkRow.  A destination is a value that has passed         *)
(* NewDestinationURL, an owner one that has passed TrimSpace and is not    *)
(* blank.  A link's code is the key under which the repository keeps it,   *)
(* so records do not repeat it.                                            *)
(*                                                                         *)
(* Each constructor or mutator that returns (Link, error) is a set: the    *)
(* one link it yields, or nothing when it returns an error and leaves the  *)
(* link as it was.  uint64 versions are unbounded here: they would wrap    *)
(* after 2^64 mutations of one link.                                       *)
(***************************************************************************)
EXTENDS Integers

CONSTANTS Codes,          \* short codes
          Destinations,   \* normalised destination URLs
          Owners,         \* non-blank owner identifiers
          Times,          \* clock readings
          Expirations,    \* the expirations clients ask for
          NoExpiry        \* a nil expiresAt pointer

ASSUME NoExpiryAssumption == NoExpiry \notin Int
ASSUME TimesAssumption == Times \subseteq Nat /\ Expirations \subseteq Times

Timestamps == Times \ {0}
Expiries == Timestamps \cup {NoExpiry}
Versions == Nat \ {0}
Statuses == {"active", "disabled", "deleted"}

Links == [destination : Destinations,
          owner       : Owners,
          status      : Statuses,
          createdAt   : Timestamps,
          updatedAt   : Timestamps,
          expiresAt   : Expiries,
          version     : Versions]

-----------------------------------------------------------------------------
(* Construction *)

(* Seeded fault: a new link whose version is left at the zero value.       *)
NewLinkUnversioned(destination, owner, createdAt, expiresAt) ==
    IF createdAt # 0 /\ (expiresAt = NoExpiry \/ expiresAt > createdAt)
    THEN {[destination |-> destination, owner |-> owner, status |-> "active",
           createdAt |-> createdAt, updatedAt |-> createdAt,
           expiresAt |-> expiresAt, version |-> 0]}
    ELSE {}

NewLink(destination, owner, createdAt, expiresAt) ==
    IF createdAt # 0 /\ (expiresAt = NoExpiry \/ expiresAt > createdAt)
    THEN {[destination |-> destination, owner |-> owner, status |-> "active",
           createdAt |-> createdAt, updatedAt |-> createdAt,
           expiresAt |-> expiresAt, version |-> 1]}
    ELSE {}

(* What RehydrateLink demands of a stored row before it becomes a link. *)
Rehydratable(l) ==
    /\ l \in Links
    /\ l.updatedAt >= l.createdAt
    /\ l.expiresAt = NoExpiry \/ l.expiresAt > l.createdAt

-----------------------------------------------------------------------------
(* Mutation *)

(* Seeded fault: reactivation does not ask where the link comes from.      *)
CanTransitionFromDeleted(status, next) ==
    \/ status = "active" /\ next \in {"disabled", "deleted"}
    \/ status # "active" /\ next \in {"active", "deleted"}

CanTransitionTo(status, next) ==
    \/ status = "active" /\ next \in {"disabled", "deleted"}
    \/ status = "disabled" /\ next \in {"active", "deleted"}

(* Seeded fault: any clock reading will do.                                *)
AnyMutationTime(l, at) == at # 0

ValidMutationTime(l, at) ==
    /\ at # 0
    /\ at >= l.createdAt
    /\ at > l.updatedAt

TransitionTo(l, next, at) ==
    IF ValidMutationTime(l, at) /\ CanTransitionTo(l.status, next)
    THEN {[l EXCEPT !.status = next, !.updatedAt = at, !.version = @ + 1]}
    ELSE {}

UpdateDestination(l, destination, at) ==
    IF /\ l.status # "deleted"
       /\ l.destination # destination
       /\ ValidMutationTime(l, at)
    THEN {[l EXCEPT !.destination = destination, !.updatedAt = at,
                    !.version = @ + 1]}
    ELSE {}

SetExpiration(l, expiresAt, at) ==
    IF /\ expiresAt # 0
       /\ l.status # "deleted"
       /\ expiresAt > at
       /\ l.expiresAt # expiresAt
       /\ ValidMutationTime(l, at)
    THEN {[l EXCEPT !.expiresAt = expiresAt, !.updatedAt = at,
                    !.version = @ + 1]}
    ELSE {}

ClearExpiration(l, at) ==
    IF /\ l.status # "deleted"
       /\ l.expiresAt # NoExpiry
       /\ ValidMutationTime(l, at)
    THEN {[l EXCEPT !.expiresAt = NoExpiry, !.updatedAt = at,
                    !.version = @ + 1]}
    ELSE {}

(* The mutable field of a PATCH: exactly one of status, destination and    *)
(* expiresAt, a null expiresAt being the request to clear it.              *)
Mutations ==
    [field : {"status"}, value : Statuses]
      \cup [field : {"destination"}, value : Destinations]
      \cup [field : {"expiresAt"}, value : Expirations \cup {NoExpiry}]

Mutate(l, m, at) ==
    CASE m.field = "status" -> TransitionTo(l, m.value, at)
      [] m.field = "destination" -> UpdateDestination(l, m.value, at)
      [] m.field = "expiresAt" /\ m.value = NoExpiry -> ClearExpiration(l, at)
      [] m.field = "expiresAt" /\ m.value # NoExpiry ->
             SetExpiration(l, m.value, at)

-----------------------------------------------------------------------------
(* The projection the redirect path works on *)

RedirectMappings == [destination : Destinations,
                     status      : Statuses,
                     expiresAt   : Expiries,
                     version     : Versions]

RedirectMappingFromLink(l) ==
    [destination |-> l.destination, status |-> l.status,
     expiresAt |-> l.expiresAt, version |-> l.version]

IsExpired(m, now) == m.expiresAt # NoExpiry /\ now >= m.expiresAt

CanRedirect(m, now) == now # 0 /\ m.status = "active" /\ ~IsExpired(m, now)
=============================================================================
