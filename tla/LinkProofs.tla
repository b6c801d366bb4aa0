----------------------------- MODULE LinkProofs -----------------------------
(***************************************************************************)
(* What the operators of Link return: links, with the next version where   *)
(* they mutate one; and what LinkRow makes of a link that is stored.  The  *)
(* proofs about the components cite these lemmas.                          *)
(***************************************************************************)
EXTENDS LinkRow, TLAPS

(* A constructed link is well formed, of its owner, and at version 1.      *)
LEMMA NewLinkIsLink ==
    ASSUME NEW d \in Destinations, NEW o \in Owners, NEW at \in Times,
           NEW e \in Expirations \cup {NoExpiry},
           NEW l \in NewLink(d, o, at, e)
    PROVE  l \in Links /\ l.version = 1 /\ l.owner = o
  BY TimesAssumption, NoExpiryAssumption
  DEF NewLink, Links, Expiries, Timestamps, Versions, Statuses

(* What every mutator leaves behind: the fields it may set, and a version  *)
(* incremented with them.                                                  *)
NextVersion(l, d, st, e, at) ==
    [l EXCEPT !.destination = d, !.status = st, !.updatedAt = at,
              !.expiresAt = e, !.version = @ + 1]

LEMMA NextVersionIsLink ==
    ASSUME NEW l \in Links, NEW d \in Destinations, NEW st \in Statuses,
           NEW e \in Expiries, NEW at \in Timestamps
    PROVE  /\ NextVersion(l, d, st, e, at) \in Links
           /\ NextVersion(l, d, st, e, at).version = l.version + 1
           /\ NextVersion(l, d, st, e, at).owner = l.owner
           /\ NextVersion(l, d, st, e, at).createdAt = l.createdAt
  <1>1. l.version + 1 \in Versions
    BY DEF Links, Versions
  <1>2. NextVersion(l, d, st, e, at) \in Links
    BY <1>1 DEF Links, NextVersion
  <1>3. /\ NextVersion(l, d, st, e, at).version = l.version + 1
        /\ NextVersion(l, d, st, e, at).owner = l.owner
        /\ NextVersion(l, d, st, e, at).createdAt = l.createdAt
    BY DEF Links, NextVersion
  <1> QED
    BY <1>2, <1>3

LEMMA NextVersionRehydrates ==
    ASSUME NEW l \in Links, NEW d \in Destinations, NEW st \in Statuses,
           NEW e \in Expiries, NEW at \in Timestamps,
           Rehydratable(l), at > l.updatedAt,
           e = NoExpiry \/ e > l.createdAt
    PROVE  Rehydratable(NextVersion(l, d, st, e, at))
  <1> DEFINE n == NextVersion(l, d, st, e, at)
  <1>1. n \in Links
    BY NextVersionIsLink
  <1>2. n.updatedAt = at /\ n.createdAt = l.createdAt /\ n.expiresAt = e
    BY DEF Links, NextVersion
  <1>3. l.createdAt \in Nat /\ l.updatedAt \in Nat /\ at \in Nat
    BY TimesAssumption DEF Links, Timestamps
  <1> HIDE DEF n
  <1>4. Rehydratable(n)
    BY <1>1, <1>2, <1>3 DEF Rehydratable
  <1> QED
    BY <1>4 DEF n

(* Every mutator, when it succeeds, makes a next version.                  *)
LEMMA MutateIsNextVersion ==
    ASSUME NEW l \in Links, NEW m \in Mutations, NEW at \in Times,
           NEW n \in Mutate(l, m, at)
    PROVE  /\ at \in Timestamps /\ at >= l.createdAt /\ at > l.updatedAt
           /\ \E d \in Destinations, st \in Statuses, e \in Expiries :
                /\ n = NextVersion(l, d, st, e, at)
                /\ e \in {NoExpiry, l.expiresAt} \/ e > at
  <1>0. l.destination \in Destinations /\ l.status \in Statuses
        /\ l.expiresAt \in Expiries
    BY DEF Links
  <1>1. CASE m.field = "status"
    <2>1. m.value \in Statuses /\ n \in TransitionTo(l, m.value, at)
      BY <1>1 DEF Mutations, Mutate
    <2>2. /\ at \in Timestamps /\ at >= l.createdAt /\ at > l.updatedAt
          /\ n = [l EXCEPT !.status = m.value, !.updatedAt = at,
                           !.version = @ + 1]
      BY <2>1 DEF TransitionTo, ValidMutationTime, Timestamps
    <2>3. n = NextVersion(l, l.destination, m.value, l.expiresAt, at)
      BY <2>2 DEF Links, NextVersion
    <2> QED
      BY <1>0, <2>1, <2>2, <2>3
  <1>2. CASE m.field = "destination"
    <2>1. m.value \in Destinations /\ n \in UpdateDestination(l, m.value, at)
      BY <1>2 DEF Mutations, Mutate
    <2>2. /\ at \in Timestamps /\ at >= l.createdAt /\ at > l.updatedAt
          /\ n = [l EXCEPT !.destination = m.value, !.updatedAt = at,
                           !.version = @ + 1]
      BY <2>1 DEF UpdateDestination, ValidMutationTime, Timestamps
    <2>3. n = NextVersion(l, m.value, l.status, l.expiresAt, at)
      BY <2>2 DEF Links, NextVersion
    <2> QED
      BY <1>0, <2>1, <2>2, <2>3
  <1>3. CASE m.field = "expiresAt" /\ m.value = NoExpiry
    <2>1. n \in ClearExpiration(l, at)
      BY <1>3 DEF Mutate
    <2>2. /\ at \in Timestamps /\ at >= l.createdAt /\ at > l.updatedAt
          /\ n = [l EXCEPT !.expiresAt = NoExpiry, !.updatedAt = at,
                           !.version = @ + 1]
      BY <2>1 DEF ClearExpiration, ValidMutationTime, Timestamps
    <2>3. n = NextVersion(l, l.destination, l.status, NoExpiry, at)
      BY <2>2 DEF Links, NextVersion
    <2>4. NoExpiry \in Expiries
      BY DEF Expiries
    <2> QED
      BY <1>0, <2>2, <2>3, <2>4
  <1>4. CASE m.field = "expiresAt" /\ m.value # NoExpiry
    <2>1. m.value \in Expirations /\ n \in SetExpiration(l, m.value, at)
      BY <1>4 DEF Mutations, Mutate
    <2>2. /\ at \in Timestamps /\ at >= l.createdAt /\ at > l.updatedAt
          /\ m.value # 0 /\ m.value > at
          /\ n = [l EXCEPT !.expiresAt = m.value, !.updatedAt = at,
                           !.version = @ + 1]
      BY <2>1 DEF SetExpiration, ValidMutationTime, Timestamps
    <2>3. n = NextVersion(l, l.destination, l.status, m.value, at)
      BY <2>2 DEF Links, NextVersion
    <2>4. m.value \in Expiries
      BY <2>1, <2>2, TimesAssumption DEF Timestamps, Expiries
    <2> QED
      BY <1>0, <2>2, <2>3, <2>4
  <1> QED
    BY <1>1, <1>2, <1>3, <1>4 DEF Mutations

LEMMA MutateMakesNextVersion ==
    ASSUME NEW l \in Links, NEW m \in Mutations, NEW at \in Times,
           NEW n \in Mutate(l, m, at)
    PROVE  /\ n \in Links
           /\ n.version = l.version + 1
           /\ n.owner = l.owner
           /\ n.createdAt = l.createdAt
  BY MutateIsNextVersion, NextVersionIsLink

LEMMA MutateRehydrates ==
    ASSUME NEW l \in Links, NEW m \in Mutations, NEW at \in Times,
           NEW n \in Mutate(l, m, at), Rehydratable(l)
    PROVE  Rehydratable(n)
  <1>1. /\ at \in Timestamps /\ at >= l.createdAt /\ at > l.updatedAt
    BY MutateIsNextVersion
  <1>2. PICK d \in Destinations, st \in Statuses, e \in Expiries :
          /\ n = NextVersion(l, d, st, e, at)
          /\ e \in {NoExpiry, l.expiresAt} \/ e > at
    BY MutateIsNextVersion
  <1>3. e = NoExpiry \/ e > l.createdAt
    <2>1. l.createdAt \in Nat /\ at \in Nat
      BY TimesAssumption DEF Links, Timestamps
    <2>2. e = NoExpiry \/ e \in Nat
      BY TimesAssumption DEF Expiries, Timestamps
    <2> QED
      BY <1>1, <1>2, <2>1, <2>2 DEF Rehydratable
  <1> QED
    BY <1>1, <1>2, <1>3, NextVersionRehydrates

(* No mutator touches a deleted link, and each moves its last change on.   *)
LEMMA MutateMovesForward ==
    ASSUME NEW l \in Links, NEW m \in Mutations, NEW at \in Times,
           NEW n \in Mutate(l, m, at)
    PROVE  /\ l.status # "deleted"
           /\ n.updatedAt > l.updatedAt
  <1>1. l.status # "deleted"
    <2>1. CASE m.field = "status"
      <3>1. CanTransitionTo(l.status, m.value)
        BY <2>1 DEF Mutate, TransitionTo
      <3> QED
        BY <3>1 DEF CanTransitionTo
    <2>2. CASE m.field = "destination"
      BY <2>2 DEF Mutate, UpdateDestination
    <2>3. CASE m.field = "expiresAt" /\ m.value = NoExpiry
      BY <2>3 DEF Mutate, ClearExpiration
    <2>4. CASE m.field = "expiresAt" /\ m.value # NoExpiry
      BY <2>4 DEF Mutate, SetExpiration
    <2> QED
      BY <2>1, <2>2, <2>3, <2>4 DEF Mutations
  <1>2. n.updatedAt > l.updatedAt
    <2>1. at > l.updatedAt
      BY MutateIsNextVersion
    <2>2. PICK d \in Destinations, st \in Statuses, e \in Expiries :
            n = NextVersion(l, d, st, e, at)
      BY MutateIsNextVersion
    <2>3. n.updatedAt = at
      BY <2>2 DEF NextVersion, Links
    <2> QED
      BY <2>1, <2>3
  <1> QED
    BY <1>1, <1>2

-----------------------------------------------------------------------------
(* The row of a link *)

(* A stored time is the time it was made from, or one before it.           *)
LEMMA KeptTimeBounds ==
    ASSUME NEW t \in Nat
    PROVE  KeptTime(t) \in Nat /\ KeptTime(t) <= t
  <1> DEFINE q == t \div Resolution
             r == t % Resolution
  <1>1. q \in Nat /\ r \in Nat
    BY ResolutionAssumption
  <1>2. t = Resolution * q + r
    BY ResolutionAssumption
  <1>3. KeptTime(t) = Resolution * q /\ Resolution * q \in Nat
    BY <1>1, ResolutionAssumption DEF KeptTime
  <1> HIDE DEF q, r
  <1> QED
    BY <1>1, <1>2, <1>3

(* No multiple of the resolution lies between a stored time and the time   *)
(* it was made from.                                                       *)
LEMMA KeptTimeIsLast ==
    ASSUME NEW t \in Nat, NEW k \in Nat, Resolution * k <= t
    PROVE  Resolution * k <= KeptTime(t)
  <1> DEFINE q == t \div Resolution
             r == t % Resolution
  <1>1. q \in Nat /\ r \in 0..(Resolution - 1)
    BY ResolutionAssumption
  <1>2. t = Resolution * q + r
    BY ResolutionAssumption
  <1>3. KeptTime(t) = Resolution * q /\ Resolution * q \in Nat
    BY <1>1, ResolutionAssumption DEF KeptTime
  <1> HIDE DEF q, r
  <1>4. CASE k <= q
    BY <1>1, <1>3, <1>4, ResolutionAssumption
  <1>5. CASE k >= q + 1
    <2>1. /\ Resolution * k >= Resolution * (q + 1)
          /\ Resolution * (q + 1) = Resolution * q + Resolution
      BY <1>1, <1>5, ResolutionAssumption
    <2> QED
      BY <1>1, <1>2, <1>3, <2>1, ResolutionAssumption
  <1> QED
    BY <1>1, <1>4, <1>5

LEMMA KeptTimeIsMultiple ==
    ASSUME NEW t \in Nat
    PROVE  \E k \in Nat : KeptTime(t) = Resolution * k
  <1>1. t \div Resolution \in Nat
    BY ResolutionAssumption
  <1>2. KeptTime(t) = Resolution * (t \div Resolution)
    BY <1>1, ResolutionAssumption DEF KeptTime
  <1> QED
    BY <1>1, <1>2

LEMMA KeptTimeMonotone ==
    ASSUME NEW s \in Nat, NEW t \in Nat, s <= t
    PROVE  KeptTime(s) <= KeptTime(t)
  <1>1. PICK k \in Nat : KeptTime(s) = Resolution * k
    BY KeptTimeIsMultiple
  <1>2. KeptTime(s) <= t
    BY KeptTimeBounds
  <1> QED
    BY <1>1, <1>2, KeptTimeIsLast

LEMMA KeptTimeIdempotent ==
    ASSUME NEW t \in Nat
    PROVE  KeptTime(KeptTime(t)) = KeptTime(t)
  <1>1. KeptTime(t) \in Nat
    BY KeptTimeBounds
  <1>2. KeptTime(KeptTime(t)) \in Nat /\ KeptTime(KeptTime(t)) <= KeptTime(t)
    BY <1>1, KeptTimeBounds
  <1>3. KeptTime(KeptTime(t)) >= KeptTime(t)
    <2>1. PICK k \in Nat : KeptTime(t) = Resolution * k
      BY KeptTimeIsMultiple
    <2> QED
      BY <1>1, <2>1, KeptTimeIsLast
  <1> QED
    BY <1>1, <1>2, <1>3

LEMMA KeptExpiryIsExpiry ==
    ASSUME NEW e \in Expiries
    PROVE  /\ KeptExpiry(e) \in Expiries
           /\ KeptExpiry(KeptExpiry(e)) = KeptExpiry(e)
  <1>1. CASE e = NoExpiry
    BY <1>1 DEF KeptExpiry, Expiries
  <1>2. CASE e \in Timestamps
    <2>1. e \in Nat /\ KeptTime(e) \in Timestamps /\ KeptTime(e) \in Nat
      BY <1>2, TimesAssumption, ResolutionAssumption, KeptTimeBounds
      DEF Timestamps
    <2>2. e # NoExpiry /\ KeptTime(e) # NoExpiry
      BY <2>1, NoExpiryAssumption
    <2> QED
      BY <2>1, <2>2, KeptTimeIdempotent DEF KeptExpiry, Expiries
  <1> QED
    BY <1>1, <1>2 DEF Expiries

(* The row of a link is a link again, cut in nothing but its times, and the*)
(* same when it is stored once more.                                       *)
LEMMA RowIsLink ==
    ASSUME NEW l \in Links
    PROVE  /\ Row(l) \in Links /\ Row(Row(l)) = Row(l)
           /\ Row(l).destination = l.destination
           /\ Row(l).owner = l.owner
           /\ Row(l).status = l.status
           /\ Row(l).version = l.version
           /\ Row(l).createdAt = KeptTime(l.createdAt)
           /\ Row(l).updatedAt = KeptTime(l.updatedAt)
           /\ Row(l).expiresAt = KeptExpiry(l.expiresAt)
  <1>1. /\ l.createdAt \in Timestamps /\ l.updatedAt \in Timestamps
        /\ l.createdAt \in Nat /\ l.updatedAt \in Nat
        /\ l.expiresAt \in Expiries
    BY TimesAssumption DEF Links, Timestamps
  <1>2. /\ KeptTime(l.createdAt) \in Timestamps
        /\ KeptTime(l.updatedAt) \in Timestamps
        /\ KeptExpiry(l.expiresAt) \in Expiries
    BY <1>1, ResolutionAssumption, KeptExpiryIsExpiry
  <1>3. /\ KeptTime(KeptTime(l.createdAt)) = KeptTime(l.createdAt)
        /\ KeptTime(KeptTime(l.updatedAt)) = KeptTime(l.updatedAt)
        /\ KeptExpiry(KeptExpiry(l.expiresAt)) = KeptExpiry(l.expiresAt)
    BY <1>1, KeptTimeIdempotent, KeptExpiryIsExpiry
  <1>4. /\ Row(l) \in Links
        /\ Row(l).destination = l.destination /\ Row(l).owner = l.owner
        /\ Row(l).status = l.status /\ Row(l).version = l.version
        /\ Row(l).createdAt = KeptTime(l.createdAt)
        /\ Row(l).updatedAt = KeptTime(l.updatedAt)
        /\ Row(l).expiresAt = KeptExpiry(l.expiresAt)
    BY <1>2 DEF Row, Links
  <1>5. Row(Row(l)) = Row(l)
    BY <1>3, <1>4 DEF Row, Links
  <1> QED
    BY <1>4, <1>5

(* What the table's check lets in can be loaded again.                     *)
LEMMA RowRehydrates ==
    ASSUME NEW l, Rehydratable(l), Storable(l)
    PROVE  Rehydratable(Row(l))
  <1>1. /\ l \in Links /\ l.updatedAt >= l.createdAt
        /\ l.createdAt \in Nat /\ l.updatedAt \in Nat
    BY TimesAssumption DEF Rehydratable, Links, Timestamps
  <1>2. Row(l).updatedAt >= Row(l).createdAt
    <2>1. KeptTime(l.createdAt) <= KeptTime(l.updatedAt)
      BY <1>1, KeptTimeMonotone
    <2>2. KeptTime(l.createdAt) \in Nat /\ KeptTime(l.updatedAt) \in Nat
      BY <1>1, KeptTimeBounds
    <2> QED
      BY <1>1, <2>1, <2>2, RowIsLink
  <1>3. Row(l) \in Links
    BY <1>1, RowIsLink
  <1> QED
    BY <1>2, <1>3 DEF Rehydratable, Storable

(* With clocks as coarse as the columns every link is its own row.         *)
LEMMA CoarseClockRow ==
    ASSUME Resolution = 1, NEW l \in Links
    PROVE  Row(l) = l
  <1>1. \A t \in Nat : KeptTime(t) = t
    BY DEF KeptTime
  <1>2. l.createdAt \in Nat /\ l.updatedAt \in Nat
    BY TimesAssumption DEF Links, Timestamps
  <1>3. KeptExpiry(l.expiresAt) = l.expiresAt
    BY <1>1, TimesAssumption DEF KeptExpiry, Links, Expiries, Timestamps
  <1> QED
    BY <1>1, <1>2, <1>3 DEF Row, Links
=============================================================================
