------------------------ MODULE LinkManagementProofs ------------------------
(***************************************************************************)
(* Proofs about LinkManagement, for every set of codes, requests, owners,  *)
(* destinations, clock readings and faults.                                *)
(*                                                                         *)
(* None of the safety properties is inductive: they speak of answers, and  *)
(* what makes an answer right is what its request knew while it was in     *)
(* flight.  ManagementInv adds that knowledge: a request's copy of a link  *)
(* is never ahead of the stored link, and has its row when the versions are*)
(* equal.                                                                  *)
(***************************************************************************)
EXTENDS LinkManagement, LinkProofs

(* What the repository can hold: links that are their own rows.            *)
Rows == {l \in Links : Row(l) = l}
Stores == [Codes -> Rows \cup {NoLink}]

(* l is a version of the link of code c: the stored one or an earlier one. *)
VersionOf(l, c, store) ==
    /\ l \in Links
    /\ c \in Codes
    /\ store[c] # NoLink
    /\ l.version <= store[c].version
    /\ l.version = store[c].version => l = store[c]

Mutant(l, base) == \E m \in Mutations, at \in Times : l \in Mutate(base, m, at)

(* The request q wrote a version, or knows one from the store; what it read*)
(* is a row.                                                               *)
HasWritten(q) == q.pc = "committed" \/ q.answer = "changed"
Knows(q) == HasWritten(q) \/ q.answer = "read"

RequestInv(q, store) ==
    /\ q.pc = "update" => /\ VersionOf(q.base, q.code, store)
                          /\ Mutant(q.next, q.base)
    /\ Knows(q) => q.next \in Links /\ VersionOf(Row(q.next), q.code, store)
    /\ q.answer = "read" => Row(q.next) = q.next
    /\ HasWritten(q) => /\ q.base \in Links
                        /\ q.next.version = q.base.version + 1
    /\ q.answer = "conflict" /\ q.base # NoLink
         => /\ q.base \in Links
            /\ q.code \in Codes
            /\ store[q.code] # NoLink
            /\ store[q.code].version > q.base.version

Compatible(p, q) ==
    p.code = q.code
    => /\ Knows(p) /\ Knows(q) /\ p.next.version = q.next.version
            => Row(p.next) = Row(q.next)
       /\ HasWritten(p) /\ HasWritten(q) => p.base.version # q.base.version

ManagementInv ==
    /\ ManagementTypeOK
    /\ links \in Stores
    /\ \A r \in Requests : RequestInv(req[r], links)
    /\ \A r, s \in Requests : r # s => Compatible(req[r], req[s])

-----------------------------------------------------------------------------
(* The store only moves forward *)

Advances(old, new) ==
    \A c \in Codes :
       old[c] # NoLink => /\ new[c] # NoLink
                          /\ old[c].version <= new[c].version
                          /\ old[c].version = new[c].version => new[c] = old[c]

LEMMA AdvancesReflexive ==
    ASSUME NEW old \in Stores
    PROVE  Advances(old, old)
  BY DEF Advances, Stores, Rows, Links, Versions

LEMMA RequestInvStable ==
    ASSUME NEW old \in Stores, NEW new \in Stores, Advances(old, new),
           NEW q \in RequestStates, RequestInv(q, old)
    PROVE  RequestInv(q, new)
  <1>1. ASSUME NEW l, NEW c, VersionOf(l, c, old)
        PROVE  VersionOf(l, c, new)
    <2>1. /\ old[c] \in Links /\ new[c] \in Links
          /\ old[c].version \in Nat /\ new[c].version \in Nat
          /\ l.version \in Nat
      BY <1>1 DEF VersionOf, Advances, Stores, Rows, Links, Versions
    <2> QED
      BY <1>1, <2>1 DEF VersionOf, Advances
  <1>2. ASSUME q.base \in Links, q.code \in Codes, old[q.code] # NoLink,
               old[q.code].version > q.base.version
        PROVE  /\ new[q.code] # NoLink
               /\ new[q.code].version > q.base.version
    <2>1. /\ old[q.code] \in Links /\ new[q.code] \in Links
          /\ old[q.code].version \in Nat /\ new[q.code].version \in Nat
          /\ q.base.version \in Nat
      BY <1>2 DEF Advances, Stores, Rows, Links, Versions
    <2> QED
      BY <1>2, <2>1 DEF Advances
  <1> QED
    BY <1>1, <1>2 DEF RequestInv

(* A step that replaces one request's record by a sound one, compatible    *)
(* with the others', preserves the invariant.                              *)
LEMMA StepPreservesInv ==
    ASSUME ManagementInv,
           links' \in Stores, Advances(links, links'),
           NEW r \in Requests, NEW q \in RequestStates,
           req' = [req EXCEPT ![r] = q],
           RequestInv(q, links'),
           \A s \in Requests \ {r} :
              Compatible(q, req[s]) /\ Compatible(req[s], q)
    PROVE  ManagementInv'
  <1>1. /\ links \in Stores
        /\ req \in [Requests -> RequestStates]
    BY DEF ManagementInv, ManagementTypeOK
  <1>2. ManagementTypeOK'
    BY <1>1 DEF ManagementTypeOK, RepositoryTypeOK, Stores, Rows
  <1>3. \A s \in Requests : RequestInv(req'[s], links')
    <2> SUFFICES ASSUME NEW s \in Requests, s # r
                 PROVE  RequestInv(req'[s], links')
      BY <1>1
    <2>1. req'[s] = req[s] /\ req[s] \in RequestStates
      BY <1>1
    <2>2. RequestInv(req[s], links)
      BY DEF ManagementInv
    <2> QED
      BY <1>1, <2>1, <2>2, RequestInvStable
  <1>4. \A s, t \in Requests : s # t => Compatible(req'[s], req'[t])
    BY <1>1 DEF ManagementInv
  <1> QED
    BY <1>2, <1>3, <1>4 DEF ManagementInv

(* A refused request knows nothing.                                        *)
LEMMA RefusalPreservesInv ==
    ASSUME ManagementInv,
           links' \in Stores, Advances(links, links'),
           NEW r \in Requests, NEW answer \in Refusals, Refused(r, answer)
    PROVE  ManagementInv'
  <1> DEFINE q == [Idle EXCEPT !.pc = "answered", !.answer = answer]
  <1>1. q \in RequestStates
    BY DEF Idle, RequestStates, Pcs, Answers
  <1>2. /\ q.pc = "answered" /\ q.answer = answer /\ q.base = NoLink
        /\ ~Knows(q) /\ ~HasWritten(q) /\ q.answer # "read"
    BY DEF Idle, Knows, HasWritten, Refusals
  <1>3. RequestInv(q, links')
    BY <1>2 DEF RequestInv
  <1>4. \A s \in Requests : Compatible(q, req[s]) /\ Compatible(req[s], q)
    BY <1>2 DEF Compatible
  <1>5. req' = [req EXCEPT ![r] = q]
    BY DEF Refused
  <1> HIDE DEF q
  <1> QED
    BY <1>1, <1>3, <1>4, <1>5, StepPreservesInv

-----------------------------------------------------------------------------
(* The steps *)

(* A store write is the next version of the stored link.                   *)
LEMMA UpdateInstallsNext ==
    ASSUME links \in Stores,
           NEW base, NEW n, NEW c,
           VersionOf(base, c, links), Mutant(n, base),
           Update(c, n, base.version)
    PROVE  /\ base = links[c]
           /\ n \in Links /\ Storable(n)
           /\ n.version = base.version + 1
           /\ links' = [links EXCEPT ![c] = Row(n)]
           /\ links' \in Stores
           /\ Advances(links, links')
  <1>1. /\ base \in Links /\ c \in Codes /\ base = links[c]
        /\ Storable(n) /\ Row(base) = base
    BY NoLinkAssumption
    DEF VersionOf, Update, VersionMatches, Exists, Stores, Rows
  <1>2. /\ n \in Links
        /\ n.version = base.version + 1
        /\ n.owner = base.owner
        /\ n.createdAt = base.createdAt
    BY <1>1, MutateMakesNextVersion DEF Mutant
  <1>3. /\ Row(n) \in Rows /\ Row(n).version = base.version + 1
        /\ Row(n) = [base EXCEPT !.destination = n.destination,
                                 !.status = n.status,
                                 !.updatedAt = Row(n).updatedAt,
                                 !.expiresAt = Row(n).expiresAt,
                                 !.version = n.version]
    <2>1. /\ Row(n) \in Links /\ Row(Row(n)) = Row(n)
          /\ Row(n).destination = n.destination /\ Row(n).owner = n.owner
          /\ Row(n).status = n.status /\ Row(n).version = n.version
          /\ Row(n).createdAt = KeptTime(n.createdAt)
      BY <1>2, RowIsLink
    <2>2. KeptTime(base.createdAt) = base.createdAt
      BY <1>1, RowIsLink
    <2>3. Row(n).owner = base.owner /\ Row(n).createdAt = base.createdAt
      BY <1>2, <2>1, <2>2
    <2>4. \A k \in Links :
             /\ k.owner = base.owner /\ k.createdAt = base.createdAt
             => k = [base EXCEPT !.destination = k.destination,
                                 !.status = k.status,
                                 !.updatedAt = k.updatedAt,
                                 !.expiresAt = k.expiresAt,
                                 !.version = k.version]
      BY <1>1 DEF Links
    <2>5. Row(n) \in Rows /\ Row(n).version = base.version + 1
      BY <1>2, <2>1 DEF Rows
    <2> QED
      BY <2>1, <2>3, <2>4, <2>5
  <1>4. links' = [links EXCEPT ![c] = Row(n)]
    BY <1>1, <1>3 DEF Update
  <1>5. links' \in Stores
    BY <1>3, <1>4 DEF Stores
  <1>6. Advances(links, links')
    <2> SUFFICES ASSUME NEW k \in Codes, links[k] # NoLink
                 PROVE  /\ links'[k] # NoLink
                        /\ links[k].version <= links'[k].version
                        /\ links[k].version = links'[k].version
                             => links'[k] = links[k]
      BY DEF Advances
    <2>1. links[k] \in Links /\ links[k].version \in Nat
      BY DEF Stores, Rows, Links, Versions
    <2>2. CASE k = c
      BY <1>1, <1>3, <1>4, <2>1, <2>2, NoLinkAssumption DEF Stores, Rows
    <2>3. CASE k # c
      BY <1>4, <2>1, <2>3 DEF Stores
    <2> QED
      BY <2>2, <2>3
  <1> QED
    BY <1>1, <1>2, <1>4, <1>5, <1>6

LEMMA CreateAdvances ==
    ASSUME links \in Stores, NEW c \in Codes, NEW at \in Times, Create(c, at)
    PROVE  links' \in Stores /\ Advances(links, links')
  <1>1. PICK l \in Links : Insert(c, l)
    BY NewLinkIsLink DEF Create
  <1>2. links[c] = NoLink /\ links' = [links EXCEPT ![c] = Row(l)]
    BY <1>1 DEF Insert, Exists
  <1>3. \A k \in Codes : links[k] # NoLink
          => links'[k] = links[k] /\ links[k].version \in Nat
    BY <1>2 DEF Stores, Rows, Links, Versions
  <1>4. links' \in Stores
    BY <1>1, <1>2, RowIsLink DEF Stores, Rows
  <1> QED
    BY <1>3, <1>4 DEF Advances

LEMMA CreatePreservesInv ==
    ASSUME ManagementInv, NEW c \in Codes, NEW at \in Times, Create(c, at)
    PROVE  ManagementInv'
  <1>1. /\ links \in Stores
        /\ req \in [Requests -> RequestStates] /\ req' = req
    BY DEF ManagementInv, ManagementTypeOK, Create
  <1>2. links' \in Stores /\ Advances(links, links')
    BY <1>1, CreateAdvances
  <1>3. ManagementTypeOK'
    BY <1>1, <1>2 DEF ManagementTypeOK, RepositoryTypeOK, Stores, Rows
  <1>4. \A r \in Requests : RequestInv(req'[r], links')
    BY <1>1, <1>2, RequestInvStable DEF ManagementInv
  <1>5. \A r, s \in Requests : r # s => Compatible(req'[r], req'[s])
    BY <1>1 DEF ManagementInv
  <1> QED
    BY <1>2, <1>3, <1>4, <1>5 DEF ManagementInv

LEMMA GetPreservesInv ==
    ASSUME ManagementInv,
           NEW r \in Requests, NEW c \in Codes, NEW o \in Owners, Get(r, c, o)
    PROVE  ManagementInv'
  <1>1. /\ links \in Stores /\ links' = links
        /\ Advances(links, links')
    BY AdvancesReflexive
    DEF ManagementInv, ManagementTypeOK, Get
  <1>2. CASE Refused(r, "notFound")
    BY <1>1, <1>2, RefusalPreservesInv DEF Refusals
  <1>3. CASE /\ Visible(c, o)
             /\ req' = [req EXCEPT ![r] =
                          [pc |-> "answered", code |-> c, base |-> links[c],
                           next |-> links[c], answer |-> "read"]]
    <2> DEFINE q == [pc |-> "answered", code |-> c, base |-> links[c],
                     next |-> links[c], answer |-> "read"]
    <2>1. /\ links[c] # NoLink /\ links[c] \in Links
          /\ Row(links[c]) = links[c]
      BY <1>1, <1>3 DEF Visible, Exists, Stores, Rows
    <2>2. q \in RequestStates
      BY <2>1 DEF RequestStates, Pcs, Answers
    <2>3. VersionOf(links[c], c, links)
      BY <2>1 DEF VersionOf, Links, Versions
    <2>4. RequestInv(q, links')
      BY <1>1, <2>1, <2>3 DEF RequestInv, HasWritten
    <2>5. \A s \in Requests \ {r} :
            Compatible(q, req[s]) /\ Compatible(req[s], q)
      <3> SUFFICES ASSUME NEW s \in Requests, Knows(req[s]), req[s].code = c,
                          req[s].next.version = links[c].version
                   PROVE  Row(req[s].next) = links[c]
        BY <2>1 DEF Compatible, HasWritten
      <3>1. /\ req[s].next \in Links
            /\ VersionOf(Row(req[s].next), c, links)
        BY DEF ManagementInv, RequestInv
      <3> QED
        BY <3>1, RowIsLink DEF VersionOf
    <2> HIDE DEF q
    <2>6. req' = [req EXCEPT ![r] = q]
      BY <1>3 DEF q
    <2> QED
      BY <1>1, <2>2, <2>4, <2>5, <2>6, StepPreservesInv
  <1> QED
    BY <1>2, <1>3 DEF Get

LEMMA ChangePreservesInv ==
    ASSUME ManagementInv,
           NEW r \in Requests, NEW c \in Codes, NEW o \in Owners,
           NEW version, NEW m \in Mutations, NEW at \in Times,
           Change(r, c, o, version, m, at)
    PROVE  ManagementInv'
  <1>1. /\ links \in Stores /\ links' = links
        /\ Advances(links, links')
    BY AdvancesReflexive
    DEF ManagementInv, ManagementTypeOK, Change
  <1>2. CASE \E answer \in Refusals : Refused(r, answer)
    BY <1>1, <1>2, RefusalPreservesInv
  <1>3. CASE /\ Visible(c, o)
             /\ \E l \in Mutate(links[c], m, at) :
                   req' = [req EXCEPT ![r] =
                             [pc |-> "update", code |-> c, base |-> links[c],
                              next |-> l, answer |-> "none"]]
    <2>1. PICK l \in Mutate(links[c], m, at) :
                   req' = [req EXCEPT ![r] =
                             [pc |-> "update", code |-> c, base |-> links[c],
                              next |-> l, answer |-> "none"]]
      BY <1>3
    <2> DEFINE q == [pc |-> "update", code |-> c, base |-> links[c],
                     next |-> l, answer |-> "none"]
    <2>2. links[c] # NoLink /\ links[c] \in Links
      BY <1>1, <1>3 DEF Visible, Exists, Stores, Rows
    <2>3. l \in Links /\ Mutant(l, links[c])
      BY <2>1, <2>2, MutateMakesNextVersion DEF Mutant
    <2>4. q \in RequestStates
      BY <2>2, <2>3 DEF RequestStates, Pcs, Answers
    <2>5. VersionOf(links[c], c, links)
      BY <2>2 DEF VersionOf, Links, Versions
    <2>6. ~Knows(q) /\ ~HasWritten(q)
      BY DEF Knows, HasWritten
    <2>7. RequestInv(q, links')
      BY <1>1, <2>3, <2>5, <2>6 DEF RequestInv
    <2>8. \A s \in Requests \ {r} :
            Compatible(q, req[s]) /\ Compatible(req[s], q)
      BY <2>6 DEF Compatible
    <2> HIDE DEF q
    <2>9. req' = [req EXCEPT ![r] = q]
      BY <2>1 DEF q
    <2> QED
      BY <1>1, <2>4, <2>7, <2>8, <2>9, StepPreservesInv
  <1> QED
    BY <1>2, <1>3 DEF Change, Refusals

LEMMA CommitPreservesInv ==
    ASSUME ManagementInv, NEW r \in Requests, Commit(r)
    PROVE  ManagementInv'
  <1> DEFINE p == req[r]
             q == [pc |-> "committed", code |-> p.code, base |-> p.base,
                   next |-> p.next, answer |-> "none"]
  <1>1. links \in Stores /\ p \in RequestStates
    BY DEF ManagementInv, ManagementTypeOK
  <1>2. VersionOf(p.base, p.code, links) /\ Mutant(p.next, p.base)
    BY DEF ManagementInv, RequestInv, Commit
  <1>3. Update(p.code, p.next, p.base.version) /\ req' = [req EXCEPT ![r] = q]
    BY DEF Commit
  <1> HIDE DEF p
  <1>4. /\ p.code \in Codes /\ p.base = links[p.code]
        /\ p.next \in Links /\ p.base \in Links
        /\ p.next.version = p.base.version + 1
        /\ links' = [links EXCEPT ![p.code] = Row(p.next)]
        /\ links' \in Stores
        /\ Advances(links, links')
    BY <1>1, <1>2, <1>3, UpdateInstallsNext DEF VersionOf
  <1>5. p.base.version \in Nat
    BY <1>4 DEF Links, Versions
  <1>6. q \in RequestStates
    BY <1>4 DEF RequestStates, Pcs, Answers
  <1>7. VersionOf(Row(p.next), p.code, links')
    <2>1. links'[p.code] = Row(p.next)
      BY <1>1, <1>4 DEF Stores
    <2>2. Row(p.next) \in Links /\ Row(p.next).version = p.next.version
      BY <1>4, RowIsLink
    <2> QED
      BY <1>4, <1>5, <2>1, <2>2, NoLinkAssumption DEF VersionOf
  <1>8. RequestInv(q, links')
    BY <1>4, <1>7 DEF RequestInv
  <1>9. \A s \in Requests \ {r} :
          Compatible(q, req[s]) /\ Compatible(req[s], q)
    <2> SUFFICES ASSUME NEW s \in Requests, Knows(req[s]), req[s].code = p.code
                 PROVE  /\ req[s].next.version # p.next.version
                        /\ HasWritten(req[s])
                             => req[s].base.version # p.base.version
      BY DEF Compatible, Knows
    <2>1. /\ req[s].next \in Links
          /\ VersionOf(Row(req[s].next), p.code, links)
      BY DEF ManagementInv, RequestInv
    <2>2. /\ req[s].next.version \in Nat
          /\ req[s].next.version <= p.base.version
      BY <1>4, <2>1, RowIsLink DEF VersionOf, Links, Versions
    <2>3. HasWritten(req[s]) => /\ req[s].base.version \in Nat
                                /\ req[s].next.version = req[s].base.version + 1
      BY DEF ManagementInv, RequestInv, Links, Versions
    <2> QED
      BY <1>4, <1>5, <2>2, <2>3
  <1> HIDE DEF q
  <1> QED
    BY <1>3, <1>4, <1>6, <1>8, <1>9, StepPreservesInv

LEMMA ConflictPreservesInv ==
    ASSUME ManagementInv, NEW r \in Requests, Conflict(r)
    PROVE  ManagementInv'
  <1> DEFINE p == req[r]
             q == [pc |-> "answered", code |-> p.code, base |-> p.base,
                   next |-> NoLink, answer |-> "conflict"]
  <1>1. /\ links \in Stores /\ links' = links /\ Advances(links, links')
        /\ p \in RequestStates
    BY AdvancesReflexive
    DEF ManagementInv, ManagementTypeOK, Conflict
  <1>2. VersionOf(p.base, p.code, links)
    BY DEF ManagementInv, RequestInv, Conflict
  <1>3. ~VersionMatches(p.code, p.base.version)
    BY DEF Conflict
  <1>4. req' = [req EXCEPT ![r] = q]
    BY DEF Conflict
  <1> HIDE DEF p
  <1>5. /\ p.base \in Links /\ p.code \in Codes /\ links[p.code] # NoLink
        /\ p.base.version \in Nat /\ links[p.code].version \in Nat
    BY <1>1, <1>2 DEF VersionOf, Stores, Rows, Links, Versions
  <1>6. links[p.code].version > p.base.version
    BY <1>2, <1>3, <1>5 DEF VersionOf, VersionMatches, Exists
  <1>7. q \in RequestStates
    BY <1>5 DEF RequestStates, Pcs, Answers, Refusals
  <1>8. ~Knows(q) /\ ~HasWritten(q)
    BY DEF Knows, HasWritten
  <1>9. RequestInv(q, links')
    BY <1>1, <1>5, <1>6, <1>8 DEF RequestInv
  <1>10. \A s \in Requests \ {r} :
           Compatible(q, req[s]) /\ Compatible(req[s], q)
    BY <1>8 DEF Compatible
  <1> HIDE DEF q
  <1> QED
    BY <1>1, <1>4, <1>7, <1>9, <1>10, StepPreservesInv

LEMMA RespondPreservesInv ==
    ASSUME ManagementInv, NEW r \in Requests, Respond(r)
    PROVE  ManagementInv'
  <1> DEFINE p == req[r]
             q == [pc |-> "answered", code |-> p.code, base |-> p.base,
                   next |-> p.next, answer |-> "changed"]
  <1>1. /\ links \in Stores /\ links' = links /\ Advances(links, links')
        /\ p \in RequestStates
    BY AdvancesReflexive
    DEF ManagementInv, ManagementTypeOK, Respond
  <1>2. RequestInv(p, links) /\ p.pc = "committed"
    BY DEF ManagementInv, Respond
  <1>3. \A s \in Requests \ {r} :
          Compatible(p, req[s]) /\ Compatible(req[s], p)
    BY DEF ManagementInv
  <1>4. req' = [req EXCEPT ![r] = q]
    BY DEF Respond
  <1> HIDE DEF p
  <1>5. q \in RequestStates
    BY <1>1 DEF RequestStates, Pcs, Answers
  <1>6. Knows(p) /\ HasWritten(p) /\ Knows(q) /\ HasWritten(q)
    BY <1>2 DEF Knows, HasWritten
  <1>7. RequestInv(q, links')
    BY <1>1, <1>2, <1>6 DEF RequestInv
  <1>8. \A s \in Requests \ {r} :
          Compatible(q, req[s]) /\ Compatible(req[s], q)
    BY <1>3, <1>6 DEF Compatible
  <1> HIDE DEF q
  <1> QED
    BY <1>1, <1>4, <1>5, <1>7, <1>8, StepPreservesInv

LEMMA CheckFailsPreservesInv ==
    ASSUME ManagementInv, NEW r \in Requests, CheckFails(r)
    PROVE  ManagementInv'
  <1>1. links \in Stores /\ Advances(links, links)
    BY AdvancesReflexive DEF ManagementInv
  <1>2. links' = links /\ "error" \in Refusals /\ Refused(r, "error")
    BY DEF CheckFails, Refusals
  <1> QED
    BY <1>1, <1>2, RefusalPreservesInv

LEMMA FailPreservesInv ==
    ASSUME ManagementInv, NEW r \in Requests, Fail(r)
    PROVE  ManagementInv'
  <1>1. links \in Stores /\ Advances(links, links)
    BY AdvancesReflexive
    DEF ManagementInv, ManagementTypeOK
  <1>2. CASE FindFails(r) \/ UpdateFails(r) \/ Abandon(r)
    <2>1. links' = links /\ \E answer \in Refusals : Refused(r, answer)
      BY <1>2 DEF FindFails, UpdateFails, Abandon, Refusals
    <2> QED
      BY <1>1, <2>1, RefusalPreservesInv
  <1>3. CASE CommitUnacknowledged(r)
    <2>1. VersionOf(req[r].base, req[r].code, links)
            /\ Mutant(req[r].next, req[r].base)
      BY <1>3 DEF ManagementInv, RequestInv, CommitUnacknowledged
    <2>2. links' \in Stores /\ Advances(links, links')
      BY <1>1, <1>3, <2>1, UpdateInstallsNext DEF CommitUnacknowledged
    <2> QED
      BY <1>3, <2>2, RefusalPreservesInv DEF CommitUnacknowledged, Refusals
  <1> QED
    BY <1>2, <1>3 DEF Fail

LEMMA NextPreservesInv ==
    ASSUME ManagementInv, [ManagementNext]_managementVars
    PROVE  ManagementInv'
  <1>1. CASE \E c \in Codes, at \in Times : Create(c, at)
    BY <1>1, CreatePreservesInv
  <1>2. ASSUME NEW r \in Requests, NEW at \in Times, Begin(r, at)
        PROVE  ManagementInv'
    BY <1>2, GetPreservesInv, ChangePreservesInv DEF Begin
  <1>3. ASSUME NEW r \in Requests, Finish(r)
        PROVE  ManagementInv'
    BY <1>3, CommitPreservesInv, ConflictPreservesInv, RespondPreservesInv,
       CheckFailsPreservesInv
    DEF Finish
  <1>4. ASSUME NEW r \in Requests, Fail(r)
        PROVE  ManagementInv'
    BY <1>4, FailPreservesInv
  <1>5. CASE UNCHANGED managementVars
    BY <1>5
    DEF managementVars, ManagementInv, ManagementTypeOK, RepositoryTypeOK
  <1> QED
    BY <1>1, <1>2, <1>3, <1>4, <1>5 DEF ManagementNext

(* No step takes a link away or back to an earlier version.                *)
LEMMA StoreAdvances ==
    ASSUME ManagementInv, [ManagementNext]_managementVars
    PROVE  links' \in Stores /\ Advances(links, links')
  <1>1. links \in Stores /\ Advances(links, links)
    BY AdvancesReflexive
    DEF ManagementInv, ManagementTypeOK
  <1>2. ASSUME NEW c \in Codes, NEW at \in Times, Create(c, at)
        PROVE  links' \in Stores /\ Advances(links, links')
    BY <1>1, <1>2, CreateAdvances
  <1>3. ASSUME NEW r \in Requests, req[r].pc = "update",
               Update(req[r].code, req[r].next, req[r].base.version)
        PROVE  links' \in Stores /\ Advances(links, links')
    BY <1>1, <1>3, UpdateInstallsNext DEF ManagementInv, RequestInv
  <1>4. ASSUME NEW r \in Requests, NEW at \in Times, Begin(r, at)
        PROVE  links' = links
    BY <1>4 DEF Begin, Get, Change
  <1>5. ASSUME NEW r \in Requests, Finish(r) \/ Fail(r)
        PROVE  links' \in Stores /\ Advances(links, links')
    BY <1>1, <1>3, <1>5
    DEF Finish, Fail, Commit, Conflict, CheckFails, Respond, FindFails,
        UpdateFails, CommitUnacknowledged, Abandon
  <1>6. UNCHANGED managementVars => links' = links
    BY DEF managementVars
  <1> QED
    BY <1>1, <1>2, <1>4, <1>5, <1>6 DEF ManagementNext

LEMMA InitEstablishesInv ==
    ManagementInit => ManagementInv
  <1> SUFFICES ASSUME ManagementInit
               PROVE  ManagementInv
    OBVIOUS
  <1>1. Idle \in RequestStates /\ ~Knows(Idle) /\ ~HasWritten(Idle)
    BY DEF Idle, RequestStates, Pcs, Answers, Knows, HasWritten
  <1>2. \A r \in Requests : req[r] = Idle
    BY DEF ManagementInit
  <1>3. ManagementTypeOK
    BY <1>1
    DEF ManagementInit, RepositoryInit, ManagementTypeOK, RepositoryTypeOK
  <1>4. RequestInv(Idle, links) /\ links \in Stores
    BY <1>1 DEF RequestInv, Idle, ManagementInit, RepositoryInit, Stores
  <1>5. Compatible(Idle, Idle)
    BY <1>1 DEF Compatible
  <1> QED
    BY <1>2, <1>3, <1>4, <1>5 DEF ManagementInv

-----------------------------------------------------------------------------
(* Theorems *)

(* In every reachable state the store, and what each request knows of it,  *)
(* are as ManagementInv says.                                              *)
THEOREM ManagementInvariant == ManagementSpec => []ManagementInv
  <1>1. ManagementInit => ManagementInv
    BY InitEstablishesInv
  <1>2. ManagementInv /\ [ManagementNext]_managementVars => ManagementInv'
    BY NextPreservesInv
  <1> QED
    BY <1>1, <1>2, PTL DEF ManagementSpec

(* The store and the requests always hold values of their types: no step   *)
(* writes a link that the types of the source rule out.                    *)
THEOREM ManagementTypes == ManagementSpec => []ManagementTypeOK
  <1>1. ManagementInv => ManagementTypeOK
    BY DEF ManagementInv
  <1> QED
    BY <1>1, ManagementInvariant, PTL

(* An ETag handed out by GET or PATCH names one row of the link, for any   *)
(* number of concurrent and failing requests: however much finer a         *)
(* handler's copy is than the row, two bodies with one ETag differ in      *)
(* nothing that the repository keeps, and two rows not at all.             *)
THEOREM ETagsIdentify == ManagementSpec => []ETagIdentifiesRow
  <1>1. ManagementInv => ETagIdentifiesRow
    <2> SUFFICES ASSUME ManagementInv,
                        NEW r \in Requests, NEW s \in Requests,
                        SameETag(r, s)
                 PROVE  /\ Row(req[r].next) = Row(req[s].next)
                        /\ req[r].answer = "read" /\ req[s].answer = "read"
                             => req[r].next = req[s].next
      BY DEF ETagIdentifiesRow
    <2>1. Knows(req[r]) /\ Knows(req[s])
      BY DEF SameETag, Represents, Knows, HasWritten
    <2>2. r # s => Compatible(req[r], req[s])
      BY DEF ManagementInv
    <2>3. Row(req[r].next) = Row(req[s].next)
      BY <2>1, <2>2 DEF Compatible, SameETag
    <2>4. ASSUME req[r].answer = "read", req[s].answer = "read"
          PROVE  req[r].next = req[s].next
      BY <2>3, <2>4 DEF ManagementInv, RequestInv
    <2> QED
      BY <2>3, <2>4
  <1> QED
    BY <1>1, ManagementInvariant, PTL

(* No lost update: a version of a link is the base of at most one PATCH    *)
(* that reports success, whatever the interleaving of reads and writes.    *)
THEOREM NoLostUpdate == ManagementSpec => []OneWriterPerVersion
  <1>1. ManagementInv => OneWriterPerVersion
    <2> SUFFICES ASSUME ManagementInv,
                        NEW r \in Requests, NEW s \in Requests, r # s,
                        Wrote(r), Wrote(s), req[r].code = req[s].code
                 PROVE  req[r].base.version # req[s].base.version
      BY DEF OneWriterPerVersion
    <2>1. HasWritten(req[r]) /\ HasWritten(req[s])
      BY DEF Wrote, HasWritten
    <2>2. Compatible(req[r], req[s])
      BY DEF ManagementInv
    <2> QED
      BY <2>1, <2>2 DEF Compatible
  <1> QED
    BY <1>1, ManagementInvariant, PTL

(* A PATCH that Update refuses with a version conflict has really been     *)
(* overtaken: the stored link is newer than the one it read.               *)
THEOREM ConflictsAreReal == ManagementSpec => []ConflictHasWinner
  <1>1. ManagementInv => ConflictHasWinner
    <2> SUFFICES ASSUME ManagementInv, NEW r \in Requests,
                        req[r].answer = "conflict", req[r].base # NoLink
                 PROVE  MovedPast(r)
      BY DEF ConflictHasWinner
    <2>1. RequestInv(req[r], links)
      BY DEF ManagementInv
    <2> QED
      BY <2>1 DEF RequestInv, MovedPast
  <1> QED
    BY <1>1, ManagementInvariant, PTL

(* No sequence of accepted creations and mutations stores a row that       *)
(* RehydrateLink would reject, which would make the link unloadable.       *)
THEOREM StoredLinksStayLoadable == ManagementSpec => []StoredLinksRehydrate
  <1>1. ManagementInit => StoredLinksRehydrate
    BY DEF ManagementInit, RepositoryInit, StoredLinksRehydrate, Exists
  <1>2. ASSUME ManagementInv, StoredLinksRehydrate,
               [ManagementNext]_managementVars
        PROVE  StoredLinksRehydrate'
    <2>1. links \in Stores
      BY <1>2 DEF ManagementInv, ManagementTypeOK
    <2>2. ASSUME NEW c \in Codes, NEW l, Rehydratable(l),
                 Storable(l), links' = [links EXCEPT ![c] = Row(l)]
          PROVE  StoredLinksRehydrate'
      BY <1>2, <2>1, <2>2, RowRehydrates
      DEF StoredLinksRehydrate, Exists, Stores
    <2>3. ASSUME NEW c \in Codes, NEW at \in Times, Create(c, at)
          PROVE  StoredLinksRehydrate'
      <3>1. PICK d \in Destinations, o \in Owners,
                 e \in Expirations \cup {NoExpiry} :
                    \E l \in NewLink(d, o, at, e) : Insert(c, l)
        BY <2>3 DEF Create
      <3>2. PICK l \in NewLink(d, o, at, e) : Insert(c, l)
        BY <3>1
      <3>3. Rehydratable(l)
        <4>1. l \in Links
          BY NewLinkIsLink
        <4>2. /\ l.createdAt = at /\ l.updatedAt = at /\ l.expiresAt = e
              /\ e = NoExpiry \/ e > at
          BY DEF NewLink
        <4> QED
          BY <4>1, <4>2, TimesAssumption DEF Rehydratable
      <3> QED
        BY <2>2, <3>2, <3>3 DEF Insert
    <2>4. ASSUME NEW r \in Requests, req[r].pc = "update",
                 Update(req[r].code, req[r].next, req[r].base.version)
          PROVE  StoredLinksRehydrate'
      <3> DEFINE c == req[r].code
                 n == req[r].next
      <3>1. VersionOf(req[r].base, c, links) /\ Mutant(n, req[r].base)
        BY <1>2, <2>4 DEF ManagementInv, RequestInv
      <3>2. /\ c \in Codes /\ links[c] \in Links /\ Exists(c)
            /\ req[r].base = links[c] /\ Storable(n)
            /\ links' = [links EXCEPT ![c] = Row(n)]
        BY <2>1, <2>4, <3>1, UpdateInstallsNext DEF VersionOf, Exists
      <3>3. Rehydratable(n)
        BY <1>2, <3>1, <3>2, MutateRehydrates DEF Mutant, StoredLinksRehydrate
      <3> QED
        BY <2>2, <3>2, <3>3
    <2>5. ASSUME links' = links
          PROVE  StoredLinksRehydrate'
      BY <1>2, <2>5 DEF StoredLinksRehydrate, Exists
    <2>6. ASSUME NEW r \in Requests, NEW at \in Times, Begin(r, at)
          PROVE  StoredLinksRehydrate'
      BY <2>5, <2>6 DEF Begin, Get, Change
    <2>7. ASSUME NEW r \in Requests, Finish(r) \/ Fail(r)
          PROVE  StoredLinksRehydrate'
      BY <2>4, <2>5, <2>7
      DEF Finish, Fail, Commit, Conflict, CheckFails, Respond, FindFails,
          UpdateFails, CommitUnacknowledged, Abandon
    <2>8. CASE UNCHANGED managementVars
      BY <2>5, <2>8 DEF managementVars
    <2> QED
      BY <1>2, <2>3, <2>6, <2>7, <2>8 DEF ManagementNext
  <1> QED
    BY <1>1, <1>2, ManagementInvariant, PTL DEF ManagementSpec

(* The abstract specification uses the same operators of Link and LinkRow. *)
LEMMA AtomicMutateIsMutate ==
    /\ Atomic!Mutations = Mutations
    /\ \A l, m, at : Atomic!Mutate(l, m, at) = Mutate(l, m, at)
    /\ \A l : Atomic!Row(l) = Row(l) /\ Atomic!Storable(l) = Storable(l)
  <1>1. Atomic!Mutations = Mutations
    BY DEF Mutations, Atomic!Mutations, Statuses, Atomic!Statuses
  <1>2. ASSUME NEW l, NEW m, NEW at
        PROVE  Atomic!Mutate(l, m, at) = Mutate(l, m, at)
    <2>1. /\ Atomic!TransitionTo(l, m.value, at) = TransitionTo(l, m.value, at)
          /\ Atomic!UpdateDestination(l, m.value, at)
               = UpdateDestination(l, m.value, at)
          /\ Atomic!SetExpiration(l, m.value, at) = SetExpiration(l, m.value, at)
          /\ Atomic!ClearExpiration(l, at) = ClearExpiration(l, at)
      BY DEF TransitionTo, Atomic!TransitionTo,
             UpdateDestination, Atomic!UpdateDestination,
             SetExpiration, Atomic!SetExpiration,
             ClearExpiration, Atomic!ClearExpiration,
             ValidMutationTime, Atomic!ValidMutationTime,
             CanTransitionTo, Atomic!CanTransitionTo
    <2> QED
      BY <2>1 DEF Mutate, Atomic!Mutate
  <1>3. ASSUME NEW l
        PROVE  Atomic!Row(l) = Row(l) /\ Atomic!Storable(l) = Storable(l)
    <2>1. Atomic!Row(l) = Row(l)
      BY DEF Row, Atomic!Row, KeptExpiry, Atomic!KeptExpiry,
             KeptTime, Atomic!KeptTime
    <2> QED
      BY <2>1 DEF Storable, Atomic!Storable
  <1> QED
    BY <1>1, <1>2, <1>3

(* A request's step is an atomic mutation of one link or leaves all alone. *)
LEMMA StepIsAtomicMutation ==
    ASSUME ManagementInv, [ManagementNext]_managementVars
    PROVE  [Atomic!Next]_links
  <1>1. links \in Stores
    BY DEF ManagementInv, ManagementTypeOK
  <1>2. ASSUME NEW c \in Codes, NEW at \in Times, Create(c, at)
        PROVE  Atomic!Next
    <2>1. PICK d \in Destinations, o \in Owners,
               e \in Expirations \cup {NoExpiry} :
                  \E l \in NewLink(d, o, at, e) : Insert(c, l)
      BY <1>2 DEF Create
    <2>2. PICK l \in NewLink(d, o, at, e) : Insert(c, l)
      BY <2>1
    <2>3. l \in Atomic!NewLink(d, o, at, e)
      BY <2>2 DEF NewLink, Atomic!NewLink
    <2>4. /\ links[c] = NoLink /\ Storable(l)
          /\ links' = [links EXCEPT ![c] = Row(l)]
      BY <2>2 DEF Insert, Exists
    <2>5. Atomic!Create(c)
      BY <2>3, <2>4, AtomicMutateIsMutate DEF Atomic!Create
    <2> QED
      BY <2>5 DEF Atomic!Next
  <1>3. ASSUME NEW r \in Requests, req[r].pc = "update",
               Update(req[r].code, req[r].next, req[r].base.version)
        PROVE  Atomic!Next
    <2> DEFINE c == req[r].code
               n == req[r].next
    <2>1. VersionOf(req[r].base, c, links) /\ Mutant(n, req[r].base)
      BY <1>3 DEF ManagementInv, RequestInv
    <2>2. /\ c \in Codes /\ links[c] # NoLink
          /\ req[r].base = links[c] /\ Storable(n)
          /\ links' = [links EXCEPT ![c] = Row(n)]
      BY <1>1, <1>3, <2>1, UpdateInstallsNext DEF VersionOf
    <2>3. PICK m \in Mutations, at \in Times : n \in Mutate(links[c], m, at)
      BY <2>1, <2>2 DEF Mutant
    <2>4. m \in Atomic!Mutations /\ n \in Atomic!Mutate(links[c], m, at)
      BY <2>3, AtomicMutateIsMutate
    <2>5. Atomic!Change(c)
      BY <2>2, <2>4, AtomicMutateIsMutate DEF Atomic!Change
    <2> QED
      BY <2>2, <2>5 DEF Atomic!Next
  <1>4. ASSUME NEW r \in Requests, NEW at \in Times, Begin(r, at)
        PROVE  links' = links
    BY <1>4 DEF Begin, Get, Change
  <1>5. ASSUME NEW r \in Requests, Finish(r) \/ Fail(r)
        PROVE  [Atomic!Next]_links
    BY <1>3, <1>5
    DEF Finish, Fail, Commit, Conflict, CheckFails, Respond, FindFails,
        UpdateFails, CommitUnacknowledged, Abandon
  <1>6. CASE UNCHANGED managementVars
    BY <1>6 DEF managementVars
  <1> QED
    BY <1>2, <1>4, <1>5, <1>6 DEF ManagementNext

(* The requests' interleaved reads, checks and compare-and-set writes, with*)
(* every failure in between, are atomic mutations of the stored links.     *)
THEOREM ManagementImplementsAtomicMutations ==
    ManagementSpec => AtomicMutations
  <1>1. ManagementInit => Atomic!Init
    BY DEF ManagementInit, RepositoryInit, Atomic!Init
  <1>2. ManagementInv /\ [ManagementNext]_managementVars => [Atomic!Next]_links
    BY StepIsAtomicMutation
  <1> QED
    BY <1>1, <1>2, ManagementInvariant, PTL
    DEF ManagementSpec, AtomicMutations, Atomic!Spec

(* Deletion is terminal, versions grow by one, times of change never run   *)
(* back, and owner and age stay, whatever clocks the hosts read, however   *)
(* finer they are than the columns, and whoever races.                     *)
THEOREM StoredLinksMoveForward == ManagementSpec => LinksMoveForward
  <1> DEFINE Forward ==
         \A c \in Codes :
            Exists(c) /\ links'[c] # links[c] =>
               /\ links[c].status # "deleted"
               /\ links'[c].version = links[c].version + 1
               /\ links'[c].updatedAt >= links[c].updatedAt
               /\ links'[c].owner = links[c].owner
               /\ links'[c].createdAt = links[c].createdAt
  <1>1. ASSUME ManagementInv, Atomic!Next
        PROVE  Forward
    <2> SUFFICES ASSUME NEW c \in Codes, Exists(c), links'[c] # links[c]
                 PROVE  /\ links[c].status # "deleted"
                        /\ links'[c].version = links[c].version + 1
                        /\ links'[c].updatedAt >= links[c].updatedAt
                        /\ links'[c].owner = links[c].owner
                        /\ links'[c].createdAt = links[c].createdAt
      OBVIOUS
    <2>1. links \in Stores
      BY <1>1 DEF ManagementInv, ManagementTypeOK
    <2>2. links[c] \in Links /\ Row(links[c]) = links[c]
      BY <2>1 DEF Stores, Rows, Exists
    <2>3. PICK b \in Codes : Atomic!Create(b) \/ Atomic!Change(b)
      BY <1>1 DEF Atomic!Next
    <2>4. PICK l : links' = [links EXCEPT ![b] = l]
      BY <2>3 DEF Atomic!Create, Atomic!Change
    <2>5. b = c
      BY <2>1, <2>4 DEF Stores
    <2>6. PICK m \in Atomic!Mutations, at \in Times :
            \E n \in Atomic!Mutate(links[c], m, at) :
               links' = [links EXCEPT ![c] = Atomic!Row(n)]
      BY <2>3, <2>5 DEF Atomic!Create, Atomic!Change, Exists
    <2>7. PICK n \in Atomic!Mutate(links[c], m, at) :
            links' = [links EXCEPT ![c] = Row(n)]
      BY <2>6, AtomicMutateIsMutate
    <2>8. m \in Mutations /\ n \in Mutate(links[c], m, at)
      BY <2>6, <2>7, AtomicMutateIsMutate
    <2>9. links'[c] = Row(n)
      BY <2>1, <2>7 DEF Stores
    <2>10. /\ n \in Links /\ n.version = links[c].version + 1
           /\ n.owner = links[c].owner /\ n.createdAt = links[c].createdAt
           /\ links[c].status # "deleted"
           /\ n.updatedAt > links[c].updatedAt
      BY <2>2, <2>8, MutateMakesNextVersion, MutateMovesForward
    <2>11. /\ Row(n).version = n.version /\ Row(n).owner = n.owner
           /\ Row(n).createdAt = KeptTime(n.createdAt)
           /\ Row(n).updatedAt = KeptTime(n.updatedAt)
           /\ KeptTime(links[c].createdAt) = links[c].createdAt
           /\ KeptTime(links[c].updatedAt) = links[c].updatedAt
      BY <2>2, <2>10, RowIsLink
    <2>12. Row(n).updatedAt >= links[c].updatedAt
      <3>1. n.updatedAt \in Nat /\ links[c].updatedAt \in Nat
        BY <2>2, <2>10, TimesAssumption DEF Links, Timestamps
      <3>2. KeptTime(links[c].updatedAt) <= KeptTime(n.updatedAt)
        BY <2>10, <3>1, KeptTimeMonotone
      <3> QED
        BY <2>11, <3>1, <3>2, KeptTimeBounds
    <2> QED
      BY <2>9, <2>10, <2>11, <2>12
  <1>2. ManagementInv /\ [ManagementNext]_managementVars => [Forward]_links
    <2> SUFFICES ASSUME ManagementInv, [ManagementNext]_managementVars
                 PROVE  [Forward]_links
      OBVIOUS
    <2>1. [Atomic!Next]_links
      BY StepIsAtomicMutation
    <2> HIDE DEF Forward
    <2> QED
      BY <1>1, <2>1
  <1> QED
    BY <1>2, ManagementInvariant, PTL DEF ManagementSpec, LinksMoveForward
=============================================================================
