---------------------- MODULE CreateGeneratedLinkProofs ----------------------
(***************************************************************************)
(* Proofs about CreateGeneratedLink, for every number of requests, codes,  *)
(* owners, keys and attempts, and every set of faults.                     *)
(*                                                                         *)
(* The properties compare what two answered requests were told.  What      *)
(* makes them inductive is where an answer comes from: a request told 201  *)
(* holds the code its key is recorded with, or, without a key, the code it *)
(* inserted itself; and a recorded code was inserted by a request with     *)
(* that very owner and key.  Records and creators never change.            *)
(***************************************************************************)
EXTENDS CreateGeneratedLink, LinkProofs

(* A request that has not inserted yet, or was refused before it could.    *)
Fruitless(q) ==
    q.pc \in {"idle", "insert"} \/ q.answer \in {"rejected", "exhausted"}

CreationRequestInv(x) ==
    /\ crt[x].pc # "answered" => crt[x].answer = "none"
    /\ Fruitless(crt[x]) => \A c \in Codes : creator[c] # x
    /\ crt[x].pc = "save"
         => HasKey(x) /\ crt[x].code \in Codes /\ creator[crt[x].code] = x
    /\ Created(x) => /\ crt[x].code \in Codes
                     /\ HasKey(x) => idem[Slot(x)] = crt[x].code
                     /\ ~HasKey(x) => creator[crt[x].code] = x
    /\ crt[x].answer = "keyConflict"
         => HasKey(x) /\ Recorded(x) \in Codes /\ creator[Recorded(x)] # x

(* A link exists if it has a creator, whose owner is the link's.           *)
CreatorsInv ==
    \A c \in Codes :
       /\ Exists(c) <=> creator[c] # NoCreation
       /\ Exists(c) => links[c].owner = crt[creator[c]].owner

OneCodePerCreator ==
    \A c, d \in Codes :
       creator[c] # NoCreation /\ creator[c] = creator[d] => c = d

(* A recorded code was created under the owner and key of its record.      *)
RecordsInv ==
    \A ok \in Owners \X Keys :
       idem[ok] # NoCode => /\ creator[idem[ok]] # NoCreation
                            /\ Slot(creator[idem[ok]]) = ok

CreationInv ==
    /\ CreationTypeOK
    /\ CreatorsInv
    /\ OneCodePerCreator
    /\ RecordsInv
    /\ \A x \in Creations : CreationRequestInv(x)

-----------------------------------------------------------------------------
(* What a step of request x leaves alone *)

(* Request x may become anything with the same owner and key; links gain   *)
(* creators, x if anyone, and keys gain records, but neither change.       *)
StepOf(x) ==
    /\ crt' \in [Creations -> CreationStates]
    /\ \A y \in Creations : y # x => crt'[y] = crt[y]
    /\ crt'[x].owner = crt[x].owner /\ crt'[x].key = crt[x].key
    /\ creator' \in [Codes -> Creations \cup {NoCreation}]
    /\ \A c \in Codes :
          \/ creator'[c] = creator[c]
          \/ creator[c] = NoCreation /\ creator'[c] = x
    /\ idem' \in [Owners \X Keys -> Codes \cup {NoCode}]
    /\ \A ok \in Owners \X Keys : idem[ok] \in {NoCode, idem'[ok]}

LEMMA AnsweredIsStep ==
    ASSUME CreationTypeOK, NEW x \in Creations,
           NEW answer \in {"created"} \cup Refusals,
           NEW code \in Codes \cup {NoCode},
           Answered(x, answer, code)
    PROVE  /\ crt' \in [Creations -> CreationStates]
           /\ \A y \in Creations : y # x => crt'[y] = crt[y]
           /\ crt'[x].owner = crt[x].owner /\ crt'[x].key = crt[x].key
           /\ crt'[x].pc = "answered"
           /\ crt'[x].answer = answer
           /\ crt'[x].code = code
  <1>1. crt[x] \in CreationStates
    BY DEF CreationTypeOK
  <1>2. [crt[x] EXCEPT !.pc = "answered", !.answer = answer, !.code = code]
          \in CreationStates
    BY <1>1 DEF CreationStates
  <1> QED
    BY <1>1, <1>2 DEF Answered, CreationTypeOK, CreationStates

LEMMA SlotIsKey ==
    ASSUME CreationTypeOK, NEW x \in Creations, HasKey(x)
    PROVE  Slot(x) \in Owners \X Keys
  <1>1. crt[x] \in CreationStates
    BY DEF CreationTypeOK
  <1> QED
    BY <1>1 DEF CreationStates, HasKey, Slot

(* The other requests do not notice a step of x.                           *)
LEMMA OthersKeepInv ==
    ASSUME CreationInv, NEW x \in Creations, StepOf(x),
           NEW y \in Creations, y # x
    PROVE  CreationRequestInv(y)'
  <1>1. crt'[y] = crt[y] /\ CreationRequestInv(y)
    BY DEF StepOf, CreationInv
  <1>2. Slot(y)' = Slot(y) /\ HasKey(y)' = HasKey(y)
    BY <1>1 DEF Slot, HasKey
  <1>3. Fruitless(crt[y]) => \A c \in Codes : creator'[c] # y
    BY <1>1 DEF CreationRequestInv, StepOf
  <1>4. ASSUME NEW c \in Codes, creator[c] = y
        PROVE  creator'[c] = y
    BY <1>4, NoCreationAssumption DEF StepOf
  <1>5. ASSUME HasKey(y), idem[Slot(y)] \in Codes
        PROVE  /\ idem'[Slot(y)] = idem[Slot(y)]
               /\ creator'[idem[Slot(y)]] = creator[idem[Slot(y)]]
    <2>1. Slot(y) \in Owners \X Keys
      BY <1>5, SlotIsKey DEF CreationInv
    <2>2. idem[Slot(y)] # NoCode
      BY <1>5, NoCodeAssumption
    <2>3. creator[idem[Slot(y)]] # NoCreation
      BY <2>1, <2>2 DEF CreationInv, RecordsInv
    <2> QED
      BY <1>5, <2>1, <2>2, <2>3 DEF StepOf
  <1>6. crt[y].pc = "save" => /\ HasKey(y) /\ crt[y].code \in Codes
                              /\ creator'[crt[y].code] = y
    BY <1>1, <1>4 DEF CreationRequestInv
  <1>7. Created(y) => /\ crt[y].code \in Codes
                      /\ HasKey(y) => idem'[Slot(y)] = crt[y].code
                      /\ ~HasKey(y) => creator'[crt[y].code] = y
    BY <1>1, <1>4, <1>5 DEF CreationRequestInv
  <1>8. crt[y].answer = "keyConflict"
          => /\ HasKey(y)
             /\ idem'[Slot(y)] \in Codes
             /\ creator'[idem'[Slot(y)]] # y
    BY <1>1, <1>5 DEF CreationRequestInv, Recorded
  <1> QED
    BY <1>1, <1>2, <1>3, <1>6, <1>7, <1>8
    DEF CreationRequestInv, Created, Recorded, Slot, HasKey

(* A step that neither inserts nor records.                                *)
LEMMA QuietStepKeepsStore ==
    ASSUME CreationInv, NEW x \in Creations, StepOf(x),
           UNCHANGED <<links, idem, creator>>
    PROVE  CreatorsInv' /\ OneCodePerCreator' /\ RecordsInv'
           /\ RepositoryTypeOK'
  <1>1. \A y \in Creations : crt'[y].owner = crt[y].owner
                             /\ crt'[y].key = crt[y].key
    BY DEF StepOf
  <1>2. \A c \in Codes : creator[c] \in Creations \cup {NoCreation}
    BY DEF CreationInv, CreationTypeOK
  <1>3. CreatorsInv'
    BY <1>1, <1>2 DEF CreationInv, CreatorsInv, Exists
  <1>4. OneCodePerCreator'
    BY DEF CreationInv, OneCodePerCreator
  <1>5. RecordsInv'
    <2> SUFFICES ASSUME NEW ok \in Owners \X Keys, idem[ok] # NoCode
                 PROVE  /\ creator[idem[ok]] # NoCreation
                        /\ <<crt'[creator[idem[ok]]].owner,
                             crt'[creator[idem[ok]]].key>> = ok
      BY DEF RecordsInv, Slot
    <2>1. idem[ok] \in Codes
      BY DEF CreationInv, CreationTypeOK
    <2> QED
      BY <1>1, <1>2, <2>1 DEF CreationInv, RecordsInv, Slot
  <1>6. RepositoryTypeOK'
    BY DEF CreationInv, CreationTypeOK, RepositoryTypeOK
  <1> QED
    BY <1>3, <1>4, <1>5, <1>6

-----------------------------------------------------------------------------
(* Requests that neither insert nor record *)

LEMMA QuietStepPreservesInv ==
    ASSUME CreationInv, NEW x \in Creations, StepOf(x),
           UNCHANGED <<links, idem, creator>>,
           CreationRequestInv(x)'
    PROVE  CreationInv'
  <1>1. CreationTypeOK'
    BY QuietStepKeepsStore DEF StepOf, CreationTypeOK
  <1>2. \A y \in Creations : CreationRequestInv(y)'
    BY OthersKeepInv
  <1> QED
    BY <1>1, <1>2, QuietStepKeepsStore DEF CreationInv

(* A change of crt[x] alone is a step of x.                                *)
LEMMA QuietStepIsStep ==
    ASSUME CreationInv, NEW x \in Creations,
           UNCHANGED <<links, idem, creator>>,
           crt' \in [Creations -> CreationStates],
           \A y \in Creations : y # x => crt'[y] = crt[y],
           crt'[x].owner = crt[x].owner, crt'[x].key = crt[x].key
    PROVE  StepOf(x)
  BY DEF StepOf, CreationInv, CreationTypeOK

LEMMA RefusalPreservesInv ==
    ASSUME CreationInv, NEW x \in Creations,
           UNCHANGED <<links, idem, creator>>,
           NEW answer \in {"rejected", "exhausted", "error", "lost"},
           answer \in {"rejected", "exhausted"} => crt[x].pc = "insert",
           Answered(x, answer, NoCode)
    PROVE  CreationInv'
  <1>1. CreationTypeOK
    BY DEF CreationInv
  <1>2. answer \in {"created"} \cup Refusals
    BY DEF Refusals
  <1>3. /\ crt' \in [Creations -> CreationStates]
        /\ \A y \in Creations : y # x => crt'[y] = crt[y]
        /\ crt'[x].owner = crt[x].owner /\ crt'[x].key = crt[x].key
        /\ crt'[x].pc = "answered"
        /\ crt'[x].answer = answer
    BY <1>1, <1>2, AnsweredIsStep
  <1>4. StepOf(x)
    BY <1>3, QuietStepIsStep
  <1>5. Fruitless(crt'[x]) => \A c \in Codes : creator[c] # x
    BY <1>3 DEF Fruitless, CreationInv, CreationRequestInv
  <1>6. CreationRequestInv(x)'
    BY <1>3, <1>5 DEF CreationRequestInv, Created
  <1> QED
    BY <1>4, <1>6, QuietStepPreservesInv

LEMMA LookupPreservesInv ==
    ASSUME CreationInv, NEW x \in Creations, Lookup(x)
    PROVE  CreationInv'
  <1>1. CreationTypeOK /\ CreationRequestInv(x) /\ crt[x] \in CreationStates
    BY DEF CreationInv, CreationTypeOK
  <1>2. CASE Recorded(x) # NoCode
    <2>1. HasKey(x) /\ Recorded(x) = idem[Slot(x)]
      BY <1>2 DEF Recorded
    <2>2. Recorded(x) \in Codes
      BY <1>1, <1>2, <2>1, SlotIsKey DEF CreationTypeOK
    <2>3. /\ crt' \in [Creations -> CreationStates]
          /\ \A y \in Creations : y # x => crt'[y] = crt[y]
          /\ crt'[x].owner = crt[x].owner /\ crt'[x].key = crt[x].key
          /\ crt'[x].pc = "answered"
          /\ crt'[x].answer = "created"
          /\ crt'[x].code = Recorded(x)
      BY <1>1, <1>2, <2>2, AnsweredIsStep DEF Lookup
    <2>4. StepOf(x)
      BY <2>3, QuietStepIsStep DEF Lookup
    <2>5. CreationRequestInv(x)'
      BY <2>1, <2>2, <2>3
      DEF Lookup, CreationRequestInv, Created, Fruitless, HasKey, Slot
    <2> QED
      BY <2>4, <2>5, QuietStepPreservesInv DEF Lookup
  <1>3. CASE Recorded(x) = NoCode
    <2>1. crt' = [crt EXCEPT ![x] = [@ EXCEPT !.pc = "insert"]]
          /\ crt[x].pc = "idle"
      BY <1>3 DEF Lookup
    <2>2. [crt[x] EXCEPT !.pc = "insert"] \in CreationStates
      BY <1>1 DEF CreationStates
    <2>3. /\ crt' \in [Creations -> CreationStates]
          /\ \A y \in Creations : y # x => crt'[y] = crt[y]
          /\ crt'[x].owner = crt[x].owner /\ crt'[x].key = crt[x].key
          /\ crt'[x].pc = "insert"
          /\ crt'[x].answer = crt[x].answer
      BY <1>1, <2>1, <2>2 DEF CreationTypeOK, CreationStates
    <2>4. StepOf(x)
      BY <2>3, QuietStepIsStep DEF Lookup
    <2>5. CreationRequestInv(x)'
      BY <1>1, <2>1, <2>3
      DEF Lookup, CreationRequestInv, Created, Fruitless
    <2> QED
      BY <2>4, <2>5, QuietStepPreservesInv DEF Lookup
  <1> QED
    BY <1>2, <1>3

LEMMA CollidePreservesInv ==
    ASSUME CreationInv, NEW x \in Creations, NEW c \in Codes,
           NEW at \in Times, Collide(x, c, at)
    PROVE  CreationInv'
  <1>1. CreationTypeOK /\ CreationRequestInv(x) /\ crt[x] \in CreationStates
    BY DEF CreationInv, CreationTypeOK
  <1>2. CASE Answered(x, "exhausted", NoCode)
    BY <1>2, RefusalPreservesInv DEF Collide
  <1>3. CASE crt[x].attempt < MaxAttempts - 1
    <2>1. crt' = [crt EXCEPT ![x] =
                    [@ EXCEPT !.attempt = crt[x].attempt + 1,
                              !.createdAt = CreationTime(x, at)]]
          /\ crt[x].pc = "insert"
      BY <1>1, <1>3, MaxAttemptsAssumption DEF Collide, CreationStates
    <2>2. CreationTime(x, at) \in Times
      BY <1>1 DEF CreationTime, CreationStates
    <2>3. crt[x].attempt + 1 \in 0 .. MaxAttempts - 1
      BY <1>1, <1>3, MaxAttemptsAssumption DEF CreationStates
    <2>4. [crt[x] EXCEPT !.attempt = crt[x].attempt + 1,
                         !.createdAt = CreationTime(x, at)] \in CreationStates
      BY <1>1, <2>2, <2>3 DEF CreationStates
    <2>5. /\ crt' \in [Creations -> CreationStates]
          /\ \A y \in Creations : y # x => crt'[y] = crt[y]
          /\ crt'[x].owner = crt[x].owner /\ crt'[x].key = crt[x].key
          /\ crt'[x].pc = crt[x].pc
          /\ crt'[x].answer = crt[x].answer
      BY <1>1, <2>1, <2>4 DEF CreationTypeOK, CreationStates
    <2>6. StepOf(x)
      BY <2>5, QuietStepIsStep DEF Collide
    <2>7. CreationRequestInv(x)'
      BY <1>1, <2>1, <2>5
      DEF Collide, CreationRequestInv, Created, Fruitless
    <2> QED
      BY <2>6, <2>7, QuietStepPreservesInv DEF Collide
  <1> QED
    BY <1>2, <1>3 DEF Collide

(* The key was recorded with another code, whose creator cannot be x: x    *)
(* created the code it wanted to record.                                   *)
LEMMA SaveConflictPreservesInv ==
    ASSUME CreationInv, NEW x \in Creations, SaveConflict(x)
    PROVE  CreationInv'
  <1>1. CreationTypeOK /\ CreationRequestInv(x) /\ crt[x].pc = "save"
    BY DEF CreationInv, SaveConflict
  <1>2. HasKey(x) /\ crt[x].code \in Codes /\ creator[crt[x].code] = x
    BY <1>1 DEF CreationRequestInv
  <1>3. /\ Recorded(x) = idem[Slot(x)]
        /\ Recorded(x) \in Codes
        /\ Recorded(x) # crt[x].code
    BY <1>1, <1>2, SlotIsKey DEF SaveConflict, Recorded, CreationTypeOK
  <1>4. creator[Recorded(x)] # x
    BY <1>2, <1>3, NoCreationAssumption DEF CreationInv, OneCodePerCreator
  <1>5. /\ crt' \in [Creations -> CreationStates]
        /\ \A y \in Creations : y # x => crt'[y] = crt[y]
        /\ crt'[x].owner = crt[x].owner /\ crt'[x].key = crt[x].key
        /\ crt'[x].pc = "answered"
        /\ crt'[x].answer = "keyConflict"
    BY <1>1, AnsweredIsStep DEF SaveConflict, Refusals
  <1>6. StepOf(x)
    BY <1>5, QuietStepIsStep DEF SaveConflict
  <1>7. CreationRequestInv(x)'
    BY <1>2, <1>3, <1>4, <1>5
    DEF SaveConflict, CreationRequestInv, Created, Fruitless, Recorded,
        HasKey, Slot
  <1> QED
    BY <1>6, <1>7, QuietStepPreservesInv DEF SaveConflict

-----------------------------------------------------------------------------
(* Inserting a link *)

LEMMA InsertedKeepsStore ==
    ASSUME CreationInv, NEW x \in Creations, NEW c \in Codes,
           NEW at \in Times, Inserted(x, c, at), StepOf(x), UNCHANGED idem
    PROVE  CreatorsInv' /\ OneCodePerCreator' /\ RecordsInv'
           /\ RepositoryTypeOK'
  <1>1. CreationTypeOK /\ crt[x] \in CreationStates
    BY DEF CreationInv, CreationTypeOK
  <1>2. CreationTime(x, at) \in Times
    BY <1>1 DEF CreationTime, CreationStates
  <1>3. PICK l \in Candidate(x, at) : Insert(c, l)
    BY DEF Inserted
  <1>4. Row(l) \in Links /\ Row(l).owner = crt[x].owner
    <2>1. l \in Links /\ l.owner = crt[x].owner
      BY <1>1, <1>2, NewLinkIsLink DEF Candidate, CreationStates
    <2> QED
      BY <2>1, RowIsLink
  <1>5. /\ ~Exists(c)
        /\ links' = [links EXCEPT ![c] = Row(l)]
        /\ creator' = [creator EXCEPT ![c] = x]
    BY <1>3 DEF Insert, Inserted
  <1>6. creator[c] = NoCreation
    BY <1>5 DEF CreationInv, CreatorsInv
  <1>7. \A d \in Codes : creator[d] # x
    BY DEF Inserted, CreationInv, CreationRequestInv, Fruitless
  <1>8. \A y \in Creations : crt'[y].owner = crt[y].owner
                             /\ crt'[y].key = crt[y].key
    BY DEF StepOf
  <1>9. /\ creator'[c] = x /\ links'[c] = Row(l)
        /\ \A d \in Codes : d # c => creator'[d] = creator[d]
                                     /\ links'[d] = links[d]
    BY <1>1, <1>5 DEF CreationTypeOK, RepositoryTypeOK
  <1>10. RepositoryTypeOK'
    BY <1>1, <1>4, <1>5 DEF CreationTypeOK, RepositoryTypeOK
  <1>11. CreatorsInv'
    <2> SUFFICES ASSUME NEW d \in Codes
                 PROVE  /\ Exists(d)' <=> creator'[d] # NoCreation
                        /\ Exists(d)' => links'[d].owner
                                           = crt'[creator'[d]].owner
      BY DEF CreatorsInv
    <2>1. CASE d = c
      BY <1>4, <1>8, <1>9, <2>1, NoLinkAssumption, NoCreationAssumption
      DEF Exists
    <2>2. CASE d # c
      <3>1. creator'[d] = creator[d] /\ links'[d] = links[d]
        BY <1>9, <2>2
      <3>2. /\ Exists(d) <=> creator[d] # NoCreation
            /\ Exists(d) => links[d].owner = crt[creator[d]].owner
        BY DEF CreationInv, CreatorsInv
      <3>3. creator[d] \in Creations \cup {NoCreation}
        BY <1>1 DEF CreationTypeOK
      <3> QED
        BY <1>8, <3>1, <3>2, <3>3 DEF Exists
    <2> QED
      BY <2>1, <2>2
  <1>12. OneCodePerCreator'
    BY <1>7, <1>9 DEF CreationInv, OneCodePerCreator
  <1>13. RecordsInv'
    <2> SUFFICES ASSUME NEW ok \in Owners \X Keys, idem[ok] # NoCode
                 PROVE  /\ creator'[idem[ok]] # NoCreation
                        /\ <<crt'[creator'[idem[ok]]].owner,
                             crt'[creator'[idem[ok]]].key>> = ok
      BY DEF RecordsInv, Slot
    <2>1. idem[ok] \in Codes
      BY <1>1 DEF CreationTypeOK
    <2>2. creator[idem[ok]] # NoCreation /\ Slot(creator[idem[ok]]) = ok
      BY DEF CreationInv, RecordsInv
    <2>3. creator'[idem[ok]] = creator[idem[ok]]
      BY <1>6, <1>9, <2>1, <2>2
    <2>4. creator[idem[ok]] \in Creations
      BY <1>1, <2>1, <2>2 DEF CreationTypeOK
    <2> QED
      BY <1>8, <2>2, <2>3, <2>4 DEF Slot
  <1> QED
    BY <1>10, <1>11, <1>12, <1>13

(* What an insert is to StepOf, whatever becomes of crt[x].                *)
LEMMA InsertedIsStep ==
    ASSUME CreationInv, NEW x \in Creations, NEW c \in Codes,
           NEW at \in Times, Inserted(x, c, at), UNCHANGED idem,
           crt' \in [Creations -> CreationStates],
           \A y \in Creations : y # x => crt'[y] = crt[y],
           crt'[x].owner = crt[x].owner, crt'[x].key = crt[x].key
    PROVE  StepOf(x) /\ creator'[c] = x
  <1>1. CreationTypeOK
    BY DEF CreationInv
  <1>2. ~Exists(c) /\ creator' = [creator EXCEPT ![c] = x]
    BY DEF Inserted, Insert
  <1>3. creator[c] = NoCreation
    BY <1>2 DEF CreationInv, CreatorsInv
  <1> QED
    BY <1>1, <1>2, <1>3 DEF StepOf, CreationTypeOK

LEMMA InsertStepPreservesInv ==
    ASSUME CreationInv, NEW x \in Creations, NEW c \in Codes,
           NEW at \in Times, Inserted(x, c, at), StepOf(x), UNCHANGED idem,
           CreationRequestInv(x)'
    PROVE  CreationInv'
  <1>1. CreationTypeOK'
    BY InsertedKeepsStore DEF StepOf, CreationTypeOK
  <1>2. \A y \in Creations : CreationRequestInv(y)'
    BY OthersKeepInv
  <1> QED
    BY <1>1, <1>2, InsertedKeepsStore DEF CreationInv

LEMMA InsertLinkPreservesInv ==
    ASSUME CreationInv, NEW x \in Creations, NEW c \in Codes,
           NEW at \in Times, InsertLink(x, c, at)
    PROVE  CreationInv'
  <1>1. /\ CreationTypeOK /\ CreationRequestInv(x)
        /\ crt[x] \in CreationStates /\ crt[x].pc = "insert"
    BY DEF CreationInv, CreationTypeOK, InsertLink, Inserted
  <1>2. CASE HasKey(x)
    <2>1. crt' = [crt EXCEPT ![x] = [@ EXCEPT !.pc = "save", !.code = c]]
      BY <1>2 DEF InsertLink
    <2>2. [crt[x] EXCEPT !.pc = "save", !.code = c] \in CreationStates
      BY <1>1 DEF CreationStates
    <2>3. /\ crt' \in [Creations -> CreationStates]
          /\ \A y \in Creations : y # x => crt'[y] = crt[y]
          /\ crt'[x].owner = crt[x].owner /\ crt'[x].key = crt[x].key
          /\ crt'[x].pc = "save" /\ crt'[x].code = c
          /\ crt'[x].answer = crt[x].answer
      BY <1>1, <2>1, <2>2 DEF CreationTypeOK, CreationStates
    <2>4. StepOf(x) /\ creator'[c] = x
      BY <2>3, InsertedIsStep DEF InsertLink
    <2>5. CreationRequestInv(x)'
      BY <1>1, <1>2, <2>3, <2>4
      DEF CreationRequestInv, Created, Fruitless, HasKey
    <2> QED
      BY <2>4, <2>5, InsertStepPreservesInv DEF InsertLink
  <1>3. CASE ~HasKey(x)
    <2>1. Answered(x, "created", c)
      BY <1>3 DEF InsertLink
    <2>2. /\ crt' \in [Creations -> CreationStates]
          /\ \A y \in Creations : y # x => crt'[y] = crt[y]
          /\ crt'[x].owner = crt[x].owner /\ crt'[x].key = crt[x].key
          /\ crt'[x].pc = "answered" /\ crt'[x].answer = "created"
          /\ crt'[x].code = c
      BY <1>1, <2>1, AnsweredIsStep
    <2>3. StepOf(x) /\ creator'[c] = x
      BY <2>2, InsertedIsStep DEF InsertLink
    <2>4. CreationRequestInv(x)'
      BY <1>3, <2>2, <2>3 DEF CreationRequestInv, Created, Fruitless, HasKey
    <2> QED
      BY <2>3, <2>4, InsertStepPreservesInv DEF InsertLink
  <1> QED
    BY <1>2, <1>3

LEMMA InsertUnacknowledgedPreservesInv ==
    ASSUME CreationInv, NEW x \in Creations, NEW c \in Codes,
           NEW at \in Times, InsertUnacknowledged(x, c, at)
    PROVE  CreationInv'
  <1>1. CreationTypeOK /\ Answered(x, "error", NoCode)
    BY DEF CreationInv, InsertUnacknowledged
  <1>2. /\ crt' \in [Creations -> CreationStates]
        /\ \A y \in Creations : y # x => crt'[y] = crt[y]
        /\ crt'[x].owner = crt[x].owner /\ crt'[x].key = crt[x].key
        /\ crt'[x].pc = "answered" /\ crt'[x].answer = "error"
    BY <1>1, AnsweredIsStep DEF Refusals
  <1>3. StepOf(x)
    BY <1>2, InsertedIsStep DEF InsertUnacknowledged
  <1>4. CreationRequestInv(x)'
    BY <1>2 DEF CreationRequestInv, Created, Fruitless
  <1> QED
    BY <1>3, <1>4, InsertStepPreservesInv DEF InsertUnacknowledged

-----------------------------------------------------------------------------
(* Recording a key *)

(* Record keeps what is recorded; what it adds, x created under that key.  *)
LEMMA RecordKeepsStore ==
    ASSUME CreationInv, NEW x \in Creations, crt[x].pc = "save", Record(x),
           UNCHANGED <<links, creator>>,
           crt' \in [Creations -> CreationStates],
           \A y \in Creations : y # x => crt'[y] = crt[y],
           crt'[x].owner = crt[x].owner, crt'[x].key = crt[x].key
    PROVE  /\ StepOf(x)
           /\ CreatorsInv' /\ OneCodePerCreator' /\ RecordsInv'
           /\ RepositoryTypeOK'
           /\ idem'[Slot(x)] = IF Recorded(x) = NoCode THEN crt[x].code
                                                       ELSE Recorded(x)
  <1>1. CreationTypeOK /\ CreationRequestInv(x)
    BY DEF CreationInv
  <1>2. HasKey(x) /\ crt[x].code \in Codes /\ creator[crt[x].code] = x
    BY <1>1 DEF CreationRequestInv
  <1>3. Slot(x) \in Owners \X Keys /\ Recorded(x) = idem[Slot(x)]
    BY <1>1, <1>2, SlotIsKey DEF Recorded
  <1>4. /\ idem'[Slot(x)] = IF Recorded(x) = NoCode THEN crt[x].code
                                                    ELSE Recorded(x)
        /\ \A ok \in Owners \X Keys : ok # Slot(x) => idem'[ok] = idem[ok]
    BY <1>1, <1>3 DEF Record, CreationTypeOK
  <1>5. idem' \in [Owners \X Keys -> Codes \cup {NoCode}]
    BY <1>1, <1>2, <1>3 DEF Record, CreationTypeOK
  <1>6. \A ok \in Owners \X Keys : idem[ok] \in {NoCode, idem'[ok]}
    BY <1>3, <1>4
  <1>7. StepOf(x)
    BY <1>1, <1>5, <1>6 DEF StepOf, CreationTypeOK
  <1>8. \A y \in Creations : crt'[y].owner = crt[y].owner
                             /\ crt'[y].key = crt[y].key
    BY <1>7 DEF StepOf
  <1>9. \A c \in Codes : creator[c] \in Creations \cup {NoCreation}
    BY <1>1 DEF CreationTypeOK
  <1>10. CreatorsInv'
    BY <1>8, <1>9 DEF CreationInv, CreatorsInv, Exists
  <1>11. OneCodePerCreator'
    BY DEF CreationInv, OneCodePerCreator
  <1>12. RecordsInv'
    <2> SUFFICES ASSUME NEW ok \in Owners \X Keys, idem'[ok] # NoCode
                 PROVE  /\ creator[idem'[ok]] # NoCreation
                        /\ <<crt'[creator[idem'[ok]]].owner,
                             crt'[creator[idem'[ok]]].key>> = ok
      BY DEF RecordsInv, Slot
    <2>1. idem'[ok] \in Codes
      BY <1>5
    <2>2. CASE ok = Slot(x) /\ Recorded(x) = NoCode
      <3>1. idem'[ok] = crt[x].code /\ creator[idem'[ok]] = x
        BY <1>2, <1>4, <2>2
      <3> QED
        BY <1>8, <2>2, <3>1, NoCreationAssumption DEF Slot
    <2>3. CASE ~(ok = Slot(x) /\ Recorded(x) = NoCode)
      <3>1. idem'[ok] = idem[ok]
        BY <1>3, <1>4, <2>3
      <3>2. creator[idem[ok]] # NoCreation /\ Slot(creator[idem[ok]]) = ok
        BY <3>1 DEF CreationInv, RecordsInv
      <3>3. creator[idem[ok]] \in Creations
        BY <1>9, <2>1, <3>1, <3>2
      <3> QED
        BY <1>8, <3>1, <3>2, <3>3 DEF Slot
    <2> QED
      BY <2>2, <2>3
  <1>13. RepositoryTypeOK'
    BY <1>1 DEF CreationTypeOK, RepositoryTypeOK
  <1> QED
    BY <1>4, <1>7, <1>10, <1>11, <1>12, <1>13

LEMMA SaveStepPreservesInv ==
    ASSUME CreationInv, NEW x \in Creations, crt[x].pc = "save", Record(x),
           UNCHANGED <<links, creator>>,
           crt' \in [Creations -> CreationStates],
           \A y \in Creations : y # x => crt'[y] = crt[y],
           crt'[x].owner = crt[x].owner, crt'[x].key = crt[x].key,
           CreationRequestInv(x)'
    PROVE  CreationInv'
  <1>1. /\ StepOf(x)
        /\ CreatorsInv' /\ OneCodePerCreator' /\ RecordsInv'
        /\ RepositoryTypeOK'
    BY RecordKeepsStore
  <1>2. CreationTypeOK'
    BY <1>1 DEF StepOf, CreationTypeOK
  <1>3. \A y \in Creations : CreationRequestInv(y)'
    BY <1>1, OthersKeepInv
  <1> QED
    BY <1>1, <1>2, <1>3 DEF CreationInv

LEMMA SaveKeyPreservesInv ==
    ASSUME CreationInv, NEW x \in Creations, SaveKey(x)
    PROVE  CreationInv'
  <1>1. CreationTypeOK /\ CreationRequestInv(x) /\ crt[x].pc = "save"
    BY DEF CreationInv, SaveKey
  <1>2. HasKey(x) /\ crt[x].code \in Codes
    BY <1>1 DEF CreationRequestInv
  <1>3. /\ crt' \in [Creations -> CreationStates]
        /\ \A y \in Creations : y # x => crt'[y] = crt[y]
        /\ crt'[x].owner = crt[x].owner /\ crt'[x].key = crt[x].key
        /\ crt'[x].pc = "answered" /\ crt'[x].answer = "created"
        /\ crt'[x].code = crt[x].code
    BY <1>1, <1>2, AnsweredIsStep DEF SaveKey
  <1>4. idem'[Slot(x)] = crt[x].code
    BY <1>1, <1>3, RecordKeepsStore DEF SaveKey
  <1>5. CreationRequestInv(x)'
    BY <1>2, <1>3, <1>4
    DEF CreationRequestInv, Created, Fruitless, HasKey, Slot
  <1> QED
    BY <1>1, <1>3, <1>5, SaveStepPreservesInv DEF SaveKey

LEMMA SaveUnacknowledgedPreservesInv ==
    ASSUME CreationInv, NEW x \in Creations, SaveUnacknowledged(x)
    PROVE  CreationInv'
  <1>1. CreationTypeOK /\ Answered(x, "error", NoCode)
    BY DEF CreationInv, SaveUnacknowledged
  <1>2. /\ crt' \in [Creations -> CreationStates]
        /\ \A y \in Creations : y # x => crt'[y] = crt[y]
        /\ crt'[x].owner = crt[x].owner /\ crt'[x].key = crt[x].key
        /\ crt'[x].pc = "answered" /\ crt'[x].answer = "error"
    BY <1>1, AnsweredIsStep DEF Refusals
  <1>3. CreationRequestInv(x)'
    BY <1>2 DEF CreationRequestInv, Created, Fruitless
  <1> QED
    BY <1>2, <1>3, SaveStepPreservesInv DEF SaveUnacknowledged

-----------------------------------------------------------------------------
(* The invariant *)

LEMMA CreationNextPreservesInv ==
    ASSUME CreationInv, [CreationNext]_creationVars
    PROVE  CreationInv'
  <1>1. ASSUME NEW x \in Creations, NEW at \in Times, Reject(x, at)
        PROVE  CreationInv'
    BY <1>1, RefusalPreservesInv DEF Reject
  <1>2. ASSUME NEW x \in Creations, DatabaseFails(x) \/ Abandon(x)
        PROVE  CreationInv'
    BY <1>2, RefusalPreservesInv DEF DatabaseFails, Abandon
  <1>3. ASSUME NEW x \in Creations, NEW at \in Times, CheckFails(x, at)
        PROVE  CreationInv'
    BY <1>3, RefusalPreservesInv DEF CheckFails
  <1>4. ASSUME NEW x \in Creations, CreationStep(x)
        PROVE  CreationInv'
    BY <1>1, <1>3, <1>4, LookupPreservesInv, CollidePreservesInv,
       InsertLinkPreservesInv, SaveKeyPreservesInv, SaveConflictPreservesInv
    DEF CreationStep, Attempt
  <1>5. ASSUME NEW x \in Creations, CreationFault(x)
        PROVE  CreationInv'
    BY <1>2, <1>5, SaveUnacknowledgedPreservesInv,
       InsertUnacknowledgedPreservesInv
    DEF CreationFault
  <1>6. CASE UNCHANGED creationVars
    BY <1>6
    DEF creationVars, CreationInv, CreationTypeOK, RepositoryTypeOK,
        CreatorsInv, OneCodePerCreator, RecordsInv, CreationRequestInv,
        Exists, Fruitless, Created, HasKey, Slot, Recorded
  <1> QED
    BY <1>4, <1>5, <1>6 DEF CreationNext

LEMMA CreationInitEstablishesInv == CreationInit => CreationInv
  <1> SUFFICES ASSUME CreationInit
               PROVE  CreationInv
    OBVIOUS
  <1>1. CreationTypeOK
    BY MaxAttemptsAssumption
    DEF CreationInit, CreationTypeOK, RepositoryInit, RepositoryTypeOK,
        CreationStates
  <1>2. \A c \in Codes : ~Exists(c) /\ creator[c] = NoCreation
    BY DEF CreationInit, RepositoryInit, Exists
  <1>3. \A ok \in Owners \X Keys : idem[ok] = NoCode
    BY DEF CreationInit
  <1>4. \A x \in Creations : crt[x].pc = "idle" /\ crt[x].answer = "none"
    BY DEF CreationInit
  <1>5. \A x \in Creations : CreationRequestInv(x)
    BY <1>2, <1>4, NoCreationAssumption DEF CreationRequestInv, Created
  <1> QED
    BY <1>1, <1>2, <1>3, <1>5
    DEF CreationInv, CreatorsInv, OneCodePerCreator, RecordsInv

(* Where every answer, record and link of the creation path comes from.    *)
THEOREM CreationInvariant == CreationSpec => []CreationInv
  BY CreationInitEstablishesInv, CreationNextPreservesInv, PTL
  DEF CreationSpec

(* Type correctness; the attempt counter never passes MaxAttempts - 1.     *)
THEOREM CreationTypes == CreationSpec => []CreationTypeOK
  <1>1. CreationInv => CreationTypeOK
    BY DEF CreationInv
  <1> QED
    BY <1>1, CreationInvariant, PTL

(* Retries with one owner and key that are told 201 are told one code: each*)
(* of them holds what the key is recorded with.                            *)
THEOREM RetriesGetOneCode == CreationSpec => []SameKeySameCode
  <1>1. ASSUME CreationInv, NEW x \in Creations, NEW y \in Creations,
               Created(x), Created(y), SameKey(x, y)
        PROVE  crt[x].code = crt[y].code
    <2>1. HasKey(x) /\ HasKey(y)
      BY <1>1 DEF SameKey, HasKey, Slot
    <2>2. idem[Slot(x)] = crt[x].code /\ idem[Slot(y)] = crt[y].code
      BY <1>1, <2>1 DEF CreationInv, CreationRequestInv
    <2> QED
      BY <1>1, <2>2 DEF SameKey
  <1>2. CreationInv => SameKeySameCode
    BY <1>1 DEF SameKeySameCode
  <1> QED
    BY <1>2, CreationInvariant, PTL

(* Requests that are not retries of each other are never told one code.    *)
THEOREM LinksAreNotShared == CreationSpec => []OwnLinkForOwnRequest
  <1>1. ASSUME CreationInv, NEW x \in Creations, Created(x), HasKey(x)
        PROVE  Slot(creator[crt[x].code]) = Slot(x)
    <2>1. /\ idem[Slot(x)] = crt[x].code /\ crt[x].code \in Codes
          /\ Slot(x) \in Owners \X Keys
      BY <1>1, SlotIsKey DEF CreationInv, CreationRequestInv
    <2> QED
      BY <1>1, <2>1, NoCodeAssumption DEF CreationInv, RecordsInv
  <1>2. ASSUME CreationInv, NEW x \in Creations, Created(x), ~HasKey(x)
        PROVE  creator[crt[x].code] = x
    BY <1>2 DEF CreationInv, CreationRequestInv
  <1>3. ASSUME CreationInv, NEW x \in Creations, NEW y \in Creations,
               Created(x), Created(y), x # y, crt[x].code = crt[y].code
        PROVE  SameKey(x, y)
    <2>1. HasKey(x) => HasKey(y)
      BY <1>1, <1>2, <1>3 DEF HasKey, Slot
    <2>2. HasKey(y) => HasKey(x)
      BY <1>1, <1>2, <1>3 DEF HasKey, Slot
    <2>3. HasKey(x)
      BY <1>2, <1>3, <2>2
    <2> QED
      BY <1>1, <1>3, <2>1, <2>3 DEF SameKey
  <1>4. CreationInv => OwnLinkForOwnRequest
    BY <1>3 DEF OwnLinkForOwnRequest
  <1> QED
    BY <1>4, CreationInvariant, PTL

(* A 201 names a stored link of the owner who asked.                       *)
THEOREM AnswersNameStoredLinks == CreationSpec => []CreatedLinkIsStored
  <1>1. ASSUME CreationInv, NEW x \in Creations, Created(x)
        PROVE  Exists(crt[x].code)
               /\ links[crt[x].code].owner = crt[x].owner
    <2>1. crt[x].code \in Codes
      BY <1>1 DEF CreationInv, CreationRequestInv
    <2>2. CASE HasKey(x)
      <3>1. idem[Slot(x)] = crt[x].code /\ Slot(x) \in Owners \X Keys
        BY <1>1, <2>2, SlotIsKey DEF CreationInv, CreationRequestInv
      <3>2. /\ creator[crt[x].code] # NoCreation
            /\ Slot(creator[crt[x].code]) = Slot(x)
        BY <1>1, <2>1, <3>1, NoCodeAssumption DEF CreationInv, RecordsInv
      <3> QED
        BY <1>1, <2>1, <3>2 DEF CreationInv, CreatorsInv, Slot
    <2>3. CASE ~HasKey(x)
      <3>1. creator[crt[x].code] = x
        BY <1>1, <2>3 DEF CreationInv, CreationRequestInv
      <3> QED
        BY <1>1, <2>1, <3>1, NoCreationAssumption DEF CreationInv, CreatorsInv
    <2> QED
      BY <2>2, <2>3
  <1>2. CreationInv => CreatedLinkIsStored
    BY <1>1 DEF CreatedLinkIsStored
  <1> QED
    BY <1>2, CreationInvariant, PTL

(* The retry loop leaves at most one link, and none behind a refusal.      *)
THEOREM AttemptsLeaveOneLink == CreationSpec => []AtMostOneLinkPerRequest
  <1>1. ASSUME CreationInv, NEW c \in Codes, creator[c] # NoCreation
        PROVE  /\ \A d \in Codes : creator[c] = creator[d] => c = d
               /\ crt[creator[c]].answer \notin {"rejected", "exhausted"}
    <2>1. creator[c] \in Creations
      BY <1>1 DEF CreationInv, CreationTypeOK
    <2>2. ~Fruitless(crt[creator[c]])
      BY <1>1, <2>1 DEF CreationInv, CreationRequestInv
    <2> QED
      BY <1>1, <2>2 DEF CreationInv, OneCodePerCreator, Fruitless
  <1>2. CreationInv => AtMostOneLinkPerRequest
    BY <1>1 DEF AtMostOneLinkPerRequest
  <1> QED
    BY <1>2, CreationInvariant, PTL

(* A request refused for its key was beaten to it by another one.          *)
THEOREM KeyConflictsAreReal == CreationSpec => []KeyConflictHasWinner
  <1>1. ASSUME CreationInv, NEW x \in Creations,
               crt[x].answer = "keyConflict"
        PROVE  /\ Recorded(x) # NoCode /\ Exists(Recorded(x))
               /\ links[Recorded(x)].owner = crt[x].owner
               /\ creator[Recorded(x)] # x
    <2>1. HasKey(x) /\ Recorded(x) \in Codes /\ creator[Recorded(x)] # x
      BY <1>1 DEF CreationInv, CreationRequestInv
    <2>2. Recorded(x) = idem[Slot(x)] /\ Slot(x) \in Owners \X Keys
      BY <1>1, <2>1, SlotIsKey DEF CreationInv, Recorded
    <2>3. Recorded(x) # NoCode
      BY <2>1, NoCodeAssumption
    <2>4. /\ creator[Recorded(x)] # NoCreation
          /\ Slot(creator[Recorded(x)]) = Slot(x)
      BY <1>1, <2>2, <2>3 DEF CreationInv, RecordsInv
    <2> QED
      BY <1>1, <2>1, <2>3, <2>4 DEF CreationInv, CreatorsInv, Slot
  <1>2. CreationInv => KeyConflictHasWinner
    BY <1>1 DEF KeyConflictHasWinner
  <1> QED
    BY <1>2, CreationInvariant, PTL
=============================================================================
