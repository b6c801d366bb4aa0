------------------------- MODULE CreateGeneratedLink -------------------------
(***************************************************************************)
(* POST /v1/links: the CreateGeneratedLink use case over the link          *)
(* repository and the idempotency store.                                   *)
(*                                                                         *)
(* A member of Creations is one HTTP request; a client that retries sends  *)
(* another one with the same owner and Idempotency-Key.  A request looks   *)
(* its key up, inserts a link under generated codes until one is free, and *)
(* records the key: three separate steps, with requests of other clients,  *)
(* failures and crashes in between.                                        *)
(*                                                                         *)
(* The generator may return any code.  An idempotency record is the code   *)
(* of its link, as in the table idempotency_keys; the memory store keeps a *)
(* copy of the link, of which only the code matters here.  creator is a    *)
(* history variable: the request that inserted each link.                  *)
(***************************************************************************)
EXTENDS LinkRepository

CONSTANTS Creations,     \* POST requests
          Keys,          \* Idempotency-Key values
          NoKey,         \* no such header, or an empty one
          NoCode,        \* no code yet, or no idempotency record
          NoCreation,    \* the creator of a link that does not exist
          MaxAttempts,   \* maxCodeGenerationAttempts
          Faults         \* what may go wrong: "database", "disconnect"

ASSUME MaxAttemptsAssumption == MaxAttempts \in Nat \ {0}
ASSUME NoKeyAssumption == NoKey \notin Keys
ASSUME NoCodeAssumption == NoCode \notin Codes
ASSUME NoCreationAssumption == NoCreation \notin Creations

VARIABLES idem,          \* idem[o, k] is the code recorded for owner and key
          crt,           \* crt[x] is the progress of request x
          creator

creationVars == <<links, idem, crt, creator>>

Refusals == {"rejected", "exhausted", "keyConflict", "error", "lost"}

CreationStates == [pc          : {"idle", "insert", "save", "answered"},
                   owner       : Owners,
                   key         : Keys \cup {NoKey},
                   destination : Destinations,
                   expiresAt   : Expirations \cup {NoExpiry},
                   createdAt   : Times,
                   attempt     : 0 .. MaxAttempts - 1,
                   code        : Codes \cup {NoCode},
                   answer      : {"none", "created"} \cup Refusals]

(* Requests come as they are sent: what they ask for never changes.        *)
CreationInit ==
    /\ RepositoryInit
    /\ idem = [ok \in Owners \X Keys |-> NoCode]
    /\ crt \in [Creations ->
                  [pc : {"idle"}, owner : Owners, key : Keys \cup {NoKey},
                   destination : Destinations,
                   expiresAt : Expirations \cup {NoExpiry},
                   createdAt : {0} \cap Times, attempt : {0}, code : {NoCode},
                   answer : {"none"}]]
    /\ creator = [c \in Codes |-> NoCreation]

-----------------------------------------------------------------------------
HasKey(x) == crt[x].key # NoKey
Slot(x) == <<crt[x].owner, crt[x].key>>

(* Seeded fault: a lookup by key alone, whoever owns it.                   *)
RecordedForAnyone(x) ==
    LET codes == {idem[o, crt[x].key] : o \in Owners} \ {NoCode}
    IN  IF HasKey(x) /\ codes # {} THEN CHOOSE c \in codes : TRUE ELSE NoCode

Recorded(x) == IF HasKey(x) THEN idem[Slot(x)] ELSE NoCode

Answered(x, answer, code) ==
    crt' = [crt EXCEPT ![x] = [@ EXCEPT !.pc = "answered", !.answer = answer,
                                        !.code = code]]

(* idempotencyStore.Get: a recorded key answers the request at once.       *)
Lookup(x) ==
    /\ crt[x].pc = "idle"
    /\ \/ /\ Recorded(x) # NoCode
          /\ Answered(x, "created", Recorded(x))
       \/ /\ Recorded(x) = NoCode
          /\ crt' = [crt EXCEPT ![x] = [@ EXCEPT !.pc = "insert"]]
    /\ UNCHANGED <<links, idem, creator>>

(* The clock is read at the first attempt only.                            *)
CreationTime(x, at) == IF crt[x].attempt = 0 THEN at ELSE crt[x].createdAt

Candidate(x, at) ==
    NewLink(crt[x].destination, crt[x].owner, CreationTime(x, at),
            crt[x].expiresAt)

Reject(x, at) ==
    /\ crt[x].pc = "insert"
    /\ Candidate(x, at) = {}
    /\ Answered(x, "rejected", NoCode)
    /\ UNCHANGED <<links, idem, creator>>

(* The row violates the table's check, whatever its code: a plain error.   *)
CheckFails(x, at) ==
    /\ crt[x].pc = "insert"
    /\ \E l \in Candidate(x, at) : ~Storable(l)
    /\ Answered(x, "error", NoCode)
    /\ UNCHANGED <<links, idem, creator>>

Inserted(x, c, at) ==
    /\ crt[x].pc = "insert"
    /\ \E l \in Candidate(x, at) : Insert(c, l)
    /\ creator' = [creator EXCEPT ![c] = x]

InsertLink(x, c, at) ==
    /\ Inserted(x, c, at)
    /\ IF HasKey(x)
       THEN crt' = [crt EXCEPT ![x] = [@ EXCEPT !.pc = "save", !.code = c]]
       ELSE Answered(x, "created", c)
    /\ UNCHANGED idem

(* Seeded fault: one attempt too many.                                     *)
CollideOnceMore(x, c, at) ==
    /\ crt[x].pc = "insert"
    /\ \E l \in Candidate(x, at) : Storable(l)
    /\ Exists(c)
    /\ \/ /\ crt[x].attempt = MaxAttempts
          /\ Answered(x, "exhausted", NoCode)
       \/ /\ crt[x].attempt < MaxAttempts
          /\ crt' = [crt EXCEPT ![x] =
                       [@ EXCEPT !.attempt = crt[x].attempt + 1,
                                 !.createdAt = CreationTime(x, at)]]
    /\ UNCHANGED <<links, idem, creator>>

(* ErrLinkAlreadyExists: another code is tried, a bounded number of times. *)
Collide(x, c, at) ==
    /\ crt[x].pc = "insert"
    /\ \E l \in Candidate(x, at) : Storable(l)
    /\ Exists(c)
    /\ \/ /\ crt[x].attempt = MaxAttempts - 1
          /\ Answered(x, "exhausted", NoCode)
       \/ /\ crt[x].attempt < MaxAttempts - 1
          /\ crt' = [crt EXCEPT ![x] =
                       [@ EXCEPT !.attempt = crt[x].attempt + 1,
                                 !.createdAt = CreationTime(x, at)]]
    /\ UNCHANGED <<links, idem, creator>>

(* idempotencyStore.Save: the first record of a key stays.                 *)
Record(x) ==
    idem' = [idem EXCEPT ![Slot(x)] = IF @ = NoCode THEN crt[x].code ELSE @]

(* Seeded faults: ON CONFLICT DO NOTHING without a look at the row that is *)
(* there; a missing row taken for a conflicting one.                       *)
SaveKeyUnchecked(x) ==
    /\ crt[x].pc = "save"
    /\ Record(x)
    /\ Answered(x, "created", crt[x].code)
    /\ UNCHANGED <<links, creator>>

SaveConflictUnrecorded(x) ==
    /\ crt[x].pc = "save"
    /\ Recorded(x) # crt[x].code
    /\ Answered(x, "keyConflict", NoCode)
    /\ UNCHANGED <<links, idem, creator>>

SaveKey(x) ==
    /\ crt[x].pc = "save"
    /\ Recorded(x) \in {NoCode, crt[x].code}
    /\ Record(x)
    /\ Answered(x, "created", crt[x].code)
    /\ UNCHANGED <<links, creator>>

SaveConflict(x) ==
    /\ crt[x].pc = "save"
    /\ Recorded(x) \notin {NoCode, crt[x].code}
    /\ Answered(x, "keyConflict", NoCode)
    /\ UNCHANGED <<links, idem, creator>>

-----------------------------------------------------------------------------
(* Failures *)

(* A statement fails and did nothing...                                    *)
DatabaseFails(x) ==
    /\ "database" \in Faults
    /\ \/ crt[x].pc = "idle" /\ HasKey(x)
       \/ crt[x].pc \in {"insert", "save"}
    /\ Answered(x, "error", NoCode)
    /\ UNCHANGED <<links, idem, creator>>

(* Seeded fault: an insert whose answer is lost is tried again.            *)
InsertRetried(x, c, at) ==
    /\ "database" \in Faults
    /\ Inserted(x, c, at)
    /\ UNCHANGED <<idem, crt>>

(* ...or took effect, and only its result is lost.                         *)
InsertUnacknowledged(x, c, at) ==
    /\ "database" \in Faults
    /\ Inserted(x, c, at)
    /\ Answered(x, "error", NoCode)
    /\ UNCHANGED idem

SaveUnacknowledged(x) ==
    /\ "database" \in Faults
    /\ crt[x].pc = "save"
    /\ Record(x)
    /\ Answered(x, "error", NoCode)
    /\ UNCHANGED <<links, creator>>

(* The client leaves, cancelling the request's context, or the process     *)
(* dies.                                                                   *)
Abandon(x) ==
    /\ "disconnect" \in Faults
    /\ crt[x].pc \in {"insert", "save"}
    /\ Answered(x, "lost", NoCode)
    /\ UNCHANGED <<links, idem, creator>>

-----------------------------------------------------------------------------
Attempt(x) ==
    \E at \in Times :
       \/ Reject(x, at)
       \/ CheckFails(x, at)
       \/ \E c \in Codes : InsertLink(x, c, at) \/ Collide(x, c, at)

CreationStep(x) == Lookup(x) \/ Attempt(x) \/ SaveKey(x) \/ SaveConflict(x)

CreationFault(x) ==
    \/ DatabaseFails(x) \/ SaveUnacknowledged(x) \/ Abandon(x)
    \/ \E c \in Codes, at \in Times : InsertUnacknowledged(x, c, at)

CreationNext == \E x \in Creations : CreationStep(x) \/ CreationFault(x)

CreationSpec == CreationInit /\ [][CreationNext]_creationVars

-----------------------------------------------------------------------------
(* Properties *)

CreationTypeOK ==
    /\ RepositoryTypeOK
    /\ idem \in [Owners \X Keys -> Codes \cup {NoCode}]
    /\ crt \in [Creations -> CreationStates]
    /\ creator \in [Codes -> Creations \cup {NoCreation}]

Created(x) == crt[x].answer = "created"

SameKey(x, y) == HasKey(x) /\ Slot(x) = Slot(y)

(* Retries are safe: two requests with the same owner and key that are both*)
(* told 201 are told the same code, in whatever order their lookups,       *)
(* inserts and saves ran and whatever failed.                              *)
SameKeySameCode ==
    \A x, y \in Creations :
       Created(x) /\ Created(y) /\ SameKey(x, y) => crt[x].code = crt[y].code

(* ...and requests that are not retries of each other never share a link:  *)
(* neither by a code collision nor through another owner's key.            *)
OwnLinkForOwnRequest ==
    \A x, y \in Creations :
       Created(x) /\ Created(y) /\ x # y /\ crt[x].code = crt[y].code
       => SameKey(x, y)

(* A 201 names a stored link of the owner who asked, also when the answer  *)
(* is replayed from an idempotency record.                                 *)
CreatedLinkIsStored ==
    \A x \in Creations :
       Created(x) => /\ Exists(crt[x].code)
                     /\ links[crt[x].code].owner = crt[x].owner

(* The retry loop inserts at most one link, and none if the request is     *)
(* refused as invalid or for want of a free code.                          *)
AtMostOneLinkPerRequest ==
    \A c, d \in Codes :
       creator[c] # NoCreation
       => /\ creator[c] = creator[d] => c = d
          /\ crt[creator[c]].answer \notin {"rejected", "exhausted"}

(* A request refused with ErrIdempotencyKeyConflict, a 500, lost to a      *)
(* recorded link of the same owner, so that its retry will be answered.    *)
KeyConflictHasWinner ==
    \A x \in Creations :
       crt[x].answer = "keyConflict"
       => /\ Recorded(x) # NoCode
          /\ Exists(Recorded(x))
          /\ links[Recorded(x)].owner = crt[x].owner
          /\ creator[Recorded(x)] # x

(* One link per owner and key, however often the client retries ("Idempotent*)
(* creation | Strong per owner/key").                                      *)
OneLinkPerKey ==
    \A c, d \in Codes :
       /\ creator[c] # NoCreation /\ creator[d] # NoCreation
       /\ SameKey(creator[c], creator[d])
       => c = d
=============================================================================
