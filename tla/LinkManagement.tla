--------------------------- MODULE LinkManagement ---------------------------
(***************************************************************************)
(* Management requests on stored links: GET and PATCH /v1/links/{code}     *)
(* (httpapi/management_handler.go) over GetManagedLink and the three       *)
(* ChangeLink use cases (internal/link/application).                       *)
(*                                                                         *)
(* A member of Requests is one HTTP request.  A PATCH reads the link,      *)
(* checks owner and If-Match version, mutates a private copy and writes it *)
(* back with a compare-and-set on the version; other requests run between  *)
(* any two of these steps.  Once answered a request never moves again.     *)
(*                                                                         *)
(* The time of a mutation is any clock reading: API hosts read their own   *)
(* clocks, which need not agree nor be ordered with those of other hosts.  *)
(***************************************************************************)
EXTENDS LinkRepository

CONSTANTS Requests,   \* management requests
          Faults      \* what may go wrong: "database" and "disconnect" here

VARIABLE req          \* req[r] is the progress of request r

managementVars == <<links, req>>

Pcs == {"idle", "update", "committed", "answered"}

(* Answers, named for the error the use case returns: "lost" is no answer  *)
(* at all, the client left or the process died.                            *)
Refusals == {"notFound", "conflict", "rejected", "error", "lost"}
Answers == {"none", "read", "changed"} \cup Refusals

RequestStates == [pc     : Pcs,
                  code   : Codes \cup {NoLink},
                  base   : Links \cup {NoLink},   \* the link as it was read
                  next   : Links \cup {NoLink},   \* the mutated copy
                  answer : Answers]

Idle == [pc |-> "idle", code |-> NoLink, base |-> NoLink, next |-> NoLink,
         answer |-> "none"]

ManagementInit == RepositoryInit /\ req = [r \in Requests |-> Idle]

-----------------------------------------------------------------------------
(* Steps *)

Refused(r, answer) ==
    req' = [req EXCEPT ![r] = [Idle EXCEPT !.pc = "answered",
                                           !.answer = answer]]

(* POST /v1/links reaches the repository: see CreateGeneratedLink.         *)
Create(c, at) ==
    /\ \E d \in Destinations, o \in Owners, e \in Expirations \cup {NoExpiry} :
          \E l \in NewLink(d, o, at, e) : Insert(c, l)
    /\ UNCHANGED req

Visible(c, o) == Exists(c) /\ links[c].owner = o

(* GetManagedLink.Execute: the answer carries the link and its ETag.       *)
Get(r, c, o) ==
    /\ req[r].pc = "idle"
    /\ \/ ~Visible(c, o) /\ Refused(r, "notFound")
       \/ /\ Visible(c, o)
          /\ req' = [req EXCEPT ![r] =
                       [pc |-> "answered", code |-> c, base |-> links[c],
                        next |-> links[c], answer |-> "read"]]
    /\ UNCHANGED links

(* ChangeLink*.Execute up to the call of Update.                           *)
Change(r, c, o, version, m, at) ==
    /\ req[r].pc = "idle"
    /\ \/ ~Visible(c, o) /\ Refused(r, "notFound")
       \/ /\ Visible(c, o)
          /\ links[c].version # version
          /\ Refused(r, "conflict")
       \/ /\ Visible(c, o)
          /\ links[c].version = version
          /\ Mutate(links[c], m, at) = {}
          /\ Refused(r, "rejected")
       \/ /\ Visible(c, o)
          /\ links[c].version = version
          /\ \E l \in Mutate(links[c], m, at) :
                req' = [req EXCEPT ![r] =
                          [pc |-> "update", code |-> c, base |-> links[c],
                           next |-> l, answer |-> "none"]]
    /\ UNCHANGED links

FindFails(r) ==
    /\ "database" \in Faults
    /\ req[r].pc = "idle"
    /\ Refused(r, "error")
    /\ UNCHANGED links

(* repository.Update finds the row at the expected version...              *)
Commit(r) ==
    /\ req[r].pc = "update"
    /\ Update(req[r].code, req[r].next, req[r].base.version)
    /\ req' = [req EXCEPT ![r] =
                 [pc |-> "committed", code |-> @.code, base |-> @.base,
                  next |-> @.next, answer |-> "none"]]

(* ...or at another one: ErrVersionConflict, 412.                          *)
Conflict(r) ==
    /\ req[r].pc = "update"
    /\ ~VersionMatches(req[r].code, req[r].base.version)
    /\ req' = [req EXCEPT ![r] =
                 [pc |-> "answered", code |-> @.code, base |-> @.base,
                  next |-> NoLink, answer |-> "conflict"]]
    /\ UNCHANGED links

UpdateFails(r) ==
    /\ "database" \in Faults
    /\ req[r].pc = "update"
    /\ Refused(r, "error")
    /\ UNCHANGED links

(* The row would violate the table's check: an error that is no conflict.  *)
CheckFails(r) ==
    /\ req[r].pc = "update"
    /\ VersionMatches(req[r].code, req[r].base.version)
    /\ ~Storable(req[r].next)
    /\ Refused(r, "error")
    /\ UNCHANGED links

(* The statement took effect but its result never reached the handler.     *)
CommitUnacknowledged(r) ==
    /\ "database" \in Faults
    /\ req[r].pc = "update"
    /\ Update(req[r].code, req[r].next, req[r].base.version)
    /\ Refused(r, "error")

(* The body is the handler's own copy of the link, not the row.            *)
Respond(r) ==
    /\ req[r].pc = "committed"
    /\ req' = [req EXCEPT ![r] =
                 [pc |-> "answered", code |-> @.code, base |-> @.base,
                  next |-> @.next, answer |-> "changed"]]
    /\ UNCHANGED links

(* The client disconnects, which cancels the request's context, or the     *)
(* process dies, before the answer is written.                             *)
Abandon(r) ==
    /\ "disconnect" \in Faults
    /\ req[r].pc \in {"update", "committed"}
    /\ Refused(r, "lost")
    /\ UNCHANGED links

-----------------------------------------------------------------------------
(* The If-Match versions of interest: the stored one, and any other.       *)
IfMatch(c) ==
    IF Exists(c) THEN {links[c].version, links[c].version + 1} ELSE {1}

Begin(r, at) ==
    \E c \in Codes, o \in Owners :
       \/ Get(r, c, o)
       \/ \E version \in IfMatch(c), m \in Mutations :
             Change(r, c, o, version, m, at)

Finish(r) == Commit(r) \/ Conflict(r) \/ CheckFails(r) \/ Respond(r)

Fail(r) ==
    FindFails(r) \/ UpdateFails(r) \/ CommitUnacknowledged(r) \/ Abandon(r)

ManagementNext ==
    \/ \E c \in Codes, at \in Times : Create(c, at)
    \/ \E r \in Requests :
         (\E at \in Times : Begin(r, at)) \/ Finish(r) \/ Fail(r)

ManagementSpec == ManagementInit /\ [][ManagementNext]_managementVars

(* A handler keeps running until it answers; nothing makes clients send    *)
(* requests, nor faults happen.                                            *)
FairManagementSpec ==
    ManagementSpec /\ \A r \in Requests : WF_managementVars(Finish(r))

-----------------------------------------------------------------------------
(* Properties *)

ManagementTypeOK ==
    /\ RepositoryTypeOK
    /\ req \in [Requests -> RequestStates]

(* Every stored row passes the checks of RehydrateLink, so no sequence of  *)
(* accepted mutations makes a link that FindByCode can no longer load.     *)
StoredLinksRehydrate ==
    \A c \in Codes : Exists(c) => Rehydratable(links[c])

(* Bodies handed to clients with an ETag.                                  *)
Represents(r) == req[r].answer \in {"read", "changed"}

SameETag(r, s) ==
    /\ Represents(r) /\ Represents(s)
    /\ req[r].code = req[s].code
    /\ req[r].next.version = req[s].next.version

(* An ETag names one row: two answers for a code that carry the same       *)
(* version (writeManagedLinkResponse prints it as the ETag) agree in all   *)
(* that the table keeps, whoever asked, whenever, and whatever failed in   *)
(* between; and two GETs, which print rows, agree to the last digit.  They *)
(* need not agree with a PATCH, which prints the times of its own copy.    *)
ETagIdentifiesRow ==
    \A r, s \in Requests :
       SameETag(r, s)
       => /\ Row(req[r].next) = Row(req[s].next)
          /\ req[r].answer = "read" /\ req[s].answer = "read"
               => req[r].next = req[s].next

Wrote(r) == req[r].pc = "committed" \/ req[r].answer = "changed"

(* No lost update: of the PATCHes that read the same version of a link at  *)
(* most one is told that it changed it (the CAS of Update, and no other    *)
(* check, decides between requests that all passed the If-Match test).     *)
OneWriterPerVersion ==
    \A r, s \in Requests :
       /\ r # s /\ Wrote(r) /\ Wrote(s) /\ req[r].code = req[s].code
       => req[r].base.version # req[s].base.version

(* The link of request r is newer now than when r read it.                 *)
MovedPast(r) ==
    \E c \in Codes :
       c = req[r].code /\ links[c].version > req[r].base.version

(* A 412 from Update is never spurious: the link really has moved past the *)
(* version the request read, even when commits fail or go unacknowledged.  *)
ConflictHasWinner ==
    \A r \in Requests :
       req[r].answer = "conflict" /\ req[r].base # NoLink
       => MovedPast(r)

(* "Deletion is terminal", and so is all of a link's past: each change is  *)
(* one version on and no earlier, of the same owner and age, and a PATCH   *)
(* that read the link before it was deleted does not bring it back.  (The  *)
(* domain asks for a later time; two changes in one microsecond leave the  *)
(* row with the same one.)                                                 *)
LinksMoveForward ==
    [][\A c \in Codes :
         Exists(c) /\ links'[c] # links[c] =>
            /\ links[c].status # "deleted"
            /\ links'[c].version = links[c].version + 1
            /\ links'[c].updatedAt >= links[c].updatedAt
            /\ links'[c].owner = links[c].owner
            /\ links'[c].createdAt = links[c].createdAt]_links

(* Optimistic concurrency makes progress: when the database answers, every *)
(* PATCH that passed its checks, the table's included, leads to a link     *)
(* newer than the one it read, by its own write or by the one that beat it;*)
(* the handlers cannot all refuse each other.                              *)
UpdatesMakeProgress ==
    \A r \in Requests :
       req[r].pc = "update" /\ Storable(req[r].next)
       ~> (req[r].pc = "answered" /\ MovedPast(r))

(* Interleaved requests add up to atomic mutations of the stored links: the*)
(* handlers' read, check and write implement VersionedLinks.               *)
Atomic == INSTANCE VersionedLinks
AtomicMutations == Atomic!Spec
=============================================================================
