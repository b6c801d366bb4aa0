--------------------------- MODULE RedirectSystem ---------------------------
(***************************************************************************)
(* Redirects, the cache-aside resolver and the refresh after a mutation,   *)
(* over the management requests and one Redis (internal/link/application). *)
(*                                                                         *)
(* A member of Redirects is a handler goroutine that serves one            *)
(* GET /{code} after another.  Both kinds of handler write to Redis with a *)
(* command that is sent, executed by Redis at some later moment, and no    *)
(* longer waited for once the operation timeout has cut it off: put[a] is  *)
(* the last command of handler a.                                          *)
(*                                                                         *)
(* A tick is here a millisecond or more, which both stores keep: Precision *)
(* is about what is cut off below.                                         *)
(*                                                                         *)
(* Latency bounds how long a handler or its command stays in flight: no    *)
(* code enforces it, it stands for what the timeouts and the runtime give. *)
(* history and acked are history variables: the mappings ever committed,   *)
(* each with the time of its commit, and the last version of each link     *)
(* that a client was told of.                                              *)
(***************************************************************************)
EXTENDS LinkManagement, RedirectCache

CONSTANTS Redirects,   \* redirect handlers
          Latency      \* the longest time a handler or command is in flight

ASSUME LatencyAssumption == Latency \in Nat \ {0}
ASSUME TickAssumption == Resolution = 1
ASSUME HandlersAssumption == Requests \cap Redirects = {}

VARIABLES red,         \* red[d] is the redirect that handler d serves
          put,         \* put[a] is the PutIfNewer command of handler a
          history, acked

systemVars == <<links, req, cache, now, red, put, history, acked>>

Handlers == Requests \cup Redirects

RedirectPcs == {"idle", "source", "fill", "resolved", "done"}
RedirectAnswers == {"none", "found", "unavailable", "notFound", "error"}

RedirectStates == [pc      : RedirectPcs,
                   code    : Codes \cup {NoLink},
                   mapping : RedirectMappings \cup {NoEntry},
                   since   : Nat,                 \* when it began
                   floor   : Nat,                 \* acked[code] when it began
                   answer  : RedirectAnswers]

IdleRedirect == [pc |-> "idle", code |-> NoLink, mapping |-> NoEntry,
                 since |-> 0, floor |-> 0, answer |-> "none"]

PutStates == [stage   : {"none", "sent", "over"},
              code    : Codes \cup {NoLink},
              mapping : RedirectMappings \cup {NoEntry},
              ttl     : Nat,
              since   : Nat]                      \* when its handler began

NoPut == [stage |-> "none", code |-> NoLink, mapping |-> NoEntry, ttl |-> 0,
          since |-> 0]
PutIsOver == [NoPut EXCEPT !.stage = "over"]

SystemInit ==
    /\ ManagementInit
    /\ CacheInit
    /\ now \in Times /\ now = 1
    /\ red = [d \in Redirects |-> IdleRedirect]
    /\ put = [a \in Handlers |-> NoPut]
    /\ history = {}
    /\ acked = [c \in Codes |-> 0]

-----------------------------------------------------------------------------
(* Cache writes *)

(* The TTL is computed and the command sent, or the write is skipped.      *)
SendPut(a, c, m, since) ==
    /\ put[a].stage = "none"
    /\ put' = [put EXCEPT ![a] =
                 IF ShouldCache(m, now)
                 THEN [stage |-> "sent", code |-> c, mapping |-> m,
                       ttl |-> CacheTTL(m, now), since |-> since]
                 ELSE PutIsOver]

(* Redis executes the script.                                              *)
ApplyPut(a) ==
    /\ put[a].stage = "sent"
    /\ PutIfNewer(put[a].code, put[a].mapping, put[a].ttl)
    /\ put' = [put EXCEPT ![a] = PutIsOver]
    /\ UNCHANGED <<links, req, now, red, history, acked>>

(* The command never reaches Redis.                                        *)
LosePut(a) ==
    /\ "redis" \in Faults
    /\ put[a].stage = "sent"
    /\ put' = [put EXCEPT ![a] = PutIsOver]
    /\ UNCHANGED <<links, req, cache, now, red, history, acked>>

(* Seeded fault: the client waits for Redis without a timeout.             *)
PutAnswered(a) == put[a].stage = "over"

(* PutIfNewer has returned, if only because operationTimeout has passed.   *)
PutReturned(a) ==
    \/ put[a].stage = "over"
    \/ "timeout" \in Faults /\ put[a].stage = "sent"

(* Redis drops a key under memory pressure, or restarts empty.             *)
Evict(c) ==
    /\ "evict" \in Faults
    /\ Cached(c)
    /\ cache' = [cache EXCEPT ![c] = NoEntry]
    /\ UNCHANGED <<links, req, now, red, put, history, acked>>

-----------------------------------------------------------------------------
(* Management requests *)

Committed ==
    history' = history \cup
       {[code |-> c, mapping |-> RedirectMappingFromLink(links'[c]),
         since |-> now] : c \in {k \in Codes : links'[k] # links[k]}}

(* Steps that do not touch the cache: Insert and FindByCode pass through   *)
(* CacheRefreshingRepository, and a failed Update returns early.  No row   *)
(* fails the table's check here (CheckFails): in ticks that the table keeps*)
(* an expiration after the link's creation stays after it.                 *)
ManagementStep(r) ==
    /\ Begin(r, now) \/ Commit(r) \/ Conflict(r) \/ Fail(r)
    /\ Committed
    /\ UNCHANGED <<cache, now, red, put, acked>>

CreateStep(c) ==
    /\ Create(c, now)
    /\ Committed
    /\ UNCHANGED <<cache, now, red, put, acked>>

(* Seeded fault: the cache is written before the database.                 *)
RefreshFirst(r) ==
    /\ req[r].pc = "update"
    /\ SendPut(r, req[r].code, RedirectMappingFromLink(req[r].next),
               req[r].next.updatedAt)
    /\ UNCHANGED <<links, req, cache, now, red, history, acked>>

(* RedirectCacheRefresher.Refresh, after the durable update.               *)
Refresh(r) ==
    /\ req[r].pc = "committed"
    /\ SendPut(r, req[r].code, RedirectMappingFromLink(req[r].next),
               req[r].next.updatedAt)
    /\ UNCHANGED <<links, req, cache, now, red, history, acked>>

RespondStep(r) ==
    /\ PutReturned(r)
    /\ Respond(r)
    /\ acked' = [acked EXCEPT ![req[r].code] =
                   IF req[r].next.version > @ THEN req[r].next.version ELSE @]
    /\ UNCHANGED <<cache, now, red, put, history>>

-----------------------------------------------------------------------------
(* Redirects: RedirectLink.Execute over CacheAsideResolver.Resolve *)

(* cache.Get hits, or misses, or fails: a failure is handled like a miss.  *)
StartRedirect(d, c) ==
    /\ red[d].pc \in {"idle", "done"}
    /\ put[d].stage # "sent"
    /\ \/ /\ Cached(c)
          /\ red' = [red EXCEPT ![d] =
                       [pc |-> "resolved", code |-> c,
                        mapping |-> cache[c].mapping, since |-> now,
                        floor |-> acked[c], answer |-> "none"]]
       \/ /\ ~Cached(c) \/ "redis" \in Faults
          /\ red' = [red EXCEPT ![d] =
                       [pc |-> "source", code |-> c, mapping |-> NoEntry,
                        since |-> now, floor |-> acked[c],
                        answer |-> "none"]]
    /\ put' = [put EXCEPT ![d] = NoPut]
    /\ UNCHANGED <<links, req, cache, now, history, acked>>

(* The redirect of handler d is over.                                      *)
Answered(d, answer) ==
    red' = [red EXCEPT ![d] = [@ EXCEPT !.pc = "done", !.since = 0,
                                        !.answer = answer]]

ReadSource(d) ==
    /\ red[d].pc = "source"
    /\ \/ /\ Exists(red[d].code)
          /\ red' = [red EXCEPT ![d] =
                       [@ EXCEPT !.pc = "fill",
                                 !.mapping = RedirectMappingFromLink(
                                                links[red[d].code])]]
       \/ ~Exists(red[d].code) /\ Answered(d, "notFound")
    /\ UNCHANGED <<links, req, cache, now, put, history, acked>>

SourceFails(d) ==
    /\ "database" \in Faults
    /\ red[d].pc = "source"
    /\ Answered(d, "error")
    /\ UNCHANGED <<links, req, cache, now, put, history, acked>>

StartFill(d) ==
    /\ red[d].pc = "fill"
    /\ SendPut(d, red[d].code, red[d].mapping, red[d].since)
    /\ UNCHANGED <<links, req, cache, now, red, history, acked>>

FinishFill(d) ==
    /\ red[d].pc = "fill"
    /\ PutReturned(d)
    /\ red' = [red EXCEPT ![d] = [@ EXCEPT !.pc = "resolved"]]
    /\ UNCHANGED <<links, req, cache, now, put, history, acked>>

Answer(d) ==
    /\ red[d].pc = "resolved"
    /\ Answered(d, IF CanRedirect(red[d].mapping, now)
                   THEN "found" ELSE "unavailable")
    /\ UNCHANGED <<links, req, cache, now, put, history, acked>>

-----------------------------------------------------------------------------
(* Time *)

InTime(since) == now < since + Latency

Tick ==
    /\ now + 1 \in Times
    /\ \A r \in Requests :
         req[r].pc \in {"update", "committed"} => InTime(req[r].next.updatedAt)
    /\ \A d \in Redirects :
         red[d].pc \in {"source", "fill", "resolved"} => InTime(red[d].since)
    /\ \A a \in Handlers : put[a].stage = "sent" => InTime(put[a].since)
    /\ now' = now + 1
    /\ ExpireKeys(now + 1)
    /\ UNCHANGED <<links, req, red, put, history, acked>>

-----------------------------------------------------------------------------
HandleRedirect(d) ==
    ReadSource(d) \/ StartFill(d) \/ FinishFill(d) \/ Answer(d)

SystemNext ==
    \/ \E c \in Codes : CreateStep(c) \/ Evict(c)
    \/ \E r \in Requests : ManagementStep(r) \/ Refresh(r) \/ RespondStep(r)
    \/ \E d \in Redirects :
         (\E c \in Codes : StartRedirect(d, c))
           \/ HandleRedirect(d) \/ SourceFails(d)
    \/ \E a \in Handlers : ApplyPut(a) \/ LosePut(a)
    \/ Tick

SystemSpec == SystemInit /\ [][SystemNext]_systemVars

(* The handlers' own steps are fair; Redis need never execute a command nor*)
(* even refuse it.                                                         *)
FairSystemSpec ==
    SystemSpec /\ \A d \in Redirects : WF_systemVars(HandleRedirect(d))

-----------------------------------------------------------------------------
(* Properties *)

SystemTypeOK ==
    /\ ManagementTypeOK
    /\ CacheTypeOK
    /\ red \in [Redirects -> RedirectStates]
    /\ put \in [Handlers -> PutStates]
    /\ \A a \in Handlers : put[a].stage = "sent" => put[a].ttl > 0
    /\ \A e \in history :
         e \in [code : Codes, mapping : RedirectMappings, since : Nat]
    /\ acked \in [Codes -> Nat]

WasCommitted(c, m) ==
    \E e \in history : e.code = c /\ e.mapping = m

(* No redirect ever works with a link state that nobody committed: what the*)
(* cache holds, what is on its way to it and what a redirect has resolved  *)
(* is the projection of one committed version of that very code.  Failed   *)
(* and conflicting updates leave no trace, fields of two versions never mix.*)
OnlyCommittedMappings ==
    /\ \A c \in Codes : Cached(c) => WasCommitted(c, cache[c].mapping)
    /\ \A a \in Handlers :
         put[a].stage = "sent" => WasCommitted(put[a].code, put[a].mapping)
    /\ \A d \in Redirects :
         red[d].mapping # NoEntry
           => WasCommitted(red[d].code, red[d].mapping)

MaxTTL == IF ActiveTTL > InactiveTTL THEN ActiveTTL ELSE InactiveTTL

(* Staleness is bounded whatever fails: a cached version that has been     *)
(* superseded is gone at most one TTL and one handler's time in flight     *)
(* after the newer version was committed, since older versions cannot be   *)
(* read, hence refilled, any more; and the entry of a link that expires is *)
(* gone at most one time in flight after it.                               *)
StalenessBounded ==
    \A c \in Codes :
       Cached(c) =>
          /\ \A e \in history :
               e.code = c /\ e.mapping.version > cache[c].mapping.version
               => cache[c].deadline <= e.since + Latency + MaxTTL
          /\ cache[c].mapping.expiresAt # NoExpiry
               => cache[c].deadline <= cache[c].mapping.expiresAt + Latency

(* A redirect that begins after the client was told of a mutation works    *)
(* with that mutation or a later one ("Mutation changes the next redirect").*)
MutationChangesNextRedirect ==
    \A d \in Redirects :
       red[d].mapping # NoEntry => red[d].mapping.version >= red[d].floor

(* No cache write, however delayed, installs a mapping that an acknowledged*)
(* mutation has replaced ("Version checks prevent delayed fills from       *)
(* restoring older mappings").                                             *)
DelayedFillsRestoreNothing ==
    [][\A c \in Codes :
         cache'[c] # cache[c] /\ cache'[c] # NoEntry
         => cache'[c].mapping.version >= acked[c]]_systemVars

(* Redis cannot hang a redirect: each one is answered although commands to *)
(* Redis may neither be executed nor refused.                              *)
RedirectsAnswered ==
    \A d \in Redirects : red[d].pc = "source" ~> red[d].pc = "done"
=============================================================================
