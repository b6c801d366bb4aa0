------------------------ MODULE RedirectSystemProofs ------------------------
(***************************************************************************)
(* Proofs about RedirectSystem, for every set of codes, handlers, clock    *)
(* readings and faults, and every TTL and latency.                         *)
(*                                                                         *)
(* The cache path does not touch the store, so the system implements       *)
(* LinkManagement and its invariant carries over.  OnlyCommittedMappings   *)
(* becomes inductive with the origin of every mapping: the stored link and *)
(* the copy of a request that has committed are in the history.            *)
(*                                                                         *)
(* The bound on a cached entry (StalenessBounded) comes from the command   *)
(* that wrote it, and that of the command from its handler: what a handler *)
(* holds was current when the handler began, so whatever supersedes it was *)
(* committed after that, and the handler has been in flight for Latency at *)
(* most.  FreshnessInv follows this argument from the source to the cache. *)
(* That an entry outlives its link by Latency at most follows in the same  *)
(* way: its TTL was cut to the link's life after the handler began.        *)
(***************************************************************************)
EXTENDS RedirectSystem, LinkManagementProofs

(* A redirect on its way to the source has a code, one with a cache write  *)
(* ahead of it has read a mapping.                                         *)
RedirectInv(d) ==
    /\ red[d].pc = "source" => red[d].code \in Codes
    /\ red[d].pc = "fill" => red[d].mapping # NoEntry

(* Every command carries a TTL that Redis accepts.                         *)
SoundPuts == {p \in PutStates : p.stage = "sent" => p.ttl > 0}

SystemInv ==
    /\ ManagementInv
    /\ SystemTypeOK
    /\ \A c \in Codes :
         Exists(c) => WasCommitted(c, RedirectMappingFromLink(links[c]))
    /\ \A r \in Requests :
         req[r].pc = "committed"
         => WasCommitted(req[r].code, RedirectMappingFromLink(req[r].next))
    /\ \A d \in Redirects : RedirectInv(d)
    /\ OnlyCommittedMappings

-----------------------------------------------------------------------------
(* The system's steps are management steps *)

LEMMA SystemStepIsManagementStep ==
    ASSUME SystemTypeOK, [SystemNext]_systemVars
    PROVE  [ManagementNext]_managementVars
  <1>1. now \in Times
    BY DEF SystemTypeOK, CacheTypeOK
  <1>2. ASSUME NEW c \in Codes, CreateStep(c)
        PROVE  ManagementNext
    BY <1>1, <1>2 DEF CreateStep, ManagementNext
  <1>3. ASSUME NEW r \in Requests, ManagementStep(r) \/ RespondStep(r)
        PROVE  ManagementNext
    BY <1>1, <1>3 DEF ManagementStep, RespondStep, ManagementNext, Finish
  <1>4. ASSUME NEW c \in Codes, Evict(c)
        PROVE  UNCHANGED managementVars
    BY <1>4 DEF Evict, managementVars
  <1>5. ASSUME NEW r \in Requests, Refresh(r)
        PROVE  UNCHANGED managementVars
    BY <1>5 DEF Refresh, managementVars
  <1>6. ASSUME NEW d \in Redirects,
               \/ \E c \in Codes : StartRedirect(d, c)
               \/ HandleRedirect(d)
               \/ SourceFails(d)
        PROVE  UNCHANGED managementVars
    BY <1>6
    DEF StartRedirect, HandleRedirect, ReadSource, StartFill, FinishFill,
        Answer, SourceFails, managementVars
  <1>7. ASSUME NEW a \in Handlers, ApplyPut(a) \/ LosePut(a)
        PROVE  UNCHANGED managementVars
    BY <1>7 DEF ApplyPut, LosePut, managementVars
  <1>8. Tick => UNCHANGED managementVars
    BY DEF Tick, managementVars
  <1>9. UNCHANGED systemVars => UNCHANGED managementVars
    BY DEF systemVars, managementVars
  <1> QED
    BY <1>2, <1>3, <1>4, <1>5, <1>6, <1>7, <1>8, <1>9 DEF SystemNext

-----------------------------------------------------------------------------
(* Mappings and TTLs *)

LEMMA ProjectionIsMapping ==
    ASSUME NEW l \in Links
    PROVE  /\ RedirectMappingFromLink(l) \in RedirectMappings
           /\ RedirectMappingFromLink(l).version = l.version
           /\ l.version \in Nat /\ l.updatedAt \in Nat
  BY TimesAssumption
  DEF Links, RedirectMappings, RedirectMappingFromLink, Versions, Timestamps

LEMMA CacheTTLIsPositive ==
    ASSUME NEW m \in RedirectMappings, NEW at \in Nat, ShouldCache(m, at)
    PROVE  CacheTTL(m, at) \in Nat \ {0}
  <1>1. ConfiguredTTL(m) \in Nat \ {0}
    BY TTLAssumption DEF ConfiguredTTL
  <1>2. m.expiresAt # NoExpiry => m.expiresAt \in Nat
    BY TimesAssumption DEF RedirectMappings, Expiries, Timestamps
  <1> QED
    BY <1>1, <1>2 DEF CacheTTL, ShouldCache

LEMMA SystemTypes ==
    ASSUME SystemInv
    PROVE  /\ links \in Stores
           /\ req \in [Requests -> RequestStates]
           /\ cache \in [Codes -> Entries \cup {NoEntry}]
           /\ now \in Times /\ now \in Nat
           /\ red \in [Redirects -> RedirectStates]
           /\ put \in [Handlers -> SoundPuts]
           /\ acked \in [Codes -> Nat]
  BY TimesAssumption
  DEF SystemInv, SystemTypeOK, SoundPuts, CacheTypeOK, ManagementInv,
      ManagementTypeOK

-----------------------------------------------------------------------------
(* Steps that commit: the history records every change of the store *)

(* Creations and management requests change the store, the history and the *)
(* requests, and nothing else.                                             *)
LEMMA CommittingStepPreservesInv ==
    ASSUME SystemInv, [ManagementNext]_managementVars,
           Committed, UNCHANGED <<cache, now, red, put, acked>>,
           \A r \in Requests :
              req'[r].pc = "committed"
              => \/ req'[r] = req[r]
                 \/ /\ req'[r].code \in Codes
                    /\ links'[req'[r].code] = req'[r].next
                    /\ links[req'[r].code] # req'[r].next
    PROVE  SystemInv'
  <1>1. ManagementInv' /\ links' \in Stores /\ Advances(links, links')
    BY NextPreservesInv, StoreAdvances DEF SystemInv
  <1>2. history \subseteq history'
    BY DEF Committed
  <1>3. ASSUME NEW c \in Codes, links'[c] # links[c]
        PROVE  \E e \in history' :
                  e.code = c /\ e.mapping = RedirectMappingFromLink(links'[c])
    <2> DEFINE e == [code |-> c,
                     mapping |-> RedirectMappingFromLink(links'[c]),
                     since |-> now]
    <2>1. e \in history'
      BY <1>3 DEF Committed
    <2>2. e.code = c /\ e.mapping = RedirectMappingFromLink(links'[c])
      OBVIOUS
    <2> QED
      BY <2>1, <2>2
  <1>4. ASSUME NEW e \in history'
        PROVE  e \in [code : Codes, mapping : RedirectMappings, since : Nat]
    <2>1. CASE e \in history
      BY <2>1 DEF SystemInv, SystemTypeOK
    <2>2. CASE e \notin history
      <3>1. PICK c \in Codes :
              /\ links'[c] # links[c]
              /\ e = [code |-> c,
                      mapping |-> RedirectMappingFromLink(links'[c]),
                      since |-> now]
        BY <1>4, <2>2 DEF Committed
      <3>2. links'[c] \in Links
        BY <1>1, <3>1, SystemTypes DEF Stores, Rows, Advances
      <3> QED
        BY <3>1, <3>2, ProjectionIsMapping, SystemTypes
    <2> QED
      BY <2>1, <2>2
  <1>5. SystemTypeOK'
    BY <1>1, <1>4
    DEF SystemInv, SystemTypeOK, CacheTypeOK, ManagementInv
  <1>6. ASSUME NEW c \in Codes, links'[c] # NoLink
        PROVE  \E e \in history' :
                  e.code = c /\ e.mapping = RedirectMappingFromLink(links'[c])
    <2>1. CASE links'[c] = links[c]
      <3>1. WasCommitted(c, RedirectMappingFromLink(links[c]))
        BY <1>6, <2>1 DEF SystemInv, Exists
      <3> QED
        BY <1>2, <2>1, <3>1 DEF WasCommitted
    <2>2. CASE links'[c] # links[c]
      BY <1>3, <2>2
    <2> QED
      BY <2>1, <2>2
  <1>7. ASSUME NEW r \in Requests, req'[r].pc = "committed"
        PROVE  \E e \in history' :
                  /\ e.code = req'[r].code
                  /\ e.mapping = RedirectMappingFromLink(req'[r].next)
    <2>1. CASE req'[r] = req[r]
      <3>1. WasCommitted(req[r].code, RedirectMappingFromLink(req[r].next))
        BY <1>7, <2>1 DEF SystemInv
      <3> QED
        BY <1>2, <2>1, <3>1 DEF WasCommitted
    <2>2. CASE req'[r] # req[r]
      BY <1>3, <1>7, <2>2
    <2> QED
      BY <2>1, <2>2
  <1>8. OnlyCommittedMappings'
    BY <1>2 DEF SystemInv, OnlyCommittedMappings, WasCommitted, Cached
  <1> QED
    BY <1>1, <1>5, <1>6, <1>7, <1>8
    DEF SystemInv, WasCommitted, Exists, RedirectInv

LEMMA CreateStepPreservesInv ==
    ASSUME SystemInv, NEW c \in Codes, CreateStep(c)
    PROVE  SystemInv'
  <1>1. [ManagementNext]_managementVars
    BY SystemTypes DEF CreateStep, ManagementNext
  <1>2. req' = req
    BY DEF CreateStep, Create
  <1> QED
    BY <1>1, <1>2, CommittingStepPreservesInv DEF CreateStep

LEMMA ManagementStepPreservesInv ==
    ASSUME SystemInv, NEW r \in Requests, ManagementStep(r)
    PROVE  SystemInv'
  <1>1. [ManagementNext]_managementVars
    BY SystemTypes DEF ManagementStep, ManagementNext, Finish
  <1>2. ASSUME NEW s \in Requests, req'[s].pc = "committed", req'[s] # req[s]
        PROVE  /\ req'[s].code \in Codes
               /\ links'[req'[s].code] = req'[s].next
               /\ links[req'[s].code] # req'[s].next
    <2>1. s = r
      <3>1. \E q : req' = [req EXCEPT ![r] = q]
        BY DEF ManagementStep, Begin, Get, Change, Commit, Conflict, Fail,
               FindFails, UpdateFails, CommitUnacknowledged, Abandon, Refused
      <3> QED
        BY <1>2, <3>1, SystemTypes
    <2>2. Commit(r)
      <3>1. CASE \E answer : Refused(r, answer)
        BY <1>2, <2>1, <3>1, SystemTypes DEF Refused, Idle
      <3>2. CASE Begin(r, now) \/ Conflict(r) \/ Fail(r)
        BY <1>2, <2>1, <3>1, <3>2, SystemTypes
        DEF Begin, Get, Change, Conflict, Fail, FindFails, UpdateFails,
            CommitUnacknowledged, Abandon
      <3> QED
        BY <3>2 DEF ManagementStep
    <2>3. VersionOf(req[r].base, req[r].code, links)
            /\ Mutant(req[r].next, req[r].base)
      BY <2>2 DEF SystemInv, ManagementInv, RequestInv, Commit
    <2>4. Update(req[r].code, req[r].next, req[r].base.version)
      BY <2>2 DEF Commit
    <2>5. /\ req'[r].code = req[r].code /\ req'[r].next = req[r].next
          /\ req[r].code \in Codes
      BY <2>2, <2>3, SystemTypes DEF Commit, VersionOf
    <2>6. /\ req[r].base = links[req[r].code]
          /\ req[r].next.version = req[r].base.version + 1
          /\ links' = [links EXCEPT ![req[r].code] = req[r].next]
      BY <2>3, <2>4, SystemTypes, UpdateInstallsNext, CoarseClockRow,
         TickAssumption
    <2>7. req[r].base.version \in Nat
      BY <2>3 DEF VersionOf, Links, Versions
    <2> QED
      BY <2>1, <2>5, <2>6, <2>7, SystemTypes DEF Stores
  <1> QED
    BY <1>1, <1>2, CommittingStepPreservesInv DEF ManagementStep

-----------------------------------------------------------------------------
(* Steps that do not commit *)

(* Such a step leaves the store, the history and the requests' copies alone,*)
(* and keeps every variable in its type; what is left to show is where the *)
(* mappings it moves come from.                                            *)
LEMMA QuietStepPreservesInv ==
    ASSUME SystemInv, UNCHANGED <<links, req, history, acked>>,
           cache' \in [Codes -> Entries \cup {NoEntry}],
           now' \in Times,
           red' \in [Redirects -> RedirectStates],
           put' \in [Handlers -> SoundPuts],
           \A d \in Redirects : RedirectInv(d)',
           OnlyCommittedMappings'
    PROVE  SystemInv'
  <1>1. ManagementInv'
    <2>1. [ManagementNext]_managementVars
      BY DEF managementVars
    <2> QED
      BY <2>1, NextPreservesInv DEF SystemInv
  <1>2. SystemTypeOK'
    BY <1>1
    DEF SystemInv, SystemTypeOK, SoundPuts, CacheTypeOK, ManagementInv
  <1> QED
    BY <1>1, <1>2 DEF SystemInv, WasCommitted, Exists

LEMMA SendPutTypes ==
    ASSUME SystemInv,
           NEW a \in Handlers, NEW c \in Codes, NEW m \in RedirectMappings,
           NEW since \in Nat, SendPut(a, c, m, since), WasCommitted(c, m)
    PROVE  /\ put' \in [Handlers -> SoundPuts]
           /\ \A b \in Handlers :
                put'[b].stage = "sent"
                => WasCommitted(put'[b].code, put'[b].mapping)
  <1> DEFINE p == IF ShouldCache(m, now)
                  THEN [stage |-> "sent", code |-> c, mapping |-> m,
                        ttl |-> CacheTTL(m, now), since |-> since]
                  ELSE PutIsOver
  <1>1. put' = [put EXCEPT ![a] = p]
    BY DEF SendPut
  <1>2. p \in SoundPuts
    BY SystemTypes, CacheTTLIsPositive
    DEF SoundPuts, PutStates, PutIsOver, NoPut
  <1>3. p.stage = "sent" => p.code = c /\ p.mapping = m
    BY DEF PutIsOver, NoPut
  <1> HIDE DEF p
  <1>4. \A b \in Handlers :
          put[b].stage = "sent" => WasCommitted(put[b].code, put[b].mapping)
    BY DEF SystemInv, OnlyCommittedMappings
  <1>5. put \in [Handlers -> SoundPuts]
    BY SystemTypes
  <1>6. put' \in [Handlers -> SoundPuts]
    BY <1>1, <1>2, <1>5
  <1>7. ASSUME NEW b \in Handlers, put'[b].stage = "sent"
        PROVE  WasCommitted(put'[b].code, put'[b].mapping)
    <2>1. CASE b = a
      BY <1>1, <1>3, <1>5, <1>7, <2>1
    <2>2. CASE b # a
      BY <1>1, <1>4, <1>5, <1>7, <2>2
    <2> QED
      BY <2>1, <2>2
  <1> QED
    BY <1>6, <1>7

LEMMA RefreshPreservesInv ==
    ASSUME SystemInv, NEW r \in Requests, Refresh(r)
    PROVE  SystemInv'
  <1> DEFINE m == RedirectMappingFromLink(req[r].next)
  <1>1. UNCHANGED <<links, req, cache, now, red, history, acked>>
    BY DEF Refresh
  <1>2. /\ req[r].next \in Links /\ req[r].code \in Codes
        /\ WasCommitted(req[r].code, m)
    BY DEF Refresh, SystemInv, ManagementInv, RequestInv, Knows, HasWritten,
           VersionOf
  <1>3. m \in RedirectMappings /\ req[r].next.updatedAt \in Nat
    BY <1>2, ProjectionIsMapping
  <1>4. r \in Handlers /\ SendPut(r, req[r].code, m, req[r].next.updatedAt)
    BY DEF Refresh, Handlers
  <1> HIDE DEF m
  <1>5. /\ put' \in [Handlers -> SoundPuts]
        /\ \A b \in Handlers :
             put'[b].stage = "sent"
             => WasCommitted(put'[b].code, put'[b].mapping)
    BY <1>2, <1>3, <1>4, SendPutTypes
  <1>6. OnlyCommittedMappings'
    BY <1>1, <1>5 DEF SystemInv, OnlyCommittedMappings, WasCommitted, Cached
  <1> QED
    BY <1>1, <1>5, <1>6, SystemTypes, QuietStepPreservesInv
    DEF SystemInv, RedirectInv

LEMMA RespondStepPreservesInv ==
    ASSUME SystemInv, NEW r \in Requests, RespondStep(r)
    PROVE  SystemInv'
  <1>1. /\ UNCHANGED <<links, cache, now, red, put, history>>
        /\ Respond(r)
    BY DEF RespondStep, Respond
  <1>2. ManagementInv'
    BY <1>1, RespondPreservesInv DEF SystemInv
  <1>3. req[r].next \in Links /\ req[r].next.version \in Nat
    BY <1>1, ProjectionIsMapping
    DEF Respond, SystemInv, ManagementInv, RequestInv, Knows, HasWritten,
        VersionOf
  <1>4. acked' \in [Codes -> Nat]
    BY <1>3, SystemTypes DEF RespondStep
  <1>5. SystemTypeOK'
    BY <1>1, <1>2, <1>4 DEF SystemInv, SystemTypeOK, CacheTypeOK, ManagementInv
  <1>6. \A s \in Requests : req'[s].pc = "committed" => req'[s] = req[s]
    BY <1>1, SystemTypes DEF Respond
  <1> QED
    BY <1>1, <1>2, <1>5, <1>6
    DEF SystemInv, OnlyCommittedMappings, WasCommitted, Cached, Exists,
        RedirectInv

LEMMA StartRedirectPreservesInv ==
    ASSUME SystemInv, NEW d \in Redirects, NEW c \in Codes,
           StartRedirect(d, c)
    PROVE  SystemInv'
  <1>1. /\ UNCHANGED <<links, req, cache, now, history, acked>>
        /\ put' = [put EXCEPT ![d] = NoPut]
    BY DEF StartRedirect
  <1>2. /\ put' \in [Handlers -> SoundPuts]
        /\ \A b \in Handlers :
             put'[b].stage = "sent"
             => WasCommitted(put'[b].code, put'[b].mapping)
    BY <1>1, SystemTypes
    DEF NoPut, SoundPuts, PutStates, SystemInv, OnlyCommittedMappings
  <1>3. PICK q \in RedirectStates :
          /\ red' = [red EXCEPT ![d] = q]
          /\ q.mapping # NoEntry => WasCommitted(q.code, q.mapping)
          /\ q.code \in Codes /\ q.pc # "fill"
    <2>1. CASE Cached(c) /\ red' = [red EXCEPT ![d] =
                 [pc |-> "resolved", code |-> c, mapping |-> cache[c].mapping,
                  since |-> now, floor |-> acked[c], answer |-> "none"]]
      <3>1. cache[c].mapping \in RedirectMappings
        BY <2>1, SystemTypes DEF Cached, Entries
      <3>2. WasCommitted(c, cache[c].mapping)
        BY <2>1 DEF SystemInv, OnlyCommittedMappings
      <3> DEFINE q == [pc |-> "resolved", code |-> c,
                       mapping |-> cache[c].mapping, since |-> now,
                       floor |-> acked[c], answer |-> "none"]
      <3>3. q \in RedirectStates
        BY <3>1, SystemTypes DEF RedirectStates, RedirectPcs, RedirectAnswers
      <3> QED
        BY <2>1, <3>2, <3>3
    <2>2. CASE red' = [red EXCEPT ![d] =
                 [pc |-> "source", code |-> c, mapping |-> NoEntry,
                  since |-> now, floor |-> acked[c], answer |-> "none"]]
      <3> DEFINE q == [pc |-> "source", code |-> c, mapping |-> NoEntry,
                       since |-> now, floor |-> acked[c], answer |-> "none"]
      <3>1. q \in RedirectStates
        BY SystemTypes DEF RedirectStates, RedirectPcs, RedirectAnswers
      <3> QED
        BY <2>2, <3>1
    <2> QED
      BY <2>1, <2>2 DEF StartRedirect
  <1>4. red' \in [Redirects -> RedirectStates]
    BY <1>3, SystemTypes
  <1>5. ASSUME NEW e \in Redirects, red'[e].mapping # NoEntry
        PROVE  WasCommitted(red'[e].code, red'[e].mapping)
    BY <1>3, <1>5, SystemTypes DEF SystemInv, OnlyCommittedMappings
  <1>6. OnlyCommittedMappings'
    BY <1>1, <1>2, <1>5
    DEF SystemInv, OnlyCommittedMappings, WasCommitted, Cached
  <1>7. \A e \in Redirects : RedirectInv(e)'
    BY <1>3, SystemTypes DEF SystemInv, RedirectInv
  <1> QED
    BY <1>1, <1>2, <1>4, <1>6, <1>7, SystemTypes, QuietStepPreservesInv

(* A redirect's own step that sends nothing: it drops or keeps its mapping,*)
(* or takes one that was committed.                                        *)
LEMMA RedirectStepPreservesInv ==
    ASSUME SystemInv, UNCHANGED <<links, req, cache, now, put, history, acked>>,
           NEW d \in Redirects, NEW q \in RedirectStates,
           red' = [red EXCEPT ![d] = q],
           q.pc \notin {"source", "fill"} \/ q.mapping # NoEntry,
           q.pc = "source" => q.code \in Codes,
           q.mapping # NoEntry => WasCommitted(q.code, q.mapping)
    PROVE  SystemInv'
  <1>1. red' \in [Redirects -> RedirectStates]
    BY SystemTypes
  <1>2. \A e \in Redirects : RedirectInv(e)'
    BY SystemTypes DEF SystemInv, RedirectInv
  <1>3. ASSUME NEW e \in Redirects, red'[e].mapping # NoEntry
        PROVE  WasCommitted(red'[e].code, red'[e].mapping)
    BY <1>3, SystemTypes DEF SystemInv, OnlyCommittedMappings
  <1>4. OnlyCommittedMappings'
    BY <1>3 DEF SystemInv, OnlyCommittedMappings, WasCommitted, Cached
  <1> QED
    BY <1>1, <1>2, <1>4, SystemTypes, QuietStepPreservesInv

LEMMA AnsweredPreservesInv ==
    ASSUME SystemInv, UNCHANGED <<links, req, cache, now, put, history, acked>>,
           NEW d \in Redirects, NEW answer \in RedirectAnswers,
           Answered(d, answer)
    PROVE  SystemInv'
  <1> DEFINE q == [red[d] EXCEPT !.pc = "done", !.since = 0, !.answer = answer]
  <1>1. red[d] \in RedirectStates
    BY SystemTypes
  <1>2. q \in RedirectStates
    BY <1>1 DEF RedirectStates, RedirectPcs
  <1>3. /\ q.pc = "done" /\ q.code = red[d].code
        /\ q.mapping = red[d].mapping
    BY <1>1 DEF RedirectStates
  <1>4. red' = [red EXCEPT ![d] = q]
    BY DEF Answered
  <1> HIDE DEF q
  <1>5. q.mapping # NoEntry => WasCommitted(q.code, q.mapping)
    BY <1>3 DEF SystemInv, OnlyCommittedMappings
  <1> QED
    BY <1>2, <1>3, <1>4, <1>5, RedirectStepPreservesInv

LEMMA ReadSourcePreservesInv ==
    ASSUME SystemInv, NEW d \in Redirects, ReadSource(d)
    PROVE  SystemInv'
  <1> DEFINE c == red[d].code
             m == RedirectMappingFromLink(links[c])
             q == [red[d] EXCEPT !.pc = "fill", !.mapping = m]
  <1>1. UNCHANGED <<links, req, cache, now, put, history, acked>>
    BY DEF ReadSource
  <1>2. CASE Answered(d, "notFound")
    BY <1>1, <1>2, AnsweredPreservesInv DEF RedirectAnswers
  <1>3. CASE Exists(c) /\ red' = [red EXCEPT ![d] = q]
    <2>1. c \in Codes /\ red[d] \in RedirectStates
      BY SystemTypes DEF ReadSource, SystemInv, RedirectInv
    <2>2. links[c] \in Links /\ WasCommitted(c, m)
      BY <1>3, <2>1, SystemTypes DEF SystemInv, Exists, Stores, Rows
    <2>3. m \in RedirectMappings
      BY <2>2, ProjectionIsMapping
    <2> HIDE DEF m, c
    <2>4. q \in RedirectStates
      BY <2>1, <2>3 DEF RedirectStates, RedirectPcs
    <2>5. q.pc = "fill" /\ q.mapping = m /\ q.code = c
      BY <2>1 DEF RedirectStates, c
    <2> HIDE DEF q
    <2> QED
      BY <1>1, <1>3, <2>2, <2>3, <2>4, <2>5, NoEntryAssumption,
         RedirectStepPreservesInv
  <1> QED
    BY <1>2, <1>3 DEF ReadSource

LEMMA StartFillPreservesInv ==
    ASSUME SystemInv, NEW d \in Redirects, StartFill(d)
    PROVE  SystemInv'
  <1>1. /\ UNCHANGED <<links, req, cache, now, red, history, acked>>
        /\ d \in Handlers
        /\ SendPut(d, red[d].code, red[d].mapping, red[d].since)
    BY DEF StartFill, Handlers
  <1>2. red[d] \in RedirectStates /\ red[d].mapping # NoEntry
    BY SystemTypes DEF StartFill, SystemInv, RedirectInv
  <1>3. WasCommitted(red[d].code, red[d].mapping)
    BY <1>2 DEF SystemInv, OnlyCommittedMappings
  <1>4. /\ red[d].code \in Codes /\ red[d].mapping \in RedirectMappings
        /\ red[d].since \in Nat
    BY <1>2, <1>3 DEF WasCommitted, SystemInv, SystemTypeOK, RedirectStates
  <1>5. /\ put' \in [Handlers -> SoundPuts]
        /\ \A b \in Handlers :
             put'[b].stage = "sent"
             => WasCommitted(put'[b].code, put'[b].mapping)
    BY <1>1, <1>3, <1>4, SendPutTypes
  <1>6. OnlyCommittedMappings'
    BY <1>1, <1>5 DEF SystemInv, OnlyCommittedMappings, WasCommitted, Cached
  <1> QED
    BY <1>1, <1>5, <1>6, SystemTypes, QuietStepPreservesInv
    DEF SystemInv, RedirectInv

LEMMA FinishFillPreservesInv ==
    ASSUME SystemInv, NEW d \in Redirects, FinishFill(d)
    PROVE  SystemInv'
  <1> DEFINE q == [red[d] EXCEPT !.pc = "resolved"]
  <1>1. /\ UNCHANGED <<links, req, cache, now, put, history, acked>>
        /\ red' = [red EXCEPT ![d] = q]
        /\ red[d] \in RedirectStates
    BY SystemTypes DEF FinishFill
  <1>2. q \in RedirectStates
    BY <1>1 DEF RedirectStates, RedirectPcs
  <1>3. /\ q.pc = "resolved" /\ q.code = red[d].code
        /\ q.mapping = red[d].mapping
    BY <1>1 DEF RedirectStates
  <1> HIDE DEF q
  <1>4. q.mapping # NoEntry => WasCommitted(q.code, q.mapping)
    BY <1>3 DEF SystemInv, OnlyCommittedMappings
  <1> QED
    BY <1>1, <1>2, <1>3, <1>4, RedirectStepPreservesInv

LEMMA HandleRedirectPreservesInv ==
    ASSUME SystemInv, NEW d \in Redirects, HandleRedirect(d) \/ SourceFails(d)
    PROVE  SystemInv'
  <1>1. CASE Answer(d) \/ SourceFails(d)
    BY <1>1, AnsweredPreservesInv DEF Answer, SourceFails, RedirectAnswers
  <1> QED
    BY <1>1, ReadSourcePreservesInv, StartFillPreservesInv,
       FinishFillPreservesInv DEF HandleRedirect

(* A cache that holds fewer entries, or the same ones, is no worse.        *)
LEMMA CacheLossPreservesInv ==
    ASSUME SystemInv, UNCHANGED <<links, req, red, put, history, acked>>,
           now' \in Times,
           cache' \in [Codes -> Entries \cup {NoEntry}],
           \A c \in Codes : cache'[c] \in {cache[c], NoEntry}
    PROVE  SystemInv'
  <1>1. OnlyCommittedMappings'
    BY DEF SystemInv, OnlyCommittedMappings, WasCommitted, Cached
  <1> QED
    BY <1>1, SystemTypes, QuietStepPreservesInv DEF SystemInv, RedirectInv

LEMMA ApplyPutPreservesInv ==
    ASSUME SystemInv, NEW a \in Handlers, ApplyPut(a)
    PROVE  SystemInv'
  <1> DEFINE c == put[a].code
             m == put[a].mapping
             entry == [mapping |-> m, deadline |-> now + put[a].ttl]
  <1>1. /\ UNCHANGED <<links, req, now, red, history, acked>>
        /\ put' = [put EXCEPT ![a] = PutIsOver]
        /\ put[a] \in SoundPuts
        /\ WasCommitted(c, m)
    BY SystemTypes DEF ApplyPut, SystemInv, OnlyCommittedMappings
  <1>2. c \in Codes /\ m \in RedirectMappings /\ put[a].ttl \in Nat
    BY <1>1
    DEF WasCommitted, SystemInv, SystemTypeOK, SoundPuts, PutStates
  <1>3. entry \in Entries /\ entry.mapping = m
    BY <1>2, SystemTypes DEF Entries
  <1>4. cache' = cache \/ cache' = [cache EXCEPT ![c] = entry]
    BY DEF ApplyPut, PutIfNewer
  <1>5. /\ PutIsOver \in SoundPuts /\ PutIsOver.stage = "over"
    BY DEF PutIsOver, NoPut, SoundPuts, PutStates
  <1> HIDE DEF c, m, entry
  <1>6. cache' \in [Codes -> Entries \cup {NoEntry}]
    BY <1>3, <1>4, SystemTypes
  <1>7. put' \in [Handlers -> SoundPuts]
    BY <1>1, <1>5, SystemTypes
  <1>8. ASSUME NEW k \in Codes, cache'[k] # NoEntry
        PROVE  WasCommitted(k, cache'[k].mapping)
    <2>1. cache'[k] = cache[k] \/ (k = c /\ cache'[k] = entry)
      BY <1>2, <1>4, SystemTypes
    <2> QED
      BY <1>1, <1>3, <1>8, <2>1 DEF SystemInv, OnlyCommittedMappings, Cached
  <1>9. ASSUME NEW b \in Handlers, put'[b].stage = "sent"
        PROVE  WasCommitted(put'[b].code, put'[b].mapping)
    <2>1. b # a /\ put'[b] = put[b]
      BY <1>1, <1>5, <1>9, SystemTypes
    <2> QED
      BY <1>9, <2>1 DEF SystemInv, OnlyCommittedMappings
  <1>10. OnlyCommittedMappings'
    BY <1>1, <1>8, <1>9
    DEF SystemInv, OnlyCommittedMappings, WasCommitted, Cached
  <1> QED
    BY <1>1, <1>6, <1>7, <1>10, SystemTypes, QuietStepPreservesInv
    DEF SystemInv, RedirectInv

LEMMA LosePutPreservesInv ==
    ASSUME SystemInv, NEW a \in Handlers, LosePut(a)
    PROVE  SystemInv'
  <1>1. /\ UNCHANGED <<links, req, cache, now, red, history, acked>>
        /\ put' = [put EXCEPT ![a] = PutIsOver]
    BY DEF LosePut
  <1>2. PutIsOver \in SoundPuts /\ PutIsOver.stage = "over"
    BY DEF PutIsOver, NoPut, SoundPuts, PutStates
  <1>3. put' \in [Handlers -> SoundPuts]
    BY <1>1, <1>2, SystemTypes
  <1>4. \A b \in Handlers : put'[b].stage = "sent" => put'[b] = put[b]
    BY <1>1, <1>2, SystemTypes
  <1>5. OnlyCommittedMappings'
    BY <1>1, <1>4 DEF SystemInv, OnlyCommittedMappings, WasCommitted, Cached
  <1> QED
    BY <1>1, <1>3, <1>5, SystemTypes, QuietStepPreservesInv
    DEF SystemInv, RedirectInv

LEMMA SystemNextPreservesInv ==
    ASSUME SystemInv, [SystemNext]_systemVars
    PROVE  SystemInv'
  <1>1. ASSUME NEW c \in Codes, Evict(c)
        PROVE  SystemInv'
    BY <1>1, SystemTypes, CacheLossPreservesInv DEF Evict
  <1>2. CASE Tick
    BY <1>2, SystemTypes, CacheLossPreservesInv DEF Tick, ExpireKeys
  <1>3. CASE UNCHANGED systemVars
    BY <1>3, SystemTypes, CacheLossPreservesInv DEF systemVars
  <1> QED
    BY <1>1, <1>2, <1>3, CreateStepPreservesInv, ManagementStepPreservesInv,
       RefreshPreservesInv, RespondStepPreservesInv,
       StartRedirectPreservesInv, HandleRedirectPreservesInv,
       ApplyPutPreservesInv, LosePutPreservesInv
    DEF SystemNext

LEMMA SystemInitEstablishesInv ==
    SystemInit => SystemInv
  <1> SUFFICES ASSUME SystemInit
               PROVE  SystemInv
    OBVIOUS
  <1>1. ManagementInv
    BY InitEstablishesInv DEF SystemInit
  <1>2. /\ IdleRedirect \in RedirectStates /\ IdleRedirect.mapping = NoEntry
        /\ IdleRedirect.pc = "idle"
    BY DEF IdleRedirect, RedirectStates, RedirectPcs, RedirectAnswers
  <1>3. NoPut \in PutStates /\ NoPut.stage # "sent"
    BY DEF NoPut, PutStates
  <1>4. SystemTypeOK
    BY <1>1, <1>2, <1>3
    DEF SystemInit, SystemTypeOK, ManagementInv, CacheInit, CacheTypeOK
  <1>5. \A c \in Codes : ~Exists(c)
    BY DEF SystemInit, ManagementInit, RepositoryInit, Exists
  <1>6. \A r \in Requests : req[r].pc # "committed"
    BY DEF SystemInit, ManagementInit, Idle
  <1>7. (\A d \in Redirects : RedirectInv(d)) /\ OnlyCommittedMappings
    BY <1>2, <1>3
    DEF SystemInit, CacheInit, RedirectInv, OnlyCommittedMappings, Cached
  <1> QED
    BY <1>1, <1>4, <1>5, <1>6, <1>7 DEF SystemInv

-----------------------------------------------------------------------------
(* Theorems *)

(* Every reachable state satisfies the system's inductive invariant.       *)
THEOREM SystemInvariant == SystemSpec => []SystemInv
  <1> QED
    BY SystemInitEstablishesInv, SystemNextPreservesInv, PTL DEF SystemSpec

(* All variables of the cache path keep their types: every TTL sent to     *)
(* Redis is positive, every entry a mapping with a deadline.               *)
THEOREM SystemTypesHold == SystemSpec => []SystemTypeOK
  <1>1. SystemInv => SystemTypeOK
    BY DEF SystemInv
  <1> QED
    BY <1>1, SystemInvariant, PTL

(* Redirects only ever work with committed versions of the right link,     *)
(* whatever fails, races, is lost or is evicted.                           *)
THEOREM RedirectsUseCommittedMappings == SystemSpec => []OnlyCommittedMappings
  <1>1. SystemInv => OnlyCommittedMappings
    BY DEF SystemInv
  <1> QED
    BY <1>1, SystemInvariant, PTL

(* The redirect path leaves management alone: the whole system implements  *)
(* LinkManagement, and hence the atomic mutations of VersionedLinks.       *)
THEOREM SystemImplementsManagement == SystemSpec => ManagementSpec
  <1>1. SystemInit => ManagementInit
    BY DEF SystemInit
  <1>2. SystemInv /\ [SystemNext]_systemVars => [ManagementNext]_managementVars
    BY SystemStepIsManagementStep DEF SystemInv
  <1> QED
    BY <1>1, <1>2, SystemInvariant, PTL DEF SystemSpec, ManagementSpec

-----------------------------------------------------------------------------
(* StalenessBounded *)

(* A commit e replaced version v of code c.                                *)
Supersedes(e, c, m) == e.code = c /\ e.mapping.version > m.version

(* Whatever replaced m was committed at t or later.                        *)
CurrentAt(m, c, t, hist) ==
    \A e \in hist : Supersedes(e, c, m) => e.since >= t

InFlight(since, at) == since <= at /\ at <= since + Latency

(* Applied at the moment t, a TTL ends within the life of mapping m.       *)
EndsInLife(t, ttl, m) == m.expiresAt # NoExpiry => t + ttl <= m.expiresAt

(* What is known of a commit, a request, a redirect, a command, an entry.  *)
Past(e, at, store) ==
    /\ e.since <= at
    /\ store[e.code] # NoLink
    /\ e.mapping.version <= store[e.code].version

FreshRequest(q, at, hist) ==
    /\ q.pc \in {"update", "committed"} => InFlight(q.next.updatedAt, at)
    /\ q.pc = "committed" => CurrentAt(q.next, q.code, q.next.updatedAt, hist)

FreshRedirect(x, at, hist) ==
    /\ x.pc \in {"source", "fill", "resolved"} => InFlight(x.since, at)
    /\ x.pc = "fill" => CurrentAt(x.mapping, x.code, x.since, hist)

FreshPut(p, at, hist) ==
    p.stage = "sent" => /\ InFlight(p.since, at)
                        /\ p.ttl <= MaxTTL
                        /\ EndsInLife(p.since, p.ttl, p.mapping)
                        /\ CurrentAt(p.mapping, p.code, p.since, hist)

FreshEntry(k, c, at, hist) ==
    k # NoEntry => /\ k.deadline <= at + MaxTTL
                   /\ \A e \in hist :
                        Supersedes(e, c, k.mapping)
                        => k.deadline <= e.since + Latency + MaxTTL
                   /\ k.mapping.expiresAt # NoExpiry
                        => k.deadline <= k.mapping.expiresAt + Latency

FreshnessInv ==
    /\ \A e \in history : Past(e, now, links)
    /\ \A r \in Requests : FreshRequest(req[r], now, history)
    /\ \A d \in Redirects : FreshRedirect(red[d], now, history)
    /\ \A a \in Handlers : FreshPut(put[a], now, history)
    /\ \A c \in Codes : FreshEntry(cache[c], c, now, history)

-----------------------------------------------------------------------------
(* Types *)

LEMMA FreshTypes ==
    ASSUME SystemInv
    PROVE  /\ \A e \in history : /\ e.code \in Codes
                                 /\ e.since \in Nat
                                 /\ e.mapping.version \in Nat
           /\ \A c \in Codes : cache[c] # NoEntry =>
                 cache[c].deadline \in Nat /\ cache[c].mapping.version \in Nat
           /\ now \in Nat /\ Latency \in Nat /\ MaxTTL \in Nat
  BY SystemTypes, TTLAssumption, LatencyAssumption
  DEF SystemInv, SystemTypeOK, MaxTTL, RedirectMappings, Versions, Entries

LEMMA CacheTTLBounded ==
    ASSUME NEW m \in RedirectMappings, NEW at \in Nat, ShouldCache(m, at)
    PROVE  CacheTTL(m, at) <= MaxTTL /\ EndsInLife(at, CacheTTL(m, at), m)
  <1>1. ConfiguredTTL(m) \in Nat /\ ConfiguredTTL(m) <= MaxTTL /\ MaxTTL \in Nat
    BY TTLAssumption DEF ConfiguredTTL, MaxTTL
  <1>2. m.expiresAt # NoExpiry => m.expiresAt \in Nat
    BY TimesAssumption DEF RedirectMappings, Expiries, Timestamps
  <1> QED
    BY <1>1, <1>2 DEF CacheTTL, ShouldCache, EndsInLife

-----------------------------------------------------------------------------
(* Commits *)

(* A commit happens now: what was current since some earlier moment still  *)
(* was until then, and an entry already written ends soon enough.          *)
LEMMA CommitKeepsFresh ==
    ASSUME SystemInv, FreshnessInv,
           \A e \in history' : e \in history \/ e.since = now,
           UNCHANGED <<cache, now, red, put>>
    PROVE  /\ \A d \in Redirects : FreshRedirect(red'[d], now, history')
           /\ \A a \in Handlers : FreshPut(put'[a], now, history')
           /\ \A c \in Codes : FreshEntry(cache'[c], c, now, history')
           /\ \A r \in Requests : FreshRequest(req[r], now, history')
  <1>1. \A m, c, t : t <= now /\ CurrentAt(m, c, t, history)
                     => CurrentAt(m, c, t, history')
    BY DEF CurrentAt
  <1>2. ASSUME NEW d \in Redirects
        PROVE  FreshRedirect(red[d], now, history')
    BY <1>1 DEF FreshnessInv, FreshRedirect, InFlight
  <1>3. ASSUME NEW a \in Handlers
        PROVE  FreshPut(put[a], now, history')
    BY <1>1 DEF FreshnessInv, FreshPut, InFlight
  <1>4. ASSUME NEW r \in Requests
        PROVE  FreshRequest(req[r], now, history')
    BY <1>1 DEF FreshnessInv, FreshRequest, InFlight
  <1>5. ASSUME NEW c \in Codes
        PROVE  FreshEntry(cache[c], c, now, history')
    BY FreshTypes DEF FreshnessInv, FreshEntry
  <1> QED
    BY <1>2, <1>3, <1>4, <1>5

(* The new commits are of the links that changed, as they are now.         *)
LEMMA CommitsArePast ==
    ASSUME SystemInv, FreshnessInv, [ManagementNext]_managementVars, Committed
    PROVE  /\ \A e \in history' : e \in history \/ e.since = now
           /\ \A e \in history' : Past(e, now, links')
  <1>1. links' \in Stores /\ Advances(links, links')
    BY StoreAdvances DEF SystemInv
  <1>2. ASSUME NEW e \in history'
        PROVE  (e \in history \/ e.since = now) /\ Past(e, now, links')
    <2>1. CASE e \in history
      <3>1. /\ e.code \in Codes /\ e.mapping.version \in Nat
            /\ links[e.code] # NoLink
            /\ e.mapping.version <= links[e.code].version
            /\ e.since <= now
        BY <2>1, FreshTypes DEF FreshnessInv, Past
      <3>2. /\ links'[e.code] # NoLink
            /\ links[e.code].version <= links'[e.code].version
        BY <1>1, <3>1 DEF Advances
      <3>3. links[e.code].version \in Nat /\ links'[e.code].version \in Nat
        BY <1>1, <3>1, <3>2, SystemTypes DEF Stores, Rows, Links, Versions
      <3> QED
        BY <2>1, <3>1, <3>2, <3>3 DEF Past
    <2>2. CASE e \notin history
      <3>1. PICK c \in Codes :
              /\ links'[c] # links[c]
              /\ e = [code |-> c,
                      mapping |-> RedirectMappingFromLink(links'[c]),
                      since |-> now]
        BY <1>2, <2>2 DEF Committed
      <3>2. links'[c] \in Links /\ links'[c] # NoLink
        BY <1>1, <3>1, SystemTypes, NoLinkAssumption
        DEF Stores, Rows, Advances
      <3>3. e.since = now /\ e.code = c /\ e.mapping.version = links'[c].version
        BY <3>1, <3>2, ProjectionIsMapping
      <3>4. links'[c].version \in Nat /\ now \in Nat
        BY <3>2, ProjectionIsMapping, SystemTypes
      <3> QED
        BY <3>2, <3>3, <3>4 DEF Past
    <2> QED
      BY <2>1, <2>2
  <1> QED
    BY <1>2

LEMMA CommittingStepKeepsFresh ==
    ASSUME SystemInv, FreshnessInv, [ManagementNext]_managementVars,
           Committed, UNCHANGED <<cache, now, red, put>>,
           \A r \in Requests :
              req'[r] = req[r] \/ FreshRequest(req'[r], now, history')
    PROVE  FreshnessInv'
  <1>1. /\ \A e \in history' : e \in history \/ e.since = now
        /\ \A e \in history' : Past(e, now, links')
    BY CommitsArePast
  <1>2. /\ \A d \in Redirects : FreshRedirect(red'[d], now, history')
        /\ \A a \in Handlers : FreshPut(put'[a], now, history')
        /\ \A c \in Codes : FreshEntry(cache'[c], c, now, history')
        /\ \A r \in Requests : FreshRequest(req[r], now, history')
    BY <1>1, CommitKeepsFresh
  <1>3. \A r \in Requests : FreshRequest(req'[r], now, history')
    BY <1>2
  <1> QED
    BY <1>1, <1>2, <1>3 DEF FreshnessInv

LEMMA CreateKeepsFresh ==
    ASSUME SystemInv, FreshnessInv, NEW c \in Codes, CreateStep(c)
    PROVE  FreshnessInv'
  <1>1. [ManagementNext]_managementVars
    BY SystemTypes DEF CreateStep, ManagementNext
  <1>2. req' = req
    BY DEF CreateStep, Create
  <1> QED
    BY <1>1, <1>2, CommittingStepKeepsFresh DEF CreateStep

(* A mutation sets the time of the link to the reading it was given.       *)
LEMMA MutationIsNow ==
    ASSUME NEW l \in Links, NEW m \in Mutations, NEW at \in Times,
           NEW n \in Mutate(l, m, at)
    PROVE  n.updatedAt = at
  <1>1. PICK d \in Destinations, st \in Statuses, e \in Expiries :
          n = NextVersion(l, d, st, e, at)
    BY MutateIsNextVersion
  <1> QED
    BY <1>1 DEF NextVersion, Links

LEMMA ManagementStepKeepsFresh ==
    ASSUME SystemInv, FreshnessInv, NEW r \in Requests, ManagementStep(r)
    PROVE  FreshnessInv'
  <1>1. /\ [ManagementNext]_managementVars /\ Committed
        /\ UNCHANGED <<cache, now, red, put>>
    BY SystemTypes DEF ManagementStep, ManagementNext, Finish
  <1>2. \A e \in history' : e \in history \/ e.since = now
    BY <1>1, CommitsArePast
  <1>3. req \in [Requests -> RequestStates] /\ now \in Times /\ now \in Nat
    BY SystemTypes
  <1>4. ASSUME NEW q, req' = [req EXCEPT ![r] = q],
               q.pc \notin {"update", "committed"}
        PROVE  \A s \in Requests :
                  req'[s] = req[s] \/ FreshRequest(req'[s], now, history')
    <2>1. FreshRequest(q, now, history')
      BY <1>4 DEF FreshRequest
    <2> QED
      BY <1>3, <1>4, <2>1
  <1>5. CASE \E answer : Refused(r, answer)
    <2>1. PICK answer : Refused(r, answer)
      BY <1>5
    <2> DEFINE q == [Idle EXCEPT !.pc = "answered", !.answer = answer]
    <2>2. req' = [req EXCEPT ![r] = q] /\ q.pc = "answered"
      BY <2>1 DEF Refused, Idle
    <2> HIDE DEF q
    <2> QED
      BY <1>1, <1>4, <2>2, CommittingStepKeepsFresh
  <1>6. CASE \E c \in Codes, o \in Owners :
               /\ Get(r, c, o)
               /\ ~(\E answer : Refused(r, answer))
    <2>1. PICK c \in Codes, o \in Owners :
            Get(r, c, o) /\ ~(\E answer : Refused(r, answer))
      BY <1>6
    <2> DEFINE q == [pc |-> "answered", code |-> c, base |-> links[c],
                     next |-> links[c], answer |-> "read"]
    <2>2. req' = [req EXCEPT ![r] = q] /\ q.pc = "answered"
      BY <2>1 DEF Get
    <2> HIDE DEF q
    <2> QED
      BY <1>1, <1>4, <2>2, CommittingStepKeepsFresh
  <1>7. CASE Conflict(r)
    <2> DEFINE q == [pc |-> "answered", code |-> req[r].code,
                     base |-> req[r].base, next |-> NoLink,
                     answer |-> "conflict"]
    <2>1. req' = [req EXCEPT ![r] = q] /\ q.pc = "answered"
      BY <1>3, <1>7 DEF Conflict
    <2> HIDE DEF q
    <2> QED
      BY <1>1, <1>4, <2>1, CommittingStepKeepsFresh
  <1>8. ASSUME NEW c \in Codes, NEW o \in Owners, NEW version,
               NEW m \in Mutations, Change(r, c, o, version, m, now),
               ~(\E answer : Refused(r, answer))
        PROVE  FreshnessInv'
    <2>1. links[c] \in Links
      BY <1>8, SystemTypes DEF Change, Visible, Exists, Stores, Rows
    <2>2. PICK l \in Mutate(links[c], m, now) :
            req' = [req EXCEPT ![r] =
                      [pc |-> "update", code |-> c, base |-> links[c],
                       next |-> l, answer |-> "none"]]
      BY <1>8 DEF Change
    <2> DEFINE q == [pc |-> "update", code |-> c, base |-> links[c],
                     next |-> l, answer |-> "none"]
    <2>3. req' = [req EXCEPT ![r] = q] /\ q.pc = "update" /\ q.next = l
      BY <2>2
    <2>4. l.updatedAt = now
      BY <1>3, <2>1, MutationIsNow
    <2> HIDE DEF q
    <2>5. FreshRequest(q, now, history')
      BY <1>3, <2>3, <2>4, FreshTypes DEF FreshRequest, InFlight
    <2>6. \A s \in Requests :
            req'[s] = req[s] \/ FreshRequest(req'[s], now, history')
      BY <1>3, <2>3, <2>5
    <2> QED
      BY <1>1, <2>6, CommittingStepKeepsFresh
  <1>9. CASE Commit(r)
    <2> DEFINE q == [pc |-> "committed", code |-> req[r].code,
                     base |-> req[r].base, next |-> req[r].next,
                     answer |-> "none"]
    <2>1. /\ req' = [req EXCEPT ![r] = q]
          /\ q.pc = "committed" /\ q.next = req[r].next /\ q.code = req[r].code
      BY <1>3, <1>9 DEF Commit
    <2> HIDE DEF q
    <2>2. VersionOf(req[r].base, req[r].code, links)
            /\ Mutant(req[r].next, req[r].base)
      BY <1>9 DEF SystemInv, ManagementInv, RequestInv, Commit
    <2>3. Update(req[r].code, req[r].next, req[r].base.version)
      BY <1>9 DEF Commit
    <2>4. /\ req[r].base = links[req[r].code]
          /\ req[r].next.version = req[r].base.version + 1
      BY <2>2, <2>3, SystemTypes, UpdateInstallsNext
    <2>5. req[r].base.version \in Nat
      BY <2>2 DEF VersionOf, Links, Versions
    <2>6. InFlight(req[r].next.updatedAt, now)
      BY <1>9 DEF FreshnessInv, FreshRequest, Commit
    <2>7. ASSUME NEW e \in history', Supersedes(e, req[r].code, req[r].next)
          PROVE  e.since >= req[r].next.updatedAt
      <3>1. CASE e \in history
        <4>1. e.mapping.version <= links[e.code].version
              /\ e.mapping.version \in Nat
          BY <3>1, FreshTypes DEF FreshnessInv, Past
        <4> QED
          BY <2>4, <2>5, <2>7, <4>1 DEF Supersedes
      <3>2. CASE e.since = now
        BY <2>6, <3>2 DEF InFlight
      <3> QED
        BY <1>2, <3>1, <3>2
    <2>8. CurrentAt(req[r].next, req[r].code, req[r].next.updatedAt, history')
      BY <2>7 DEF CurrentAt
    <2>9. FreshRequest(q, now, history')
      BY <2>1, <2>6, <2>8 DEF FreshRequest
    <2>10. \A s \in Requests :
             req'[s] = req[s] \/ FreshRequest(req'[s], now, history')
      BY <1>3, <2>1, <2>9
    <2> QED
      BY <1>1, <2>10, CommittingStepKeepsFresh
  <1>10. CASE Fail(r)
    BY <1>5, <1>10
    DEF Fail, FindFails, UpdateFails, CommitUnacknowledged, Abandon
  <1>11. CASE Begin(r, now)
    <2>1. PICK c \in Codes, o \in Owners :
            \/ Get(r, c, o)
            \/ \E version \in IfMatch(c), m \in Mutations :
                  Change(r, c, o, version, m, now)
      BY <1>11 DEF Begin
    <2>2. CASE \E answer : Refused(r, answer)
      BY <1>5, <2>2
    <2>3. CASE ~(\E answer : Refused(r, answer))
      BY <1>6, <1>8, <2>1, <2>3
    <2> QED
      BY <2>2, <2>3
  <1> QED
    BY <1>7, <1>9, <1>10, <1>11 DEF ManagementStep

-----------------------------------------------------------------------------
(* Steps that do not commit *)

(* Nothing commits and no time passes: what did not change stays fresh.    *)
LEMMA QuietStepKeepsFresh ==
    ASSUME FreshnessInv, UNCHANGED <<links, history, now>>,
           \A r \in Requests :
              req'[r] = req[r] \/ FreshRequest(req'[r], now, history),
           \A d \in Redirects :
              red'[d] = red[d] \/ FreshRedirect(red'[d], now, history),
           \A a \in Handlers :
              put'[a] = put[a] \/ FreshPut(put'[a], now, history),
           \A c \in Codes :
              cache'[c] = cache[c] \/ FreshEntry(cache'[c], c, now, history)
    PROVE  FreshnessInv'
  <1>1. \A r \in Requests : FreshRequest(req'[r], now, history)
    BY DEF FreshnessInv
  <1>2. \A d \in Redirects : FreshRedirect(red'[d], now, history)
    BY DEF FreshnessInv
  <1>3. \A a \in Handlers : FreshPut(put'[a], now, history)
    BY DEF FreshnessInv
  <1>4. \A c \in Codes : FreshEntry(cache'[c], c, now, history)
    BY DEF FreshnessInv
  <1> QED
    BY <1>1, <1>2, <1>3, <1>4 DEF FreshnessInv

(* A command is sent at the pace of its handler.                           *)
LEMMA SentFresh ==
    ASSUME SystemInv, NEW a \in Handlers, NEW c,
           NEW m \in RedirectMappings, NEW since \in Nat,
           SendPut(a, c, m, since),
           InFlight(since, now), CurrentAt(m, c, since, history)
    PROVE  \A b \in Handlers :
              put'[b] = put[b] \/ FreshPut(put'[b], now, history)
  <1> DEFINE p == [stage |-> "sent", code |-> c, mapping |-> m,
                   ttl |-> CacheTTL(m, now), since |-> since]
  <1>1. put \in [Handlers -> SoundPuts] /\ now \in Nat
    BY SystemTypes
  <1>2. CASE ShouldCache(m, now)
    <2>1. put' = [put EXCEPT ![a] = p]
      BY <1>2 DEF SendPut
    <2>2. m.expiresAt # NoExpiry => m.expiresAt \in Nat
      BY TimesAssumption DEF RedirectMappings, Expiries, Timestamps
    <2>3. CacheTTL(m, now) <= MaxTTL /\ EndsInLife(since, CacheTTL(m, now), m)
      BY <1>1, <1>2, <2>2, CacheTTLBounded, CacheTTLIsPositive
      DEF EndsInLife, InFlight
    <2>4. FreshPut(p, now, history)
      BY <2>3 DEF FreshPut
    <2> HIDE DEF p
    <2> QED
      BY <1>1, <2>1, <2>4
  <1>3. CASE ~ShouldCache(m, now)
    <2>1. put' = [put EXCEPT ![a] = PutIsOver]
      BY <1>3 DEF SendPut
    <2>2. FreshPut(PutIsOver, now, history)
      BY DEF FreshPut, PutIsOver, NoPut
    <2> QED
      BY <1>1, <2>1, <2>2
  <1> QED
    BY <1>2, <1>3

LEMMA RefreshKeepsFresh ==
    ASSUME SystemInv, FreshnessInv, NEW r \in Requests, Refresh(r)
    PROVE  FreshnessInv'
  <1> DEFINE m == RedirectMappingFromLink(req[r].next)
  <1>1. UNCHANGED <<links, req, cache, now, red, history>>
    BY DEF Refresh
  <1>2. req[r].next \in Links
    BY DEF Refresh, SystemInv, ManagementInv, RequestInv, Knows, HasWritten,
           VersionOf
  <1>3. /\ m \in RedirectMappings /\ m.version = req[r].next.version
        /\ req[r].next.updatedAt \in Nat
    BY <1>2, ProjectionIsMapping
  <1>4. r \in Handlers /\ SendPut(r, req[r].code, m, req[r].next.updatedAt)
    BY DEF Refresh, Handlers
  <1>5. InFlight(req[r].next.updatedAt, now)
    BY DEF Refresh, FreshnessInv, FreshRequest
  <1>6. CurrentAt(req[r].next, req[r].code, req[r].next.updatedAt, history)
    BY DEF Refresh, FreshnessInv, FreshRequest
  <1> HIDE DEF m
  <1>7. CurrentAt(m, req[r].code, req[r].next.updatedAt, history)
    BY <1>3, <1>6 DEF CurrentAt, Supersedes
  <1>8. \A b \in Handlers :
          put'[b] = put[b] \/ FreshPut(put'[b], now, history)
    BY <1>3, <1>4, <1>5, <1>7, SentFresh
  <1> QED
    BY <1>1, <1>8, QuietStepKeepsFresh

LEMMA RespondStepKeepsFresh ==
    ASSUME SystemInv, FreshnessInv, NEW r \in Requests, RespondStep(r)
    PROVE  FreshnessInv'
  <1> DEFINE q == [pc |-> "answered", code |-> req[r].code,
                   base |-> req[r].base, next |-> req[r].next,
                   answer |-> "changed"]
  <1>1. UNCHANGED <<links, cache, now, red, put, history>>
    BY DEF RespondStep, Respond
  <1>2. req \in [Requests -> RequestStates]
    BY SystemTypes
  <1>3. req' = [req EXCEPT ![r] = q] /\ q.pc = "answered"
    BY <1>2 DEF RespondStep, Respond
  <1> HIDE DEF q
  <1>4. FreshRequest(q, now, history)
    BY <1>3 DEF FreshRequest
  <1>5. \A s \in Requests :
          req'[s] = req[s] \/ FreshRequest(req'[s], now, history)
    BY <1>2, <1>3, <1>4
  <1> QED
    BY <1>1, <1>5, QuietStepKeepsFresh

LEMMA StartRedirectKeepsFresh ==
    ASSUME SystemInv, FreshnessInv, NEW d \in Redirects, NEW c \in Codes,
           StartRedirect(d, c)
    PROVE  FreshnessInv'
  <1> DEFINE hit == [pc |-> "resolved", code |-> c,
                     mapping |-> cache[c].mapping, since |-> now,
                     floor |-> acked[c], answer |-> "none"]
             miss == [pc |-> "source", code |-> c, mapping |-> NoEntry,
                      since |-> now, floor |-> acked[c], answer |-> "none"]
  <1>1. /\ UNCHANGED <<links, req, cache, now, history>>
        /\ put' = [put EXCEPT ![d] = NoPut]
        /\ red' = [red EXCEPT ![d] = hit] \/ red' = [red EXCEPT ![d] = miss]
    BY DEF StartRedirect
  <1>2. /\ hit.pc = "resolved" /\ miss.pc = "source"
        /\ hit.since = now /\ miss.since = now
    OBVIOUS
  <1>3. red \in [Redirects -> RedirectStates] /\ put \in [Handlers -> SoundPuts]
    BY SystemTypes
  <1> HIDE DEF hit, miss
  <1>4. FreshRedirect(hit, now, history) /\ FreshRedirect(miss, now, history)
    BY <1>2, FreshTypes DEF FreshRedirect, InFlight
  <1>5. \A e \in Redirects :
          red'[e] = red[e] \/ FreshRedirect(red'[e], now, history)
    BY <1>1, <1>3, <1>4
  <1>6. FreshPut(NoPut, now, history)
    BY DEF FreshPut, NoPut
  <1>7. \A b \in Handlers :
          put'[b] = put[b] \/ FreshPut(put'[b], now, history)
    BY <1>1, <1>3, <1>6
  <1> QED
    BY <1>1, <1>5, <1>7, QuietStepKeepsFresh

(* A redirect's own step that sends nothing.                               *)
LEMMA RedirectStepKeepsFresh ==
    ASSUME SystemInv, FreshnessInv,
           UNCHANGED <<links, req, cache, now, put, history>>,
           NEW d \in Redirects, NEW x, red' = [red EXCEPT ![d] = x],
           FreshRedirect(x, now, history)
    PROVE  FreshnessInv'
  <1>1. \A e \in Redirects :
          red'[e] = red[e] \/ FreshRedirect(red'[e], now, history)
    BY SystemTypes
  <1> QED
    BY <1>1, QuietStepKeepsFresh

LEMMA HandleRedirectKeepsFresh ==
    ASSUME SystemInv, FreshnessInv, NEW d \in Redirects,
           HandleRedirect(d) \/ SourceFails(d)
    PROVE  FreshnessInv'
  <1>1. red[d] \in RedirectStates /\ red \in [Redirects -> RedirectStates]
    BY SystemTypes
  <1>2. FreshRedirect(red[d], now, history)
    BY DEF FreshnessInv
  <1>3. CASE \E answer : /\ Answered(d, answer)
                         /\ UNCHANGED <<links, req, cache, now, put, history>>
    <2>1. PICK answer : /\ Answered(d, answer)
                        /\ UNCHANGED <<links, req, cache, now, put, history>>
      BY <1>3
    <2> DEFINE x == [red[d] EXCEPT !.pc = "done", !.since = 0,
                                   !.answer = answer]
    <2>2. red' = [red EXCEPT ![d] = x] /\ x.pc = "done"
      BY <1>1, <2>1 DEF Answered, RedirectStates
    <2> HIDE DEF x
    <2>3. FreshRedirect(x, now, history)
      BY <2>2 DEF FreshRedirect
    <2> QED
      BY <2>1, <2>2, <2>3, RedirectStepKeepsFresh
  <1>4. CASE ReadSource(d) /\ Exists(red[d].code)
    <2> DEFINE m == RedirectMappingFromLink(links[red[d].code])
               x == [red[d] EXCEPT !.pc = "fill", !.mapping = m]
    <2>1. /\ red' = [red EXCEPT ![d] = x]
          /\ UNCHANGED <<links, req, cache, now, put, history>>
          /\ red[d].pc = "source"
      BY <1>4 DEF ReadSource
    <2>2. links[red[d].code] \in Links
      BY <1>4, <2>1, SystemTypes
      DEF SystemInv, RedirectInv, Exists, Stores, Rows
    <2>3. m.version = links[red[d].code].version
      BY <2>2, ProjectionIsMapping
    <2>4. links[red[d].code].version \in Nat
      BY <2>2, ProjectionIsMapping
    <2>5. /\ x.pc = "fill" /\ x.mapping = m
          /\ x.code = red[d].code /\ x.since = red[d].since
      BY <1>1 DEF RedirectStates
    <2> HIDE DEF m, x
    <2>6. \A e \in history : ~Supersedes(e, red[d].code, m)
      BY <2>3, <2>4, FreshTypes DEF FreshnessInv, Past, Supersedes
    <2>7. FreshRedirect(x, now, history)
      BY <1>2, <2>1, <2>5, <2>6 DEF FreshRedirect, CurrentAt
    <2> QED
      BY <2>1, <2>7, RedirectStepKeepsFresh
  <1>5. CASE StartFill(d)
    <2>1. /\ red[d].pc = "fill"
          /\ SendPut(d, red[d].code, red[d].mapping, red[d].since)
          /\ UNCHANGED <<links, req, cache, now, red, history>>
      BY <1>5 DEF StartFill
    <2>2. /\ red[d].mapping \in RedirectMappings /\ d \in Handlers
          /\ red[d].since \in Nat
      BY <1>1, <2>1 DEF SystemInv, RedirectInv, RedirectStates, Handlers
    <2>3. /\ InFlight(red[d].since, now)
          /\ CurrentAt(red[d].mapping, red[d].code, red[d].since, history)
      BY <1>2, <2>1 DEF FreshRedirect
    <2>4. \A b \in Handlers :
            put'[b] = put[b] \/ FreshPut(put'[b], now, history)
      BY <2>1, <2>2, <2>3, SentFresh
    <2> QED
      BY <2>1, <2>4, QuietStepKeepsFresh
  <1>6. CASE FinishFill(d)
    <2> DEFINE x == [red[d] EXCEPT !.pc = "resolved"]
    <2>1. /\ red' = [red EXCEPT ![d] = x]
          /\ UNCHANGED <<links, req, cache, now, put, history>>
          /\ red[d].pc = "fill"
      BY <1>6 DEF FinishFill
    <2>2. x.pc = "resolved" /\ x.since = red[d].since
      BY <1>1 DEF RedirectStates
    <2> HIDE DEF x
    <2>3. FreshRedirect(x, now, history)
      BY <1>2, <2>1, <2>2 DEF FreshRedirect
    <2> QED
      BY <2>1, <2>3, RedirectStepKeepsFresh
  <1>7. CASE SourceFails(d)
    BY <1>3, <1>7 DEF SourceFails
  <1>8. CASE Answer(d)
    BY <1>3, <1>8 DEF Answer
  <1>9. CASE ReadSource(d) /\ ~Exists(red[d].code)
    BY <1>3, <1>9 DEF ReadSource
  <1> QED
    BY <1>4, <1>5, <1>6, <1>7, <1>8, <1>9 DEF HandleRedirect

-----------------------------------------------------------------------------
(* Redis and the clock *)

LEMMA OverIsFresh ==
    ASSUME SystemInv, NEW a \in Handlers, put' = [put EXCEPT ![a] = PutIsOver]
    PROVE  \A b \in Handlers :
              put'[b] = put[b] \/ FreshPut(put'[b], now, history)
  <1>1. FreshPut(PutIsOver, now, history)
    BY DEF FreshPut, PutIsOver, NoPut
  <1> QED
    BY <1>1, SystemTypes

(* The heart of the bound: the deadline of the entry written is counted    *)
(* from now, which is at most Latency after the handler began.             *)
LEMMA ApplyPutKeepsFresh ==
    ASSUME SystemInv, FreshnessInv, NEW a \in Handlers, ApplyPut(a)
    PROVE  FreshnessInv'
  <1> DEFINE p == put[a]
             k == [mapping |-> p.mapping, deadline |-> now + p.ttl]
  <1>1. /\ UNCHANGED <<links, req, now, red, history>>
        /\ put' = [put EXCEPT ![a] = PutIsOver]
        /\ p.stage = "sent"
        /\ UNCHANGED cache \/ cache' = [cache EXCEPT ![p.code] = k]
    BY DEF ApplyPut, PutIfNewer
  <1>2. /\ p.since \in Nat /\ p.ttl \in Nat
        /\ p.mapping.expiresAt # NoExpiry => p.mapping.expiresAt \in Nat
        /\ cache \in [Codes -> Entries \cup {NoEntry}]
    <2>1. put[a] \in PutStates /\ p.stage = "sent"
      BY <1>1, SystemTypes DEF SoundPuts
    <2>2. p.mapping \in RedirectMappings
      BY <2>1 DEF SystemInv, SystemTypeOK, OnlyCommittedMappings, WasCommitted
    <2>3. p.mapping.expiresAt # NoExpiry => p.mapping.expiresAt \in Nat
      BY <2>2, TimesAssumption DEF RedirectMappings, Expiries, Timestamps
    <2> QED
      BY <2>1, <2>3, SystemTypes DEF PutStates
  <1>3. /\ p.since <= now /\ now <= p.since + Latency /\ p.ttl <= MaxTTL
        /\ EndsInLife(p.since, p.ttl, p.mapping)
        /\ CurrentAt(p.mapping, p.code, p.since, history)
    BY <1>1 DEF FreshnessInv, FreshPut, InFlight
  <1>4. k.deadline = now + p.ttl /\ k.mapping = p.mapping
    OBVIOUS
  <1> HIDE DEF k, p
  <1>5. k.deadline <= now + MaxTTL
    BY <1>2, <1>3, <1>4, FreshTypes
  <1>6. ASSUME NEW e \in history, Supersedes(e, p.code, k.mapping)
        PROVE  k.deadline <= e.since + Latency + MaxTTL
    <2>1. e.since >= p.since /\ e.since \in Nat
      BY <1>3, <1>4, <1>6, FreshTypes DEF CurrentAt
    <2> QED
      BY <1>2, <1>3, <1>4, <2>1, FreshTypes
  <1>7. k.mapping.expiresAt # NoExpiry
          => k.deadline <= k.mapping.expiresAt + Latency
    BY <1>2, <1>3, <1>4, FreshTypes DEF EndsInLife
  <1>8. FreshEntry(k, p.code, now, history)
    BY <1>5, <1>6, <1>7 DEF FreshEntry
  <1>9. \A c \in Codes :
          cache'[c] = cache[c] \/ FreshEntry(cache'[c], c, now, history)
    BY <1>1, <1>2, <1>8
  <1> QED
    BY <1>1, <1>9, OverIsFresh, QuietStepKeepsFresh

LEMMA LosePutKeepsFresh ==
    ASSUME SystemInv, FreshnessInv, NEW a \in Handlers, LosePut(a)
    PROVE  FreshnessInv'
  BY OverIsFresh, QuietStepKeepsFresh DEF LosePut

LEMMA EvictKeepsFresh ==
    ASSUME SystemInv, FreshnessInv, NEW c \in Codes, Evict(c)
    PROVE  FreshnessInv'
  <1>1. FreshEntry(NoEntry, c, now, history)
    BY DEF FreshEntry
  <1>2. \A k \in Codes :
          cache'[k] = cache[k] \/ FreshEntry(cache'[k], k, now, history)
    BY <1>1, SystemTypes DEF Evict
  <1> QED
    BY <1>2, QuietStepKeepsFresh DEF Evict

(* The clock waits for what is in flight, and moves on only afterwards.    *)
LEMMA TickKeepsFresh ==
    ASSUME SystemInv, FreshnessInv, Tick
    PROVE  FreshnessInv'
  <1>1. /\ UNCHANGED <<links, req, red, put, history>>
        /\ now' = now + 1 /\ now \in Nat /\ MaxTTL \in Nat /\ Latency \in Nat
    BY FreshTypes DEF Tick
  <1>2. ASSUME NEW since \in Nat, InFlight(since, now), InTime(since)
        PROVE  InFlight(since, now + 1)
    BY <1>1, <1>2 DEF InFlight, InTime
  <1>3. ASSUME NEW e \in history
        PROVE  Past(e, now + 1, links)
    BY <1>1, FreshTypes DEF FreshnessInv, Past
  <1>4. ASSUME NEW r \in Requests
        PROVE  FreshRequest(req[r], now + 1, history)
    <2>1. FreshRequest(req[r], now, history)
      BY DEF FreshnessInv
    <2>2. CASE req[r].pc \in {"update", "committed"}
      <3>1. req[r].next \in Links
        <4>1. CASE req[r].pc = "update"
          BY <4>1, MutateMakesNextVersion
          DEF SystemInv, ManagementInv, RequestInv, VersionOf, Mutant
        <4>2. CASE req[r].pc = "committed"
          BY <4>2 DEF SystemInv, ManagementInv, RequestInv, Knows, HasWritten,
                      VersionOf
        <4> QED
          BY <2>2, <4>1, <4>2
      <3>2. req[r].next.updatedAt \in Nat /\ InTime(req[r].next.updatedAt)
        BY <2>2, <3>1, ProjectionIsMapping DEF Tick
      <3> QED
        BY <1>2, <2>1, <2>2, <3>2 DEF FreshRequest
    <2>3. CASE req[r].pc \notin {"update", "committed"}
      BY <2>3 DEF FreshRequest
    <2> QED
      BY <2>2, <2>3
  <1>5. ASSUME NEW d \in Redirects
        PROVE  FreshRedirect(red[d], now + 1, history)
    <2>1. FreshRedirect(red[d], now, history)
      BY DEF FreshnessInv
    <2>2. red[d].since \in Nat
      BY SystemTypes DEF RedirectStates
    <2>3. red[d].pc \in {"source", "fill", "resolved"} => InTime(red[d].since)
      BY DEF Tick
    <2> QED
      BY <1>2, <2>1, <2>2, <2>3 DEF FreshRedirect
  <1>6. ASSUME NEW a \in Handlers
        PROVE  FreshPut(put[a], now + 1, history)
    <2>1. FreshPut(put[a], now, history)
      BY DEF FreshnessInv
    <2>2. put[a].since \in Nat
      BY SystemTypes DEF SoundPuts, PutStates
    <2>3. put[a].stage = "sent" => InTime(put[a].since)
      BY DEF Tick
    <2> QED
      BY <1>2, <2>1, <2>2, <2>3 DEF FreshPut
  <1>7. ASSUME NEW c \in Codes
        PROVE  FreshEntry(cache'[c], c, now + 1, history)
    <2>1. cache'[c] = cache[c] \/ cache'[c] = NoEntry
      BY DEF Tick, ExpireKeys
    <2>2. FreshEntry(cache[c], c, now, history)
      BY DEF FreshnessInv
    <2> QED
      BY <1>1, <2>1, <2>2, FreshTypes DEF FreshEntry
  <1> QED
    BY <1>1, <1>3, <1>4, <1>5, <1>6, <1>7 DEF FreshnessInv

-----------------------------------------------------------------------------
(* Theorems *)

LEMMA FreshnessNext ==
    ASSUME SystemInv, FreshnessInv, [SystemNext]_systemVars
    PROVE  FreshnessInv'
  <1>1. CASE UNCHANGED systemVars
    BY <1>1, QuietStepKeepsFresh DEF systemVars
  <1> QED
    BY <1>1, CreateKeepsFresh, EvictKeepsFresh, ManagementStepKeepsFresh,
       RefreshKeepsFresh, RespondStepKeepsFresh, StartRedirectKeepsFresh,
       HandleRedirectKeepsFresh, ApplyPutKeepsFresh, LosePutKeepsFresh,
       TickKeepsFresh
    DEF SystemNext

LEMMA FreshnessInit == SystemInit => FreshnessInv
  <1> SUFFICES ASSUME SystemInit
               PROVE  FreshnessInv
    OBVIOUS
  <1>1. /\ history = {}
        /\ \A r \in Requests : req[r].pc = "idle"
        /\ \A d \in Redirects : red[d].pc = "idle"
        /\ \A a \in Handlers : put[a].stage = "none"
        /\ \A c \in Codes : cache[c] = NoEntry
    BY DEF SystemInit, ManagementInit, CacheInit, Idle, IdleRedirect, NoPut
  <1> QED
    BY <1>1 DEF FreshnessInv, FreshRequest, FreshRedirect, FreshPut, FreshEntry

(* Whatever a handler, a command or the cache holds was current when its   *)
(* handler began, at most Latency before it was written.                   *)
THEOREM FreshnessInvariant == SystemSpec => [](SystemInv /\ FreshnessInv)
  <1>1. SystemInit => SystemInv /\ FreshnessInv
    BY SystemInitEstablishesInv, FreshnessInit
  <1>2. SystemInv /\ FreshnessInv /\ [SystemNext]_systemVars
          => SystemInv' /\ FreshnessInv'
    BY SystemNextPreservesInv, FreshnessNext
  <1> QED
    BY <1>1, <1>2, PTL DEF SystemSpec

(* A superseded entry is gone at most one TTL and one time in flight after *)
(* the version that superseded it was committed, and the entry of a link   *)
(* that expires one time in flight after it, whatever fails, is late or is *)
(* lost.                                                                   *)
THEOREM StalenessIsBounded == SystemSpec => []StalenessBounded
  <1>1. FreshnessInv => StalenessBounded
    BY DEF FreshnessInv, FreshEntry, StalenessBounded, Supersedes, Cached
  <1> QED
    BY <1>1, FreshnessInvariant, PTL
=============================================================================
