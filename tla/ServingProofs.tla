---------------------------- MODULE ServingProofs ----------------------------
(***************************************************************************)
(* Proofs about Serving, for every set of redirects and probes, every size *)
(* of the pool and every set of configurations:                            *)
(*                                                                         *)
(*   TypeInv   the pool lends a connection to the handlers that run a      *)
(*             statement and to nobody else, hence never more than it has; *)
(*   LifeInv   how far run() has come bounds what a connection may be      *)
(*             doing, so that a clean exit follows the last handler, and   *)
(*             the stores close after it (GracefulServer);                 *)
(*   ProbeInv  the verdict of a probe is that of the checks it has made;   *)
(*   StageInv  what a redirect has recorded follows from where it is;      *)
(*   CountInv  the counters of the metrics differ by the handlers between  *)
(*             one increment and the next.                                 *)
(*                                                                         *)
(* None of the last four is inductive without TypeInv, and the theorems on *)
(* metrics and analytics need both StageInv and CountInv: counters never   *)
(* fall, so a count can only be compared with the handlers still to count. *)
(* That the server and its requests end is left to TLC.                    *)
(***************************************************************************)
EXTENDS Serving, FiniteSetTheorems, TLAPS

Waiting(p) == pc[p] \in {"check", "ping"}

(* ServingTypeOK, made inductive: a probe that is checking has something   *)
(* left to check.                                                          *)
TypeInv ==
    /\ ServingTypeOK
    /\ IsFiniteSet(holders)
    /\ \A p \in Probes : Waiting(p) => probe[p].todo # <<>>

(* TypeInv in the parts that different steps disturb.                      *)
MainTypeOK ==
    /\ config \in [storage : {"memory", "postgres"}, cache : {"none", "redis"}]
    /\ main \in MainPcs
    /\ exit \in {"none", "ok", "error"}
    /\ signalled \in BOOLEAN
    /\ serve \in {"off", "starting", "listening", "failed", "closed"}
    /\ store \in [Stores -> {"absent", "open", "closing", "closed"}]
    /\ hung \in BOOLEAN

ConnTypeOK ==
    /\ conn \in [Requests -> {"none", "new", "active", "answered", "idle",
                              "left", "late", "cut"}]
    /\ cancelled \subseteq Requests

PoolTypeOK ==
    /\ pc \in [Requests -> HandlerPcs]
    /\ holders = {r \in Requests : Holding(r)}
    /\ IsFiniteSet(holders)
    /\ Cardinality(holders) <= MaxConns

RedirectTypeOK ==
    /\ result \in [Redirects -> Results]
    /\ event \in [Redirects -> {"none", "success", "error"}]
    /\ events \subseteq Redirects
    /\ recorder \in [Families -> [Counters -> Nat]]

ProbeTypeOK ==
    /\ probe \in [Probes ->
         [todo    : Seq(Components),
          failed  : SUBSET Components,
          verdict : {"none", "refused", "ok", "degraded", "not_ready"}]]
    /\ \A p \in Probes : Waiting(p) => probe[p].todo # <<>>

(* TypeInv is the conjunction of its parts.                                *)
LEMMA TypeParts ==
    TypeInv <=> MainTypeOK /\ ConnTypeOK /\ PoolTypeOK /\ RedirectTypeOK /\ ProbeTypeOK
  BY DEF TypeInv, ServingTypeOK, MainTypeOK, ConnTypeOK, PoolTypeOK, RedirectTypeOK, ProbeTypeOK

(* The process starts with nothing held and nothing counted.               *)
LEMMA TypeInit == ServingInit => TypeInv
<1> SUFFICES ASSUME ServingInit PROVE TypeInv
  OBVIOUS
<1>1. MainTypeOK
  BY DEF ServingInit, MainTypeOK, NoConfig, MainPcs, Stores
<1>2. ConnTypeOK
  BY DEF ServingInit, ConnTypeOK
<1>3. PoolTypeOK
  <2>1. holders = {r \in Requests : Holding(r)} /\ holders = {}
    BY DEF ServingInit, Holding
  <2>2. QED
    BY <2>1, FS_EmptySet, MaxConnsAssumption DEF ServingInit, PoolTypeOK, HandlerPcs
<1>4. RedirectTypeOK
  BY DEF ServingInit, RedirectTypeOK, NoCounts, Counters, Families, Results
<1>5. ProbeTypeOK
  <2>1. <<>> \in Seq(Components)
    OBVIOUS
  <2>2. \A p \in Probes : pc[p] = "idle"
    BY DEF ServingInit, Requests
  <2>3. QED
    BY <2>1, <2>2 DEF ServingInit, ProbeTypeOK, Waiting
<1>6. QED
  BY <1>1, <1>2, <1>3, <1>4, <1>5, TypeParts

(* Steps of run() leave the handlers alone. *)
LEMMA MainSteps ==
    ASSUME MainTypeOK,
           StartUp \/ Stop \/ Listen \/ ServeReturns \/ Signal \/ Hang
    PROVE  MainTypeOK'
<1> USE ConfigsAssumption DEF MainTypeOK, MainPcs, Return, requestVars, redirectVars, mainVars, Stores
<1>1. CASE LoadConfig
  BY <1>1 DEF LoadConfig
<1>2. CASE BuildStorage
  BY <1>2 DEF BuildStorage
<1>3. CASE BuildResolver
  BY <1>3 DEF BuildResolver
<1>4. CASE StartServing
  BY <1>4 DEF StartServing
<1>5. CASE ServeEnded \/ Shutdown
  BY <1>5 DEF ServeEnded, Shutdown
<1>6. CASE ShutdownCompletes \/ ShutdownTimesOut \/ AwaitServe
  BY <1>6 DEF ShutdownCompletes, ShutdownTimesOut, AwaitServe
<1>7. CASE CloseCache
  BY <1>7 DEF CloseCache
<1>8. CASE ClosePool \/ Exit
  BY <1>8 DEF ClosePool, Exit
<1>9. CASE Listen \/ ServeReturns
  BY <1>9 DEF Listen, ServeReturns
<1>10. CASE Signal \/ Hang
  BY <1>10 DEF Signal, Hang
<1>11. QED
  BY <1>1, <1>2, <1>3, <1>4, <1>5, <1>6, <1>7, <1>8, <1>9, <1>10 DEF StartUp, Stop

(* What the step of a handler does to the pool. *)
HoldingPcs == {"query", "insert", "ping"}

Kept(r) ==
    /\ \E from, to \in HandlerPcs \ HoldingPcs : Move(r, from, to)
    /\ UNCHANGED holders

Acquired(r) ==
    /\ \E from \in HandlerPcs \ HoldingPcs, to \in HoldingPcs : Move(r, from, to)
    /\ CanAcquire(r)
    /\ holders' = holders \cup {r}

Released(r) ==
    /\ \E from \in HoldingPcs, to \in HandlerPcs \ HoldingPcs : Move(r, from, to)
    /\ holders' = holders \ {r}

(* A redirect holds a connection of the pool from Acquire to Release.      *)
LEMMA RedirectSteps ==
    ASSUME NEW d \in Redirects, BeginRedirect(d) \/ HandleRedirect(d)
    PROVE  Kept(d) \/ Acquired(d) \/ Released(d)
<1> USE DEF HandlerPcs, HoldingPcs, Kept, Acquired, Released, Move
<1>1. CASE BeginRedirect(d)
  BY <1>1 DEF BeginRedirect
<1>2. CASE CacheGet(d)
  BY <1>2 DEF CacheGet, Resolved
<1>3. CASE Lookup(d)
  BY <1>3 DEF Lookup, FindInMemory, Acquire, NoConnection, Resolved, Found
<1>4. CASE Query(d)
  BY <1>4 DEF Query, Release, Resolved, Found
<1>5. CASE CachePut(d)
  BY <1>5 DEF CachePut, Resolved
<1>6. CASE Analytics(d)
  BY <1>6 DEF Analytics, Acquire, NoConnection, EventIs
<1>7. CASE InsertEvent(d)
  BY <1>7 DEF InsertEvent, Release, EventIs
<1>8. CASE RecordAnalytics(d) \/ RecordRedirect(d)
  BY <1>8 DEF RecordAnalytics, RecordRedirect, RecordStep
<1>9. CASE Flush(d)
  BY <1>9 DEF Flush
<1>10. QED
  BY <1>1, <1>2, <1>3, <1>4, <1>5, <1>6, <1>7, <1>8, <1>9 DEF HandleRedirect

(* So does a probe, for its ping.                                          *)
LEMMA ProbeSteps ==
    ASSUME NEW p \in Probes, BeginProbe(p) \/ HandleProbe(p)
    PROVE  Kept(p) \/ Acquired(p) \/ Released(p)
<1> USE DEF HandlerPcs, HoldingPcs, Kept, Acquired, Released, Move
<1>1. CASE BeginProbe(p)
  BY <1>1 DEF BeginProbe
<1>2. CASE CheckMemory(p) \/ CheckRedis(p)
  BY <1>2 DEF CheckMemory, CheckRedis, Checked
<1>3. CASE CheckPostgres(p)
  BY <1>3 DEF CheckPostgres, Acquire, Checked
<1>4. CASE Ping(p)
  BY <1>4 DEF Ping, Release, Checked
<1>5. CASE Flush(p)
  BY <1>5 DEF Flush
<1>6. QED
  BY <1>1, <1>2, <1>3, <1>4, <1>5 DEF HandleProbe

(* Lending a connection counts one more ...                                *)
LEMMA OneMore ==
    ASSUME NEW S, IsFiniteSet(S), NEW x, x \notin S
    PROVE  IsFiniteSet(S \cup {x}) /\ Cardinality(S \cup {x}) = Cardinality(S) + 1
  BY FS_AddElement

(* ... and returning it one less.                                          *)
LEMMA OneLess ==
    ASSUME NEW S, IsFiniteSet(S), NEW x, x \in S
    PROVE  IsFiniteSet(S \ {x}) /\ Cardinality(S \ {x}) = Cardinality(S) - 1
  BY FS_RemoveElement

(* The pool stays within MaxConns and with whoever runs a statement.       *)
LEMMA PoolStep ==
    ASSUME PoolTypeOK, NEW r \in Requests, Kept(r) \/ Acquired(r) \/ Released(r)
    PROVE  PoolTypeOK'
<1> USE DEF HandlerPcs, HoldingPcs, PoolTypeOK, Holding
<1>1. PICK from \in HandlerPcs, to \in HandlerPcs : Move(r, from, to)
  BY DEF Kept, Acquired, Released
<1>2. pc' \in [Requests -> HandlerPcs]
  BY <1>1 DEF Move
<1>3. pc[r] = from /\ pc'[r] = to /\ \A q \in Requests : q # r => pc'[q] = pc[q]
  BY <1>1 DEF Move
<1>4. CASE Kept(r)
  <2>1. from \notin HoldingPcs /\ to \notin HoldingPcs
    BY <1>3, <1>4 DEF Kept, Move
  <2>2. QED
    BY <1>2, <1>3, <1>4, <2>1 DEF Kept
<1>5. CASE Acquired(r)
  <2>1. from \notin HoldingPcs /\ to \in HoldingPcs
    BY <1>3, <1>5 DEF Acquired, Move
  <2>2. holders' = {q \in Requests : Holding(q)'} /\ r \notin holders
    BY <1>2, <1>3, <1>5, <2>1 DEF Acquired
  <2>3. IsFiniteSet(holders') /\ Cardinality(holders') = Cardinality(holders) + 1
    BY <2>2, <1>5, OneMore DEF Acquired
  <2>4. Cardinality(holders) \in Nat /\ Cardinality(holders) < MaxConns
    BY <1>5, FS_CardinalityType DEF Acquired, CanAcquire
  <2>5. QED
    BY <1>2, <2>2, <2>3, <2>4, MaxConnsAssumption
<1>6. CASE Released(r)
  <2>1. from \in HoldingPcs /\ to \notin HoldingPcs
    BY <1>3, <1>6 DEF Released, Move
  <2>2. holders' = {q \in Requests : Holding(q)'} /\ r \in holders
    BY <1>2, <1>3, <1>6, <2>1 DEF Released
  <2>3. IsFiniteSet(holders') /\ Cardinality(holders') = Cardinality(holders) - 1
    BY <2>2, <1>6, OneLess DEF Released
  <2>4. Cardinality(holders) \in Nat
    BY FS_CardinalityType
  <2>5. QED
    BY <1>2, <2>2, <2>3, <2>4, MaxConnsAssumption
<1>7. QED
  BY <1>4, <1>5, <1>6

(* Counting keeps counters natural numbers.                                *)
LEMMA BumpTyped ==
    ASSUME NEW g \in [Counters -> Nat], NEW c
    PROVE  [g EXCEPT ![c] = g[c] + 1] \in [Counters -> Nat]
<1>1. CASE c \in Counters
  BY <1>1
<1>2. CASE c \notin Counters
  <2>1. [g EXCEPT ![c] = g[c] + 1] = g
    BY <1>2
  <2>2. QED
    BY <2>1
<1>3. QED
  BY <1>1, <1>2

(* Steps of a redirect keep the types of what it records.                  *)
LEMMA RedirectTypeStep ==
    ASSUME RedirectTypeOK, NEW d \in Redirects, HandleRedirect(d)
    PROVE  RedirectTypeOK'
<1> USE DEF RedirectTypeOK, Results
<1>1. CASE CacheGet(d)
  BY <1>1 DEF CacheGet, Resolved
<1>2. CASE Lookup(d)
  BY <1>2 DEF Lookup, FindInMemory, Resolved, Found
<1>3. CASE Query(d)
  BY <1>3 DEF Query, Resolved, Found
<1>4. CASE CachePut(d)
  BY <1>4 DEF CachePut, Resolved
<1>5. CASE Analytics(d)
  BY <1>5 DEF Analytics, EventIs
<1>6. CASE InsertEvent(d)
  BY <1>6 DEF InsertEvent, EventIs
<1>7. CASE RecordAnalytics(d) \/ RecordRedirect(d)
  <2>1. PICK f \in Families : \E counter : Bump(f, counter)
    BY <1>7 DEF RecordAnalytics, RecordRedirect, RecordStep, Families
  <2>2. PICK counter : Bump(f, counter)
    BY <2>1
  <2>3. recorder' \in [Families -> [Counters -> Nat]]
    <3>1. recorder[f] \in [Counters -> Nat]
      OBVIOUS
    <3>2. [recorder[f] EXCEPT ![counter] = recorder[f][counter] + 1] \in [Counters -> Nat]
      BY <3>1, BumpTyped
    <3> HIDE DEF RedirectTypeOK
    <3>3. QED
      BY <2>2, <3>2 DEF Bump, RedirectTypeOK
  <2>4. UNCHANGED <<result, event, events>>
    BY <1>7 DEF RecordAnalytics, RecordRedirect, RecordStep
  <2>5. QED
    BY <2>3, <2>4
<1>8. CASE Flush(d)
  BY <1>8 DEF Flush, redirectVars
<1>9. QED
  BY <1>1, <1>2, <1>3, <1>4, <1>5, <1>6, <1>7, <1>8 DEF HandleRedirect

(* A probe has the storage to check at least.                              *)
LEMMA ChecksNonempty ==
    \A todo \in Checks : todo \in Seq(Components) /\ todo # <<>>
<1>1. <<StorageCheck>> \in Seq(Components) /\ <<StorageCheck>> # <<>>
  BY DEF StorageCheck, Components
<1>2. <<StorageCheck, "redis">> \in Seq(Components) /\ <<StorageCheck, "redis">> # <<>>
  BY DEF StorageCheck, Components
<1>3. QED
  BY <1>1, <1>2 DEF Checks

(* What is left of a sequence longer than one.                             *)
LEMMA MoreThanOne ==
    ASSUME NEW S, NEW s \in Seq(S), s # <<>>, Len(s) # 1
    PROVE  Tail(s) # <<>>
<1>1. Len(s) \in Nat /\ Len(s) # 0
  OBVIOUS
<1>2. Len(Tail(s)) = Len(s) - 1
  BY <1>1
<1>3. Len(<<>>) = 0
  OBVIOUS
<1>4. Len(Tail(s)) # Len(<<>>)
  BY <1>1, <1>2, <1>3
<1>5. QED
  BY <1>4, Zenon

(* A check made is taken off the list; the probe answers when it was the   *)
(* last.                                                                   *)
LEMMA CheckedStep ==
    ASSUME ProbeTypeOK, pc \in [Requests -> HandlerPcs],
           NEW p \in Probes, Waiting(p), NEW from, NEW passed \in BOOLEAN,
           Checked(p, from, passed)
    PROVE  ProbeTypeOK'
<1> DEFINE check == Head(probe[p].todo)
           next  == [todo    |-> Tail(probe[p].todo),
                     failed  |-> IF passed THEN probe[p].failed
                                 ELSE probe[p].failed \cup {check},
                     verdict |-> IF passed THEN probe[p].verdict
                                 ELSE Worse(probe[p].verdict, check)]
           Record == [todo : Seq(Components), failed : SUBSET Components,
                      verdict : {"none", "refused", "ok", "degraded", "not_ready"}]
<1>1. probe[p] \in Record /\ probe[p].todo # <<>>
  BY DEF ProbeTypeOK
<1>2. probe[p].todo \in Seq(Components) /\ probe[p].failed \subseteq Components
  BY <1>1
<1>3. check \in Components /\ Tail(probe[p].todo) \in Seq(Components)
  BY <1>1, <1>2
<1>4. Worse(probe[p].verdict, check) \in {"none", "refused", "ok", "degraded", "not_ready"}
  BY <1>1 DEF Worse
<1>5. next \in Record
  <2> HIDE DEF check
  <2> QED BY <1>1, <1>2, <1>3, <1>4
<1>6. probe' = [probe EXCEPT ![p] = next]
  BY DEF Checked
<1>7. probe' \in [Probes -> Record]
  <2> HIDE DEF next, Record
  <2>1. probe \in [Probes -> Record]
    BY DEF ProbeTypeOK, Record
  <2>2. QED
    BY <1>5, <1>6, <2>1
<1>8. Waiting(p)' => probe'[p].todo # <<>>
  <2>1. pc'[p] = IF Len(probe[p].todo) = 1 THEN "flush" ELSE "check"
    BY DEF Checked, Move, Requests
  <2>2. Waiting(p)' => Len(probe[p].todo) # 1
    BY <2>1 DEF Waiting
  <2>3. Len(probe[p].todo) # 1 => Tail(probe[p].todo) # <<>>
    BY <1>1, <1>2, MoreThanOne
  <2>4. probe'[p].todo = Tail(probe[p].todo)
    <3> HIDE DEF check
    <3> QED BY <1>6 DEF ProbeTypeOK
  <2>5. QED
    BY <2>2, <2>3, <2>4
<1>9. \A q \in Probes : q # p => probe'[q] = probe[q] /\ (Waiting(q)' <=> Waiting(q))
  <2> HIDE DEF next
  <2> QED BY <1>6 DEF ProbeTypeOK, Checked, Move, Waiting, Requests
<1>10. QED
  BY <1>7, <1>8, <1>9 DEF ProbeTypeOK

(* Steps of a probe keep its record well-typed.                            *)
LEMMA ProbeTypeStep ==
    ASSUME ProbeTypeOK, pc \in [Requests -> HandlerPcs],
           NEW p \in Probes, BeginProbe(p) \/ HandleProbe(p)
    PROVE  ProbeTypeOK'
<1>1. CASE BeginProbe(p)
  <2>1. PICK next \in [todo : Seq(Components), failed : SUBSET Components,
                       verdict : {"none", "refused", "ok", "degraded", "not_ready"}] :
           /\ probe' = [probe EXCEPT ![p] = next]
           /\ pc'[p] = "check" => next.todo # <<>>
    <3>1. CASE \E todo \in Checks :
                 probe' = [probe EXCEPT ![p] = [todo |-> todo, failed |-> {},
                                                verdict |-> "ok"]]
      <4>1. PICK todo \in Checks :
               probe' = [probe EXCEPT ![p] = [todo |-> todo, failed |-> {},
                                              verdict |-> "ok"]]
        BY <3>1
      <4>2. todo \in Seq(Components) /\ todo # <<>>
        BY ChecksNonempty
      <4> DEFINE fresh == [todo |-> todo, failed |-> {}, verdict |-> "ok"]
      <4>3. fresh \in [todo : Seq(Components), failed : SUBSET Components,
                       verdict : {"none", "refused", "ok", "degraded", "not_ready"}]
        BY <4>2
      <4>4. fresh.todo # <<>>
        BY <4>2
      <4>5. probe' = [probe EXCEPT ![p] = fresh]
        BY <4>1
      <4> HIDE DEF fresh
      <4>6. QED
        BY <4>3, <4>4, <4>5
    <3>2. CASE /\ Move(p, "idle", "flush")
               /\ probe' = [probe EXCEPT ![p] = [todo |-> <<>>, failed |-> {},
                                                 verdict |-> "refused"]]
      <4>1. pc'[p] # "check"
        BY <3>2 DEF Move, Requests
      <4>2. <<>> \in Seq(Components)
        OBVIOUS
      <4>3. QED
        BY <3>2, <4>1, <4>2
    <3>3. QED
      BY <1>1, <3>1, <3>2 DEF BeginProbe
  <2>2. pc'[p] \in {"check", "flush"} /\ \A q \in Probes : q # p => pc'[q] = pc[q]
    BY <1>1 DEF BeginProbe, Move, Requests
  <2>3. QED
    BY <2>1, <2>2 DEF ProbeTypeOK, Waiting
<1>2. CASE CheckMemory(p) \/ CheckRedis(p)
  <2>1. Waiting(p) /\ \E passed \in BOOLEAN : Checked(p, "check", passed)
    BY <1>2 DEF CheckMemory, CheckRedis, Waiting
  <2>2. QED
    BY <2>1, CheckedStep
<1>3. CASE CheckPostgres(p)
  <2>1. CASE Checked(p, "check", FALSE)
    BY <1>3, <2>1, CheckedStep DEF CheckPostgres, Waiting
  <2>2. CASE Acquire(p, "check", "ping") /\ UNCHANGED probe
    BY <2>2 DEF Acquire, Move, ProbeTypeOK, Waiting, Requests
  <2>3. QED
    BY <1>3, <2>1, <2>2 DEF CheckPostgres
<1>4. CASE Ping(p)
  <2>1. Waiting(p) /\ \E passed \in BOOLEAN : Checked(p, "ping", passed)
    BY <1>4 DEF Ping, Checked, Move, Waiting
  <2>2. QED
    BY <2>1, CheckedStep
<1>5. CASE Flush(p)
  BY <1>5 DEF Flush, ProbeTypeOK, Waiting, Requests
<1>6. QED
  BY <1>1, <1>2, <1>3, <1>4, <1>5 DEF HandleProbe

(* Every step keeps the states of connections.                             *)
LEMMA ConnTypeStep ==
    ASSUME ConnTypeOK, [ServingNext]_servingVars
    PROVE  ConnTypeOK'
<1> USE DEF ConnTypeOK
<1>1. CASE UNCHANGED <<conn, cancelled>>
  BY <1>1
<1>2. CASE CutOff /\ UNCHANGED cancelled
  BY <1>2 DEF CutOff
<1>3. ASSUME NEW r \in Requests, CloseIdle(r) \/ NoticeLost(r) \/ ReadTimesOut(r) \/ Accept(r) \/ ClientLeaves(r)
      PROVE  ConnTypeOK'
  BY <1>3 DEF CloseIdle, NoticeLost, ReadTimesOut, Accept, ClientLeaves
<1>4. ASSUME NEW r \in Requests, conn' = [conn EXCEPT ![r] = "active"], UNCHANGED cancelled
      PROVE  ConnTypeOK'
  BY <1>4
<1>5. ASSUME NEW r \in Requests, Flush(r)
      PROVE  ConnTypeOK'
  BY <1>5 DEF Flush
<1>6. ASSUME NEW d \in Redirects, BeginRedirect(d) \/ HandleRedirect(d)
      PROVE  ConnTypeOK'
  <2>1. CASE BeginRedirect(d)
    BY <2>1, <1>4 DEF BeginRedirect, HandlerStep, Requests
  <2>2. CASE Flush(d)
    BY <2>2, <1>5 DEF Requests
  <2>3. CASE HandleRedirect(d) /\ ~Flush(d)
    BY <2>3, <1>1 DEF HandleRedirect, CacheGet, Lookup, Query, CachePut, Analytics,
         InsertEvent, RecordAnalytics, RecordRedirect, RecordStep, HandlerStep
  <2>4. QED
    BY <1>6, <2>1, <2>2, <2>3
<1>7. ASSUME NEW p \in Probes, BeginProbe(p) \/ HandleProbe(p)
      PROVE  ConnTypeOK'
  <2>1. CASE BeginProbe(p)
    BY <2>1, <1>4 DEF BeginProbe, HandlerStep, Requests
  <2>2. CASE Flush(p)
    BY <2>2, <1>5 DEF Requests
  <2>3. CASE HandleProbe(p) /\ ~Flush(p)
    BY <2>3, <1>1 DEF HandleProbe, HandlerStep
  <2>4. QED
    BY <1>7, <2>1, <2>2, <2>3
<1>8. CASE StartUp \/ Listen \/ ServeReturns \/ Signal \/ Hang
  BY <1>8, <1>1 DEF StartUp, LoadConfig, BuildStorage, BuildResolver, StartServing,
       Listen, ServeReturns, Signal, Hang, requestVars
<1>9. CASE Stop
  <2>1. CASE ShutdownTimesOut \/ Exit
    BY <2>1, <1>2 DEF ShutdownTimesOut, Exit
  <2>2. CASE Stop /\ ~ShutdownTimesOut /\ ~Exit
    BY <2>2, <1>1 DEF Stop, ServeEnded, Shutdown, ShutdownCompletes, AwaitServe,
         CloseCache, ClosePool, requestVars
  <2>3. QED
    BY <1>9, <2>1, <2>2
<1>10. CASE UNCHANGED servingVars
  BY <1>10, <1>1 DEF servingVars
<1>11. QED
  BY <1>3, <1>6, <1>7, <1>8, <1>9, <1>10 DEF ServingNext, Environment

(* What the steps of a handler leave alone. *)
LEMMA BeginFrame ==
    ASSUME NEW d \in Redirects, BeginRedirect(d)
    PROVE  UNCHANGED <<mainVars, hung, cancelled, probe, redirectVars>>
  BY DEF HandlerStep, BeginRedirect

LEMMA RedirectFrame ==
    ASSUME NEW d \in Redirects, HandleRedirect(d)
    PROVE  /\ UNCHANGED <<mainVars, hung, cancelled, probe>>
           /\ Flush(d) \/ UNCHANGED conn
<1> USE DEF HandlerStep
<1>1. CASE CacheGet(d) \/ Lookup(d) \/ Query(d) \/ CachePut(d)
  BY <1>1 DEF CacheGet, Lookup, Query, CachePut
<1>2. CASE Analytics(d) \/ InsertEvent(d)
  BY <1>2 DEF Analytics, InsertEvent
<1>3. CASE RecordAnalytics(d) \/ RecordRedirect(d)
  BY <1>3 DEF RecordAnalytics, RecordRedirect, RecordStep
<1>4. CASE Flush(d)
  BY <1>4 DEF Flush
<1>5. QED
  BY <1>1, <1>2, <1>3, <1>4 DEF HandleRedirect

LEMMA ProbeFrame ==
    ASSUME NEW p \in Probes, BeginProbe(p) \/ HandleProbe(p)
    PROVE  /\ UNCHANGED <<mainVars, hung, cancelled, redirectVars>>
           /\ BeginProbe(p) \/ Flush(p) \/ UNCHANGED conn
  BY DEF HandlerStep, BeginProbe, HandleProbe, Flush

LEMMA MainFrame ==
    ASSUME StartUp \/ Stop \/ Listen \/ ServeReturns \/ Signal \/ Hang
    PROVE  /\ UNCHANGED <<holders, cancelled, pc, redirectVars, probe>>
           /\ UNCHANGED conn \/ CutOff
<1> USE DEF requestVars
<1>1. CASE StartUp
  BY <1>1 DEF StartUp, LoadConfig, BuildStorage, BuildResolver, StartServing
<1>2. CASE Stop
  BY <1>2 DEF Stop, ServeEnded, Shutdown, ShutdownCompletes, ShutdownTimesOut,
       AwaitServe, CloseCache, ClosePool, Exit
<1>3. CASE Listen \/ ServeReturns \/ Signal \/ Hang
  BY <1>3 DEF Listen, ServeReturns, Signal, Hang
<1>4. QED
  BY <1>1, <1>2, <1>3

LEMMA ConnFrame ==
    ASSUME NEW r \in Requests,
           Accept(r) \/ ClientLeaves(r) \/ CloseIdle(r) \/ NoticeLost(r) \/ ReadTimesOut(r)
    PROVE  UNCHANGED <<mainVars, holders, hung, pc, redirectVars, probe>>
  BY DEF Accept, ClientLeaves, CloseIdle, NoticeLost, ReadTimesOut

(* Every step keeps TypeInv.                                               *)
LEMMA TypeStep == TypeInv /\ [ServingNext]_servingVars => TypeInv'
<1> SUFFICES ASSUME TypeInv, [ServingNext]_servingVars
             PROVE  TypeInv'
  OBVIOUS
<1>0. MainTypeOK /\ ConnTypeOK /\ PoolTypeOK /\ RedirectTypeOK /\ ProbeTypeOK
  BY TypeParts
<1>1. ConnTypeOK'
  BY <1>0, ConnTypeStep
<1>2. UNCHANGED <<config, main, exit, signalled, serve, store, hung>> => MainTypeOK'
  BY <1>0 DEF MainTypeOK
<1>3. UNCHANGED <<holders, pc>> => PoolTypeOK'
  BY <1>0 DEF PoolTypeOK, Holding
<1>4. UNCHANGED redirectVars => RedirectTypeOK'
  BY <1>0 DEF RedirectTypeOK, redirectVars
<1>5. UNCHANGED <<pc, probe>> => ProbeTypeOK'
  BY <1>0 DEF ProbeTypeOK, Waiting
<1>P. MainTypeOK' /\ ConnTypeOK' /\ PoolTypeOK' /\ RedirectTypeOK' /\ ProbeTypeOK'
      => TypeInv'
  BY DEF TypeInv, ServingTypeOK, MainTypeOK, ConnTypeOK, PoolTypeOK, RedirectTypeOK,
         ProbeTypeOK
<1>6. CASE StartUp \/ Stop \/ Listen \/ ServeReturns \/ Signal \/ Hang
  <2>1. MainTypeOK'
    BY <1>0, <1>6, MainSteps
  <2>2. UNCHANGED <<holders, pc, redirectVars, probe>>
    BY <1>6, MainFrame
  <2>3. QED
    BY <1>1, <1>3, <1>4, <1>5, <2>1, <2>2, <1>P
<1>7. ASSUME NEW r \in Requests,
             Accept(r) \/ ClientLeaves(r) \/ CloseIdle(r) \/ NoticeLost(r) \/ ReadTimesOut(r)
      PROVE  TypeInv'
  <2>1. UNCHANGED <<mainVars, holders, hung, pc, redirectVars, probe>>
    BY <1>7, ConnFrame
  <2>2. QED
    BY <1>1, <1>2, <1>3, <1>4, <1>5, <2>1, <1>P DEF mainVars
<1>8. ASSUME NEW d \in Redirects, BeginRedirect(d) \/ HandleRedirect(d)
      PROVE  TypeInv'
  <2>1. UNCHANGED <<mainVars, hung, probe>>
    BY <1>8, BeginFrame, RedirectFrame
  <2>2. Kept(d) \/ Acquired(d) \/ Released(d)
    BY <1>8, RedirectSteps
  <2>3. PoolTypeOK'
    BY <1>0, <2>2, PoolStep DEF Requests
  <2>4. RedirectTypeOK'
    BY <1>0, <1>4, <1>8, BeginFrame, RedirectTypeStep
  <2>5. \A p \in Probes : pc'[p] = pc[p]
    <3>1. d \in Requests /\ \A p \in Probes : p \in Requests /\ p # d
      BY RequestsAssumption DEF Requests
    <3>2. PICK to : pc' = [pc EXCEPT ![d] = to]
      BY <2>2 DEF Kept, Acquired, Released, Move
    <3>3. QED
      BY <1>0, <3>1, <3>2 DEF PoolTypeOK
  <2>6. ProbeTypeOK'
    BY <1>0, <2>1, <2>5 DEF ProbeTypeOK, Waiting
  <2>7. QED
    BY <1>1, <1>2, <2>1, <2>3, <2>4, <2>6, <1>P DEF mainVars
<1>9. ASSUME NEW p \in Probes, BeginProbe(p) \/ HandleProbe(p)
      PROVE  TypeInv'
  <2>1. UNCHANGED <<mainVars, hung, redirectVars>>
    BY <1>9, ProbeFrame
  <2>2. PoolTypeOK'
    BY <1>0, <1>9, ProbeSteps, PoolStep DEF Requests
  <2>3. ProbeTypeOK'
    BY <1>0, <1>9, ProbeTypeStep DEF PoolTypeOK
  <2>4. QED
    BY <1>1, <1>2, <1>4, <2>1, <2>2, <2>3, <1>P DEF mainVars
<1>10. CASE UNCHANGED servingVars
  BY <1>10, <1>1, <1>2, <1>3, <1>4, <1>5, <1>P DEF servingVars, mainVars
<1>11. QED
  BY <1>6, <1>7, <1>8, <1>9, <1>10 DEF ServingNext, Environment

(* Every reachable state of the server satisfies TypeInv.                  *)
THEOREM ServingSpec_TypeInv == ServingSpec => []TypeInv
  BY TypeInit, TypeStep, PTL DEF ServingSpec

(* A connection of the pool is held exactly while a statement runs, and no *)
(* more are in use than the pool has: no path leaks one.                   *)
THEOREM ServingSpec_TypeOK == ServingSpec => []ServingTypeOK
<1>1. TypeInv => ServingTypeOK
  BY DEF TypeInv
<1>2. QED
  BY <1>1, ServingSpec_TypeInv, PTL

-----------------------------------------------------------------------------
(* The life of the process and of its connections *)

StartingPcs == {"load_config", "build_storage", "build_resolver", "start"}
EndedPcs == {"close_cache", "close_storage", "exited"}

(* Where run() is, what it will return, and what became of Serve.          *)
MainInv ==
    /\ main \in StartingPcs => serve = "off" /\ exit = "none"
    /\ main \in {"select", "shutdown", "await_serve"} => serve # "off" /\ exit = "none"
    /\ main = "select" => serve # "closed"
    /\ main \in EndedPcs => exit # "none"
    /\ exit = "ok" => serve = "closed"

(* A connection is active exactly under a handler; before anybody listens  *)
(* there is none; only a failing process cuts one; once Shutdown has       *)
(* returned without an error none is in flight.                            *)
ConnInv ==
    \A r \in Requests :
       /\ conn[r] \in {"none", "new", "idle"} => pc[r] = "idle"
       /\ conn[r] = "active" => Running(r)
       /\ serve = "off" => conn[r] = "none"
       /\ exit # "error" => conn[r] # "cut"
       /\ main = "await_serve" \/ exit = "ok" => ~InFlight(r)

LifeInv == MainInv /\ ConnInv

(* Nothing has begun.                                                      *)
LEMMA LifeInit == ServingInit => LifeInv
  BY DEF ServingInit, LifeInv, MainInv, ConnInv, StartingPcs, EndedPcs, InFlight,
         Running, Idle

(* The steps of run() and of Serve keep MainInv.                           *)
LEMMA MainInvStep ==
    ASSUME MainInv, MainTypeOK, StartUp \/ Stop \/ Listen \/ ServeReturns \/ Signal \/ Hang
    PROVE  MainInv'
<1> USE DEF MainInv, MainTypeOK, StartingPcs, EndedPcs, Return, mainVars
<1>1. CASE LoadConfig \/ BuildStorage
  BY <1>1 DEF LoadConfig, BuildStorage
<1>2. CASE BuildResolver \/ StartServing
  BY <1>2 DEF BuildResolver, StartServing
<1>3. CASE ServeEnded \/ Shutdown
  BY <1>3 DEF ServeEnded, Shutdown
<1>4. CASE ShutdownCompletes \/ ShutdownTimesOut \/ AwaitServe
  BY <1>4 DEF ShutdownCompletes, ShutdownTimesOut, AwaitServe
<1>5. CASE CloseCache \/ ClosePool \/ Exit
  BY <1>5 DEF CloseCache, ClosePool, Exit
<1>6. CASE Listen \/ ServeReturns
  BY <1>6 DEF Listen, ServeReturns, Alive
<1>7. CASE Signal \/ Hang
  BY <1>7 DEF Signal, Hang
<1>8. QED
  BY <1>1, <1>2, <1>3, <1>4, <1>5, <1>6, <1>7 DEF StartUp, Stop

(* What a step of r does to its connection. *)
Others(r) == \A q \in Requests : q # r => conn'[q] = conn[q] /\ pc'[q] = pc[q]

Begins(r) ==
    /\ conn[r] = "new" /\ conn'[r] = "active" /\ Running(r)' /\ main # "exited"
    /\ Others(r)

Runs(r) ==
    /\ Running(r) /\ Running(r)' /\ conn'[r] = conn[r]
    /\ Others(r)

Ends(r) ==
    /\ Running(r) /\ pc'[r] = "done"
    /\ \/ conn[r] = "active" /\ conn'[r] \in {"answered", "late"}
       \/ conn[r] # "active" /\ conn'[r] = conn[r]
    /\ Others(r)

(* A redirect begins on a new connection, runs and answers on it.          *)
LEMMA RedirectLife ==
    ASSUME pc \in [Requests -> HandlerPcs], ConnTypeOK, NEW d \in Redirects,
           BeginRedirect(d) \/ HandleRedirect(d)
    PROVE  Begins(d) \/ Runs(d) \/ Ends(d)
<1> USE DEF ConnTypeOK, Others, Move, HandlerStep, Running, Idle, Alive
<1>d. d \in Requests
  BY DEF Requests
<1>1. CASE BeginRedirect(d)
  BY <1>d, <1>1 DEF BeginRedirect, Begins
<1>2. CASE CacheGet(d) \/ CachePut(d)
  BY <1>d, <1>2 DEF CacheGet, CachePut, Resolved, Runs
<1>3. CASE Lookup(d)
  BY <1>d, <1>3 DEF Lookup, FindInMemory, Acquire, NoConnection, Found, Resolved, Runs
<1>4. CASE Query(d)
  BY <1>d, <1>4 DEF Query, Found, Resolved, Runs
<1>5. CASE Analytics(d)
  BY <1>d, <1>5 DEF Analytics, Acquire, NoConnection, EventIs, Runs
<1>6. CASE InsertEvent(d)
  BY <1>d, <1>6 DEF InsertEvent, EventIs, Runs
<1>7. CASE RecordAnalytics(d) \/ RecordRedirect(d)
  BY <1>d, <1>7 DEF RecordAnalytics, RecordRedirect, RecordStep, Runs
<1>8. CASE Flush(d)
  BY <1>d, <1>8 DEF Flush, Ends
<1>9. QED
  BY <1>1, <1>2, <1>3, <1>4, <1>5, <1>6, <1>7, <1>8 DEF HandleRedirect

(* So does a probe.                                                        *)
LEMMA ProbeLife ==
    ASSUME pc \in [Requests -> HandlerPcs], ConnTypeOK, NEW p \in Probes,
           BeginProbe(p) \/ HandleProbe(p)
    PROVE  Begins(p) \/ Runs(p) \/ Ends(p)
<1> USE DEF ConnTypeOK, Others, Move, HandlerStep, Running, Idle, Alive
<1>d. p \in Requests
  BY DEF Requests
<1>1. CASE BeginProbe(p)
  BY <1>d, <1>1 DEF BeginProbe, Begins
<1>2. CASE Flush(p)
  BY <1>d, <1>2 DEF Flush, Ends
<1>3. CASE HandleProbe(p) /\ ~Flush(p)
  BY <1>d, <1>3 DEF HandleProbe, CheckMemory, CheckRedis, CheckPostgres, Ping, Acquire,
       Checked, Runs
<1>4. QED
  BY <1>1, <1>2, <1>3 DEF HandleProbe

(* A handler keeps LifeInv: it answers before its connection is idle.      *)
LEMMA ConnInvHandler ==
    ASSUME LifeInv, MainTypeOK, NEW r \in Requests, Begins(r) \/ Runs(r) \/ Ends(r), UNCHANGED mainVars
    PROVE  LifeInv'
<1>1. MainInv'
  BY DEF LifeInv, MainInv, mainVars
<1>2. ASSUME NEW q \in Requests, q # r
      PROVE  conn'[q] = conn[q] /\ pc'[q] = pc[q]
  BY <1>2 DEF Begins, Runs, Ends, Others
<1>3. ConnInv'
  BY <1>2 DEF LifeInv, ConnInv, MainInv, Begins, Runs, Ends, mainVars, Running, Idle, InFlight
<1>4. QED
  BY <1>1, <1>3 DEF LifeInv

(* Cutting what is still waited on disturbs no clean exit: there nothing is. *)
LEMMA CutOffFacts ==
    ASSUME ConnTypeOK, CutOff, NEW r \in Requests
    PROVE  conn'[r] = IF conn[r] \in {"new", "active"} THEN "cut" ELSE conn[r]
  BY DEF CutOff

(* Every step keeps LifeInv; Shutdown completes only when all is drained.  *)
LEMMA LifeStep ==
    TypeInv /\ LifeInv /\ [ServingNext]_servingVars => LifeInv'
<1> SUFFICES ASSUME TypeInv, LifeInv, [ServingNext]_servingVars
             PROVE  LifeInv'
  OBVIOUS
<1>0. MainTypeOK /\ ConnTypeOK /\ pc \in [Requests -> HandlerPcs]
  BY TypeParts DEF PoolTypeOK
<1>1. CASE StartUp \/ Stop \/ Listen \/ ServeReturns \/ Signal \/ Hang
  <2>1. MainInv'
    BY <1>0, <1>1, MainInvStep DEF LifeInv
  <2>2. UNCHANGED pc
    BY <1>1, MainFrame
  <2> USE DEF LifeInv, MainInv, ConnInv, StartingPcs, EndedPcs, Return, Running, Idle,
              InFlight, mainVars
  <2>3. CASE StartUp
    BY <2>1, <2>2, <2>3 DEF StartUp, LoadConfig, BuildStorage, BuildResolver,
         StartServing, requestVars
  <2>4. CASE ServeEnded \/ Shutdown
    BY <2>1, <2>2, <2>4 DEF ServeEnded, Shutdown, requestVars
  <2>5. CASE ShutdownCompletes \/ AwaitServe
    BY <2>1, <2>2, <2>5 DEF ShutdownCompletes, AwaitServe, Drained, requestVars
  <2>6. CASE ShutdownTimesOut
    BY <1>0, <2>1, <2>2, <2>6, CutOffFacts DEF ShutdownTimesOut
  <2>7. CASE CloseCache \/ ClosePool
    BY <2>1, <2>2, <2>7 DEF CloseCache, ClosePool, requestVars
  <2>8. CASE Exit
    <3>1. main = "close_storage" /\ main' = "exited" /\ UNCHANGED <<exit, serve>>
      BY <2>8 DEF Exit
    <3>2. ASSUME NEW r \in Requests
          PROVE  conn'[r] = IF conn[r] \in {"new", "active"} THEN "cut" ELSE conn[r]
      BY <1>0, <2>8, CutOffFacts DEF Exit
    <3>3. exit \in {"ok", "error"}
      BY <1>0, <3>1 DEF MainTypeOK
    <3>4. CASE exit = "ok"
      <4>1. \A r \in Requests : conn[r] \notin {"new", "active"}
        BY <3>4
      <4>2. \A r \in Requests : conn'[r] = conn[r]
        BY <3>2, <4>1
      <4>3. QED
        BY <2>1, <2>2, <3>1, <3>4, <4>2
    <3>5. CASE exit = "error"
      BY <2>1, <2>2, <3>1, <3>2, <3>5
    <3>6. QED
      BY <3>3, <3>4, <3>5
  <2>9. CASE Listen \/ ServeReturns
    BY <2>1, <2>2, <2>9 DEF Listen, ServeReturns, requestVars
  <2>10. CASE Signal \/ Hang
    BY <2>1, <2>2, <2>10 DEF Signal, Hang, requestVars
  <2>11. QED
    BY <1>1, <2>3, <2>4, <2>5, <2>6, <2>7, <2>8, <2>9, <2>10 DEF Stop
<1>2. ASSUME NEW r \in Requests,
             Accept(r) \/ ClientLeaves(r) \/ CloseIdle(r) \/ NoticeLost(r) \/ ReadTimesOut(r)
      PROVE  LifeInv'
  <2>1. UNCHANGED <<mainVars, pc>>
    BY <1>2, ConnFrame
  <2>2. conn' = [conn EXCEPT ![r] = conn'[r]]
    BY <1>0, <1>2 DEF Accept, ClientLeaves, CloseIdle, NoticeLost, ReadTimesOut, ConnTypeOK
  <2>3. \/ conn[r] = "none" /\ conn'[r] = "new" /\ main = "select"
        \/ conn[r] \in {"new", "active"} /\ conn'[r] = "left"
        \/ conn[r] = "new" /\ conn'[r] = "idle"
        \/ conn'[r] = conn[r]
    BY <1>0, <1>2 DEF Accept, ClientLeaves, CloseIdle, NoticeLost, ReadTimesOut, ConnTypeOK
  <2>4. MainInv'
    BY <2>1 DEF LifeInv, MainInv, mainVars
  <2>5. ConnInv'
    BY <1>0, <2>1, <2>2, <2>3
       DEF LifeInv, ConnInv, MainInv, mainVars, Running, Idle, InFlight, ConnTypeOK
  <2>6. QED
    BY <2>4, <2>5 DEF LifeInv
<1>3. ASSUME NEW d \in Redirects, BeginRedirect(d) \/ HandleRedirect(d)
      PROVE  LifeInv'
  BY <1>0, <1>3, BeginFrame, RedirectFrame, RedirectLife, ConnInvHandler DEF Requests
<1>4. ASSUME NEW p \in Probes, BeginProbe(p) \/ HandleProbe(p)
      PROVE  LifeInv'
  BY <1>0, <1>4, ProbeFrame, ProbeLife, ConnInvHandler DEF Requests
<1>5. CASE UNCHANGED servingVars
  BY <1>5 DEF servingVars, mainVars, LifeInv, ConnInv, MainInv, Running, Idle, InFlight
<1>6. QED
  BY <1>1, <1>2, <1>3, <1>4, <1>5 DEF ServingNext, Environment

(* Connections follow the life of the process.                             *)
THEOREM ServingSpec_LifeInv == ServingSpec => [](TypeInv /\ LifeInv)
  BY LifeInit, LifeStep, TypeInit, TypeStep, PTL DEF ServingSpec

(* run() returns nil only when every accepted request was answered or its  *)
(* client had left.                                                        *)
THEOREM ServingSpec_CleanExitCutsNobody == ServingSpec => []CleanExitCutsNobody
<1>1. LifeInv => CleanExitCutsNobody
  BY DEF LifeInv, ConnInv, CleanExitCutsNobody, InFlight, Running
<1>2. QED
  BY <1>1, ServingSpec_LifeInv, PTL

-----------------------------------------------------------------------------
(* The promise of GracefulServer *)

(* The process starts where the promise does.                              *)
LEMMA PromiseInit == ServingInit => Promise!Init
  BY DEF ServingInit, Promise!Init, Phase, InFlight, Running, Idle, Stores

(* Steps that change neither where run() is nor the stores. *)
SamePhase == UNCHANGED <<main, exit, serve, store>>

(* Such a step does not show in the promise.                               *)
LEMMA PromiseSamePhase ==
    ASSUME UNCHANGED mainVars \/ SamePhase
    PROVE  UNCHANGED <<Phase, {s \in Stores : store[s] = "open"}>>
  BY DEF mainVars, SamePhase, Phase

(* The step of a handler answers one request of the promise, or none.      *)
LEMMA PromiseHandler ==
    ASSUME LifeInv, NEW r \in Requests, Begins(r) \/ Runs(r) \/ Ends(r), UNCHANGED mainVars
    PROVE  [Promise!Next]_(Promise!vars)
<1>1. UNCHANGED <<Phase, {s \in Stores : store[s] = "open"}>>
  BY PromiseSamePhase
<1>2. \A q \in Requests : q # r => (InFlight(q)' <=> InFlight(q))
  BY DEF Begins, Runs, Ends, Others, InFlight, Running, Idle
<1>3. CASE Begins(r) \/ Runs(r)
  <2>1. InFlight(r)' /\ InFlight(r)
    BY <1>3 DEF Begins, Runs, InFlight
  <2>2. UNCHANGED {q \in Requests : InFlight(q)}
    BY <1>2, <2>1
  <2>3. QED
    BY <1>1, <2>2 DEF Promise!vars
<1>4. CASE Ends(r)
  <2>1. ~InFlight(r)'
    BY <1>4 DEF Ends, InFlight, Running, Idle, LifeInv, ConnInv
  <2>2. {q \in Requests : InFlight(q)}' = {q \in Requests : InFlight(q)} \ {r}
    BY <1>2, <2>1
  <2>3. Promise!Finish(r)
    BY <1>1, <2>2 DEF Promise!Finish
  <2>4. QED
    BY <2>3 DEF Promise!Next
<1>5. QED
  BY <1>3, <1>4

(* A step of run() moves the promise on by at most one phase.              *)
LEMMA PromiseMain ==
    ASSUME TypeInv, LifeInv, LifeInv',
           StartUp \/ Stop \/ Listen \/ ServeReturns \/ Signal \/ Hang
    PROVE  [Promise!Next]_(Promise!vars)
<1> DEFINE Opened == {s \in Stores : store[s] = "open"}
           Active == {r \in Requests : InFlight(r)}
<1>0. MainTypeOK /\ ConnTypeOK
  BY TypeParts
<1>1. UNCHANGED pc
  BY MainFrame
<1>2. UNCHANGED conn => UNCHANGED Active
  BY <1>1 DEF InFlight, Running, Idle
<1>3. CutOff => Active' \subseteq Active
  BY <1>0, <1>1, CutOffFacts DEF InFlight, Running, Idle
<1>4. UNCHANGED store => UNCHANGED Opened
  OBVIOUS
<1>5. UNCHANGED <<Phase, Opened, Active>> => [Promise!Next]_(Promise!vars)
  BY DEF Promise!vars
<1> USE DEF MainTypeOK
<1>6. CASE LoadConfig
  <2>1. UNCHANGED Phase
    BY <1>6 DEF LoadConfig, Phase, LifeInv, MainInv, StartingPcs
  <2>2. QED
    BY <1>2, <1>4, <1>5, <1>6, <2>1 DEF LoadConfig, requestVars
<1>7. CASE BuildStorage
  <2>1. UNCHANGED Phase
    BY <1>7 DEF BuildStorage, Phase, LifeInv, MainInv, StartingPcs
  <2>2. UNCHANGED Active
    BY <1>2, <1>7 DEF BuildStorage, requestVars
  <2>3. CASE UNCHANGED store
    BY <1>4, <1>5, <2>1, <2>2, <2>3
  <2>4. CASE store' = [store EXCEPT !["postgres"] = "open"]
    <3>1. Opened' = Opened \cup {"postgres"} /\ "postgres" \in Stores
      BY <1>0, <2>4 DEF Stores
    <3>2. Phase = "starting"
      BY <1>7 DEF BuildStorage, Phase
    <3>3. Promise!Open("postgres")
      BY <2>1, <2>2, <3>1, <3>2 DEF Promise!Open
    <3>4. QED
      BY <3>1, <3>3 DEF Promise!Next
  <2>5. QED
    BY <1>7, <2>3, <2>4 DEF BuildStorage
<1>8. CASE BuildResolver
  <2>1. UNCHANGED Phase
    BY <1>8 DEF BuildResolver, Phase, LifeInv, MainInv, StartingPcs
  <2>2. UNCHANGED Active
    BY <1>2, <1>8 DEF BuildResolver, requestVars
  <2>3. CASE UNCHANGED store
    BY <1>4, <1>5, <2>1, <2>2, <2>3
  <2>4. CASE store' = [store EXCEPT !["redis"] = "open"]
    <3>1. Opened' = Opened \cup {"redis"} /\ "redis" \in Stores
      BY <1>0, <2>4 DEF Stores
    <3>2. Phase = "starting"
      BY <1>8 DEF BuildResolver, Phase
    <3>3. Promise!Open("redis")
      BY <2>1, <2>2, <3>1, <3>2 DEF Promise!Open
    <3>4. QED
      BY <3>1, <3>3 DEF Promise!Next
  <2>5. store' = store \/ store' = [store EXCEPT !["redis"] = "open"]
    BY <1>0, <1>8 DEF BuildResolver, Stores
  <2>6. QED
    BY <2>3, <2>4, <2>5
<1>9. CASE StartServing
  <2>1. Phase = "starting" /\ Phase' = "serving"
    BY <1>9 DEF StartServing, Phase
  <2>2. UNCHANGED <<Opened, Active>>
    BY <1>2, <1>4, <1>9 DEF StartServing, requestVars
  <2>3. Promise!Serve
    BY <2>1, <2>2 DEF Promise!Serve
  <2>4. QED
    BY <2>3 DEF Promise!Next
<1>10. CASE ServeEnded \/ AwaitServe
  <2>1. UNCHANGED <<Opened, Active>>
    BY <1>2, <1>4, <1>10 DEF ServeEnded, AwaitServe, requestVars
  <2>2. Phase \in {"serving", "draining"} /\ (Phase' = Phase \/ Phase' = "forced")
    BY <1>10 DEF ServeEnded, AwaitServe, Phase, Return, LifeInv, MainInv
  <2>3. CASE Phase' = "forced"
    <3>1. Promise!GiveUp
      BY <2>1, <2>2, <2>3 DEF Promise!GiveUp
    <3>2. QED
      BY <3>1 DEF Promise!Next
  <2>4. QED
    BY <1>5, <2>1, <2>2, <2>3
<1>11. CASE Shutdown
  <2>1. Phase = "serving" /\ Phase' = "draining"
    BY <1>11 DEF Shutdown, Phase
  <2>2. UNCHANGED <<Opened, Active>>
    BY <1>2, <1>4, <1>11 DEF Shutdown, requestVars
  <2>3. Promise!StopAccepting
    BY <2>1, <2>2 DEF Promise!StopAccepting
  <2>4. QED
    BY <2>3 DEF Promise!Next
<1>12. CASE ShutdownCompletes
  <2>1. UNCHANGED Phase
    BY <1>12 DEF ShutdownCompletes, Phase
  <2>2. QED
    BY <1>2, <1>4, <1>5, <1>12, <2>1 DEF ShutdownCompletes, requestVars
<1>13. CASE ShutdownTimesOut
  <2>1. Phase = "draining" /\ Phase' = "forced"
    BY <1>13 DEF ShutdownTimesOut, Phase, Return, LifeInv, MainInv
  <2>2. UNCHANGED Opened /\ Active' \subseteq Active
    BY <1>3, <1>4, <1>13 DEF ShutdownTimesOut
  <2>3. Promise!GiveUp
    BY <2>1, <2>2 DEF Promise!GiveUp
  <2>4. QED
    BY <2>3 DEF Promise!Next
<1>14. CASE CloseCache \/ ClosePool
  <2>1. UNCHANGED Phase /\ UNCHANGED Active
    BY <1>2, <1>14 DEF CloseCache, ClosePool, Phase, requestVars
  <2>2. \E s \in Stores : Opened' = Opened \ {s}
    BY <1>0, <1>14 DEF CloseCache, ClosePool, Stores
  <2>3. \/ Phase = "starting" \/ Phase = "forced"
        \/ Phase = "draining" /\ Active = {}
    <3>1. main \in {"close_cache", "close_storage"}
      BY <1>14 DEF CloseCache, ClosePool
    <3>2. CASE exit = "ok"
      BY <3>1, <3>2 DEF Phase, LifeInv, ConnInv
    <3>3. CASE exit # "ok"
      BY <3>1, <3>3 DEF Phase
    <3>4. QED
      BY <3>2, <3>3
  <2>4. \E s \in Stores : Promise!Close(s)
    BY <2>1, <2>2, <2>3 DEF Promise!Close
  <2>5. QED
    BY <2>4 DEF Promise!Next
<1>15. CASE Exit
  <2>1. UNCHANGED Phase
    BY <1>15 DEF Exit, Phase
  <2>2. UNCHANGED Opened
    BY <1>0, <1>15 DEF Exit, Stores
  <2>3. Active' \subseteq Active
    BY <1>3, <1>15 DEF Exit
  <2>4. CASE Phase = "starting" \/ Phase = "draining"
    <3>1. main = "close_storage"
      BY <1>15 DEF Exit
    <3>2. serve = "off" \/ exit = "ok"
      BY <2>4, <3>1 DEF Phase
    <3>3. Active = {}
      BY <3>2, <3>1 DEF LifeInv, ConnInv, InFlight, Running, Idle
    <3>4. QED
      BY <1>5, <2>1, <2>2, <2>3, <3>3
  <2>5. CASE Phase = "forced"
    <3>1. Promise!GiveUp
      BY <2>1, <2>2, <2>3, <2>5 DEF Promise!GiveUp
    <3>2. QED
      BY <3>1 DEF Promise!Next
  <2>6. Phase \in {"starting", "draining", "forced"}
    BY <1>15 DEF Exit, Phase
  <2>7. QED
    BY <2>4, <2>5, <2>6
<1>16. CASE Listen \/ ServeReturns
  <2>1. UNCHANGED Phase
    BY <1>16 DEF Listen, ServeReturns, Phase
  <2>2. QED
    BY <1>2, <1>4, <1>5, <1>16, <2>1 DEF Listen, ServeReturns, requestVars
<1>17. CASE Signal \/ Hang
  <2>1. UNCHANGED Phase
    BY <1>17 DEF Signal, Hang, Phase, mainVars
  <2>2. QED
    BY <1>2, <1>4, <1>5, <1>17, <2>1 DEF Signal, Hang, requestVars, mainVars
<1>18. QED
  BY <1>6, <1>7, <1>8, <1>9, <1>10, <1>11, <1>12, <1>13, <1>14, <1>15, <1>16, <1>17
     DEF StartUp, Stop

(* Connections coming, leaving and being noticed.                          *)
LEMMA PromiseConn ==
    ASSUME TypeInv, LifeInv, NEW r \in Requests,
           Accept(r) \/ ClientLeaves(r) \/ CloseIdle(r) \/ NoticeLost(r) \/ ReadTimesOut(r)
    PROVE  [Promise!Next]_(Promise!vars)
<1> DEFINE Active == {q \in Requests : InFlight(q)}
<1>0. ConnTypeOK
  BY TypeParts
<1>1. UNCHANGED <<mainVars, pc>> /\ UNCHANGED <<Phase, {s \in Stores : store[s] = "open"}>>
  BY ConnFrame, PromiseSamePhase
<1>2. conn' = [conn EXCEPT ![r] = conn'[r]]
  BY <1>0 DEF Accept, ClientLeaves, CloseIdle, NoticeLost, ReadTimesOut, ConnTypeOK
<1>3. \A q \in Requests : q # r => (InFlight(q)' <=> InFlight(q))
  BY <1>0, <1>1, <1>2 DEF InFlight, Running, Idle, ConnTypeOK
<1>4. CASE Accept(r)
  <2>1. Phase = "serving"
    BY <1>4 DEF Accept, Phase
  <2>2. InFlight(r)'
    BY <1>0, <1>4 DEF Accept, InFlight, ConnTypeOK
  <2>3. Active' = Active \cup {r}
    BY <1>3, <2>2
  <2>4. Promise!Accept(r)
    BY <1>1, <2>1, <2>3 DEF Promise!Accept
  <2>5. QED
    BY <2>4 DEF Promise!Next
<1>5. CASE ~Accept(r)
  <2>1. InFlight(r)' => InFlight(r)
    BY <1>0, <1>1, <1>5 DEF ClientLeaves, CloseIdle, NoticeLost, ReadTimesOut, InFlight, Running, Idle,
         ConnTypeOK
  <2>2. Active' = Active \/ Active' = Active \ {r}
    BY <1>3, <2>1
  <2>3. CASE Active' = Active
    BY <1>1, <2>3 DEF Promise!vars
  <2>4. CASE Active' = Active \ {r}
    <3>1. Promise!Finish(r)
      BY <1>1, <2>4 DEF Promise!Finish
    <3>2. QED
      BY <3>1 DEF Promise!Next
  <2>5. QED
    BY <2>2, <2>3, <2>4
<1>6. QED
  BY <1>4, <1>5

(* Every step of the server is one of the promise or a stutter.            *)
LEMMA PromiseStep ==
    TypeInv /\ LifeInv /\ LifeInv' /\ [ServingNext]_servingVars
      => [Promise!Next]_(Promise!vars)
<1> SUFFICES ASSUME TypeInv, LifeInv, LifeInv', [ServingNext]_servingVars
             PROVE  [Promise!Next]_(Promise!vars)
  OBVIOUS
<1>0. ConnTypeOK /\ pc \in [Requests -> HandlerPcs]
  BY TypeParts DEF PoolTypeOK
<1>1. CASE StartUp \/ Stop \/ Listen \/ ServeReturns \/ Signal \/ Hang
  BY <1>1, PromiseMain
<1>2. ASSUME NEW r \in Requests,
             Accept(r) \/ ClientLeaves(r) \/ CloseIdle(r) \/ NoticeLost(r) \/ ReadTimesOut(r)
      PROVE  [Promise!Next]_(Promise!vars)
  BY <1>2, PromiseConn
<1>3. ASSUME NEW d \in Redirects, BeginRedirect(d) \/ HandleRedirect(d)
      PROVE  [Promise!Next]_(Promise!vars)
  <2>1. d \in Requests /\ UNCHANGED mainVars /\ (Begins(d) \/ Runs(d) \/ Ends(d))
    BY <1>0, <1>3, BeginFrame, RedirectFrame, RedirectLife DEF Requests
  <2>2. QED
    BY <2>1, PromiseHandler
<1>4. ASSUME NEW p \in Probes, BeginProbe(p) \/ HandleProbe(p)
      PROVE  [Promise!Next]_(Promise!vars)
  <2>1. p \in Requests /\ UNCHANGED mainVars /\ (Begins(p) \/ Runs(p) \/ Ends(p))
    BY <1>0, <1>4, ProbeFrame, ProbeLife DEF Requests
  <2>2. QED
    BY <2>1, PromiseHandler
<1>5. CASE UNCHANGED servingVars
  <2>1. UNCHANGED <<mainVars, conn, pc>>
    BY <1>5 DEF servingVars
  <2>2. UNCHANGED {r \in Requests : InFlight(r)}
    BY <2>1 DEF InFlight, Running, Idle
  <2>3. QED
    BY <2>1, <2>2, PromiseSamePhase DEF Promise!vars
<1>6. QED
  BY <1>1, <1>2, <1>3, <1>4, <1>5 DEF ServingNext, Environment

(* The detailed server implements the promise: it refuses new connections  *)
(* first and closes the stores after the last handler, or has given up.    *)
THEOREM ServingImplementsPromise == ServingSpec => DrainsThenCloses
<1>1. ServingSpec => [](TypeInv /\ LifeInv)
  BY ServingSpec_LifeInv
<1>2. QED
  BY <1>1, PromiseInit, PromiseStep, PTL DEF ServingSpec, DrainsThenCloses, Promise!Spec

-----------------------------------------------------------------------------
(* Probes *)

(* The verdict is the worst of what the checks that failed call for.       *)
Agrees(p) ==
    LET failed == probe[p].failed
        broken == \E check \in failed : Required(check)
    IN  /\ probe[p].verdict = "not_ready" <=> broken
        /\ probe[p].verdict = "degraded" <=> ~broken /\ failed # {}

ProbeInv ==
    \A p \in Probes :
       /\ Agrees(p)
       /\ Waiting(p) => probe[p].verdict \in {"ok", "degraded", "not_ready"}

(* No probe has begun.                                                     *)
LEMMA ProbeInit == ServingInit => ProbeInv
<1>1. ServingInit => \A p \in Probes : /\ ~Waiting(p)
                                       /\ probe[p].failed = {}
                                       /\ probe[p].verdict = "none"
  BY DEF ServingInit, Waiting, Requests
<1>2. QED
  BY <1>1 DEF ProbeInv, Agrees

(* One more failed check makes the verdict worse when it should.           *)
LEMMA WorseAgrees ==
    ASSUME ProbeInv, NEW p \in Probes, Waiting(p), NEW check
    PROVE  LET failed == probe[p].failed \cup {check}
               verdict == Worse(probe[p].verdict, check)
               broken == \E c \in failed : Required(c)
           IN  /\ verdict = "not_ready" <=> broken
               /\ verdict = "degraded" <=> ~broken
               /\ verdict \in {"degraded", "not_ready"}
  BY DEF ProbeInv, Agrees, Worse

(* A check keeps verdict and failures in agreement, whether it passed or   *)
(* not.                                                                    *)
LEMMA CheckedAgrees ==
    ASSUME ProbeTypeOK, ProbeInv, NEW p \in Probes, Waiting(p), NEW from,
           NEW passed \in BOOLEAN, Checked(p, from, passed)
    PROVE  /\ Agrees(p)'
           /\ probe'[p].verdict \in {"ok", "degraded", "not_ready"}
           /\ \A q \in Probes : q # p => probe'[q] = probe[q]
<1> DEFINE check == Head(probe[p].todo)
           next  == [todo    |-> Tail(probe[p].todo),
                     failed  |-> IF passed THEN probe[p].failed
                                 ELSE probe[p].failed \cup {check},
                     verdict |-> IF passed THEN probe[p].verdict
                                 ELSE Worse(probe[p].verdict, check)]
<1>1. probe' = [probe EXCEPT ![p] = next]
  BY DEF Checked
<1>2. probe'[p] = next /\ \A q \in Probes : q # p => probe'[q] = probe[q]
  <2> HIDE DEF next
  <2> QED BY <1>1 DEF ProbeTypeOK
<1>3. CASE passed
  <2>1. probe'[p].failed = probe[p].failed /\ probe'[p].verdict = probe[p].verdict
    BY <1>2, <1>3
  <2>2. QED
    BY <1>2, <2>1 DEF ProbeInv, Agrees
<1>4. CASE ~passed
  <2>1. probe'[p].failed = probe[p].failed \cup {check}
        /\ probe'[p].verdict = Worse(probe[p].verdict, check)
    BY <1>2, <1>4
  <2> HIDE DEF check, next
  <2>2. QED
    BY <1>2, <2>1, WorseAgrees DEF Agrees
<1>5. QED
  BY <1>3, <1>4

(* Every step keeps ProbeInv.                                              *)
LEMMA ProbeInvStep ==
    TypeInv /\ ProbeInv /\ [ServingNext]_servingVars => ProbeInv'
<1> SUFFICES ASSUME TypeInv, ProbeInv, [ServingNext]_servingVars
             PROVE  ProbeInv'
  OBVIOUS
<1>0. ConnTypeOK /\ ProbeTypeOK /\ pc \in [Requests -> HandlerPcs]
  BY TypeParts DEF PoolTypeOK
<1>1. ASSUME UNCHANGED probe, \A p \in Probes : pc'[p] = pc[p]
      PROVE  ProbeInv'
  BY <1>1 DEF ProbeInv, Agrees, Waiting
<1>2. CASE StartUp \/ Stop \/ Listen \/ ServeReturns \/ Signal \/ Hang
  BY <1>1, <1>2, MainFrame
<1>3. ASSUME NEW r \in Requests,
             Accept(r) \/ ClientLeaves(r) \/ CloseIdle(r) \/ NoticeLost(r) \/ ReadTimesOut(r)
      PROVE  ProbeInv'
  BY <1>1, <1>3, ConnFrame
<1>4. ASSUME NEW d \in Redirects, BeginRedirect(d) \/ HandleRedirect(d)
      PROVE  ProbeInv'
  <2>1. UNCHANGED probe
    BY <1>4, BeginFrame, RedirectFrame
  <2>2. Others(d)
    BY <1>0, <1>4, RedirectLife DEF Begins, Runs, Ends
  <2>3. \A p \in Probes : pc'[p] = pc[p]
    BY <2>2, RequestsAssumption DEF Others, Requests
  <2>4. QED
    BY <1>1, <2>1, <2>3
<1>5. ASSUME NEW p \in Probes, BeginProbe(p) \/ HandleProbe(p)
      PROVE  ProbeInv'
  <2>0. \A q \in Probes : q # p => pc'[q] = pc[q]
    BY <1>0, <1>5, ProbeLife DEF Begins, Runs, Ends, Others, Requests
  <2>1. ASSUME \A q \in Probes : q # p => probe'[q] = probe[q],
               Agrees(p)',
               Waiting(p)' => probe'[p].verdict \in {"ok", "degraded", "not_ready"}
        PROVE  ProbeInv'
    BY <2>0, <2>1 DEF ProbeInv, Agrees, Waiting
  <2>2. ASSUME NEW from, NEW passed \in BOOLEAN, Waiting(p), Checked(p, from, passed)
        PROVE  ProbeInv'
    BY <1>0, <2>1, <2>2, CheckedAgrees
  <2>3. CASE BeginProbe(p)
    <3>1. ASSUME NEW todo, NEW verdict \in {"ok", "refused"},
                 probe' = [probe EXCEPT ![p] = [todo |-> todo, failed |-> {},
                                                verdict |-> verdict]],
                 Waiting(p)' => verdict = "ok"
          PROVE  ProbeInv'
      <4>1. /\ probe'[p].failed = {} /\ probe'[p].verdict = verdict
            /\ \A q \in Probes : q # p => probe'[q] = probe[q]
        BY <1>0, <3>1 DEF ProbeTypeOK
      <4>2. QED
        BY <2>1, <3>1, <4>1 DEF Agrees
    <3>2. CASE \E todo \in Checks :
                 probe' = [probe EXCEPT ![p] = [todo |-> todo, failed |-> {},
                                                verdict |-> "ok"]]
      <4>1. PICK todo \in Checks :
               probe' = [probe EXCEPT ![p] = [todo |-> todo, failed |-> {},
                                              verdict |-> "ok"]]
        BY <3>2
      <4>2. QED
        BY <3>1, <4>1
    <3>3. CASE /\ Move(p, "idle", "flush")
               /\ probe' = [probe EXCEPT ![p] = [todo |-> <<>>, failed |-> {},
                                                 verdict |-> "refused"]]
      <4>1. ~Waiting(p)'
        BY <1>0, <3>3 DEF Move, Requests, Waiting
      <4>2. QED
        BY <3>1, <3>3, <4>1
    <3>4. QED
      BY <2>3, <3>2, <3>3 DEF BeginProbe
  <2>4. CASE CheckMemory(p) \/ CheckRedis(p)
    BY <2>2, <2>4 DEF CheckMemory, CheckRedis, Waiting
  <2>5. CASE CheckPostgres(p)
    <3>1. CASE Checked(p, "check", FALSE)
      BY <2>2, <2>5, <3>1 DEF CheckPostgres, Waiting
    <3>2. CASE Acquire(p, "check", "ping") /\ UNCHANGED probe
      <4>1. Waiting(p)
        BY <2>5 DEF CheckPostgres, Waiting
      <4>2. Agrees(p)' /\ probe'[p].verdict \in {"ok", "degraded", "not_ready"}
        BY <3>2, <4>1 DEF ProbeInv, Agrees
      <4>3. QED
        BY <2>1, <3>2, <4>2
    <3>3. QED
      BY <2>5, <3>1, <3>2 DEF CheckPostgres
  <2>6. CASE Ping(p)
    BY <2>2, <2>6 DEF Ping, Checked, Move, Waiting
  <2>7. CASE Flush(p)
    <3>1. UNCHANGED probe /\ pc'[p] = "done"
      BY <1>0, <2>7 DEF Flush, Requests
    <3>2. QED
      BY <2>1, <3>1 DEF ProbeInv, Agrees, Waiting
  <2>8. QED
    BY <1>5, <2>3, <2>4, <2>5, <2>6, <2>7 DEF HandleProbe
<1>6. CASE UNCHANGED servingVars
  BY <1>1, <1>6 DEF servingVars
<1>7. QED
  BY <1>2, <1>3, <1>4, <1>5, <1>6 DEF ServingNext, Environment

(* The answer of a finished probe is not_ready exactly if a required       *)
(* component failed, degraded if only an optional one did.                 *)
THEOREM ServingSpec_DiagnosticsAgree == ServingSpec => []DiagnosticsAgree
<1>1. ProbeInv => DiagnosticsAgree
  BY DEF ProbeInv, Agrees, DiagnosticsAgree
<1>2. QED
  BY <1>1, ServingSpec_TypeInv, ProbeInit, ProbeInvStep, PTL DEF ServingSpec

-----------------------------------------------------------------------------
(* Redirects: analytics and metrics *)

ResolvingPcs == {"idle", "cache_get", "lookup", "query", "cache_put"}
RecordingPcs == {"analytics_total", "analytics_result", "analytics_latency"}

(* What is known of a redirect from where its handler is.                  *)
Stage(d) ==
    /\ pc[d] \in ResolvingPcs
         => result[d] = "error" /\ event[d] = "none" /\ d \notin events
    /\ pc[d] \in {"analytics", "insert"}
         => result[d] = "success" /\ event[d] = "none" /\ d \notin events
    /\ pc[d] \in RecordingPcs => result[d] = "success" /\ event[d] # "none"
    /\ d \in events => result[d] = "success"
    /\ event[d] = "success" => d \in events

StageInv == \A d \in Redirects : Stage(d)

(* No redirect has begun.                                                  *)
LEMMA StageInit == ServingInit => StageInv
  BY DEF ServingInit, StageInv, Stage, ResolvingPcs, RecordingPcs, Requests

(* Redirects other than d stay as they are. *)
OthersKept(d) ==
    \A q \in Redirects : q # d => /\ pc'[q] = pc[q]
                                  /\ result'[q] = result[q]
                                  /\ event'[q] = event[q]
                                  /\ q \in events' <=> q \in events

(* The steps of a redirect as this part sees them. *)
Resolves(d) ==
    /\ pc[d] \in ResolvingPcs
    /\ \/ pc'[d] \in ResolvingPcs /\ result'[d] = result[d]
       \/ pc'[d] = "analytics" /\ result'[d] = "success"
       \/ pc'[d] = "redirect_total" /\ result'[d] \in {"not_found", "error"}
    /\ UNCHANGED <<event, events, recorder>>

RecordsEvent(d) ==
    /\ pc[d] \in {"analytics", "insert"}
    /\ \/ pc'[d] \in {"analytics", "insert"} /\ event'[d] = event[d] /\ UNCHANGED events
       \/ pc'[d] = "analytics_total" /\ event'[d] = "success" /\ events' = events \cup {d}
       \/ /\ pc'[d] = "analytics_total" /\ event'[d] = "error"
          /\ events' = events \cup {d} \/ UNCHANGED events
    /\ UNCHANGED <<result, recorder>>

Records(d, f, from, counter, to) ==
    /\ pc[d] = from /\ pc'[d] = to
    /\ Bump(f, counter)
    /\ UNCHANGED <<result, event, events>>

Flushes(d) ==
    /\ pc[d] = "flush" /\ pc'[d] = "done"
    /\ UNCHANGED <<result, event, events, recorder>>

(* Every step of a redirect is of one of these kinds, and disturbs no other*)
(* redirect.                                                               *)
LEMMA RedirectKinds ==
    ASSUME TypeInv, StageInv, NEW d \in Redirects, BeginRedirect(d) \/ HandleRedirect(d)
    PROVE  /\ OthersKept(d)
           /\ \/ Resolves(d) \/ RecordsEvent(d) \/ Flushes(d)
              \/ Records(d, "analytics", "analytics_total", "total", "analytics_result")
              \/ Records(d, "analytics", "analytics_result", event[d], "analytics_latency")
              \/ Records(d, "analytics", "analytics_latency", "observed", "redirect_total")
              \/ Records(d, "redirect", "redirect_total", "total", "redirect_result")
              \/ Records(d, "redirect", "redirect_result", result[d], "redirect_latency")
              \/ Records(d, "redirect", "redirect_latency", "observed", "flush")
<1>0. RedirectTypeOK /\ ConnTypeOK /\ pc \in [Requests -> HandlerPcs]
  BY TypeParts DEF PoolTypeOK
<1>1. d \in Requests /\ \A q \in Redirects : q # d => pc'[q] = pc[q]
  BY <1>0, RedirectLife DEF Begins, Runs, Ends, Others, Requests
<1> USE DEF Move, RedirectTypeOK, redirectVars, ResolvingPcs
<1>2. CASE BeginRedirect(d)
  BY <1>0, <1>1, <1>2 DEF BeginRedirect, OthersKept, Resolves
<1>3. CASE CacheGet(d) \/ CachePut(d)
  BY <1>0, <1>1, <1>3 DEF CacheGet, CachePut, Resolved, OthersKept, Resolves
<1>4. CASE Query(d)
  BY <1>0, <1>1, <1>4 DEF Query, Resolved, Found, OthersKept, Resolves
<1>5. CASE Lookup(d)
  <2>1. CASE FindInMemory(d)
    BY <1>0, <1>1, <1>5, <2>1 DEF Lookup, FindInMemory, Resolved, Found, OthersKept, Resolves
  <2>2. CASE Acquire(d, "lookup", "query") /\ UNCHANGED result
    BY <1>0, <1>1, <1>5, <2>2 DEF Lookup, Acquire, OthersKept, Resolves
  <2>3. CASE NoConnection(d, "lookup", "redirect_total") /\ UNCHANGED result
    <3>1. result[d] = "error"
      BY <2>3 DEF NoConnection, StageInv, Stage
    <3>2. QED
      BY <1>0, <1>1, <1>5, <2>3, <3>1 DEF Lookup, NoConnection, OthersKept, Resolves
  <2>4. QED
    BY <1>5, <2>1, <2>2, <2>3 DEF Lookup
<1>6. CASE Analytics(d)
  BY <1>0, <1>1, <1>6 DEF Analytics, Acquire, NoConnection, EventIs, OthersKept, RecordsEvent
<1>7. CASE InsertEvent(d)
  BY <1>0, <1>1, <1>7 DEF InsertEvent, EventIs, OthersKept, RecordsEvent
<1>8. CASE RecordAnalytics(d) \/ RecordRedirect(d)
  BY <1>0, <1>1, <1>8 DEF RecordAnalytics, RecordRedirect, RecordStep, OthersKept, Records
<1>9. CASE Flush(d)
  BY <1>0, <1>1, <1>9 DEF Flush, OthersKept, Flushes
<1>10. QED
  BY <1>2, <1>3, <1>4, <1>5, <1>6, <1>7, <1>8, <1>9 DEF HandleRedirect

(* A step of a redirect keeps StageInv.                                    *)
LEMMA StageStep ==
    ASSUME TypeInv, StageInv, NEW d \in Redirects, BeginRedirect(d) \/ HandleRedirect(d)
    PROVE  StageInv'
<1>0. RedirectTypeOK
  BY TypeParts
<1>1. OthersKept(d)
  BY RedirectKinds
<1>2. \A q \in Redirects : q # d => Stage(q)'
  BY <1>1 DEF StageInv, Stage, OthersKept
<1>3. Stage(d)
  BY DEF StageInv
<1> USE DEF Stage, ResolvingPcs, RecordingPcs, RedirectTypeOK
<1>4. CASE Resolves(d)
  BY <1>0, <1>2, <1>3, <1>4 DEF Resolves, StageInv
<1>5. CASE RecordsEvent(d)
  BY <1>0, <1>2, <1>3, <1>5 DEF RecordsEvent, StageInv
<1>6. CASE Flushes(d)
  BY <1>0, <1>2, <1>3, <1>6 DEF Flushes, StageInv
<1>7. ASSUME NEW f, NEW from \in RecordingPcs, NEW counter,
             NEW to \in RecordingPcs \cup {"redirect_total"},
             Records(d, f, from, counter, to)
      PROVE  StageInv'
  BY <1>0, <1>2, <1>3, <1>7 DEF Records, StageInv
<1>8. ASSUME NEW f, NEW from \in {"redirect_total", "redirect_result", "redirect_latency"},
             NEW counter, NEW to \in {"redirect_result", "redirect_latency", "flush"},
             Records(d, f, from, counter, to)
      PROVE  StageInv'
  BY <1>0, <1>2, <1>3, <1>8 DEF Records, StageInv
<1>9. QED
  BY RedirectKinds, <1>4, <1>5, <1>6, <1>7, <1>8

(* Recorded events that analytics has not counted yet, and redirects to    *)
(* count as successes.                                                     *)
PendingEvents == {d \in Redirects :
                    pc[d] \in {"analytics_total", "analytics_result"} /\ event[d] = "success"}
PendingSuccesses == {d \in Redirects :
                       pc[d] \in {"redirect_total", "redirect_result"} /\ result[d] = "success"}

(* Successes counted and about to be counted are backed by events recorded,*)
(* and by latencies observed.                                              *)
CountInv ==
    /\ MetricsAddUp
    /\ recorder["analytics"]["success"] + Cardinality(PendingEvents) <= Cardinality(events)
    /\ recorder["redirect"]["success"] + Cardinality(PendingSuccesses)
         <= recorder["analytics"]["observed"]

(* All counters start at zero.                                             *)
LEMMA CountInit == ServingInit => CountInv
<1> SUFFICES ASSUME ServingInit PROVE CountInv
  OBVIOUS
<1>1. \A d \in Redirects : pc[d] = "idle"
  BY DEF ServingInit, Requests
<1>2. PendingEvents = {} /\ PendingSuccesses = {} /\ events = {}
  BY <1>1 DEF PendingEvents, PendingSuccesses, ServingInit
<1>3. \A f \in Families : At(AfterTotal[f]) = {} /\ At(AfterResult[f]) = {}
  BY <1>1 DEF At, AfterTotal, AfterResult, Families
<1>4. \A f \in Families, c \in Counters : recorder[f][c] = 0
  BY DEF ServingInit, NoCounts
<1>5. Cardinality({}) = 0
  BY FS_EmptySet
<1>6. QED
  BY <1>2, <1>3, <1>4, <1>5 DEF CountInv, MetricsAddUp, Bumped, Families, Counters

(* Sets that differ in one redirect at most differ by one in size.         *)
LEMMA Window ==
    ASSUME NEW V, NEW W, NEW d, IsFiniteSet(V), \A q : q # d => (q \in W <=> q \in V)
    PROVE  /\ IsFiniteSet(W)
           /\ Cardinality(V) \in Nat
           /\ (d \in V <=> d \in W) => Cardinality(W) = Cardinality(V)
           /\ d \notin V /\ d \in W => Cardinality(W) = Cardinality(V) + 1
           /\ d \in V /\ d \notin W => Cardinality(W) = Cardinality(V) - 1
<1>1. CASE d \in V <=> d \in W
  <2>1. W = V
    BY <1>1
  <2>2. QED
    BY <1>1, <2>1, FS_CardinalityType
<1>2. CASE d \notin V /\ d \in W
  <2>1. W = V \cup {d}
    BY <1>2
  <2>2. QED
    BY <1>2, <2>1, FS_CardinalityType, OneMore
<1>3. CASE d \in V /\ d \notin W
  <2>1. W = V \ {d}
    BY <1>3
  <2>2. QED
    BY <1>3, <2>1, FS_CardinalityType, OneLess
<1>4. QED
  BY <1>1, <1>2, <1>3

(* Counting changes one counter of one family, by one.                     *)
LEMMA BumpFacts ==
    ASSUME RedirectTypeOK, NEW f \in Families, NEW c \in Counters, Bump(f, c)
    PROVE  /\ recorder'[f][c] = recorder[f][c] + 1
           /\ \A g \in Families, e \in Counters :
                g # f \/ e # c => recorder'[g][e] = recorder[g][e]
<1>1. recorder \in [Families -> [Counters -> Nat]]
  BY DEF RedirectTypeOK
<1>2. recorder[f] \in [Counters -> Nat]
  BY <1>1
<1> DEFINE next == [recorder[f] EXCEPT ![c] = recorder[f][c] + 1]
<1>3. next[c] = recorder[f][c] + 1 /\ \A e \in Counters : e # c => next[e] = recorder[f][e]
  BY <1>2
<1>4. recorder' = [recorder EXCEPT ![f] = next]
  BY DEF Bump
<1> HIDE DEF next
<1>5. recorder'[f] = next /\ \A g \in Families : g # f => recorder'[g] = recorder[g]
  BY <1>1, <1>4
<1>6. QED
  BY <1>3, <1>5

(* A redirect that moves changes the number of those at a place by one.    *)
LEMMA AtWindow ==
    ASSUME NEW d \in Redirects, OthersKept(d), NEW where
    PROVE  /\ Cardinality(At(where)) \in Nat
           /\ (pc[d] = where <=> pc'[d] = where)
                => Cardinality(At(where)') = Cardinality(At(where))
           /\ pc[d] # where /\ pc'[d] = where
                => Cardinality(At(where)') = Cardinality(At(where)) + 1
           /\ pc[d] = where /\ pc'[d] # where
                => Cardinality(At(where)') = Cardinality(At(where)) - 1
<1>1. IsFiniteSet(At(where))
  BY RedirectsAssumption, FS_Subset DEF At
<1>2. \A q : q # d => (q \in At(where)' <=> q \in At(where))
  BY DEF OthersKept, At
<1>3. (d \in At(where) <=> pc[d] = where) /\ (d \in At(where)' <=> pc'[d] = where)
  BY DEF At
<1> DEFINE V == At(where)
           W == At(where)'
<1> HIDE DEF V, W
<1>4. IsFiniteSet(V) /\ \A q : q # d => (q \in W <=> q \in V)
  BY <1>1, <1>2 DEF V, W
<1>5. /\ Cardinality(V) \in Nat
      /\ (d \in V <=> d \in W) => Cardinality(W) = Cardinality(V)
      /\ d \notin V /\ d \in W => Cardinality(W) = Cardinality(V) + 1
      /\ d \in V /\ d \notin W => Cardinality(W) = Cardinality(V) - 1
  BY <1>4, Window
<1>6. QED
  BY <1>3, <1>5 DEF V, W

(* The same for the events that analytics has still to count ...           *)
LEMMA PendingEventsWindow ==
    ASSUME NEW d \in Redirects, OthersKept(d)
    PROVE  /\ Cardinality(PendingEvents) \in Nat
           /\ (d \in PendingEvents <=> d \in PendingEvents')
                => Cardinality(PendingEvents') = Cardinality(PendingEvents)
           /\ d \notin PendingEvents /\ d \in PendingEvents'
                => Cardinality(PendingEvents') = Cardinality(PendingEvents) + 1
           /\ d \in PendingEvents /\ d \notin PendingEvents'
                => Cardinality(PendingEvents') = Cardinality(PendingEvents) - 1
<1>1. IsFiniteSet(PendingEvents)
  BY RedirectsAssumption, FS_Subset DEF PendingEvents
<1>2. \A q : q # d => (q \in PendingEvents' <=> q \in PendingEvents)
  BY DEF OthersKept, PendingEvents
<1> DEFINE V == PendingEvents
           W == PendingEvents'
<1> HIDE DEF V, W
<1>3. IsFiniteSet(V) /\ \A q : q # d => (q \in W <=> q \in V)
  BY <1>1, <1>2 DEF V, W
<1>4. /\ Cardinality(V) \in Nat
      /\ (d \in V <=> d \in W) => Cardinality(W) = Cardinality(V)
      /\ d \notin V /\ d \in W => Cardinality(W) = Cardinality(V) + 1
      /\ d \in V /\ d \notin W => Cardinality(W) = Cardinality(V) - 1
  BY <1>3, Window
<1>5. QED
  BY <1>4 DEF V, W

(* ... and for the successes that the redirect metrics have still to count.*)
LEMMA PendingSuccessesWindow ==
    ASSUME NEW d \in Redirects, OthersKept(d)
    PROVE  /\ Cardinality(PendingSuccesses) \in Nat
           /\ (d \in PendingSuccesses <=> d \in PendingSuccesses')
                => Cardinality(PendingSuccesses') = Cardinality(PendingSuccesses)
           /\ d \notin PendingSuccesses /\ d \in PendingSuccesses'
                => Cardinality(PendingSuccesses') = Cardinality(PendingSuccesses) + 1
           /\ d \in PendingSuccesses /\ d \notin PendingSuccesses'
                => Cardinality(PendingSuccesses') = Cardinality(PendingSuccesses) - 1
<1>1. IsFiniteSet(PendingSuccesses)
  BY RedirectsAssumption, FS_Subset DEF PendingSuccesses
<1>2. \A q : q # d => (q \in PendingSuccesses' <=> q \in PendingSuccesses)
  BY DEF OthersKept, PendingSuccesses
<1> DEFINE V == PendingSuccesses
           W == PendingSuccesses'
<1> HIDE DEF V, W
<1>3. IsFiniteSet(V) /\ \A q : q # d => (q \in W <=> q \in V)
  BY <1>1, <1>2 DEF V, W
<1>4. /\ Cardinality(V) \in Nat
      /\ (d \in V <=> d \in W) => Cardinality(W) = Cardinality(V)
      /\ d \notin V /\ d \in W => Cardinality(W) = Cardinality(V) + 1
      /\ d \in V /\ d \notin W => Cardinality(W) = Cardinality(V) - 1
  BY <1>3, Window
<1>5. QED
  BY <1>4 DEF V, W

(* MetricsAddUp, written out for both families.                            *)
LEMMA CountParts ==
    MetricsAddUp
      <=> /\ recorder["redirect"]["total"] - Bumped("redirect")
               = Cardinality(At("redirect_result"))
          /\ Bumped("redirect") - recorder["redirect"]["observed"]
               = Cardinality(At("redirect_latency"))
          /\ recorder["analytics"]["total"] - Bumped("analytics")
               = Cardinality(At("analytics_result"))
          /\ Bumped("analytics") - recorder["analytics"]["observed"]
               = Cardinality(At("analytics_latency"))
<1>1. /\ AfterTotal["redirect"] = "redirect_result"
      /\ AfterTotal["analytics"] = "analytics_result"
      /\ AfterResult["redirect"] = "redirect_latency"
      /\ AfterResult["analytics"] = "analytics_latency"
  BY DEF AfterTotal, AfterResult
<1>2. QED
  BY <1>1 DEF MetricsAddUp, Families

Windows == {"redirect_result", "redirect_latency", "analytics_result", "analytics_latency"}

(* Counting on the way from one place to the next keeps the sums.          *)
LEMMA RecordsMetrics ==
    ASSUME RedirectTypeOK, MetricsAddUp, NEW d \in Redirects, OthersKept(d),
           NEW f \in Families, NEW c \in Counters, Bump(f, c),
           \/ c = "total" /\ pc[d] \notin Windows /\ pc'[d] = AfterTotal[f]
           \/ c \in Results /\ pc[d] = AfterTotal[f] /\ pc'[d] = AfterResult[f]
           \/ c = "observed" /\ pc[d] = AfterResult[f] /\ pc'[d] \notin Windows
    PROVE  MetricsAddUp'
<1>1. \A g \in Families, e \in Counters : recorder[g][e] \in Nat
  BY DEF RedirectTypeOK
<1>2. /\ recorder'[f][c] = recorder[f][c] + 1
      /\ \A g \in Families, e \in Counters :
           g # f \/ e # c => recorder'[g][e] = recorder[g][e]
  BY BumpFacts
<1>3. /\ AfterTotal["redirect"] = "redirect_result"
      /\ AfterTotal["analytics"] = "analytics_result"
      /\ AfterResult["redirect"] = "redirect_latency"
      /\ AfterResult["analytics"] = "analytics_latency"
  BY DEF AfterTotal, AfterResult
<1>4. ASSUME NEW g \in Families, g # f
      PROVE  /\ recorder'[g]["total"] - Bumped(g)' = Cardinality(At(AfterTotal[g])')
             /\ Bumped(g)' - recorder'[g]["observed"] = Cardinality(At(AfterResult[g])')
  <2>1. /\ pc[d] # AfterTotal[g] /\ pc'[d] # AfterTotal[g]
        /\ pc[d] # AfterResult[g] /\ pc'[d] # AfterResult[g]
    BY <1>3, <1>4 DEF Families, Windows
  <2>2. /\ Cardinality(At(AfterTotal[g])') = Cardinality(At(AfterTotal[g]))
        /\ Cardinality(At(AfterResult[g])') = Cardinality(At(AfterResult[g]))
    BY <2>1, AtWindow
  <2>3. Bumped(g)' = Bumped(g)
    BY <1>2, <1>4 DEF Bumped, Counters
  <2>4. recorder'[g]["total"] = recorder[g]["total"]
        /\ recorder'[g]["observed"] = recorder[g]["observed"]
    BY <1>2, <1>4 DEF Counters
  <2>5. QED
    BY <2>2, <2>3, <2>4 DEF MetricsAddUp
<1>5. AfterTotal[f] # AfterResult[f] /\ AfterTotal[f] \in Windows /\ AfterResult[f] \in Windows
  BY <1>3 DEF Families, Windows
<1>6. Bumped(f)' = IF c \in Results THEN Bumped(f) + 1 ELSE Bumped(f)
  BY <1>1, <1>2 DEF Bumped, Counters, Results
<1>7. /\ recorder'[f]["total"] = recorder[f]["total"] + (IF c = "total" THEN 1 ELSE 0)
      /\ recorder'[f]["observed"]
           = recorder[f]["observed"] + (IF c = "observed" THEN 1 ELSE 0)
  BY <1>1, <1>2 DEF Counters
<1>8. /\ recorder[f]["total"] - Bumped(f) = Cardinality(At(AfterTotal[f]))
      /\ Bumped(f) - recorder[f]["observed"] = Cardinality(At(AfterResult[f]))
      /\ recorder[f]["total"] \in Nat /\ Bumped(f) \in Nat /\ recorder[f]["observed"] \in Nat
  BY <1>1 DEF MetricsAddUp, Bumped, Counters
<1>9. /\ recorder'[f]["total"] - Bumped(f)' = Cardinality(At(AfterTotal[f])')
      /\ Bumped(f)' - recorder'[f]["observed"] = Cardinality(At(AfterResult[f])')
  <2>1. CASE c = "total" /\ pc[d] \notin Windows /\ pc'[d] = AfterTotal[f]
    <3>1. /\ Cardinality(At(AfterTotal[f])') = Cardinality(At(AfterTotal[f])) + 1
          /\ Cardinality(At(AfterResult[f])') = Cardinality(At(AfterResult[f]))
      BY <1>5, <2>1, AtWindow
    <3>2. QED
      BY <1>6, <1>7, <1>8, <2>1, <3>1 DEF Results
  <2>2. CASE c \in Results /\ pc[d] = AfterTotal[f] /\ pc'[d] = AfterResult[f]
    <3>1. /\ Cardinality(At(AfterTotal[f])') = Cardinality(At(AfterTotal[f])) - 1
          /\ Cardinality(At(AfterResult[f])') = Cardinality(At(AfterResult[f])) + 1
      BY <1>5, <2>2, AtWindow
    <3>2. QED
      BY <1>6, <1>7, <1>8, <2>2, <3>1 DEF Results
  <2>3. CASE c = "observed" /\ pc[d] = AfterResult[f] /\ pc'[d] \notin Windows
    <3>1. /\ Cardinality(At(AfterTotal[f])') = Cardinality(At(AfterTotal[f]))
          /\ Cardinality(At(AfterResult[f])') = Cardinality(At(AfterResult[f])) - 1
      BY <1>5, <2>3, AtWindow
    <3>2. QED
      BY <1>6, <1>7, <1>8, <2>3, <3>1 DEF Results
  <2>4. QED
    BY <2>1, <2>2, <2>3
<1>10. QED
  BY <1>4, <1>9 DEF MetricsAddUp

(* A step of a redirect keeps CountInv.                                    *)
LEMMA CountStep ==
    ASSUME TypeInv, StageInv, CountInv,
           NEW d \in Redirects, BeginRedirect(d) \/ HandleRedirect(d)
    PROVE  CountInv'
<1>0. RedirectTypeOK
  BY TypeParts
<1>1. OthersKept(d) /\ Stage(d)
  BY RedirectKinds DEF StageInv
<1>2. \A f \in Families, c \in Counters : recorder[f][c] \in Nat
  BY <1>0 DEF RedirectTypeOK
<1>3. /\ AfterTotal["redirect"] = "redirect_result"
      /\ AfterTotal["analytics"] = "analytics_result"
      /\ AfterResult["redirect"] = "redirect_latency"
      /\ AfterResult["analytics"] = "analytics_latency"
  BY DEF AfterTotal, AfterResult
<1>4. IsFiniteSet(events) /\ Cardinality(events) \in Nat
  BY <1>0, RedirectsAssumption, FS_Subset, FS_CardinalityType DEF RedirectTypeOK
<1>5. /\ d \in PendingEvents
           <=> pc[d] \in {"analytics_total", "analytics_result"} /\ event[d] = "success"
      /\ d \in PendingEvents'
           <=> pc'[d] \in {"analytics_total", "analytics_result"} /\ event'[d] = "success"
      /\ d \in PendingSuccesses
           <=> pc[d] \in {"redirect_total", "redirect_result"} /\ result[d] = "success"
      /\ d \in PendingSuccesses'
           <=> pc'[d] \in {"redirect_total", "redirect_result"} /\ result'[d] = "success"
  BY DEF PendingEvents, PendingSuccesses
<1>6. ASSUME UNCHANGED recorder,
             \A where \in {"redirect_result", "redirect_latency",
                            "analytics_result", "analytics_latency"} :
               pc[d] # where /\ pc'[d] # where
      PROVE  MetricsAddUp'
  <2>1. \A where \in {"redirect_result", "redirect_latency",
                       "analytics_result", "analytics_latency"} :
           Cardinality(At(where)') = Cardinality(At(where))
    BY <1>1, <1>6, AtWindow
  <2>2. \A f \in Families : /\ Cardinality(At(AfterTotal[f])') = Cardinality(At(AfterTotal[f]))
                            /\ Cardinality(At(AfterResult[f])') = Cardinality(At(AfterResult[f]))
    BY <1>3, <2>1 DEF Families
  <2>3. QED
    BY <1>6, <2>2 DEF CountInv, MetricsAddUp, Bumped
<1>7. CASE Resolves(d)
  <2>1. MetricsAddUp'
    BY <1>6, <1>7 DEF Resolves, ResolvingPcs
  <2>2. Cardinality(PendingEvents') = Cardinality(PendingEvents)
    BY <1>1, <1>5, <1>7, PendingEventsWindow DEF Resolves, ResolvingPcs
  <2>3. Cardinality(PendingSuccesses') = Cardinality(PendingSuccesses)
    BY <1>1, <1>5, <1>7, PendingSuccessesWindow DEF Resolves, ResolvingPcs
  <2>4. QED
    BY <1>7, <2>1, <2>2, <2>3 DEF CountInv, Resolves
<1>8. CASE RecordsEvent(d)
  <2>1. MetricsAddUp'
    BY <1>6, <1>8 DEF RecordsEvent
  <2>2. Cardinality(PendingSuccesses') = Cardinality(PendingSuccesses)
    BY <1>1, <1>5, <1>8, PendingSuccessesWindow DEF RecordsEvent
  <2>3. d \notin events /\ d \notin PendingEvents
    BY <1>1, <1>5, <1>8 DEF RecordsEvent, Stage
  <2>4. \/ d \notin PendingEvents' /\ (events' = events \/ events' = events \cup {d})
        \/ d \in PendingEvents' /\ events' = events \cup {d}
    BY <1>1, <1>5, <1>8 DEF RecordsEvent, Stage
  <2>5. /\ d \in PendingEvents'
             => Cardinality(PendingEvents') = Cardinality(PendingEvents) + 1
        /\ d \notin PendingEvents'
             => Cardinality(PendingEvents') = Cardinality(PendingEvents)
        /\ Cardinality(PendingEvents) \in Nat
    BY <1>1, <2>3, PendingEventsWindow
  <2>6. events' = events \cup {d} => Cardinality(events') = Cardinality(events) + 1
    BY <1>4, <2>3, OneMore
  <2>7. recorder["analytics"]["success"] + Cardinality(PendingEvents) <= Cardinality(events)
    BY DEF CountInv
  <2>8. recorder["analytics"]["success"] \in Nat
    BY <1>2 DEF Families, Counters
  <2>9. recorder["analytics"]["success"] + Cardinality(PendingEvents') <= Cardinality(events')
    BY <1>4, <2>4, <2>5, <2>6, <2>7, <2>8
  <2>10. QED
    BY <1>8, <2>1, <2>2, <2>9 DEF CountInv, RecordsEvent
<1>9. CASE Flushes(d)
  <2>1. MetricsAddUp'
    BY <1>6, <1>9 DEF Flushes
  <2>2. Cardinality(PendingEvents') = Cardinality(PendingEvents)
    BY <1>1, <1>5, <1>9, PendingEventsWindow DEF Flushes
  <2>3. Cardinality(PendingSuccesses') = Cardinality(PendingSuccesses)
    BY <1>1, <1>5, <1>9, PendingSuccessesWindow DEF Flushes
  <2>4. QED
    BY <1>9, <2>1, <2>2, <2>3 DEF CountInv, Flushes
<1>10. /\ recorder["analytics"]["success"] + Cardinality(PendingEvents) <= Cardinality(events)
       /\ recorder["redirect"]["success"] + Cardinality(PendingSuccesses)
            <= recorder["analytics"]["observed"]
       /\ MetricsAddUp
  BY DEF CountInv
<1>11. /\ recorder["analytics"]["success"] \in Nat /\ recorder["redirect"]["success"] \in Nat
       /\ recorder["analytics"]["observed"] \in Nat
       /\ Cardinality(PendingEvents) \in Nat /\ Cardinality(PendingSuccesses) \in Nat
  BY <1>1, <1>2, PendingEventsWindow, PendingSuccessesWindow DEF Families, Counters
<1>12. event[d] \in {"none", "success", "error"} /\ result[d] \in Results
  BY <1>0 DEF RedirectTypeOK
<1>13. CASE Records(d, "analytics", "analytics_total", "total", "analytics_result")
  <2>1. MetricsAddUp'
    BY <1>0, <1>1, <1>3, <1>10, <1>13, RecordsMetrics DEF Records, Families, Counters, Windows
  <2>2. /\ Cardinality(PendingEvents') = Cardinality(PendingEvents)
        /\ Cardinality(PendingSuccesses') = Cardinality(PendingSuccesses)
    BY <1>1, <1>5, <1>13, PendingEventsWindow, PendingSuccessesWindow DEF Records
  <2>3. /\ recorder'["analytics"]["success"] = recorder["analytics"]["success"]
        /\ recorder'["redirect"]["success"] = recorder["redirect"]["success"]
        /\ recorder'["analytics"]["observed"] = recorder["analytics"]["observed"]
    BY <1>0, <1>13, BumpFacts DEF Records, Families, Counters
  <2>4. QED
    BY <1>10, <1>13, <2>1, <2>2, <2>3 DEF CountInv, Records
<1>14. CASE Records(d, "analytics", "analytics_result", event[d], "analytics_latency")
  <2>1. event[d] \in {"success", "error"}
    BY <1>1, <1>12, <1>14 DEF Records, Stage, RecordingPcs
  <2>2. MetricsAddUp'
    BY <1>0, <1>1, <1>3, <1>10, <1>14, <2>1, RecordsMetrics
       DEF Records, Families, Counters, Windows, Results
  <2>3. Cardinality(PendingSuccesses') = Cardinality(PendingSuccesses)
    BY <1>1, <1>5, <1>14, PendingSuccessesWindow DEF Records
  <2>4. /\ recorder'["redirect"]["success"] = recorder["redirect"]["success"]
        /\ recorder'["analytics"]["observed"] = recorder["analytics"]["observed"]
    BY <1>0, <1>14, <2>1, BumpFacts DEF Records, Families, Counters
  <2>5. CASE event[d] = "success"
    <3>1. Cardinality(PendingEvents') = Cardinality(PendingEvents) - 1
      BY <1>1, <1>5, <1>14, <2>5, PendingEventsWindow DEF Records
    <3>2. recorder'["analytics"]["success"] = recorder["analytics"]["success"] + 1
      BY <1>0, <1>14, <2>5, BumpFacts DEF Records, Families, Counters
    <3>3. recorder'["analytics"]["success"] + Cardinality(PendingEvents') <= Cardinality(events)
      BY <1>4, <1>10, <1>11, <3>1, <3>2
    <3>4. QED
      BY <1>10, <1>14, <2>2, <2>3, <2>4, <3>3 DEF CountInv, Records
  <2>6. CASE event[d] = "error"
    <3>1. Cardinality(PendingEvents') = Cardinality(PendingEvents)
      BY <1>1, <1>5, <1>14, <2>6, PendingEventsWindow DEF Records
    <3>2. recorder'["analytics"]["success"] = recorder["analytics"]["success"]
      BY <1>0, <1>14, <2>6, BumpFacts DEF Records, Families, Counters
    <3>3. QED
      BY <1>10, <1>14, <2>2, <2>3, <2>4, <3>1, <3>2 DEF CountInv, Records
  <2>7. QED
    BY <2>1, <2>5, <2>6
<1>15. CASE Records(d, "analytics", "analytics_latency", "observed", "redirect_total")
  <2>1. MetricsAddUp'
    BY <1>0, <1>1, <1>3, <1>10, <1>15, RecordsMetrics DEF Records, Families, Counters, Windows
  <2>2. Cardinality(PendingEvents') = Cardinality(PendingEvents)
    BY <1>1, <1>5, <1>15, PendingEventsWindow DEF Records
  <2>3. Cardinality(PendingSuccesses') = Cardinality(PendingSuccesses) + 1
    BY <1>1, <1>5, <1>15, PendingSuccessesWindow DEF Records, Stage, RecordingPcs
  <2>4. /\ recorder'["analytics"]["success"] = recorder["analytics"]["success"]
        /\ recorder'["redirect"]["success"] = recorder["redirect"]["success"]
        /\ recorder'["analytics"]["observed"] = recorder["analytics"]["observed"] + 1
    BY <1>0, <1>15, BumpFacts DEF Records, Families, Counters
  <2>5. recorder'["redirect"]["success"] + Cardinality(PendingSuccesses')
          <= recorder'["analytics"]["observed"]
    BY <1>10, <1>11, <2>3, <2>4
  <2>6. QED
    BY <1>10, <1>15, <2>1, <2>2, <2>4, <2>5 DEF CountInv, Records
<1>16. CASE Records(d, "redirect", "redirect_total", "total", "redirect_result")
  <2>1. MetricsAddUp'
    BY <1>0, <1>1, <1>3, <1>10, <1>16, RecordsMetrics DEF Records, Families, Counters, Windows
  <2>2. /\ Cardinality(PendingEvents') = Cardinality(PendingEvents)
        /\ Cardinality(PendingSuccesses') = Cardinality(PendingSuccesses)
    BY <1>1, <1>5, <1>16, PendingEventsWindow, PendingSuccessesWindow DEF Records
  <2>3. /\ recorder'["analytics"]["success"] = recorder["analytics"]["success"]
        /\ recorder'["redirect"]["success"] = recorder["redirect"]["success"]
        /\ recorder'["analytics"]["observed"] = recorder["analytics"]["observed"]
    BY <1>0, <1>16, BumpFacts DEF Records, Families, Counters
  <2>4. QED
    BY <1>10, <1>16, <2>1, <2>2, <2>3 DEF CountInv, Records
<1>17. CASE Records(d, "redirect", "redirect_result", result[d], "redirect_latency")
  <2>1. MetricsAddUp'
    BY <1>0, <1>1, <1>3, <1>10, <1>12, <1>17, RecordsMetrics
       DEF Records, Families, Counters, Windows, Results
  <2>2. Cardinality(PendingEvents') = Cardinality(PendingEvents)
    BY <1>1, <1>5, <1>17, PendingEventsWindow DEF Records
  <2>3. /\ recorder'["analytics"]["success"] = recorder["analytics"]["success"]
        /\ recorder'["analytics"]["observed"] = recorder["analytics"]["observed"]
    BY <1>0, <1>12, <1>17, BumpFacts DEF Records, Families, Counters, Results
  <2>4. CASE result[d] = "success"
    <3>1. Cardinality(PendingSuccesses') = Cardinality(PendingSuccesses) - 1
      BY <1>1, <1>5, <1>17, <2>4, PendingSuccessesWindow DEF Records
    <3>2. recorder'["redirect"]["success"] = recorder["redirect"]["success"] + 1
      BY <1>0, <1>17, <2>4, BumpFacts DEF Records, Families, Counters
    <3>3. recorder'["redirect"]["success"] + Cardinality(PendingSuccesses')
            <= recorder["analytics"]["observed"]
      BY <1>10, <1>11, <3>1, <3>2
    <3>4. QED
      BY <1>10, <1>17, <2>1, <2>2, <2>3, <3>3 DEF CountInv, Records
  <2>5. CASE result[d] # "success"
    <3>1. Cardinality(PendingSuccesses') = Cardinality(PendingSuccesses)
      BY <1>1, <1>5, <1>17, <2>5, PendingSuccessesWindow DEF Records
    <3>2. recorder'["redirect"]["success"] = recorder["redirect"]["success"]
      BY <1>0, <1>12, <1>17, <2>5, BumpFacts DEF Records, Families, Counters, Results
    <3>3. QED
      BY <1>10, <1>17, <2>1, <2>2, <2>3, <3>1, <3>2 DEF CountInv, Records
  <2>6. QED
    BY <2>4, <2>5
<1>18. CASE Records(d, "redirect", "redirect_latency", "observed", "flush")
  <2>1. MetricsAddUp'
    BY <1>0, <1>1, <1>3, <1>10, <1>18, RecordsMetrics DEF Records, Families, Counters, Windows
  <2>2. /\ Cardinality(PendingEvents') = Cardinality(PendingEvents)
        /\ Cardinality(PendingSuccesses') = Cardinality(PendingSuccesses)
    BY <1>1, <1>5, <1>18, PendingEventsWindow, PendingSuccessesWindow DEF Records
  <2>3. /\ recorder'["analytics"]["success"] = recorder["analytics"]["success"]
        /\ recorder'["redirect"]["success"] = recorder["redirect"]["success"]
        /\ recorder'["analytics"]["observed"] = recorder["analytics"]["observed"]
    BY <1>0, <1>18, BumpFacts DEF Records, Families, Counters
  <2>4. QED
    BY <1>10, <1>18, <2>1, <2>2, <2>3 DEF CountInv, Records
<1>19. QED
  BY RedirectKinds, <1>7, <1>8, <1>9, <1>13, <1>14, <1>15, <1>16, <1>17, <1>18

RedirectInv == StageInv /\ CountInv

(* Every step keeps StageInv and CountInv.                                 *)
LEMMA RedirectInvStep ==
    TypeInv /\ RedirectInv /\ [ServingNext]_servingVars => RedirectInv'
<1> SUFFICES ASSUME TypeInv, RedirectInv, [ServingNext]_servingVars
             PROVE  RedirectInv'
  OBVIOUS
<1>0. ConnTypeOK /\ pc \in [Requests -> HandlerPcs]
  BY TypeParts DEF PoolTypeOK
<1>1. ASSUME UNCHANGED redirectVars, \A d \in Redirects : pc'[d] = pc[d]
      PROVE  RedirectInv'
  <2>1. StageInv'
    BY <1>1 DEF RedirectInv, StageInv, Stage, redirectVars
  <2>2. /\ \A where : At(where)' = At(where)
        /\ UNCHANGED <<PendingEvents, PendingSuccesses>>
    BY <1>1 DEF At, PendingEvents, PendingSuccesses, redirectVars
  <2>3. CountInv'
    BY <1>1, <2>2 DEF RedirectInv, CountInv, MetricsAddUp, Bumped, redirectVars
  <2>4. QED
    BY <2>1, <2>3 DEF RedirectInv
<1>2. CASE StartUp \/ Stop \/ Listen \/ ServeReturns \/ Signal \/ Hang
  BY <1>1, <1>2, MainFrame
<1>3. ASSUME NEW r \in Requests,
             Accept(r) \/ ClientLeaves(r) \/ CloseIdle(r) \/ NoticeLost(r) \/ ReadTimesOut(r)
      PROVE  RedirectInv'
  BY <1>1, <1>3, ConnFrame
<1>4. ASSUME NEW d \in Redirects, BeginRedirect(d) \/ HandleRedirect(d)
      PROVE  RedirectInv'
  BY <1>4, StageStep, CountStep DEF RedirectInv
<1>5. ASSUME NEW p \in Probes, BeginProbe(p) \/ HandleProbe(p)
      PROVE  RedirectInv'
  <2>1. UNCHANGED redirectVars
    BY <1>5, ProbeFrame
  <2>2. \A q \in Requests : q # p => pc'[q] = pc[q]
    BY <1>0, <1>5, ProbeLife DEF Begins, Runs, Ends, Others
  <2>3. \A d \in Redirects : pc'[d] = pc[d]
    BY <2>2, RequestsAssumption DEF Requests
  <2>4. QED
    BY <1>1, <2>1, <2>3
<1>6. CASE UNCHANGED servingVars
  BY <1>1, <1>6 DEF servingVars
<1>7. QED
  BY <1>2, <1>3, <1>4, <1>5, <1>6 DEF ServingNext, Environment

(* What is recorded and counted follows the redirects through their        *)
(* handlers.                                                               *)
THEOREM ServingSpec_RedirectInv == ServingSpec => [](TypeInv /\ RedirectInv)
<1>1. ServingInit => RedirectInv
  BY StageInit, CountInit DEF RedirectInv
<1>2. QED
  BY <1>1, TypeInit, TypeStep, RedirectInvStep, PTL DEF ServingSpec

(* A snapshot of the metrics is off by the handlers that are recording.    *)
THEOREM ServingSpec_MetricsAddUp == ServingSpec => []MetricsAddUp
<1>1. RedirectInv => MetricsAddUp
  BY DEF RedirectInv, CountInv
<1>2. QED
  BY <1>1, ServingSpec_RedirectInv, PTL

(* Counted successes of analytics are stored, and counted successes of     *)
(* redirects have been through analytics.                                  *)
THEOREM ServingSpec_AnalyticsAccounted == ServingSpec => []AnalyticsAccounted
<1>1. TypeInv /\ RedirectInv => AnalyticsAccounted
  <2> SUFFICES ASSUME TypeInv, RedirectInv PROVE AnalyticsAccounted
    OBVIOUS
  <2>0. RedirectTypeOK
    BY TypeParts
  <2>1. \A d \in events : result[d] = "success"
    BY <2>0 DEF RedirectInv, StageInv, Stage, RedirectTypeOK
  <2>2. Cardinality(PendingEvents) \in Nat /\ Cardinality(PendingSuccesses) \in Nat
    BY RedirectsAssumption, FS_Subset, FS_CardinalityType DEF PendingEvents, PendingSuccesses
  <2>3. /\ recorder["analytics"]["success"] \in Nat /\ recorder["redirect"]["success"] \in Nat
        /\ recorder["analytics"]["observed"] \in Nat
    BY <2>0 DEF RedirectTypeOK, Families, Counters
  <2>4. Cardinality(events) \in Nat
    BY <2>0, RedirectsAssumption, FS_Subset, FS_CardinalityType DEF RedirectTypeOK
  <2>5. QED
    BY <2>1, <2>2, <2>3, <2>4 DEF RedirectInv, CountInv, AnalyticsAccounted
<1>2. QED
  BY <1>1, ServingSpec_RedirectInv, PTL
=============================================================================
