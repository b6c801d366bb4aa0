------------------------------- MODULE Serving -------------------------------
(***************************************************************************)
(* One process of linkd from its start to its exit (cmd/linkd/main.go),    *)
(* with the requests it serves: redirects with their analytics event and   *)
(* their metrics (httpapi/handler.go), readiness and diagnostics probes    *)
(* (internal/health).                                                      *)
(*                                                                         *)
(* main, the goroutine of ListenAndServe and one goroutine per request     *)
(* share the Postgres pool, the Redis client and the metrics recorder.     *)
(* What a redirect resolves to is left open here (RedirectSystem has it):  *)
(* a lookup finds a link that redirects, finds none that does, or fails.   *)
(* Families of metrics other than the two the handler records are left out.*)
(***************************************************************************)
EXTENDS Integers, Sequences, FiniteSets

CONSTANTS Redirects,   \* GET /{code} requests
          Probes,      \* GET /readyz and GET /internal/diagnostics requests
          MaxConns,    \* connections of the Postgres pool
          Configs      \* the configurations tried

ASSUME MaxConnsAssumption == MaxConns \in Nat \ {0}
ASSUME ConfigsAssumption ==
    Configs \subseteq [storage : {"memory", "postgres"}, cache : {"none", "redis"}]
ASSUME RedirectsAssumption == IsFiniteSet(Redirects)
ASSUME RequestsAssumption == Redirects \cap Probes = {}

VARIABLES
    config,      \* the loaded configuration
    main,        \* where run() is
    exit,        \* what run() returns
    signalled,   \* ctx of signal.NotifyContext is done
    serve,       \* the goroutine of ListenAndServe
    store,       \* the pool and the Redis client
    holders,     \* requests that have a connection of the pool
    hung,        \* Postgres accepts statements but does not answer them
    conn,        \* conn[r] is the client's connection
    cancelled,   \* requests whose context is cancelled
    pc,          \* pc[r] is where the handler of r is
    result,      \* resultName of handleRedirect
    event,       \* the result of the analytics record
    events,      \* redirects with a stored analytics event
    recorder,    \* counters and number of observations per family
    probe        \* probe[p] is the progress of a health check

mainVars    == <<config, main, exit, signalled, serve, store>>
redirectVars == <<result, event, events, recorder>>
servingVars == <<mainVars, holders, hung, conn, cancelled, pc,
                 redirectVars, probe>>

Requests == Redirects \cup Probes
Stores == {"postgres", "redis"}

NoConfig == [storage |-> "memory", cache |-> "none"]

Families == {"redirect", "analytics"}
Results == {"success", "not_found", "error"}
Counters == {"total", "success", "not_found", "error", "observed"}
NoCounts == [c \in Counters |-> 0]

Idle(r) == pc[r] \in {"idle", "done"}
Running(r) == ~Idle(r)

(* The handlers and the connections of the server run in this process.     *)
Alive == main # "exited"

ServingInit ==
    /\ config = NoConfig
    /\ main = "load_config"
    /\ exit = "none"
    /\ signalled = FALSE
    /\ serve = "off"
    /\ store = [s \in Stores |-> "absent"]
    /\ holders = {}
    /\ hung = FALSE
    /\ conn = [r \in Requests |-> "none"]
    /\ cancelled = {}
    /\ pc = [r \in Requests |-> "idle"]
    /\ result = [d \in Redirects |-> "error"]
    /\ event = [d \in Redirects |-> "none"]
    /\ events = {}
    /\ recorder = [f \in Families |-> NoCounts]
    /\ probe = [p \in Probes |-> [todo |-> <<>>, failed |-> {},
                                  verdict |-> "none"]]

-----------------------------------------------------------------------------
(* run() up to the select *)

requestVars == <<holders, conn, cancelled, pc, redirectVars, probe>>

(* Deferred cleanups run, last registered first: the Redis client, the pool.*)
Return(status) == exit' = status /\ main' = "close_cache"

LoadConfig ==
    /\ main = "load_config"
    /\ \/ config' \in Configs /\ main' = "build_storage" /\ UNCHANGED exit
       \/ exit' = "error" /\ main' = "exited" /\ UNCHANGED config
    /\ UNCHANGED <<signalled, serve, store, hung, requestVars>>

(* Open the pool and ping Postgres, which a signal interrupts.             *)
BuildStorage ==
    /\ main = "build_storage"
    /\ \/ /\ config.storage = "memory"
          /\ main' = "build_resolver"
          /\ UNCHANGED <<exit, store>>
       \/ /\ config.storage = "postgres" /\ ~hung
          /\ main' = "build_resolver"
          /\ store' = [store EXCEPT !["postgres"] = "open"]
          /\ UNCHANGED exit
       \/ /\ config.storage = "postgres"
          /\ exit' = "error" /\ main' = "exited"
          /\ UNCHANGED store
    /\ UNCHANGED <<config, signalled, serve, hung, requestVars>>

(* buildLinkResolver: ParseURL may fail, which runs the deferred cleanup of*)
(* the storage.                                                            *)
BuildResolver ==
    /\ main = "build_resolver"
    /\ \/ /\ main' = "start"
          /\ store' = [store EXCEPT !["redis"] =
                         IF config.cache = "redis" THEN "open" ELSE @]
          /\ UNCHANGED exit
       \/ /\ config.cache = "redis"
          /\ exit' = "error" /\ main' = "close_storage"
          /\ UNCHANGED store
    /\ UNCHANGED <<config, signalled, serve, hung, requestVars>>

StartServing ==
    /\ main = "start"
    /\ main' = "select"
    /\ serve' = "starting"
    /\ UNCHANGED <<config, exit, signalled, store, hung, requestVars>>

Signal ==
    /\ main \notin {"load_config", "exited"}
    /\ ~signalled
    /\ signalled' = TRUE
    /\ UNCHANGED <<config, main, exit, serve, store, hung, requestVars>>

-----------------------------------------------------------------------------
(* ListenAndServe *)

(* It listens unless Shutdown has been called, and may fail to bind.       *)
Listen ==
    /\ Alive
    /\ serve = "starting"
    /\ \/ main = "select" /\ serve' = "listening"
       \/ main # "select" /\ serve' = "closed"
       \/ serve' = "failed"
    /\ UNCHANGED <<config, main, exit, signalled, store, hung, requestVars>>

(* Accept fails: because Shutdown closed the listener, or all by itself.   *)
ServeReturns ==
    /\ Alive
    /\ serve = "listening"
    /\ serve' = IF main = "select" THEN "failed" ELSE "closed"
    /\ UNCHANGED <<config, main, exit, signalled, store, hung, requestVars>>

-----------------------------------------------------------------------------
(* run() from the select to the exit *)

(* A result of the serving goroutine is received before the signal.        *)
ServeEnded ==
    /\ main = "select"
    /\ serve \in {"failed", "closed"}
    /\ Return(IF serve = "failed" THEN "error" ELSE "ok")
    /\ UNCHANGED <<config, signalled, serve, store, hung, requestVars>>

Shutdown ==
    /\ main = "select"
    /\ signalled
    /\ main' = "shutdown"
    /\ UNCHANGED <<config, exit, signalled, serve, store, hung, requestVars>>

(* Shutdown counts a connection without a request as idle after a while.   *)
CloseIdle(r) ==
    /\ main = "shutdown"
    /\ conn[r] = "new"
    /\ conn' = [conn EXCEPT ![r] = "idle"]
    /\ UNCHANGED <<mainVars, holders, hung, cancelled, pc, redirectVars, probe>>

InFlight(r) == conn[r] = "new" \/ Running(r)

(* Seeded fault: only the handlers whose client still listens count.       *)
NobodyListening == \A r \in Requests : conn[r] \notin {"new", "active"}

(* Shutdown returns when the last connection has been closed.              *)
Drained == \A r \in Requests : ~InFlight(r)

ShutdownCompletes ==
    /\ main = "shutdown"
    /\ Drained
    /\ main' = "await_serve"
    /\ UNCHANGED <<config, exit, signalled, serve, store, hung, requestVars>>

(* Seeded fault: the handlers are left alone.                              *)
CutNobody == UNCHANGED conn

(* All connections are cut.                                                *)
CutOff == conn' = [r \in Requests |->
                     IF conn[r] \in {"new", "active"} THEN "cut" ELSE conn[r]]

(* Seeded fault: a forced shutdown is reported as a success.               *)
TimesOutQuietly ==
    /\ main = "shutdown"
    /\ CutOff
    /\ Return("ok")
    /\ UNCHANGED <<config, signalled, serve, store, holders, hung, cancelled,
                   pc, redirectVars, probe>>

(* The shutdown timeout has passed: server.Close.                          *)
ShutdownTimesOut ==
    /\ main = "shutdown"
    /\ CutOff
    /\ Return("error")
    /\ UNCHANGED <<config, signalled, serve, store, holders, hung, cancelled,
                   pc, redirectVars, probe>>

AwaitServe ==
    /\ main = "await_serve"
    /\ serve \in {"failed", "closed"}
    /\ Return(IF serve = "failed" THEN "error" ELSE "ok")
    /\ UNCHANGED <<config, signalled, serve, store, hung, requestVars>>

CloseCache ==
    /\ main = "close_cache"
    /\ main' = "close_storage"
    /\ store' = [store EXCEPT !["redis"] = IF @ = "open" THEN "closed" ELSE @]
    /\ UNCHANGED <<config, exit, signalled, serve, hung, requestVars>>

(* pool.Close refuses new acquisitions, then waits for the holders.        *)
ClosePool ==
    /\ main = "close_storage"
    /\ store["postgres"] = "open"
    /\ store' = [store EXCEPT !["postgres"] = "closing"]
    /\ UNCHANGED <<config, main, exit, signalled, serve, hung, requestVars>>

(* The process ends, and with it what is still running.                    *)
Exit ==
    /\ main = "close_storage"
    /\ \/ store["postgres"] = "absent" /\ UNCHANGED store
       \/ /\ store["postgres"] = "closing" /\ holders = {}
          /\ store' = [store EXCEPT !["postgres"] = "closed"]
    /\ main' = "exited"
    /\ CutOff
    /\ UNCHANGED <<config, exit, signalled, serve, hung, holders, cancelled,
                   pc, redirectVars, probe>>

-----------------------------------------------------------------------------
(* Connections *)

Accept(r) ==
    /\ main = "select" /\ serve = "listening"
    /\ conn[r] = "none"
    /\ conn' = [conn EXCEPT ![r] = "new"]
    /\ UNCHANGED <<mainVars, holders, hung, cancelled, pc, redirectVars, probe>>

(* Or sends nothing before ReadHeaderTimeout.                              *)
ClientLeaves(r) ==
    /\ Alive
    /\ conn[r] \in {"new", "active"}
    /\ conn' = [conn EXCEPT ![r] = "left"]
    /\ UNCHANGED <<mainVars, holders, hung, cancelled, pc, redirectVars, probe>>

(* The server's background read fails and cancels the request's context.   *)
NoticeLost(r) ==
    /\ Alive
    /\ conn[r] \in {"left", "cut"} /\ Running(r)
    /\ r \notin cancelled
    /\ cancelled' = cancelled \cup {r}
    /\ UNCHANGED <<mainVars, holders, hung, conn, pc, redirectVars, probe>>

(* ReadTimeout runs on under the handler: the background read ends with it,*)
(* and cancels the context of a client that still waits.                   *)
ReadTimesOut(r) ==
    /\ Alive
    /\ conn[r] = "active"
    /\ r \notin cancelled
    /\ cancelled' = cancelled \cup {r}
    /\ UNCHANGED <<mainVars, holders, hung, conn, pc, redirectVars, probe>>

(* Postgres stops answering.                                               *)
Hang ==
    /\ ~hung
    /\ hung' = TRUE
    /\ UNCHANGED <<mainVars, requestVars>>

(* The handler returns and its answer is flushed, unless WriteTimeout, which*)
(* starts after ReadTimeout and is as long, has passed as well.            *)
Flush(r) ==
    /\ Alive
    /\ pc[r] = "flush"
    /\ pc' = [pc EXCEPT ![r] = "done"]
    /\ \/ conn[r] = "active" /\ conn' = [conn EXCEPT ![r] = "answered"]
       \/ /\ conn[r] = "active" /\ r \in cancelled
          /\ conn' = [conn EXCEPT ![r] = "late"]
       \/ conn[r] # "active" /\ UNCHANGED conn
    /\ UNCHANGED <<mainVars, holders, hung, cancelled, redirectVars, probe>>

-----------------------------------------------------------------------------
(* The pool *)

(* Seeded fault: the size of the pool is not respected.                    *)
CanAlwaysAcquire(r) == store["postgres"] = "open"

CanAcquire(r) == store["postgres"] = "open" /\ Cardinality(holders) < MaxConns

(* Acquiring fails on a closed pool and under a cancelled context.         *)
AcquireFails(r) == store["postgres"] # "open" \/ r \in cancelled

(* Seeded fault: a failed statement keeps its connection.                  *)
ReleaseUnlessCancelled(r) ==
    holders' = IF r \in cancelled THEN holders ELSE holders \ {r}

Release(r) == holders' = holders \ {r}

(* Handler r goes from one step to another.                                *)
Move(r, from, to) ==
    /\ Alive
    /\ pc[r] = from
    /\ pc' = [pc EXCEPT ![r] = to]

(* Steps of a handler leave the process and the clients alone.             *)
HandlerStep == UNCHANGED <<mainVars, hung, cancelled>>

(* A step of handler r needs a connection of the pool: in memory, or when  *)
(* none can be had, it is over at once.                                    *)
Acquire(r, from, to) ==
    /\ config.storage = "postgres"
    /\ CanAcquire(r)
    /\ Move(r, from, to)
    /\ holders' = holders \cup {r}

NoConnection(r, from, to) ==
    /\ config.storage = "postgres"
    /\ AcquireFails(r)
    /\ Move(r, from, to)
    /\ UNCHANGED holders

-----------------------------------------------------------------------------
(* Redirects: handleRedirect *)

BeginRedirect(d) ==
    /\ conn[d] = "new"
    /\ Move(d, "idle", IF config.cache = "redis" THEN "cache_get" ELSE "lookup")
    /\ conn' = [conn EXCEPT ![d] = "active"]
    /\ HandlerStep
    /\ UNCHANGED <<holders, redirectVars, probe>>

(* Seeded fault: analytics hears of links that do not redirect.            *)
ResolvedAnyway(d, from, name) ==
    /\ Move(d, from, IF name = "error" THEN "redirect_total" ELSE "analytics")
    /\ result' = [result EXCEPT ![d] = name]

(* The link was found, and redirects or not; or there is none; or an error.*)
Resolved(d, from, name) ==
    /\ Move(d, from, IF name = "success" THEN "analytics" ELSE "redirect_total")
    /\ result' = [result EXCEPT ![d] = name]

(* A hit ends the lookup.  A miss, an error and operationTimeout do not.   *)
CacheGet(d) ==
    /\ \/ /\ store["redis"] = "open"
          /\ \E name \in {"success", "not_found"} :
               Resolved(d, "cache_get", name)
       \/ Move(d, "cache_get", "lookup") /\ UNCHANGED result
    /\ HandlerStep
    /\ UNCHANGED <<holders, conn, event, events, recorder, probe>>

(* The link of a found row: it is cached first, then looked at.            *)
Found(d, from) ==
    IF config.cache = "redis"
    THEN Move(d, from, "cache_put") /\ UNCHANGED result
    ELSE \E name \in {"success", "not_found"} : Resolved(d, from, name)

FindInMemory(d) ==
    /\ config.storage = "memory"
    /\ \/ d \notin cancelled /\ Found(d, "lookup")
       \/ d \notin cancelled /\ Resolved(d, "lookup", "not_found")
       \/ d \in cancelled /\ Resolved(d, "lookup", "error")
    /\ UNCHANGED holders

Lookup(d) ==
    /\ \/ FindInMemory(d)
       \/ Acquire(d, "lookup", "query") /\ UNCHANGED result
       \/ NoConnection(d, "lookup", "redirect_total") /\ UNCHANGED result
    /\ HandlerStep
    /\ UNCHANGED <<conn, event, events, recorder, probe>>

(* Postgres answers, or the cancelled context ends the wait.               *)
Query(d) ==
    /\ \/ ~hung /\ Found(d, "query")
       \/ ~hung /\ Resolved(d, "query", "not_found")
       \/ /\ ~hung \/ d \in cancelled
          /\ Resolved(d, "query", "error")
    /\ Release(d)
    /\ HandlerStep
    /\ UNCHANGED <<conn, event, events, recorder, probe>>

(* PutIfNewer is over, if only by its timeout: its error is dropped.       *)
CachePut(d) ==
    /\ \E name \in {"success", "not_found"} : Resolved(d, "cache_put", name)
    /\ HandlerStep
    /\ UNCHANGED <<holders, conn, event, events, recorder, probe>>

(* recordRedirectEvent: the outcome of Record(r.Context(), event).         *)
EventIs(d, from, outcome, stored) ==
    /\ Move(d, from, "analytics_total")
    /\ event' = [event EXCEPT ![d] = outcome]
    /\ events' = IF stored THEN events \cup {d} ELSE events

Analytics(d) ==
    /\ \/ /\ config.storage = "memory"
          /\ IF d \in cancelled THEN EventIs(d, "analytics", "error", FALSE)
                               ELSE EventIs(d, "analytics", "success", TRUE)
          /\ UNCHANGED holders
       \/ Acquire(d, "analytics", "insert") /\ UNCHANGED <<event, events>>
       \/ /\ NoConnection(d, "analytics", "analytics_total")
          /\ event' = [event EXCEPT ![d] = "error"]
          /\ UNCHANGED events
    /\ HandlerStep
    /\ UNCHANGED <<conn, result, recorder, probe>>

(* The insert may take effect although an error is reported.               *)
InsertEvent(d) ==
    /\ \/ ~hung /\ EventIs(d, "insert", "success", TRUE)
       \/ /\ ~hung \/ d \in cancelled
          /\ \E stored \in BOOLEAN : EventIs(d, "insert", "error", stored)
    /\ Release(d)
    /\ HandlerStep
    /\ UNCHANGED <<conn, result, recorder, probe>>

(* Metrics: RecordAnalytics, then the deferred RecordRedirect.  Each takes *)
(* the mutex of the recorder three times.                                  *)
Bump(f, counter) ==
    recorder' = [recorder EXCEPT ![f] =
                   [recorder[f] EXCEPT ![counter] = recorder[f][counter] + 1]]

RecordStep(d, f, from, counter, to) ==
    /\ Move(d, from, to)
    /\ Bump(f, counter)
    /\ HandlerStep
    /\ UNCHANGED <<holders, conn, result, event, events, probe>>

RecordAnalytics(d) ==
    \/ RecordStep(d, "analytics", "analytics_total", "total", "analytics_result")
    \/ RecordStep(d, "analytics", "analytics_result", event[d], "analytics_latency")
    \/ RecordStep(d, "analytics", "analytics_latency", "observed", "redirect_total")

(* Seeded fault: the result is counted before the total.                   *)
RecordResultFirst(d) ==
    \/ RecordStep(d, "redirect", "redirect_total", result[d], "redirect_result")
    \/ RecordStep(d, "redirect", "redirect_result", "total", "redirect_latency")
    \/ RecordStep(d, "redirect", "redirect_latency", "observed", "flush")

RecordRedirect(d) ==
    \/ RecordStep(d, "redirect", "redirect_total", "total", "redirect_result")
    \/ RecordStep(d, "redirect", "redirect_result", result[d], "redirect_latency")
    \/ RecordStep(d, "redirect", "redirect_latency", "observed", "flush")

HandleRedirect(d) ==
    \/ CacheGet(d) \/ Lookup(d) \/ Query(d) \/ CachePut(d)
    \/ Analytics(d) \/ InsertEvent(d)
    \/ RecordAnalytics(d) \/ RecordRedirect(d) \/ Flush(d)

-----------------------------------------------------------------------------
(* Probes: Readiness and Diagnostics *)

Components == {"memory", "postgres", "redis"}

StorageCheck == IF config.storage = "postgres" THEN "postgres" ELSE "memory"
Required(check) == check # "redis"

(* Readiness checks the storage, diagnostics all components; without the   *)
(* diagnostics token the request is refused.                               *)
Checks ==
    {<<StorageCheck>>}
      \cup (IF config.cache = "redis" THEN {<<StorageCheck, "redis">>} ELSE {})

BeginProbe(p) ==
    /\ conn[p] = "new"
    /\ \/ /\ Move(p, "idle", "check")
          /\ \E todo \in Checks :
               probe' = [probe EXCEPT ![p] = [todo |-> todo, failed |-> {},
                                              verdict |-> "ok"]]
       \/ /\ Move(p, "idle", "flush")
          /\ probe' = [probe EXCEPT ![p] = [todo |-> <<>>, failed |-> {},
                                         verdict |-> "refused"]]
    /\ conn' = [conn EXCEPT ![p] = "active"]
    /\ HandlerStep
    /\ UNCHANGED <<holders, redirectVars>>

(* Seeded fault: the last failure wins.                                    *)
LastFailure(verdict, check) ==
    IF Required(check) THEN "not_ready" ELSE "degraded"

(* overallStatus after one more failed check.                              *)
Worse(verdict, check) ==
    IF Required(check) THEN "not_ready"
    ELSE IF verdict = "ok" THEN "degraded" ELSE verdict

(* The check at hand has passed or failed, and the next one is up.         *)
Checked(p, from, passed) ==
    LET check == Head(probe[p].todo) IN
    /\ Move(p, from, IF Len(probe[p].todo) = 1 THEN "flush" ELSE "check")
    /\ probe' = [probe EXCEPT ![p] =
                   [todo    |-> Tail(probe[p].todo),
                    failed  |-> IF passed THEN probe[p].failed
                                ELSE probe[p].failed \cup {check},
                    verdict |-> IF passed THEN probe[p].verdict
                                ELSE Worse(probe[p].verdict, check)]]

CheckMemory(p) ==
    /\ pc[p] = "check" /\ Head(probe[p].todo) = "memory"
    /\ Checked(p, "check", TRUE)
    /\ UNCHANGED holders

CheckRedis(p) ==
    /\ pc[p] = "check" /\ Head(probe[p].todo) = "redis"
    /\ \/ store["redis"] = "open" /\ Checked(p, "check", TRUE)
       \/ Checked(p, "check", FALSE)
    /\ UNCHANGED holders

(* pool.Ping needs a connection, and readinessTimeout ends the wait for it.*)
CheckPostgres(p) ==
    /\ pc[p] = "check" /\ Head(probe[p].todo) = "postgres"
    /\ \/ Acquire(p, "check", "ping") /\ UNCHANGED probe
       \/ Checked(p, "check", FALSE) /\ UNCHANGED holders

(* Seeded fault: the ping has no timeout.                                  *)
PingUntimed(p) ==
    /\ pc[p] = "ping"
    /\ ~hung
    /\ \E passed \in BOOLEAN : Checked(p, "ping", passed)
    /\ Release(p)

Ping(p) ==
    /\ pc[p] = "ping"
    /\ \/ ~hung /\ Checked(p, "ping", TRUE)
       \/ Checked(p, "ping", FALSE)
    /\ Release(p)

HandleProbe(p) ==
    \/ /\ CheckMemory(p) \/ CheckRedis(p) \/ CheckPostgres(p) \/ Ping(p)
       /\ HandlerStep
       /\ UNCHANGED <<conn, redirectVars>>
    \/ Flush(p)

-----------------------------------------------------------------------------
StartUp == LoadConfig \/ BuildStorage \/ BuildResolver \/ StartServing

Stop ==
    \/ ServeEnded \/ Shutdown \/ ShutdownCompletes \/ ShutdownTimesOut
    \/ AwaitServe \/ CloseCache \/ ClosePool \/ Exit

Environment ==
    \/ Signal \/ Hang
    \/ \E r \in Requests : Accept(r) \/ ClientLeaves(r) \/ ReadTimesOut(r)
    \/ \E d \in Redirects : BeginRedirect(d)
    \/ \E p \in Probes : BeginProbe(p)

ServingNext ==
    \/ StartUp \/ Stop \/ Listen \/ ServeReturns
    \/ Environment
    \/ \E r \in Requests : CloseIdle(r) \/ NoticeLost(r)
    \/ \E d \in Redirects : HandleRedirect(d)
    \/ \E p \in Probes : HandleProbe(p)

ServingSpec == ServingInit /\ [][ServingNext]_servingVars

(* Goroutines that can run do, and the timeouts of the code pass.  Nothing *)
(* is asked of clients, signals, a listener that works, a Postgres that has*)
(* stopped to answer, or of what ReadTimeout does to a request already read.*)
FairServingSpec ==
    /\ ServingSpec
    /\ WF_servingVars(Stop)
    /\ WF_servingVars(Listen)
    /\ WF_servingVars(ServeReturns /\ main # "select")
    /\ \A r \in Requests : WF_servingVars(CloseIdle(r) \/ NoticeLost(r))
    /\ \A d \in Redirects : WF_servingVars(HandleRedirect(d))
    /\ \A p \in Probes : WF_servingVars(HandleProbe(p))

-----------------------------------------------------------------------------
(* Properties *)

MainPcs == {"load_config", "build_storage", "build_resolver", "start", "select",
            "shutdown", "await_serve", "close_cache", "close_storage", "exited"}
HandlerPcs == {"idle", "cache_get", "lookup", "query", "cache_put", "analytics",
               "insert", "analytics_total", "analytics_result",
               "analytics_latency", "redirect_total", "redirect_result",
               "redirect_latency", "check", "ping", "flush", "done"}

(* A connection of the pool is in use exactly while a statement runs.      *)
Holding(r) == pc[r] \in {"query", "insert", "ping"}

ServingTypeOK ==
    /\ config \in [storage : {"memory", "postgres"}, cache : {"none", "redis"}]
    /\ main \in MainPcs
    /\ exit \in {"none", "ok", "error"}
    /\ signalled \in BOOLEAN
    /\ serve \in {"off", "starting", "listening", "failed", "closed"}
    /\ store \in [Stores -> {"absent", "open", "closing", "closed"}]
    /\ holders = {r \in Requests : Holding(r)}
    /\ Cardinality(holders) <= MaxConns
    /\ hung \in BOOLEAN
    /\ conn \in [Requests -> {"none", "new", "active", "answered", "idle",
                              "left", "late", "cut"}]
    /\ cancelled \subseteq Requests
    /\ pc \in [Requests -> HandlerPcs]
    /\ result \in [Redirects -> Results]
    /\ event \in [Redirects -> {"none", "success", "error"}]
    /\ events \subseteq Redirects
    /\ recorder \in [Families -> [Counters -> Nat]]
    /\ probe \in [Probes ->
         [todo    : Seq(Components),
          failed  : SUBSET Components,
          verdict : {"none", "refused", "ok", "degraded", "not_ready"}]]

(* A process that reports success has left nobody behind: no handler runs  *)
(* any more, and no connection was cut that a client still waited on (if an*)
(* answer was lost, then to WriteTimeout).                                 *)
CleanExitCutsNobody ==
    exit = "ok" => \A r \in Requests : Idle(r) /\ conn[r] \notin {"new", "cut"}

Bumped(f) ==
    recorder[f]["success"] + recorder[f]["not_found"] + recorder[f]["error"]

AfterTotal == [redirect |-> "redirect_result", analytics |-> "analytics_result"]
AfterResult == [redirect |-> "redirect_latency", analytics |-> "analytics_latency"]
At(where) == {d \in Redirects : pc[d] = where}

(* A snapshot may be taken between the acquisitions of the mutex, but it is*)
(* never further off than the handlers that are recording right then: total*)
(* runs ahead of the results, and the results ahead of the latencies.      *)
MetricsAddUp ==
    \A f \in Families :
       /\ recorder[f]["total"] - Bumped(f) = Cardinality(At(AfterTotal[f]))
       /\ Bumped(f) - recorder[f]["observed"] = Cardinality(At(AfterResult[f]))

(* Whatever fails around the insert: events are stored for links that      *)
(* redirect only, one for each recorded success at least; and every counted*)
(* success was recorded by analytics first.                                *)
AnalyticsAccounted ==
    /\ \A d \in events : result[d] = "success"
    /\ recorder["analytics"]["success"] <= Cardinality(events)
    /\ recorder["redirect"]["success"] <= recorder["analytics"]["observed"]

(* The overall status agrees with the listed checks, of which main.go puts *)
(* storage first and the optional Redis last, whichever of them fail:      *)
(* not_ready if and only if a required component failed, degraded if only  *)
(* optional ones did.                                                      *)
DiagnosticsAgree ==
    \A p \in Probes :
       LET failed == probe[p].failed
           broken == \E check \in failed : Required(check)
       IN  /\ probe[p].verdict = "not_ready" <=> broken
           /\ probe[p].verdict = "degraded" <=> ~broken /\ failed # {}

(* The promise of GracefulServer: where run() is determines the phase.     *)
Phase ==
    CASE main \in {"load_config", "build_storage", "build_resolver", "start"}
           -> "starting"
      [] main = "select" -> "serving"
      [] main \in {"shutdown", "await_serve"} -> "draining"
      [] OTHER -> IF exit = "ok" THEN "draining"
                  ELSE IF serve = "off" THEN "starting" ELSE "forced"

Promise ==
    INSTANCE GracefulServer WITH
        phase  <- Phase,
        open   <- {s \in Stores : store[s] = "open"},
        active <- {r \in Requests : InFlight(r)}

(* The stores are closed after the last handler has returned, even one     *)
(* whose client has left, unless draining was given up.                    *)
DrainsThenCloses == Promise!Spec

(* Once shutdown has begun the process ends, although Postgres may never   *)
(* answer the statements under way ("bounded graceful shutdown").          *)
ShutdownTerminates == main = "shutdown" ~> main = "exited"

(* A redirect ends unless Postgres hangs under it: neither the pool nor a  *)
(* failing analytics insert can keep it from its answer.                   *)
RedirectsEnd ==
    \A d \in Redirects : Running(d) ~> (Idle(d) \/ hung \/ ~Alive)

(* A probe ends even then: its checks have a timeout of their own.         *)
ProbesEnd == \A p \in Probes : Running(p) ~> (Idle(p) \/ ~Alive)
=============================================================================
