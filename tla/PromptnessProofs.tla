-------------------------- MODULE PromptnessProofs --------------------------
(***************************************************************************)
(* Proofs of MutationChangesNextRedirect and DelayedFillsRestoreNothing    *)
(* for a Redis that answers, links without expirations and TTLs longer     *)
(* than a handler's time in flight (HealthyRedis), for every set of codes  *)
(* and handlers, and any failures of the database and of clients.          *)
(*                                                                         *)
(* Held are the cache writes that can still happen.  One that was current  *)
(* when its handler began is harmless as long as the entry that supersedes *)
(* it outlives it (Shielded), and a version has been published once every  *)
(* older write still to come will meet such an entry.                      *)
(***************************************************************************)
EXTENDS RedirectSystemProofs

HealthyRedis ==
    /\ Faults \cap {"redis", "timeout", "evict"} = {}
    /\ Expirations = {}
    /\ ActiveTTL > Latency /\ InactiveTTL > Latency

(* Cache writes to come: fills, commands under way, refreshes not yet sent.*)
Write(c, m, t) == [code |-> c, version |-> m.version, since |-> t]

Fills == {d \in Redirects : red[d].pc = "fill"}
Commands == {a \in Handlers : put[a].stage = "sent"}
Refreshes == {r \in Requests : req[r].pc = "committed" /\ put[r].stage = "none"}

Held ==
    {Write(red[d].code, red[d].mapping, red[d].since) : d \in Fills}
      \cup {Write(put[a].code, put[a].mapping, put[a].since) : a \in Commands}
      \cup {Write(req[r].code, req[r].next, req[r].next.updatedAt) :
              r \in Refreshes}

(* A newer entry outlives the handler of w.                                *)
Shielded(w) ==
    Cached(w.code) /\ cache[w.code].mapping.version > w.version
    => cache[w.code].deadline > w.since + Latency

(* Version v of c cannot be undone in the cache any more.                  *)
Published(c, v) ==
    /\ Cached(c) => cache[c].mapping.version >= v
    /\ \A w \in Held : w.code = c /\ w.version < v => Cached(c)

(* The last cache command of a request is the refresh for its mutation.    *)
RefreshInv(r) ==
    /\ req[r].pc \in {"idle", "update"} => put[r].stage = "none"
    /\ req[r].pc = "committed" /\ put[r].stage = "sent"
         => /\ put[r].code = req[r].code
            /\ put[r].mapping.version = req[r].next.version
    /\ req[r].pc = "committed" /\ put[r].stage = "over"
         => Published(req[r].code, req[r].next.version)

Unexpiring ==
    /\ \A e \in history : e.mapping.expiresAt = NoExpiry
    /\ \A r \in Requests :
         req[r].pc = "update" => req[r].next.expiresAt = NoExpiry

AckedInv(c) ==
    /\ Published(c, acked[c])
    /\ acked[c] # 0 => Exists(c) /\ acked[c] <= links[c].version

PromptInv ==
    /\ Unexpiring
    /\ \A a \in Handlers : put[a].stage = "sent" => put[a].ttl > Latency
    /\ \A w \in Held : Shielded(w)
    /\ \A r \in Requests : RefreshInv(r)
    /\ \A c \in Codes : AckedInv(c)
    /\ \A d \in Redirects :
         red[d].pc = "source" => red[d].floor <= acked[red[d].code]
    /\ MutationChangesNextRedirect

-----------------------------------------------------------------------------
(* Types *)

LEMMA HeldTypes ==
    ASSUME SystemInv, FreshnessInv, NEW w \in Held
    PROVE  /\ w.code \in Codes /\ w.version \in Nat
           /\ w.since \in Nat /\ w.since <= now
  <1>1. ASSUME NEW c, NEW m, WasCommitted(c, m)
        PROVE  c \in Codes /\ m.version \in Nat
    BY <1>1, FreshTypes DEF WasCommitted
  <1>2. ASSUME NEW d \in Fills,
               w = Write(red[d].code, red[d].mapping, red[d].since)
        PROVE  /\ w.code \in Codes /\ w.version \in Nat
               /\ w.since \in Nat /\ w.since <= now
    <2>1. d \in Redirects /\ red[d].pc = "fill"
      BY DEF Fills
    <2>2. red[d] \in RedirectStates
      BY <2>1, SystemTypes
    <2>3. red[d].since \in Nat /\ red[d].since <= now
      BY <2>1, <2>2 DEF FreshnessInv, FreshRedirect, InFlight, RedirectStates
    <2>4. WasCommitted(red[d].code, red[d].mapping)
      BY <2>1 DEF SystemInv, RedirectInv, OnlyCommittedMappings
    <2>5. /\ w.code = red[d].code /\ w.version = red[d].mapping.version
          /\ w.since = red[d].since
      BY <1>2 DEF Write
    <2> QED
      BY <1>1, <2>3, <2>4, <2>5
  <1>3. ASSUME NEW a \in Commands,
               w = Write(put[a].code, put[a].mapping, put[a].since)
        PROVE  /\ w.code \in Codes /\ w.version \in Nat
               /\ w.since \in Nat /\ w.since <= now
    <2>1. a \in Handlers /\ put[a].stage = "sent"
      BY DEF Commands
    <2>2. put[a] \in SoundPuts
      BY <2>1, SystemTypes
    <2>3. put[a].since \in Nat /\ put[a].since <= now
      BY <2>1, <2>2 DEF FreshnessInv, FreshPut, InFlight, SoundPuts, PutStates
    <2>4. WasCommitted(put[a].code, put[a].mapping)
      BY <2>1 DEF SystemInv, OnlyCommittedMappings
    <2>5. /\ w.code = put[a].code /\ w.version = put[a].mapping.version
          /\ w.since = put[a].since
      BY <1>3 DEF Write
    <2> QED
      BY <1>1, <2>3, <2>4, <2>5
  <1>4. ASSUME NEW r \in Refreshes,
               w = Write(req[r].code, req[r].next, req[r].next.updatedAt)
        PROVE  /\ w.code \in Codes /\ w.version \in Nat
               /\ w.since \in Nat /\ w.since <= now
    <2>1. r \in Requests /\ req[r].pc = "committed"
      BY DEF Refreshes
    <2>2. req[r].code \in Codes /\ req[r].next \in Links
      BY <2>1 DEF SystemInv, ManagementInv, RequestInv, Knows, HasWritten,
                  VersionOf
    <2>3. req[r].next.updatedAt <= now
      BY <2>1 DEF FreshnessInv, FreshRequest, InFlight
    <2>4. /\ w.code = req[r].code /\ w.version = req[r].next.version
          /\ w.since = req[r].next.updatedAt
      BY <1>4 DEF Write
    <2> QED
      BY <2>2, <2>3, <2>4, ProjectionIsMapping
  <1> QED
    BY <1>2, <1>3, <1>4 DEF Held

(* The link of a cached entry is stored, at that version or a later one.   *)
LEMMA EntryIsPast ==
    ASSUME SystemInv, FreshnessInv, NEW c \in Codes, Cached(c)
    PROVE  /\ links[c] \in Links
           /\ cache[c].mapping.version <= links[c].version
  <1>1. PICK e \in history : e.code = c /\ e.mapping = cache[c].mapping
    BY DEF SystemInv, OnlyCommittedMappings, WasCommitted
  <1> QED
    BY <1>1, SystemTypes DEF FreshnessInv, Past, Stores, Rows

LEMMA StoredUnexpiring ==
    ASSUME SystemInv, PromptInv, NEW c \in Codes, links[c] # NoLink
    PROVE  links[c] \in Links /\ links[c].expiresAt = NoExpiry
  <1>1. PICK e \in history :
          e.code = c /\ e.mapping = RedirectMappingFromLink(links[c])
    BY DEF SystemInv, Exists, WasCommitted
  <1> QED
    BY <1>1, SystemTypes
    DEF PromptInv, Unexpiring, RedirectMappingFromLink, Stores, Rows

-----------------------------------------------------------------------------
(* Writes to come *)

(* How the writes to come change: none but those of N are new.             *)
LEMMA HeldGrows ==
    ASSUME NEW N,
           \A d \in Redirects :
              red'[d].pc = "fill"
              => \/ red'[d] = red[d]
                 \/ Write(red'[d].code, red'[d].mapping, red'[d].since) \in N,
           \A a \in Handlers :
              put'[a].stage = "sent"
              => \/ put'[a] = put[a]
                 \/ Write(put'[a].code, put'[a].mapping, put'[a].since) \in N,
           \A r \in Requests :
              req'[r].pc = "committed" /\ put'[r].stage = "none"
              => \/ req'[r] = req[r] /\ put[r].stage = "none"
                 \/ Write(req'[r].code, req'[r].next, req'[r].next.updatedAt)
                      \in N
    PROVE  \A w \in Held' : w \in Held \/ w \in N
  <1>1. ASSUME NEW d \in Redirects, red'[d].pc = "fill"
        PROVE  Write(red'[d].code, red'[d].mapping, red'[d].since)
                 \in Held \cup N
    BY <1>1 DEF Held, Fills
  <1>2. ASSUME NEW a \in Handlers, put'[a].stage = "sent"
        PROVE  Write(put'[a].code, put'[a].mapping, put'[a].since)
                 \in Held \cup N
    BY <1>2 DEF Held, Commands
  <1>3. ASSUME NEW r \in Requests,
               req'[r].pc = "committed", put'[r].stage = "none"
        PROVE  Write(req'[r].code, req'[r].next, req'[r].next.updatedAt)
                 \in Held \cup N
    BY <1>3 DEF Held, Refreshes
  <1>4. \A c, m, t : Write(c, m, t)' = Write(c, m, t)
    BY DEF Write
  <1>5. Held' = {Write(red'[d].code, red'[d].mapping, red'[d].since) :
                    d \in {x \in Redirects : red'[x].pc = "fill"}}
                \cup {Write(put'[a].code, put'[a].mapping, put'[a].since) :
                    a \in {x \in Handlers : put'[x].stage = "sent"}}
                \cup {Write(req'[r].code, req'[r].next, req'[r].next.updatedAt) :
                    r \in {x \in Requests : req'[x].pc = "committed"
                                            /\ put'[x].stage = "none"}}
    BY DEF Held, Fills, Commands, Refreshes, Write
  <1> QED
    BY <1>1, <1>2, <1>3, <1>5

(* A version somebody was told of, or none.                                *)
Claim(c, v) ==
    v \in Nat /\ (v # 0 => links[c] \in Links /\ v <= links[c].version)

NewWrite(w) ==
    /\ w.code \in Codes /\ w.version \in Nat
    /\ links[w.code] \in Links => w.version >= links[w.code].version

(* A write of the version that is stored, or a newer one, threatens nothing.*)
LEMMA HeldStep ==
    ASSUME SystemInv, FreshnessInv, PromptInv, UNCHANGED cache,
           \A w \in Held' : w \in Held \/ NewWrite(w)
    PROVE  /\ \A w \in Held' : Shielded(w)'
           /\ \A c \in Codes : \A v \in Nat :
                 Published(c, v) /\ Claim(c, v) => Published(c, v)'
  <1>1. \A l \in Links : l.version \in Nat
    BY ProjectionIsMapping
  <1>2. ASSUME NEW w \in Held'
        PROVE  Shielded(w)
    <2>1. CASE w \in Held
      BY <2>1 DEF PromptInv
    <2>2. CASE NewWrite(w)
      <3> SUFFICES ASSUME Cached(w.code)
                   PROVE  ~(cache[w.code].mapping.version > w.version)
        BY DEF Shielded
      <3>1. /\ w.code \in Codes /\ w.version \in Nat
            /\ links[w.code] \in Links
            /\ cache[w.code].mapping.version <= links[w.code].version
            /\ links[w.code].version <= w.version
            /\ cache[w.code].mapping.version \in Nat
        BY <2>2, EntryIsPast, FreshTypes DEF NewWrite, Cached
      <3> QED
        BY <1>1, <3>1
    <2> QED
      BY <2>1, <2>2
  <1>3. ASSUME NEW c \in Codes, NEW v \in Nat, Published(c, v), Claim(c, v),
               NEW w \in Held', w.code = c, w.version < v
        PROVE  Cached(c)
    <2>1. CASE w \in Held
      BY <1>3, <2>1 DEF Published
    <2>2. CASE NewWrite(w)
      <3>1. w.version \in Nat /\ v # 0
        BY <1>3, <2>2 DEF NewWrite
      <3>2. links[c] \in Links /\ v <= links[c].version
              /\ links[c].version <= w.version
        BY <1>3, <2>2, <3>1 DEF NewWrite, Claim
      <3> QED
        BY <1>1, <1>3, <3>1, <3>2
    <2> QED
      BY <2>1, <2>2
  <1>4. ASSUME NEW w \in Held'
        PROVE  Shielded(w)'
    BY <1>2, <1>4 DEF Shielded, Cached
  <1>5. ASSUME NEW c \in Codes, NEW v \in Nat, Published(c, v), Claim(c, v)
        PROVE  Published(c, v)'
    BY <1>3, <1>5 DEF Published, Cached
  <1> QED
    BY <1>4, <1>5

(* What clients were told of, and what requests have committed, are claims.*)
LEMMA Claims ==
    ASSUME SystemInv, PromptInv
    PROVE  /\ \A c \in Codes : Claim(c, acked[c])
           /\ \A r \in Requests :
                 req[r].pc = "committed"
                 => /\ req[r].code \in Codes
                    /\ req[r].next.version \in Nat
                    /\ Claim(req[r].code, req[r].next.version)
  <1>1. ASSUME NEW c \in Codes
        PROVE  Claim(c, acked[c])
    BY SystemTypes DEF PromptInv, AckedInv, Claim, Exists, Stores, Rows
  <1>2. ASSUME NEW r \in Requests, req[r].pc = "committed"
        PROVE  /\ req[r].code \in Codes
               /\ req[r].next.version \in Nat
               /\ Claim(req[r].code, req[r].next.version)
    <2>1. /\ req[r].next \in Links /\ req[r].code \in Codes
          /\ links[req[r].code] # NoLink
          /\ req[r].next.version <= links[req[r].code].version
      BY <1>2, RowIsLink
      DEF SystemInv, ManagementInv, RequestInv, Knows, HasWritten, VersionOf
    <2> QED
      BY <2>1, ProjectionIsMapping, SystemTypes DEF Claim, Stores, Rows
  <1> QED
    BY <1>1, <1>2

-----------------------------------------------------------------------------
(* Steps that leave the cache alone *)

RefreshOnItsWay(q, p) ==
    /\ q.pc \in {"idle", "update"} => p.stage = "none"
    /\ q.pc = "committed"
         => \/ p.stage = "none"
            \/ /\ p.stage = "sent" /\ p.code = q.code
               /\ p.mapping.version = q.next.version

AboveFloor(x) ==
    /\ x.pc = "source" => x.floor <= acked[x.code]
    /\ x.mapping # NoEntry => x.mapping.version >= x.floor

LEMMA UncachedStepKeepsPrompt ==
    ASSUME SystemInv, FreshnessInv, PromptInv, UNCHANGED <<cache, acked>>,
           links' \in Stores, Advances(links, links'),
           \A w \in Held' : w \in Held \/ NewWrite(w),
           Unexpiring',
           \A a \in Handlers :
              put'[a] = put[a] \/ put'[a].stage # "sent" \/ put'[a].ttl > Latency,
           \A r \in Requests :
              \/ req'[r] = req[r] /\ put'[r] = put[r]
              \/ RefreshOnItsWay(req'[r], put'[r]),
           \A d \in Redirects : red'[d] = red[d] \/ AboveFloor(red'[d])
    PROVE  PromptInv'
  <1>1. /\ \A w \in Held' : Shielded(w)'
        /\ \A c \in Codes : \A v \in Nat :
              Published(c, v) /\ Claim(c, v) => Published(c, v)'
    BY HeldStep
  <1>2. /\ \A c \in Codes : Claim(c, acked[c])
        /\ \A r \in Requests :
              req[r].pc = "committed"
              => /\ req[r].code \in Codes
                 /\ req[r].next.version \in Nat
                 /\ Claim(req[r].code, req[r].next.version)
    BY Claims
  <1>3. ASSUME NEW r \in Requests
        PROVE  RefreshInv(r)'
    <2>1. CASE req'[r] = req[r] /\ put'[r] = put[r]
      <3>1. RefreshInv(r)
        BY DEF PromptInv
      <3>2. \A c \in Codes : \A v \in Nat :
               Published(c, v) /\ Claim(c, v)
               => /\ cache'[c] # NoEntry => cache'[c].mapping.version >= v
                  /\ \A w \in Held' :
                       w.code = c /\ w.version < v => cache'[c] # NoEntry
        BY <1>1 DEF Published, Cached
      <3>3. ASSUME req[r].pc = "committed", put[r].stage = "over"
            PROVE  LET c == req[r].code
                       v == req[r].next.version
                   IN  /\ cache'[c] # NoEntry => cache'[c].mapping.version >= v
                       /\ \A w \in Held' :
                            w.code = c /\ w.version < v => cache'[c] # NoEntry
        BY <1>2, <3>1, <3>2, <3>3 DEF RefreshInv
      <3> QED
        BY <2>1, <3>1, <3>3 DEF RefreshInv, Published, Cached
    <2>2. CASE RefreshOnItsWay(req'[r], put'[r])
      BY <2>2 DEF RefreshInv, RefreshOnItsWay
    <2> QED
      BY <2>1, <2>2
  <1>4. ASSUME NEW c \in Codes
        PROVE  AckedInv(c)'
    <2>1. AckedInv(c) /\ acked[c] \in Nat
      BY SystemTypes DEF PromptInv
    <2>2. Published(c, acked[c])'
      <3>1. \A v \in Nat : v = acked[c] => Published(c, v)'
        BY <1>1, <1>2, <2>1 DEF AckedInv
      <3>2. \A v \in Nat : v = acked[c] => Published(c, acked[c])'
        BY <3>1 DEF Published, Cached
      <3> QED
        BY <2>1, <3>2
    <2>3. ASSUME acked[c] # 0
          PROVE  links'[c] # NoLink /\ acked[c] <= links'[c].version
      <3>1. links[c] # NoLink /\ acked[c] <= links[c].version
        BY <2>1, <2>3 DEF AckedInv, Exists
      <3>2. links'[c] # NoLink /\ links[c].version <= links'[c].version
        BY <3>1 DEF Advances
      <3>3. links[c].version \in Nat /\ links'[c].version \in Nat
        BY <3>1, <3>2, SystemTypes DEF Stores, Rows, Links, Versions
      <3> QED
        BY <2>1, <3>1, <3>2, <3>3
    <2> QED
      BY <2>2, <2>3 DEF AckedInv, Exists
  <1>5. \A a \in Handlers : put'[a].stage = "sent" => put'[a].ttl > Latency
    BY DEF PromptInv
  <1>6. \A d \in Redirects : AboveFloor(red'[d])
    BY DEF PromptInv, MutationChangesNextRedirect, AboveFloor
  <1>7. /\ \A d \in Redirects :
             red'[d].pc = "source" => red'[d].floor <= acked'[red'[d].code]
        /\ MutationChangesNextRedirect'
    BY <1>6 DEF AboveFloor, MutationChangesNextRedirect
  <1> QED
    BY <1>1, <1>3, <1>4, <1>5, <1>7 DEF PromptInv

(* Nor do they commit anything.                                            *)
LEMMA QuietStepKeepsPrompt ==
    ASSUME SystemInv, FreshnessInv, PromptInv,
           UNCHANGED <<links, cache, history, acked>>,
           \A w \in Held' : w \in Held \/ NewWrite(w),
           \A a \in Handlers :
              put'[a] = put[a] \/ put'[a].stage # "sent" \/ put'[a].ttl > Latency,
           \A r \in Requests :
              req'[r] = req[r] /\
                (put'[r] = put[r] \/ RefreshOnItsWay(req[r], put'[r])),
           \A d \in Redirects : red'[d] = red[d] \/ AboveFloor(red'[d])
    PROVE  PromptInv'
  <1>1. links' \in Stores /\ Advances(links, links')
    BY SystemTypes, AdvancesReflexive
  <1>2. Unexpiring'
    BY DEF PromptInv, Unexpiring
  <1> QED
    BY <1>1, <1>2, UncachedStepKeepsPrompt

-----------------------------------------------------------------------------
(* Commits *)

(* Without expirations to set, no mutation sets one.                       *)
LEMMA MutateKeepsUnexpiring ==
    ASSUME HealthyRedis, NEW l \in Links, l.expiresAt = NoExpiry,
           NEW m \in Mutations, NEW at \in Times, NEW n \in Mutate(l, m, at)
    PROVE  n.expiresAt = NoExpiry
  <1>1. CASE m \in [field : {"status"}, value : Statuses]
    <2>1. n \in TransitionTo(l, m.value, at)
      BY <1>1 DEF Mutate
    <2> QED
      BY <2>1 DEF TransitionTo, Links
  <1>2. CASE m \in [field : {"destination"}, value : Destinations]
    <2>1. n \in UpdateDestination(l, m.value, at)
      BY <1>2 DEF Mutate
    <2> QED
      BY <2>1 DEF UpdateDestination, Links
  <1>3. CASE m \in [field : {"expiresAt"}, value : Expirations \cup {NoExpiry}]
    <2>1. n \in ClearExpiration(l, at)
      BY <1>3 DEF Mutate, HealthyRedis
    <2> QED
      BY <2>1 DEF ClearExpiration, Links
  <1> QED
    BY <1>1, <1>2, <1>3 DEF Mutations

LEMMA CommittedUnexpiring ==
    ASSUME SystemInv, PromptInv, Committed, [ManagementNext]_managementVars,
           \A c \in Codes :
              links'[c] # links[c] => links'[c].expiresAt = NoExpiry
    PROVE  \A e \in history' : e.mapping.expiresAt = NoExpiry
  <1>1. ASSUME NEW e \in history', e \notin history
        PROVE  e.mapping.expiresAt = NoExpiry
    <2>1. PICK c \in Codes :
            /\ links'[c] # links[c]
            /\ e = [code |-> c,
                    mapping |-> RedirectMappingFromLink(links'[c]),
                    since |-> now]
      BY <1>1 DEF Committed
    <2> QED
      BY <2>1 DEF RedirectMappingFromLink
  <1> QED
    BY <1>1 DEF PromptInv, Unexpiring

LEMMA CreateKeepsPrompt ==
    ASSUME HealthyRedis, SystemInv, FreshnessInv, PromptInv,
           NEW c \in Codes, CreateStep(c)
    PROVE  PromptInv'
  <1>1. /\ [ManagementNext]_managementVars /\ Committed
        /\ UNCHANGED <<req, cache, now, red, put, acked>>
    BY SystemTypes DEF CreateStep, Create, ManagementNext
  <1>2. links' \in Stores /\ Advances(links, links')
    BY <1>1, StoreAdvances DEF SystemInv
  <1>3. ASSUME NEW k \in Codes, links'[k] # links[k]
        PROVE  links'[k].expiresAt = NoExpiry
    <2>1. PICK d \in Destinations, o \in Owners :
            \E l \in NewLink(d, o, now, NoExpiry) : Insert(c, l)
      BY DEF CreateStep, Create, HealthyRedis
    <2>2. PICK l \in NewLink(d, o, now, NoExpiry) : Insert(c, l)
      BY <2>1
    <2>3. l.expiresAt = NoExpiry /\ Row(l) = l
      <3>1. l \in Links
        BY SystemTypes, NewLinkIsLink
      <3> QED
        BY <2>2, <3>1, CoarseClockRow, TickAssumption DEF NewLink
    <2> QED
      BY <1>3, <2>2, <2>3, SystemTypes DEF Insert, Stores, Rows
  <1>4. Unexpiring'
    BY <1>1, <1>3, CommittedUnexpiring DEF PromptInv, Unexpiring
  <1>5. \A w \in Held' : w \in Held \/ w \in {}
    BY <1>1, HeldGrows
  <1> QED
    BY <1>1, <1>2, <1>4, <1>5, UncachedStepKeepsPrompt

(* A step of request r: it ends, has something to write, or has written it.*)
LEMMA RequestStepKeepsPrompt ==
    ASSUME HealthyRedis, SystemInv, FreshnessInv, PromptInv,
           [ManagementNext]_managementVars, Committed,
           UNCHANGED <<cache, now, red, put, acked>>,
           NEW r \in Requests, NEW q, req' = [req EXCEPT ![r] = q],
           \A c \in Codes :
              links'[c] # links[c] => links'[c].expiresAt = NoExpiry,
           \/ q.pc = "answered"
           \/ /\ q.pc = "update" /\ put[r].stage = "none"
              /\ q.next.expiresAt = NoExpiry
           \/ /\ q.pc = "committed" /\ put[r].stage = "none"
              /\ NewWrite(Write(q.code, q.next, q.next.updatedAt))
    PROVE  PromptInv'
  <1> DEFINE new == Write(q.code, q.next, q.next.updatedAt)
             N == IF q.pc = "committed" THEN {new} ELSE {}
  <1>1. links' \in Stores /\ Advances(links, links')
    BY StoreAdvances DEF SystemInv
  <1>2. req \in [Requests -> RequestStates]
    BY SystemTypes
  <1>3. Unexpiring'
    <2>1. \A s \in Requests :
            req'[s].pc = "update" => req'[s].next.expiresAt = NoExpiry
      BY <1>2 DEF PromptInv, Unexpiring
    <2> QED
      BY <2>1, CommittedUnexpiring DEF Unexpiring
  <1>4. \A s \in Requests :
          req'[s].pc = "committed" /\ put'[s].stage = "none"
          => \/ req'[s] = req[s] /\ put[s].stage = "none"
             \/ Write(req'[s].code, req'[s].next, req'[s].next.updatedAt) \in N
    BY <1>2
  <1>5. \A w \in N : NewWrite(w)
    OBVIOUS
  <1> HIDE DEF N
  <1>6. \A w \in Held' : w \in Held \/ w \in N
    BY <1>4, HeldGrows
  <1>7. \A s \in Requests :
          \/ req'[s] = req[s] /\ put'[s] = put[s]
          \/ RefreshOnItsWay(req'[s], put'[s])
    BY <1>2 DEF RefreshOnItsWay
  <1> QED
    BY <1>1, <1>3, <1>5, <1>6, <1>7, UncachedStepKeepsPrompt

LEMMA ManagementStepKeepsPrompt ==
    ASSUME HealthyRedis, SystemInv, FreshnessInv, PromptInv,
           NEW r \in Requests, ManagementStep(r)
    PROVE  PromptInv'
  <1>1. /\ [ManagementNext]_managementVars /\ Committed
        /\ UNCHANGED <<cache, now, red, put, acked>>
    BY SystemTypes DEF ManagementStep, ManagementNext, Finish
  <1>2. req \in [Requests -> RequestStates] /\ now \in Times
    BY SystemTypes
  <1>3. ASSUME Update(req[r].code, req[r].next, req[r].base.version),
               req[r].pc = "update"
        PROVE  /\ \A c \in Codes :
                    links'[c] # links[c] => links'[c].expiresAt = NoExpiry
               /\ NewWrite(Write(req[r].code, req[r].next,
                                 req[r].next.updatedAt))
               /\ put[r].stage = "none"
    <2>1. VersionOf(req[r].base, req[r].code, links)
            /\ Mutant(req[r].next, req[r].base)
      BY <1>3 DEF SystemInv, ManagementInv, RequestInv
    <2>2. /\ req[r].base = links[req[r].code]
          /\ req[r].next \in Links
          /\ req[r].next.version = req[r].base.version + 1
          /\ links' = [links EXCEPT ![req[r].code] = req[r].next]
      BY <1>3, <2>1, SystemTypes, UpdateInstallsNext, CoarseClockRow,
         TickAssumption
    <2>3. req[r].next.expiresAt = NoExpiry
      BY <1>3 DEF PromptInv, Unexpiring
    <2>4. req[r].code \in Codes /\ req[r].base \in Links
      BY <2>1 DEF VersionOf
    <2>5. req[r].base.version \in Nat /\ req[r].next.version \in Nat
      BY <2>2, <2>4, ProjectionIsMapping
    <2>6. NewWrite(Write(req[r].code, req[r].next, req[r].next.updatedAt))
      BY <2>2, <2>4, <2>5 DEF NewWrite, Write
    <2>7. \A c \in Codes :
            links'[c] # links[c] => links'[c].expiresAt = NoExpiry
      BY <2>2, <2>3, SystemTypes DEF Stores
    <2> QED
      BY <1>3, <2>6, <2>7 DEF PromptInv, RefreshInv
  <1>4. CASE \E answer : Refused(r, answer)
    <2>1. PICK answer : Refused(r, answer)
      BY <1>4
    <2> DEFINE q == [Idle EXCEPT !.pc = "answered", !.answer = answer]
    <2>2. req' = [req EXCEPT ![r] = q] /\ q.pc = "answered"
      BY <2>1 DEF Refused, Idle
    <2> HIDE DEF q
    <2>3. \/ UNCHANGED links
          \/ /\ Update(req[r].code, req[r].next, req[r].base.version)
             /\ req[r].pc = "update"
      BY DEF ManagementStep, Begin, Get, Change, Commit, Conflict, Fail,
             FindFails, UpdateFails, CommitUnacknowledged, Abandon
    <2>4. \A c \in Codes :
            links'[c] # links[c] => links'[c].expiresAt = NoExpiry
      BY <1>3, <2>3
    <2> QED
      BY <1>1, <2>2, <2>4, RequestStepKeepsPrompt
  <1>5. ASSUME NEW c \in Codes, NEW o \in Owners, Get(r, c, o),
               ~(\E answer : Refused(r, answer))
        PROVE  PromptInv'
    <2> DEFINE q == [pc |-> "answered", code |-> c, base |-> links[c],
                     next |-> links[c], answer |-> "read"]
    <2>1. req' = [req EXCEPT ![r] = q] /\ q.pc = "answered" /\ UNCHANGED links
      BY <1>5 DEF Get
    <2> HIDE DEF q
    <2> QED
      BY <1>1, <2>1, RequestStepKeepsPrompt
  <1>6. CASE Conflict(r)
    <2> DEFINE q == [pc |-> "answered", code |-> req[r].code,
                     base |-> req[r].base, next |-> NoLink,
                     answer |-> "conflict"]
    <2>1. req' = [req EXCEPT ![r] = q] /\ q.pc = "answered" /\ UNCHANGED links
      BY <1>2, <1>6 DEF Conflict
    <2> HIDE DEF q
    <2> QED
      BY <1>1, <2>1, RequestStepKeepsPrompt
  <1>7. ASSUME NEW c \in Codes, NEW o \in Owners, NEW version,
               NEW m \in Mutations, Change(r, c, o, version, m, now),
               ~(\E answer : Refused(r, answer))
        PROVE  PromptInv'
    <2>1. links[c] # NoLink /\ req[r].pc = "idle" /\ UNCHANGED links
      BY <1>7 DEF Change, Visible, Exists
    <2>2. links[c] \in Links /\ links[c].expiresAt = NoExpiry
      BY <2>1, StoredUnexpiring
    <2>3. PICK l \in Mutate(links[c], m, now) :
            req' = [req EXCEPT ![r] =
                      [pc |-> "update", code |-> c, base |-> links[c],
                       next |-> l, answer |-> "none"]]
      BY <1>7 DEF Change
    <2> DEFINE q == [pc |-> "update", code |-> c, base |-> links[c],
                     next |-> l, answer |-> "none"]
    <2>4. req' = [req EXCEPT ![r] = q] /\ q.pc = "update" /\ q.next = l
      BY <2>3
    <2>5. l.expiresAt = NoExpiry
      BY <1>2, <2>2, MutateKeepsUnexpiring
    <2>6. put[r].stage = "none"
      BY <2>1 DEF PromptInv, RefreshInv
    <2> HIDE DEF q
    <2> QED
      BY <1>1, <2>1, <2>4, <2>5, <2>6, RequestStepKeepsPrompt
  <1>8. CASE Commit(r)
    <2> DEFINE q == [pc |-> "committed", code |-> req[r].code,
                     base |-> req[r].base, next |-> req[r].next,
                     answer |-> "none"]
    <2>1. /\ req' = [req EXCEPT ![r] = q]
          /\ q.pc = "committed" /\ q.next = req[r].next /\ q.code = req[r].code
      BY <1>2, <1>8 DEF Commit
    <2> HIDE DEF q
    <2>2. /\ Update(req[r].code, req[r].next, req[r].base.version)
          /\ req[r].pc = "update"
      BY <1>8 DEF Commit
    <2> QED
      BY <1>1, <1>3, <2>1, <2>2, RequestStepKeepsPrompt
  <1>9. CASE Fail(r)
    BY <1>4, <1>9
    DEF Fail, FindFails, UpdateFails, CommitUnacknowledged, Abandon
  <1>10. CASE Begin(r, now)
    <2>1. PICK c \in Codes, o \in Owners :
            \/ Get(r, c, o)
            \/ \E version \in IfMatch(c), m \in Mutations :
                  Change(r, c, o, version, m, now)
      BY <1>10 DEF Begin
    <2> QED
      BY <1>4, <1>5, <1>7, <2>1
  <1> QED
    BY <1>6, <1>8, <1>9, <1>10 DEF ManagementStep

-----------------------------------------------------------------------------
(* Sending a command *)

LEMMA UnexpiringIsCached ==
    ASSUME HealthyRedis, NEW m, m.expiresAt = NoExpiry, NEW at
    PROVE  ShouldCache(m, at) /\ CacheTTL(m, at) > Latency
  BY DEF HealthyRedis, ShouldCache, CacheTTL, ConfiguredTTL

(* A write that is on its way was held by its handler before.              *)
LEMMA SendPutKeepsPrompt ==
    ASSUME HealthyRedis, SystemInv, FreshnessInv, PromptInv,
           NEW a \in Handlers, NEW c, NEW m, NEW since,
           SendPut(a, c, m, since), m.expiresAt = NoExpiry,
           Write(c, m, since) \in Held,
           a \in Requests => c = req[a].code /\ m.version = req[a].next.version
                              /\ req[a].pc = "committed",
           UNCHANGED <<links, req, cache, now, red, history, acked>>
    PROVE  PromptInv'
  <1> DEFINE p == [stage |-> "sent", code |-> c, mapping |-> m,
                   ttl |-> CacheTTL(m, now), since |-> since]
  <1>1. put' = [put EXCEPT ![a] = p] /\ p.ttl > Latency
    BY UnexpiringIsCached DEF SendPut
  <1>2. /\ p.stage = "sent" /\ p.code = c /\ p.mapping = m /\ p.since = since
        /\ put \in [Handlers -> SoundPuts]
    BY SystemTypes
  <1> HIDE DEF p
  <1>3. \A w \in Held' : w \in Held \/ w \in Held
    <2>1. \A b \in Handlers :
            put'[b].stage = "sent"
            => \/ put'[b] = put[b]
               \/ Write(put'[b].code, put'[b].mapping, put'[b].since) \in Held
      BY <1>1, <1>2
    <2>2. \A r \in Requests :
            req'[r].pc = "committed" /\ put'[r].stage = "none"
            => req'[r] = req[r] /\ put[r].stage = "none"
      BY <1>1, <1>2 DEF Handlers
    <2> QED
      BY <2>1, <2>2, HeldGrows
  <1>4. \A r \in Requests :
          req'[r] = req[r] /\
            (put'[r] = put[r] \/ RefreshOnItsWay(req[r], put'[r]))
    BY <1>1, <1>2 DEF RefreshOnItsWay, Handlers
  <1>5. \A b \in Handlers :
          put'[b] = put[b] \/ put'[b].stage # "sent" \/ put'[b].ttl > Latency
    BY <1>1, <1>2
  <1> QED
    BY <1>3, <1>4, <1>5, QuietStepKeepsPrompt

LEMMA CommittedMappingUnexpiring ==
    ASSUME PromptInv, NEW c, NEW m, WasCommitted(c, m)
    PROVE  m.expiresAt = NoExpiry
  BY DEF PromptInv, Unexpiring, WasCommitted

LEMMA RefreshKeepsPrompt ==
    ASSUME HealthyRedis, SystemInv, FreshnessInv, PromptInv,
           NEW r \in Requests, Refresh(r)
    PROVE  PromptInv'
  <1> DEFINE m == RedirectMappingFromLink(req[r].next)
  <1>1. /\ req[r].pc = "committed" /\ put[r].stage = "none"
        /\ r \in Handlers /\ SendPut(r, req[r].code, m, req[r].next.updatedAt)
        /\ UNCHANGED <<links, req, cache, now, red, history, acked>>
    BY DEF Refresh, SendPut, Handlers
  <1>2. m.expiresAt = NoExpiry
    BY <1>1, CommittedMappingUnexpiring DEF SystemInv
  <1>3. m.version = req[r].next.version
    BY DEF RedirectMappingFromLink
  <1> HIDE DEF m
  <1>4. Write(req[r].code, m, req[r].next.updatedAt) \in Held
    <2>1. Write(req[r].code, req[r].next, req[r].next.updatedAt) \in Held
      BY <1>1 DEF Held, Refreshes
    <2> QED
      BY <1>3, <2>1 DEF Write
  <1> QED
    BY <1>1, <1>2, <1>3, <1>4, SendPutKeepsPrompt

(* The client is told of a mutation only once it has been published.       *)
LEMMA RespondStepKeepsPrompt ==
    ASSUME HealthyRedis, SystemInv, FreshnessInv, PromptInv,
           NEW r \in Requests, RespondStep(r)
    PROVE  PromptInv'
  <1> DEFINE q == [pc |-> "answered", code |-> req[r].code,
                   base |-> req[r].base, next |-> req[r].next,
                   answer |-> "changed"]
  <1>1. /\ UNCHANGED <<links, cache, now, red, put, history>>
        /\ req[r].pc = "committed" /\ put[r].stage = "over"
    BY DEF RespondStep, Respond, PutReturned, HealthyRedis
  <1>2. /\ req \in [Requests -> RequestStates]
        /\ acked \in [Codes -> Nat]
    BY SystemTypes
  <1>3. req' = [req EXCEPT ![r] = q] /\ q.pc = "answered"
    BY <1>2 DEF RespondStep, Respond
  <1> HIDE DEF q
  <1>4. \A w \in Held' : w \in Held \/ w \in {}
    <2>1. \A s \in Requests :
            req'[s].pc = "committed" => req'[s] = req[s]
      BY <1>2, <1>3
    <2> QED
      BY <1>1, <2>1, HeldGrows
  <1>5. \A w \in Held' : Shielded(w)'
    BY <1>1, <1>4 DEF PromptInv, Shielded, Cached
  <1>6. \A c \in Codes : \A v \in Nat : Published(c, v)
            => /\ cache'[c] # NoEntry => cache'[c].mapping.version >= v
               /\ \A w \in Held' :
                    w.code = c /\ w.version < v => cache'[c] # NoEntry
    BY <1>1, <1>4 DEF Published, Cached
  <1>7. /\ req[r].code \in Codes /\ req[r].next.version \in Nat
        /\ Published(req[r].code, req[r].next.version)
        /\ Claim(req[r].code, req[r].next.version)
    BY <1>1, Claims DEF PromptInv, RefreshInv
  <1>8. ASSUME NEW c \in Codes
        PROVE  AckedInv(c)' /\ acked[c] <= acked'[c]
    <2>1. \/ acked'[c] = acked[c]
          \/ /\ c = req[r].code /\ acked'[c] = req[r].next.version
             /\ acked[c] < acked'[c]
      BY <1>2, <1>7 DEF RespondStep
    <2>2. Published(c, acked[c]) /\ acked[c] \in Nat
      BY <1>2 DEF PromptInv, AckedInv
    <2>3. CASE acked'[c] = acked[c]
      <3>1. /\ cache'[c] # NoEntry => cache'[c].mapping.version >= acked[c]
            /\ \A w \in Held' :
                 w.code = c /\ w.version < acked[c] => cache'[c] # NoEntry
        BY <1>6, <2>2
      <3> QED
        BY <1>1, <2>2, <2>3, <3>1
        DEF PromptInv, AckedInv, Published, Cached, Exists
    <2>4. CASE c = req[r].code /\ acked'[c] = req[r].next.version
                 /\ acked[c] < acked'[c]
      <3> DEFINE v == req[r].next.version
      <3>1. /\ cache'[c] # NoEntry => cache'[c].mapping.version >= v
            /\ \A w \in Held' : w.code = c /\ w.version < v => cache'[c] # NoEntry
        BY <1>6, <1>7, <2>4
      <3>2. links'[c] # NoLink /\ v <= links'[c].version
        BY <1>1, <1>7, <2>2, <2>4, NoLinkAssumption DEF Claim
      <3>3. acked'[c] = v /\ acked[c] <= acked'[c]
        BY <1>7, <2>2, <2>4
      <3> HIDE DEF v
      <3>4. AckedInv(c)'
        BY <3>1, <3>2, <3>3 DEF AckedInv, Published, Cached, Exists
      <3> QED
        BY <3>3, <3>4
    <2> QED
      BY <2>1, <2>2, <2>3, <2>4
  <1>9. ASSUME NEW s \in Requests
        PROVE  RefreshInv(s)'
    <2>1. CASE s = r
      BY <1>2, <1>3, <2>1 DEF RefreshInv
    <2>2. CASE s # r
      <3>1. req'[s] = req[s] /\ put'[s] = put[s] /\ RefreshInv(s)
        BY <1>1, <1>2, <1>3, <2>2 DEF PromptInv
      <3>2. ASSUME req[s].pc = "committed", put[s].stage = "over"
            PROVE  LET c == req[s].code
                       v == req[s].next.version
                   IN  /\ cache'[c] # NoEntry => cache'[c].mapping.version >= v
                       /\ \A w \in Held' :
                            w.code = c /\ w.version < v => cache'[c] # NoEntry
        BY <1>6, <3>1, <3>2, Claims DEF RefreshInv
      <3> QED
        BY <3>1, <3>2 DEF RefreshInv, Published, Cached
    <2> QED
      BY <2>1, <2>2
  <1>10. Unexpiring'
    BY <1>1, <1>2, <1>3 DEF PromptInv, Unexpiring
  <1>11. ASSUME NEW d \in Redirects, red'[d].pc = "source"
         PROVE  red'[d].floor <= acked'[red'[d].code]
    <2>1. red[d] \in RedirectStates /\ red[d].code \in Codes
            /\ red[d].floor <= acked[red[d].code]
      BY <1>1, <1>11, SystemTypes DEF SystemInv, RedirectInv, PromptInv
    <2>2. red[d].floor \in Nat
      BY <2>1 DEF RedirectStates
    <2>3. acked[red[d].code] <= acked'[red[d].code]
            /\ acked[red[d].code] \in Nat /\ acked'[red[d].code] \in Nat
      BY <1>2, <1>7, <1>8, <2>1 DEF RespondStep
    <2> QED
      BY <1>1, <2>1, <2>2, <2>3
  <1>12. MutationChangesNextRedirect'
    BY <1>1 DEF PromptInv, MutationChangesNextRedirect
  <1>13. \A a \in Handlers : put'[a].stage = "sent" => put'[a].ttl > Latency
    BY <1>1 DEF PromptInv
  <1> QED
    BY <1>5, <1>8, <1>9, <1>10, <1>11, <1>12, <1>13 DEF PromptInv

-----------------------------------------------------------------------------
(* Redirects *)

LEMMA StartRedirectKeepsPrompt ==
    ASSUME HealthyRedis, SystemInv, FreshnessInv, PromptInv,
           NEW d \in Redirects, NEW c \in Codes, StartRedirect(d, c)
    PROVE  PromptInv'
  <1> DEFINE hit == [pc |-> "resolved", code |-> c,
                     mapping |-> cache[c].mapping, since |-> now,
                     floor |-> acked[c], answer |-> "none"]
             miss == [pc |-> "source", code |-> c, mapping |-> NoEntry,
                      since |-> now, floor |-> acked[c], answer |-> "none"]
  <1>1. /\ UNCHANGED <<links, req, cache, now, history, acked>>
        /\ put' = [put EXCEPT ![d] = NoPut]
        /\ \/ Cached(c) /\ red' = [red EXCEPT ![d] = hit]
           \/ red' = [red EXCEPT ![d] = miss]
    BY DEF StartRedirect
  <1>2. /\ hit.pc = "resolved" /\ hit.mapping = cache[c].mapping
        /\ hit.floor = acked[c]
        /\ miss.pc = "source" /\ miss.mapping = NoEntry /\ miss.code = c
        /\ miss.floor = acked[c]
        /\ NoPut.stage = "none"
    BY DEF NoPut
  <1>3. /\ red \in [Redirects -> RedirectStates]
        /\ put \in [Handlers -> SoundPuts] /\ d \notin Requests
        /\ acked[c] \in Nat
    BY SystemTypes, HandlersAssumption
  <1> HIDE DEF hit, miss
  <1>4. Cached(c) => AboveFloor(hit)
    BY <1>2 DEF PromptInv, AckedInv, Published, AboveFloor
  <1>5. AboveFloor(miss)
    BY <1>2, <1>3 DEF AboveFloor
  <1>6. \A e \in Redirects : red'[e] = red[e] \/ AboveFloor(red'[e])
    BY <1>1, <1>3, <1>4, <1>5
  <1>7. \A w \in Held' : w \in Held \/ w \in {}
    <2>1. \A e \in Redirects : red'[e].pc = "fill" => red'[e] = red[e]
      BY <1>1, <1>2, <1>3
    <2>2. \A b \in Handlers : put'[b].stage = "sent" => put'[b] = put[b]
      BY <1>1, <1>2, <1>3
    <2>3. \A r \in Requests : req'[r] = req[r] /\ put'[r] = put[r]
      BY <1>1, <1>3 DEF Handlers
    <2> QED
      BY <2>1, <2>2, <2>3, HeldGrows
  <1>8. \A b \in Handlers : put'[b] = put[b] \/ put'[b].stage # "sent"
    BY <1>1, <1>2, <1>3
  <1>9. \A r \in Requests : req'[r] = req[r] /\ put'[r] = put[r]
    BY <1>1, <1>3 DEF Handlers
  <1> QED
    BY <1>1, <1>6, <1>7, <1>8, <1>9, QuietStepKeepsPrompt

LEMMA RedirectStepKeepsPrompt ==
    ASSUME SystemInv, FreshnessInv, PromptInv,
           UNCHANGED <<links, req, cache, now, put, history, acked>>,
           NEW d \in Redirects, NEW x, red' = [red EXCEPT ![d] = x],
           AboveFloor(x),
           x.pc = "fill" => NewWrite(Write(x.code, x.mapping, x.since))
    PROVE  PromptInv'
  <1> DEFINE N == IF x.pc = "fill" THEN {Write(x.code, x.mapping, x.since)} ELSE {}
  <1>1. red \in [Redirects -> RedirectStates]
    BY SystemTypes
  <1>2. \A e \in Redirects :
          red'[e].pc = "fill"
          => \/ red'[e] = red[e]
             \/ Write(red'[e].code, red'[e].mapping, red'[e].since) \in N
    BY <1>1
  <1>3. \A w \in N : NewWrite(w)
    OBVIOUS
  <1> HIDE DEF N
  <1>4. \A w \in Held' : w \in Held \/ w \in N
    BY <1>2, HeldGrows
  <1>5. \A e \in Redirects : red'[e] = red[e] \/ AboveFloor(red'[e])
    BY <1>1
  <1> QED
    BY <1>3, <1>4, <1>5, QuietStepKeepsPrompt

LEMMA HandleRedirectKeepsPrompt ==
    ASSUME HealthyRedis, SystemInv, FreshnessInv, PromptInv,
           NEW d \in Redirects, HandleRedirect(d) \/ SourceFails(d)
    PROVE  PromptInv'
  <1>1. red[d] \in RedirectStates
    BY SystemTypes
  <1>2. /\ red[d].mapping # NoEntry => red[d].mapping.version >= red[d].floor
        /\ red[d].pc = "source" => red[d].floor <= acked[red[d].code]
    BY DEF PromptInv, MutationChangesNextRedirect
  <1>3. CASE \E answer :
               /\ Answered(d, answer)
               /\ UNCHANGED <<links, req, cache, now, put, history, acked>>
    <2>1. PICK answer :
            /\ Answered(d, answer)
            /\ UNCHANGED <<links, req, cache, now, put, history, acked>>
      BY <1>3
    <2> DEFINE x == [red[d] EXCEPT !.pc = "done", !.since = 0,
                                   !.answer = answer]
    <2>2. /\ red' = [red EXCEPT ![d] = x] /\ x.pc = "done"
          /\ x.mapping = red[d].mapping /\ x.floor = red[d].floor
      BY <1>1, <2>1 DEF Answered, RedirectStates
    <2> HIDE DEF x
    <2>3. AboveFloor(x)
      BY <1>2, <2>2 DEF AboveFloor
    <2> QED
      BY <2>1, <2>2, <2>3, RedirectStepKeepsPrompt
  <1>4. CASE ReadSource(d) /\ Exists(red[d].code)
    <2> DEFINE m == RedirectMappingFromLink(links[red[d].code])
               x == [red[d] EXCEPT !.pc = "fill", !.mapping = m]
    <2>1. /\ red' = [red EXCEPT ![d] = x]
          /\ UNCHANGED <<links, req, cache, now, put, history, acked>>
          /\ red[d].pc = "source"
      BY <1>4 DEF ReadSource
    <2>2. links[red[d].code] \in Links /\ red[d].code \in Codes
      BY <1>4, <2>1, SystemTypes DEF SystemInv, RedirectInv, Exists, Stores, Rows
    <2>3. /\ m.version = links[red[d].code].version
          /\ links[red[d].code].version \in Nat
      BY <2>2, ProjectionIsMapping
    <2>4. /\ x.pc = "fill" /\ x.mapping = m /\ x.floor = red[d].floor
          /\ x.code = red[d].code /\ x.since = red[d].since
      BY <1>1 DEF RedirectStates
    <2> HIDE DEF m, x
    <2>5. /\ red[d].floor \in Nat /\ acked[red[d].code] \in Nat
          /\ red[d].floor <= acked[red[d].code]
          /\ acked[red[d].code] # 0
               => acked[red[d].code] <= links[red[d].code].version
      BY <1>1, <1>2, <2>1, <2>2, SystemTypes
      DEF RedirectStates, PromptInv, AckedInv
    <2>6. AboveFloor(x)
      BY <2>3, <2>4, <2>5 DEF AboveFloor
    <2>7. NewWrite(Write(x.code, x.mapping, x.since))
      BY <2>2, <2>3, <2>4 DEF NewWrite, Write
    <2> QED
      BY <2>1, <2>6, <2>7, RedirectStepKeepsPrompt
  <1>5. CASE StartFill(d)
    <2>1. /\ red[d].pc = "fill"
          /\ SendPut(d, red[d].code, red[d].mapping, red[d].since)
          /\ UNCHANGED <<links, req, cache, now, red, history, acked>>
      BY <1>5 DEF StartFill
    <2>2. red[d].mapping.expiresAt = NoExpiry
      BY <2>1, CommittedMappingUnexpiring
      DEF SystemInv, RedirectInv, OnlyCommittedMappings
    <2>3. Write(red[d].code, red[d].mapping, red[d].since) \in Held
      BY <2>1 DEF Held, Fills
    <2>4. d \in Handlers /\ d \notin Requests
      BY HandlersAssumption DEF Handlers
    <2> QED
      BY <2>1, <2>2, <2>3, <2>4, SendPutKeepsPrompt
  <1>6. CASE FinishFill(d)
    <2> DEFINE x == [red[d] EXCEPT !.pc = "resolved"]
    <2>1. /\ red' = [red EXCEPT ![d] = x]
          /\ UNCHANGED <<links, req, cache, now, put, history, acked>>
      BY <1>6 DEF FinishFill
    <2>2. /\ x.pc = "resolved" /\ x.mapping = red[d].mapping
          /\ x.floor = red[d].floor
      BY <1>1 DEF RedirectStates
    <2> HIDE DEF x
    <2>3. AboveFloor(x)
      BY <1>2, <2>2 DEF AboveFloor
    <2> QED
      BY <2>1, <2>2, <2>3, RedirectStepKeepsPrompt
  <1>7. CASE SourceFails(d)
    BY <1>3, <1>7 DEF SourceFails
  <1>8. CASE Answer(d)
    BY <1>3, <1>8 DEF Answer
  <1>9. CASE ReadSource(d) /\ ~Exists(red[d].code)
    BY <1>3, <1>9 DEF ReadSource
  <1> QED
    BY <1>4, <1>5, <1>6, <1>7, <1>8, <1>9 DEF HandleRedirect

-----------------------------------------------------------------------------
(* Redis and the clock *)

Delayed ==
    \A c \in Codes :
       cache'[c] # cache[c] /\ cache'[c] # NoEntry
       => cache'[c].mapping.version >= acked[c]

(* The script installs nothing older than what has been published, and an  *)
(* entry it installs outlives every handler there is.                      *)
LEMMA PutPublishes ==
    ASSUME HealthyRedis, SystemInv, FreshnessInv, PromptInv,
           NEW a \in Handlers, ApplyPut(a)
    PROVE  /\ \A w \in Held' : Shielded(w)'
           /\ \A c \in Codes : \A v \in Nat :
                 Published(c, v)
                 => /\ cache'[c] # NoEntry => cache'[c].mapping.version >= v
                    /\ \A w \in Held' :
                         w.code = c /\ w.version < v => cache'[c] # NoEntry
           /\ cache'[put[a].code] # NoEntry
           /\ cache'[put[a].code].mapping.version >= put[a].mapping.version
           /\ Delayed
  <1> DEFINE p == put[a]
             k == [mapping |-> p.mapping, deadline |-> now + p.ttl]
             own == Write(p.code, p.mapping, p.since)
             newer == cache[p.code] # NoEntry
                        /\ cache[p.code].mapping.version > p.mapping.version
  <1>1. /\ UNCHANGED <<links, req, now, red, history, acked>>
        /\ put' = [put EXCEPT ![a] = PutIsOver]
        /\ p.stage = "sent" /\ p.ttl > Latency
        /\ newer => UNCHANGED cache
        /\ ~newer => cache' = [cache EXCEPT ![p.code] = k]
    BY DEF ApplyPut, PutIfNewer, PromptInv, Cached
  <1>2. /\ put \in [Handlers -> SoundPuts] /\ p.ttl \in Nat
        /\ cache \in [Codes -> Entries \cup {NoEntry}] /\ acked \in [Codes -> Nat]
    BY SystemTypes DEF SoundPuts, PutStates
  <1>3. own \in Held /\ own.code = p.code /\ own.version = p.mapping.version
    BY <1>1 DEF Held, Commands, Write
  <1>4. p.code \in Codes /\ p.mapping.version \in Nat
    BY <1>3, HeldTypes
  <1>5. k.mapping = p.mapping /\ k.deadline = now + p.ttl
    OBVIOUS
  <1>6. k # NoEntry
    <2>1. k \in Entries
      BY <1>1, <1>2, SystemTypes, FreshTypes
      DEF SystemInv, SystemTypeOK, OnlyCommittedMappings, WasCommitted, Entries
    <2> QED
      BY <1>5, <2>1, NoEntryAssumption
  <1> HIDE DEF k, p, own, newer
  <1>7. \A w \in Held' : w \in Held
    <2>1. \A b \in Handlers : put'[b].stage = "sent" => put'[b] = put[b]
      BY <1>1, <1>2 DEF PutIsOver, NoPut
    <2>2. \A r \in Requests :
            req'[r].pc = "committed" /\ put'[r].stage = "none"
            => req'[r] = req[r] /\ put[r].stage = "none"
      BY <1>1, <1>2 DEF PutIsOver, NoPut, Handlers
    <2>3. \A w \in Held' : w \in Held \/ w \in {}
      BY <1>1, <2>1, <2>2, HeldGrows
    <2> QED
      BY <2>3
  <1>8. ASSUME NEW c \in Codes
        PROVE  cache'[c] = cache[c] \/ (c = p.code /\ cache'[c] = k /\ ~newer)
    BY <1>1, <1>2
  <1>9. ASSUME NEW w \in Held'
        PROVE  Shielded(w)'
    <2>1. w \in Held /\ w.code \in Codes /\ w.since \in Nat /\ w.since <= now
      BY <1>7, HeldTypes
    <2>2. CASE cache'[w.code] = cache[w.code]
      BY <2>1, <2>2 DEF PromptInv, Shielded, Cached
    <2>3. CASE cache'[w.code] = k
      <3>1. k.deadline > w.since + Latency
        BY <1>1, <1>2, <1>5, <2>1, FreshTypes
      <3> QED
        BY <2>3, <3>1 DEF Shielded, Cached
    <2> QED
      BY <1>8, <2>1, <2>2, <2>3
  <1>10. ASSUME NEW c \in Codes, NEW v \in Nat, Published(c, v)
         PROVE  /\ cache'[c] # NoEntry => cache'[c].mapping.version >= v
                /\ \A w \in Held' :
                     w.code = c /\ w.version < v => cache'[c] # NoEntry
    <2>1. CASE cache'[c] = cache[c]
      BY <1>7, <1>10, <2>1 DEF Published, Cached
    <2>2. CASE c = p.code /\ cache'[c] = k /\ ~newer
      <3>1. p.mapping.version >= v
        <4>1. SUFFICES ASSUME p.mapping.version < v
                       PROVE  FALSE
          BY <1>4
        <4>2. cache[c] # NoEntry /\ cache[c].mapping.version >= v
          BY <1>3, <1>10, <2>2, <4>1 DEF Published, Cached
        <4>3. cache[c].mapping.version \in Nat
          BY <4>2, FreshTypes
        <4> QED
          BY <1>4, <2>2, <4>1, <4>2, <4>3 DEF newer
      <3> QED
        BY <1>5, <1>6, <2>2, <3>1
    <2> QED
      BY <1>8, <2>1, <2>2
  <1>11. /\ cache'[p.code] # NoEntry
         /\ cache'[p.code].mapping.version >= p.mapping.version
    <2>1. CASE newer
      <3>1. cache[p.code].mapping.version \in Nat
        BY <1>4, <2>1, FreshTypes DEF newer
      <3> QED
        BY <1>1, <1>4, <2>1, <3>1 DEF newer
    <2>2. CASE ~newer
      BY <1>1, <1>2, <1>4, <1>5, <1>6, <2>2
    <2> QED
      BY <2>1, <2>2
  <1>12. Delayed
    <2>1. ASSUME NEW c \in Codes, cache'[c] # NoEntry
          PROVE  cache'[c].mapping.version >= acked[c]
      <3>1. Published(c, acked[c]) /\ acked[c] \in Nat
        BY <1>2 DEF PromptInv, AckedInv
      <3> QED
        BY <1>10, <2>1, <3>1
    <2> QED
      BY <2>1 DEF Delayed
  <1> QED
    BY <1>9, <1>10, <1>11, <1>12 DEF p

(* The cache lost nothing that is still needed: what was published is.     *)
LEMMA CacheStepKeepsPrompt ==
    ASSUME SystemInv, FreshnessInv, PromptInv,
           UNCHANGED <<links, req, red, history, acked>>,
           \A w \in Held' : Shielded(w)',
           \A c \in Codes : \A v \in Nat :
              Published(c, v)
              => /\ cache'[c] # NoEntry => cache'[c].mapping.version >= v
                 /\ \A w \in Held' :
                      w.code = c /\ w.version < v => cache'[c] # NoEntry,
           \A a \in Handlers : put'[a].stage = "sent" => put'[a] = put[a],
           \A r \in Requests :
              \/ put'[r] = put[r]
              \/ /\ put[r].stage = "sent" /\ put'[r].stage = "over"
                 /\ cache'[put[r].code] # NoEntry
                 /\ cache'[put[r].code].mapping.version
                      >= put[r].mapping.version
    PROVE  PromptInv'
  <1>1. ASSUME NEW r \in Requests
        PROVE  RefreshInv(r)'
    <2>1. RefreshInv(r)
      BY DEF PromptInv
    <2>2. CASE put'[r] = put[r]
      <3>1. ASSUME req[r].pc = "committed", put[r].stage = "over"
            PROVE  LET c == req[r].code
                       v == req[r].next.version
                   IN  /\ cache'[c] # NoEntry => cache'[c].mapping.version >= v
                       /\ \A w \in Held' :
                            w.code = c /\ w.version < v => cache'[c] # NoEntry
        BY <2>1, <3>1, Claims DEF RefreshInv
      <3> QED
        BY <2>1, <2>2, <3>1 DEF RefreshInv, Published, Cached
    <2>3. CASE /\ put[r].stage = "sent" /\ put'[r].stage = "over"
               /\ cache'[put[r].code] # NoEntry
               /\ cache'[put[r].code].mapping.version
                    >= put[r].mapping.version
      BY <2>1, <2>3 DEF RefreshInv, Published, Cached
    <2> QED
      BY <2>2, <2>3
  <1>2. ASSUME NEW c \in Codes
        PROVE  AckedInv(c)'
    <2>1. AckedInv(c) /\ acked[c] \in Nat
      BY SystemTypes DEF PromptInv
    <2>2. /\ cache'[c] # NoEntry => cache'[c].mapping.version >= acked[c]
          /\ \A w \in Held' :
               w.code = c /\ w.version < acked[c] => cache'[c] # NoEntry
      BY <2>1 DEF AckedInv
    <2> QED
      BY <2>1, <2>2 DEF AckedInv, Published, Cached, Exists
  <1>3. \A a \in Handlers : put'[a].stage = "sent" => put'[a].ttl > Latency
    BY DEF PromptInv
  <1>4. Unexpiring' /\ MutationChangesNextRedirect'
    BY DEF PromptInv, Unexpiring, MutationChangesNextRedirect
  <1>5. \A d \in Redirects :
          red'[d].pc = "source" => red'[d].floor <= acked'[red'[d].code]
    BY DEF PromptInv
  <1> QED
    BY <1>1, <1>2, <1>3, <1>4, <1>5 DEF PromptInv

LEMMA ApplyPutKeepsPrompt ==
    ASSUME HealthyRedis, SystemInv, FreshnessInv, PromptInv,
           NEW a \in Handlers, ApplyPut(a)
    PROVE  PromptInv'
  <1>1. /\ UNCHANGED <<links, req, red, history, acked>>
        /\ put[a].stage = "sent"
        /\ put' = [put EXCEPT ![a] = PutIsOver] /\ PutIsOver.stage = "over"
    BY DEF ApplyPut, PutIsOver, NoPut
  <1>2. put \in [Handlers -> SoundPuts]
    BY SystemTypes
  <1>3. \A b \in Handlers : put'[b].stage = "sent" => put'[b] = put[b]
    BY <1>1, <1>2
  <1>4. \A r \in Requests :
          \/ put'[r] = put[r]
          \/ /\ put[r].stage = "sent" /\ put'[r].stage = "over"
             /\ cache'[put[r].code] # NoEntry
             /\ cache'[put[r].code].mapping.version >= put[r].mapping.version
    BY <1>1, <1>2, PutPublishes DEF Handlers
  <1> QED
    BY <1>1, <1>3, <1>4, PutPublishes, CacheStepKeepsPrompt

(* An entry that shields a handler's write expires after the handler.      *)
LEMMA TickKeepsPrompt ==
    ASSUME HealthyRedis, SystemInv, FreshnessInv, PromptInv, Tick
    PROVE  PromptInv' /\ Delayed
  <1>1. UNCHANGED <<links, req, red, put, history, acked>>
    BY DEF Tick
  <1>2. \A c \in Codes :
          \/ cache'[c] = cache[c]
          \/ /\ cache'[c] = NoEntry /\ cache[c] # NoEntry
             /\ cache[c].deadline <= now + 1
    BY DEF Tick, ExpireKeys, Cached
  <1>3. Held' = Held
    BY <1>1 DEF Held, Fills, Commands, Refreshes, Write
  <1>4. ASSUME NEW w \in Held
        PROVE  InTime(w.since)
    <2>1. ASSUME NEW d \in Fills,
                 w = Write(red[d].code, red[d].mapping, red[d].since)
          PROVE  InTime(w.since)
      BY <2>1 DEF Fills, Tick, Write
    <2>2. ASSUME NEW a \in Commands,
                 w = Write(put[a].code, put[a].mapping, put[a].since)
          PROVE  InTime(w.since)
      BY <2>2 DEF Commands, Tick, Write
    <2>3. ASSUME NEW r \in Refreshes,
                 w = Write(req[r].code, req[r].next, req[r].next.updatedAt)
          PROVE  InTime(w.since)
      BY <2>3 DEF Refreshes, Tick, Write
    <2> QED
      BY <2>1, <2>2, <2>3 DEF Held
  <1>5. ASSUME NEW w \in Held'
        PROVE  Shielded(w)'
    <2>1. w \in Held /\ w.code \in Codes
      BY <1>3, HeldTypes
    <2> QED
      BY <1>2, <2>1 DEF PromptInv, Shielded, Cached
  <1>6. ASSUME NEW c \in Codes, NEW v \in Nat, Published(c, v)
        PROVE  /\ cache'[c] # NoEntry => cache'[c].mapping.version >= v
               /\ \A w \in Held' :
                    w.code = c /\ w.version < v => cache'[c] # NoEntry
    <2>1. cache'[c] # NoEntry => cache'[c].mapping.version >= v
      BY <1>2, <1>6 DEF Published, Cached
    <2>2. ASSUME NEW w \in Held', w.code = c, w.version < v
          PROVE  cache'[c] # NoEntry
      <3>1. /\ w \in Held /\ w.version \in Nat /\ w.since \in Nat
        BY <1>3, HeldTypes
      <3>2. cache[c] # NoEntry /\ cache[c].mapping.version >= v
        BY <1>6, <2>2, <3>1 DEF Published, Cached
      <3>3. cache[c].mapping.version \in Nat /\ cache[c].deadline \in Nat
              /\ now \in Nat /\ Latency \in Nat
        BY <3>2, FreshTypes
      <3>4. cache[c].deadline > w.since + Latency
        BY <2>2, <3>1, <3>2, <3>3 DEF PromptInv, Shielded, Cached
      <3>5. now < w.since + Latency
        BY <1>4, <3>1 DEF InTime
      <3> QED
        BY <1>2, <3>1, <3>2, <3>3, <3>4, <3>5
    <2> QED
      BY <2>1, <2>2
  <1>7. PromptInv'
    BY <1>1, <1>5, <1>6, CacheStepKeepsPrompt
  <1>8. Delayed
    BY <1>2 DEF Delayed
  <1> QED
    BY <1>7, <1>8

-----------------------------------------------------------------------------
(* Theorems *)

LEMMA PromptNext ==
    ASSUME HealthyRedis, SystemInv, FreshnessInv, PromptInv,
           [SystemNext]_systemVars
    PROVE  PromptInv' /\ (Delayed \/ UNCHANGED systemVars)
  <1>1. CASE UNCHANGED systemVars
    <2>1. \A w \in Held' : w \in Held \/ w \in {}
      BY <1>1, HeldGrows DEF systemVars
    <2> QED
      BY <1>1, <2>1, QuietStepKeepsPrompt DEF systemVars
  <1>2. ASSUME NEW a \in Handlers, LosePut(a)
        PROVE  FALSE
    BY <1>2 DEF LosePut, HealthyRedis
  <1>3. ASSUME NEW c \in Codes, Evict(c)
        PROVE  FALSE
    BY <1>3 DEF Evict, HealthyRedis
  <1>4. ASSUME UNCHANGED cache
        PROVE  Delayed
    BY <1>4 DEF Delayed
  <1>5. ASSUME NEW c \in Codes, CreateStep(c)
        PROVE  PromptInv' /\ Delayed
    BY <1>4, <1>5, CreateKeepsPrompt DEF CreateStep
  <1>6. ASSUME NEW r \in Requests,
               ManagementStep(r) \/ Refresh(r) \/ RespondStep(r)
        PROVE  PromptInv' /\ Delayed
    BY <1>4, <1>6, ManagementStepKeepsPrompt, RefreshKeepsPrompt,
       RespondStepKeepsPrompt
    DEF ManagementStep, Refresh, RespondStep
  <1>7. ASSUME NEW d \in Redirects, NEW c \in Codes, StartRedirect(d, c)
        PROVE  PromptInv' /\ Delayed
    BY <1>4, <1>7, StartRedirectKeepsPrompt DEF StartRedirect
  <1>8. ASSUME NEW d \in Redirects, HandleRedirect(d) \/ SourceFails(d)
        PROVE  PromptInv' /\ Delayed
    <2>1. UNCHANGED cache
      BY <1>8 DEF HandleRedirect, ReadSource, StartFill, FinishFill, Answer,
                  SourceFails
    <2> QED
      BY <1>4, <1>8, <2>1, HandleRedirectKeepsPrompt
  <1>9. ASSUME NEW a \in Handlers, ApplyPut(a)
        PROVE  PromptInv' /\ Delayed
    BY <1>9, ApplyPutKeepsPrompt, PutPublishes
  <1> QED
    BY <1>1, <1>2, <1>3, <1>5, <1>6, <1>7, <1>8, <1>9, TickKeepsPrompt
    DEF SystemNext

LEMMA PromptInit == SystemInit => PromptInv
  <1> SUFFICES ASSUME SystemInit
               PROVE  PromptInv
    OBVIOUS
  <1>1. /\ history = {}
        /\ \A r \in Requests : req[r].pc = "idle"
        /\ \A d \in Redirects : red[d].pc = "idle" /\ red[d].mapping = NoEntry
        /\ \A a \in Handlers : put[a].stage = "none"
        /\ \A c \in Codes : cache[c] = NoEntry /\ acked[c] = 0
    BY DEF SystemInit, ManagementInit, CacheInit, Idle, IdleRedirect, NoPut
  <1>2. Held = {}
    BY <1>1 DEF Held, Fills, Commands, Refreshes
  <1>3. \A r \in Requests : r \in Handlers
    BY DEF Handlers
  <1> QED
    BY <1>1, <1>2, <1>3
    DEF PromptInv, Unexpiring, RefreshInv, AckedInv, Published, Cached,
        MutationChangesNextRedirect

(* With a healthy Redis, a version that was acknowledged stays published:  *)
(* no write still to come can undo it.                                     *)
THEOREM PublicationInvariant ==
    HealthyRedis => (SystemSpec => [](SystemInv /\ FreshnessInv /\ PromptInv))
  <1> SUFFICES ASSUME HealthyRedis
               PROVE  SystemSpec => [](SystemInv /\ FreshnessInv /\ PromptInv)
    OBVIOUS
  <1>1. SystemInit => SystemInv /\ FreshnessInv /\ PromptInv
    BY SystemInitEstablishesInv, FreshnessInit, PromptInit
  <1>2. SystemInv /\ FreshnessInv /\ PromptInv /\ [SystemNext]_systemVars
          => SystemInv' /\ FreshnessInv' /\ PromptInv'
    BY SystemNextPreservesInv, FreshnessNext, PromptNext
  <1> QED
    BY <1>1, <1>2, PTL DEF SystemSpec

(* "Mutation changes the next redirect": with a healthy Redis a redirect   *)
(* that begins after a mutation was acknowledged works with that version or*)
(* a later one.                                                            *)
THEOREM MutationsChangeNextRedirect ==
    HealthyRedis => (SystemSpec => []MutationChangesNextRedirect)
  <1> SUFFICES ASSUME HealthyRedis
               PROVE  SystemSpec => []MutationChangesNextRedirect
    OBVIOUS
  <1>1. SystemSpec => [](SystemInv /\ FreshnessInv /\ PromptInv)
    BY PublicationInvariant
  <1>2. PromptInv => MutationChangesNextRedirect
    BY DEF PromptInv
  <1> QED
    BY <1>1, <1>2, PTL

(* "Version checks prevent delayed fills from restoring older mappings":   *)
(* true of a healthy Redis, whose newer entries outlive the delayed fill.  *)
THEOREM DelayedFillsAreHarmless ==
    HealthyRedis => (SystemSpec => DelayedFillsRestoreNothing)
  <1> SUFFICES ASSUME HealthyRedis
               PROVE  SystemSpec => DelayedFillsRestoreNothing
    OBVIOUS
  <1>1. SystemSpec => [](SystemInv /\ FreshnessInv /\ PromptInv)
    BY PublicationInvariant
  <1>2. SystemInv /\ FreshnessInv /\ PromptInv /\ [SystemNext]_systemVars
          => [Delayed]_systemVars
    BY PromptNext
  <1>3. SystemSpec => [][Delayed]_systemVars
    BY <1>1, <1>2, PTL DEF SystemSpec
  <1> QED
    BY <1>3 DEF DelayedFillsRestoreNothing, Delayed
=============================================================================
