---------------------------- MODULE RedirectCache ----------------------------
(***************************************************************************)
(* The redirect cache: one Redis hash per code, written by a Lua script    *)
(* that compares versions (adapters/redis/redirect_cache.go) under a TTL   *)
(* computed from the mapping (redirectCacheTTL of the application layer).  *)
(*                                                                         *)
(* Redis removes a key when its TTL ends, measured here by the same clock  *)
(* as the server's.  The unit of time is a tick of at least a millisecond, *)
(* so a positive TTL is never rounded to the 0 that PutIfNewer refuses.    *)
(* The script compares versions as decimal strings, shorter ones first,    *)
(* which orders them as numbers.                                           *)
(***************************************************************************)
EXTENDS Link

CONSTANTS ActiveTTL,     \* RedirectCacheConfig
          InactiveTTL,
          NoEntry        \* a key that Redis does not hold

ASSUME TTLAssumption == ActiveTTL \in Nat \ {0} /\ InactiveTTL \in Nat \ {0}

VARIABLES cache,         \* cache[c] is the entry of code c, or NoEntry
          now            \* the clock

Entries == [mapping : RedirectMappings, deadline : Nat]

ASSUME NoEntryAssumption == NoEntry \notin RedirectMappings \cup Entries

CacheTypeOK ==
    /\ cache \in [Codes -> Entries \cup {NoEntry}]
    /\ now \in Times

CacheInit == cache = [c \in Codes |-> NoEntry]

Cached(c) == cache[c] # NoEntry

-----------------------------------------------------------------------------
(* redirectCacheTTL: a link about to expire is cached no longer than it    *)
(* lives, an expired one not at all.                                       *)
ConfiguredTTL(m) == IF m.status = "active" THEN ActiveTTL ELSE InactiveTTL

(* Seeded fault: expired mappings are cached as well.                      *)
AlwaysCache(m, at) == TRUE

ShouldCache(m, at) == m.expiresAt = NoExpiry \/ m.expiresAt > at

CacheTTL(m, at) ==
    IF m.expiresAt # NoExpiry /\ m.expiresAt - at < ConfiguredTTL(m)
    THEN m.expiresAt - at
    ELSE ConfiguredTTL(m)

(* Seeded faults: SET instead of the script; a script that adds the TTL to *)
(* what is left of the old one.                                            *)
PutAnyVersion(c, m, ttl) ==
    cache' = [cache EXCEPT ![c] = [mapping |-> m, deadline |-> now + ttl]]

PutAndProlong(c, m, ttl) ==
    IF Cached(c) /\ cache[c].mapping.version > m.version
    THEN UNCHANGED cache
    ELSE cache' = [cache EXCEPT ![c] =
                     [mapping |-> m,
                      deadline |-> ttl + IF Cached(c) THEN cache[c].deadline
                                                      ELSE now]]

(* The script: an older version leaves the entry alone, the same version   *)
(* restarts its TTL.                                                       *)
PutIfNewer(c, m, ttl) ==
    IF Cached(c) /\ cache[c].mapping.version > m.version
    THEN UNCHANGED cache
    ELSE cache' = [cache EXCEPT ![c] =
                     [mapping |-> m, deadline |-> now + ttl]]

(* PEXPIRE takes effect when the clock reaches the deadline.               *)
ExpireKeys(at) ==
    cache' = [c \in Codes |->
                IF Cached(c) /\ cache[c].deadline <= at
                THEN NoEntry
                ELSE cache[c]]
=============================================================================
