----------------------------- MODULE Precision -----------------------------
(***************************************************************************)
(* How finely an expiration is kept: in nanoseconds by the process,        *)
(* cut to microseconds for Postgres (by pgx) and to milliseconds for       *)
(* Redis (UnixMilli and PEXPIRE in redis/redirect_cache.go).  LinkRow is   *)
(* about the row alone, and RedirectSystem counts in ticks that all three  *)
(* keep; this module is about what the truncations do to the decision to   *)
(* redirect.                                                               *)
(***************************************************************************)
EXTENDS Integers

CONSTANTS Micro,       \* nanoseconds in a microsecond
          Milli,       \* nanoseconds in a millisecond
          ClockTTL,    \* the TTL of an active link
          Instants     \* readings of the clock, and expirations

ASSUME PrecisionAssumption ==
    /\ Micro \in Nat \ {0} /\ Milli \in Nat \ {0} /\ Milli % Micro = 0
    /\ ClockTTL \in Nat
    /\ Instants \subseteq Nat

VARIABLES clock,       \* SystemClock, in nanoseconds
          wanted,      \* the expiration the handler holds
          row,         \* expires_at of the row
          hash         \* the Redis hash and its TTL, or None

precisionVars == <<clock, wanted, row, hash>>

None == [expiresAt |-> -1, deadline |-> -1]
Unset == -1

Truncate(t, unit) == (t \div unit) * unit

(* Seeded fault: the cache rounds up.                                      *)
RoundUp(t) == Truncate(t + Milli - 1, Milli)

UnixMilli(t) == Truncate(t, Milli)

PrecisionInit ==
    /\ clock = 0 /\ wanted = Unset /\ row = Unset /\ hash = None

(* NewLink; the table's check (expires_at > created_at) has the last word. *)
StoreExpiration(t) ==
    /\ row = Unset /\ t > clock
    /\ Truncate(t, Micro) > Truncate(clock, Micro)
    /\ wanted' = t
    /\ row' = Truncate(t, Micro)
    /\ UNCHANGED <<clock, hash>>

(* PutIfNewer by the refresher, which has the handler's link, or by a fill,*)
(* which has the row: redirectCacheTTL, and no TTL below a millisecond.    *)
PutExpiration(t) ==
    LET remaining == t - clock
        ttl == UnixMilli(IF remaining < ClockTTL THEN remaining ELSE ClockTTL)
    IN  /\ ttl > 0
        /\ hash' = [expiresAt |-> UnixMilli(t), deadline |-> UnixMilli(clock) + ttl]
        /\ UNCHANGED <<clock, wanted, row>>

(* Redis reads its clock in milliseconds and removes a key after its       *)
(* deadline.                                                               *)
TimePasses(t) ==
    /\ t > clock
    /\ clock' = t
    /\ hash' = IF UnixMilli(t) > hash.deadline THEN None ELSE hash
    /\ UNCHANGED <<wanted, row>>

PrecisionNext ==
    \/ \E t \in Instants : StoreExpiration(t) \/ TimePasses(t)
    \/ row # Unset /\ (PutExpiration(wanted) \/ PutExpiration(row))

PrecisionSpec == PrecisionInit /\ [][PrecisionNext]_precisionVars

-----------------------------------------------------------------------------
(* RedirectMapping.IsExpired on the clock of the process.                  *)
Redirects(expiresAt) == clock < expiresAt

(* Neither truncation makes a link live longer: what the cache redirects   *)
(* the row redirects and the owner asked for, and the cache gives up less  *)
(* than a millisecond early; nor does the truncation of the TTL keep the   *)
(* key longer than the expiration in it.                                   *)
ExpiryKept ==
    hash # None =>
       /\ Redirects(hash.expiresAt) => Redirects(row) /\ Redirects(wanted)
       /\ Redirects(row) /\ ~Redirects(hash.expiresAt) => row - clock < Milli
       /\ hash.deadline <= hash.expiresAt
=============================================================================
