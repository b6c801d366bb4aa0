--------------------------- MODULE VersionScript ---------------------------
(***************************************************************************)
(* putIfNewerScript of redis/redirect_cache.go for one key: Lua would lose *)
(* integers above 2^53, so that it compares versions as decimal strings,   *)
(* first by their length and then as strings.  RedirectCache compares      *)
(* numbers; this module is about that abstraction.                         *)
(***************************************************************************)
EXTENDS Naturals, Sequences

CONSTANT Versions

ASSUME VersionsAssumption == Versions \subseteq Nat \ {0}

VARIABLES current,  \* the version field of the key, or <<>> without a key
          highest   \* history: the highest version put since the key is there

versionVars == <<current, highest>>

(* strconv.FormatUint(v, 10), most significant digit first.                *)
Decimal[v \in Nat] ==
    IF v < 10 THEN <<v>> ELSE Append(Decimal[v \div 10], v % 10)

(* Lua's a > b on strings.                                                 *)
StringGreater(a, b) ==
    \/ \E i \in DOMAIN a \cap DOMAIN b :
         /\ a[i] > b[i]
         /\ \A j \in 1..(i - 1) : a[j] = b[j]
    \/ Len(a) > Len(b) /\ \A j \in DOMAIN b : a[j] = b[j]

(* Seeded fault: the length is not compared.                               *)
RejectedAsString(incoming) == current # <<>> /\ StringGreater(current, incoming)

Rejected(incoming) ==
    /\ current # <<>>
    /\ \/ Len(current) > Len(incoming)
       \/ Len(current) = Len(incoming) /\ StringGreater(current, incoming)

PutVersion(v) ==
    LET incoming == Decimal[v] IN
    /\ current' = IF Rejected(incoming) THEN current ELSE incoming
    /\ highest' = IF v > highest THEN v ELSE highest

(* The key expires or is evicted.                                          *)
KeyExpires == current # <<>> /\ current' = <<>> /\ highest' = 0

VersionInit == current = <<>> /\ highest = 0

VersionNext == KeyExpires \/ \E v \in Versions : PutVersion(v)

VersionSpec == VersionInit /\ [][VersionNext]_versionVars

-----------------------------------------------------------------------------
(* In whatever order versions of one to several digits are put, the key    *)
(* holds the highest: the string comparison is the comparison of numbers.  *)
StoredIsHighest == current = IF highest = 0 THEN <<>> ELSE Decimal[highest]
=============================================================================
