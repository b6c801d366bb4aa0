-------------------------- MODULE AlgorithmsProofs --------------------------
(***************************************************************************)
(* Proofs about the pure parts of linkd: Precision for every clock reading *)
(* and every unit, CodeGenerator for every alphabet, number of byte values *)
(* and length, VersionScript for every set of versions, and Histogram for  *)
(* every sequence of bounds, set of durations and percentiles.             *)
(*                                                                         *)
(* Decimal and the sums of a histogram are defined by recursion.  Each is  *)
(* first shown to satisfy its equation: the functions that do so up to a   *)
(* number, or on the subsets of a set, exist and agree.  What is to be     *)
(* shown of all numbers or subsets is the set of those that satisfy it, a  *)
(* least one outside of which does not exist.                              *)
(***************************************************************************)
EXTENDS Histogram, VersionScript, CodeGenerator, Precision,
        FiniteSetTheorems, TLAPS

-----------------------------------------------------------------------------
(* Division *)

(* What \div and % are, for a divisor that is not known.                   *)
LEMMA DivMod ==
    ASSUME NEW t \in Nat, NEW u \in Nat \ {0}
    PROVE  /\ t \div u \in Nat /\ t % u \in 0..(u - 1)
           /\ t = u * (t \div u) + (t % u)
  <1>1. t \div u \in Nat
    OBVIOUS
  <1>2. t % u \in 0..(u - 1)
    OBVIOUS
  <1>3. t = u * (t \div u) + (t % u)
    OBVIOUS
  <1> QED
    BY <1>1, <1>2, <1>3

(* The multiples of u are what Truncate(_, u) returns, and it returns the  *)
(* last of them up to t.                                                   *)
LEMMA TruncateBounds ==
    ASSUME NEW t \in Nat, NEW u \in Nat \ {0}
    PROVE  /\ Truncate(t, u) \in Nat
           /\ Truncate(t, u) <= t /\ t < Truncate(t, u) + u
  <1>1. /\ t \div u \in Nat /\ t % u \in 0..(u - 1)
        /\ t = u * (t \div u) + (t % u)
    BY DivMod
  <1>2. Truncate(t, u) = u * (t \div u)
    BY DEF Truncate
  <1>3. u * (t \div u) \in Nat
    BY <1>1
  <1> QED
    BY <1>1, <1>2, <1>3

(* No multiple of u between Truncate(t, u) and t.                          *)
LEMMA TruncateGreatest ==
    ASSUME NEW t \in Nat, NEW u \in Nat \ {0}, NEW k \in Nat, u * k <= t
    PROVE  u * k <= Truncate(t, u)
  <1> DEFINE q == t \div u
  <1>1. q \in Nat /\ t % u \in 0..(u - 1) /\ t = u * q + (t % u)
    BY DivMod
  <1>2. Truncate(t, u) = u * q
    BY DEF Truncate
  <1> HIDE DEF q
  <1>3. CASE k <= q
    BY <1>1, <1>2, <1>3
  <1>4. CASE k >= q + 1
    <2>1. u * k >= u * (q + 1) /\ u * (q + 1) = u * q + u
      BY <1>1, <1>4
    <2> QED
      BY <1>1, <2>1
  <1> QED
    BY <1>1, <1>3, <1>4

-----------------------------------------------------------------------------
(* Precision *)

(* The hash has the expiration of the handler's link or of the row.        *)
PrecisionInv ==
    /\ clock \in Nat
    /\ row = Unset => hash = None
    /\ row # Unset => wanted \in Nat /\ row = Truncate(wanted, Micro)
    /\ hash # None => /\ hash.expiresAt \in {UnixMilli(wanted), UnixMilli(row)}
                      /\ hash.deadline <= hash.expiresAt

(* A millisecond ends where a microsecond does.                            *)
LEMMA MilliIsMicros ==
    ASSUME NEW t \in Nat
    PROVE  UnixMilli(t) <= Truncate(t, Micro)
  <1> DEFINE m == Milli \div Micro
             q == t \div Milli
  <1>1. m \in Nat /\ Milli = Micro * m
    BY PrecisionAssumption, DivMod
  <1>2. q \in Nat /\ UnixMilli(t) = Milli * q
    BY PrecisionAssumption, DivMod DEF UnixMilli, Truncate
  <1>3. UnixMilli(t) <= t
    BY PrecisionAssumption, TruncateBounds DEF UnixMilli
  <1> HIDE DEF m, q
  <1>4. m * q \in Nat /\ Milli * q = Micro * (m * q)
    BY <1>1, <1>2, PrecisionAssumption
  <1> QED
    BY <1>2, <1>3, <1>4, PrecisionAssumption, TruncateGreatest

(* Two truncations, of the clock and of what is left of a time, do not add *)
(* up to more than the truncation of the time.                             *)
LEMMA TruncationsAddUp ==
    ASSUME NEW now \in Nat, NEW t \in Nat, NEW left \in Int,
           now + left <= t, UnixMilli(left) > 0
    PROVE  UnixMilli(now) + UnixMilli(left) <= UnixMilli(t)
  <1> USE PrecisionAssumption
  <1> DEFINE a == now \div Milli
             b == left \div Milli
  <1>1. a \in Nat /\ UnixMilli(now) = Milli * a /\ UnixMilli(now) <= now
    BY TruncateBounds DEF UnixMilli, Truncate
  <1>2. b \in Int /\ UnixMilli(left) = Milli * b
    BY DEF UnixMilli, Truncate
  <1>3. left \in Nat /\ b \in Nat /\ UnixMilli(left) <= left
    <2>1. b > 0
      <3> HIDE DEF b
      <3> SUFFICES ASSUME b <= 0 PROVE Milli * b <= 0
        BY <1>2
      <3> QED
        BY <1>2
    <2>2. left >= 0
      BY <2>1
    <2>3. left \in Nat
      BY <2>2
    <2> QED
      BY <2>1, <2>3, TruncateBounds DEF UnixMilli
  <1> HIDE DEF a, b
  <1>4. a + b \in Nat /\ Milli * (a + b) = Milli * a + Milli * b
    BY <1>1, <1>3
  <1>5. Milli * a \in Int /\ Milli * b \in Int
    BY <1>1, <1>3
  <1>6. Milli * (a + b) <= t
    BY <1>1, <1>2, <1>3, <1>4, <1>5
  <1>7. Milli * (a + b) <= UnixMilli(t)
    BY <1>4, <1>6, TruncateGreatest DEF UnixMilli
  <1> QED
    BY <1>1, <1>2, <1>4, <1>7

(* Each step of Precision keeps the origin of the row and of the hash.     *)
LEMMA PrecisionInvStep ==
    PrecisionInv /\ [PrecisionNext]_precisionVars => PrecisionInv'
  <1> SUFFICES ASSUME PrecisionInv, [PrecisionNext]_precisionVars
               PROVE  PrecisionInv'
    OBVIOUS
  <1> USE PrecisionAssumption DEF PrecisionInv
  <1>1. ASSUME NEW t \in Instants, StoreExpiration(t)
        PROVE  PrecisionInv'
    <2>1. t \in Nat /\ hash = None /\ Truncate(t, Micro) \in Nat
      BY <1>1, TruncateBounds DEF StoreExpiration
    <2> QED
      BY <1>1, <2>1 DEF StoreExpiration, Unset
  <1>2. ASSUME NEW t \in Instants, TimePasses(t)
        PROVE  PrecisionInv'
    BY <1>2 DEF TimePasses
  <1>3. ASSUME row # Unset, NEW t \in {wanted, row}, PutExpiration(t)
        PROVE  PrecisionInv'
    <2> DEFINE left == IF t - clock < ClockTTL THEN t - clock ELSE ClockTTL
    <2>1. t \in Nat
      BY <1>3, TruncateBounds
    <2>2. left \in Int /\ clock + left <= t
      BY <2>1
    <2>3. /\ UnixMilli(left) > 0
          /\ hash' = [expiresAt |-> UnixMilli(t),
                      deadline |-> UnixMilli(clock) + UnixMilli(left)]
          /\ UNCHANGED <<clock, wanted, row>>
      BY <1>3 DEF PutExpiration
    <2> HIDE DEF left
    <2>4. UnixMilli(clock) + UnixMilli(left) <= UnixMilli(t)
      BY <2>1, <2>2, <2>3, TruncationsAddUp
    <2> QED
      BY <1>3, <2>3, <2>4
  <1>4. CASE UNCHANGED precisionVars
    BY <1>4 DEF precisionVars
  <1> QED
    BY <1>1, <1>2, <1>3, <1>4 DEF PrecisionNext

(* An expiration with that origin is kept to the millisecond.              *)
LEMMA PrecisionInvMeans == PrecisionInv => ExpiryKept
  <1> SUFFICES ASSUME PrecisionInv, hash # None
               PROVE  /\ hash.expiresAt \in Nat /\ row \in Nat /\ wanted \in Nat
                      /\ hash.expiresAt <= row /\ row <= wanted
                      /\ row < hash.expiresAt + Milli
    BY PrecisionAssumption DEF PrecisionInv, ExpiryKept, Redirects
  <1>1. wanted \in Nat /\ row = Truncate(wanted, Micro)
    BY DEF PrecisionInv
  <1>2. row \in Nat /\ row <= wanted
    BY <1>1, TruncateBounds, PrecisionAssumption
  <1>3. CASE hash.expiresAt = UnixMilli(wanted)
    <2>1. hash.expiresAt \in Nat /\ wanted < hash.expiresAt + Milli
      BY <1>1, <1>3, TruncateBounds, PrecisionAssumption DEF UnixMilli
    <2>2. hash.expiresAt <= row
      BY <1>1, <1>3, MilliIsMicros
    <2> QED
      BY <1>1, <1>2, <2>1, <2>2, PrecisionAssumption
  <1>4. CASE hash.expiresAt = UnixMilli(row)
    <2>1. /\ hash.expiresAt \in Nat /\ hash.expiresAt <= row
          /\ row < hash.expiresAt + Milli
      BY <1>2, <1>4, TruncateBounds, PrecisionAssumption DEF UnixMilli
    <2> QED
      BY <1>1, <1>2, <2>1
  <1> QED
    BY <1>3, <1>4 DEF PrecisionInv

(* A cached redirect ends with its row or less than a millisecond before,  *)
(* whatever the truncation of pgx and of UnixMilli make of the expiration, *)
(* and PEXPIRE removes it by then (ExpiryKept of redis/redirect_cache.go). *)
THEOREM ExpirationsAreKept == PrecisionSpec => []ExpiryKept
  <1>1. PrecisionInit => PrecisionInv
    BY DEF PrecisionInit, PrecisionInv
  <1> QED
    BY <1>1, PrecisionInvStep, PrecisionInvMeans, PTL DEF PrecisionSpec

-----------------------------------------------------------------------------
(* CodeGenerator *)

(* A character comes from as many bytes as the alphabet fits whole into    *)
(* the byte values: the k-th one is k alphabets further.                   *)
LEMMA EverySourceCounts ==
    ASSUME NEW c \in Alphabet
    PROVE  /\ Sources[c] = ByteValues \div AlphabetSize
           /\ Sources[c] > 0
  <1> DEFINE q == ByteValues \div AlphabetSize
             S == {b \in Bytes : Appended(b) = <<c>>}
             f == [k \in 0..(q - 1) |-> AlphabetSize * k + c]
  <1> USE GeneratorAssumption
  <1>1. /\ q \in Nat /\ UnbiasedByteLimit = AlphabetSize * q
        /\ UnbiasedByteLimit <= ByteValues
    <2>1. /\ q \in Nat /\ ByteValues % AlphabetSize \in 0..(AlphabetSize - 1)
          /\ ByteValues = AlphabetSize * q + (ByteValues % AlphabetSize)
      BY DivMod
    <2> HIDE DEF q
    <2>2. AlphabetSize * q \in Nat
      BY <2>1
    <2> QED
      BY <2>1, <2>2 DEF UnbiasedByteLimit
  <1>2. q > 0
    <2>1. ByteValues = AlphabetSize * q + (ByteValues % AlphabetSize)
      BY DivMod
    <2>2. ByteValues % AlphabetSize < AlphabetSize
      BY DivMod
    <2>3. q # 0
      <3> SUFFICES ASSUME q = 0 PROVE FALSE
        OBVIOUS
      <3>1. AlphabetSize * q = 0
        OBVIOUS
      <3> HIDE DEF q
      <3> QED
        BY <2>1, <2>2, <3>1
    <2> QED
      BY <1>1, <2>3
  <1>3. c \in 0..(AlphabetSize - 1)
    BY DEF Alphabet
  <1>4. ASSUME NEW b \in Bytes
        PROVE  Appended(b) = <<c>> <=> b < AlphabetSize * q /\ b % AlphabetSize = c
    <2>1. b \in Nat /\ AlphabetSize * q \in Nat
      BY <1>1 DEF Bytes
    <2> HIDE DEF q
    <2> QED
      BY <1>1, <1>3, <2>1 DEF Appended
  <1> HIDE DEF q
  <1>5. f \in Bijection(0..(q - 1), S)
    <2>1. ASSUME NEW k \in 0..(q - 1)
          PROVE  f[k] \in S /\ f[k] \div AlphabetSize = k
      <3>1. /\ f[k] \div AlphabetSize = k /\ f[k] % AlphabetSize = c
            /\ f[k] = AlphabetSize * k + c /\ AlphabetSize * k \in Nat
        BY <1>1, <1>3
      <3>2. AlphabetSize * (k + 1) <= AlphabetSize * q
        BY <1>1
      <3>3. f[k] < AlphabetSize * q
        BY <1>1, <1>3, <3>1, <3>2
      <3>4. f[k] \in Bytes
        BY <1>1, <1>3, <3>1, <3>3 DEF Bytes
      <3> QED
        BY <1>4, <3>1, <3>3, <3>4
    <2>2. ASSUME NEW b \in S
          PROVE  \E k \in 0..(q - 1) : f[k] = b
      <3> DEFINE k == b \div AlphabetSize
      <3>1. b \in Nat /\ b < AlphabetSize * q /\ b % AlphabetSize = c
        BY <1>4 DEF Bytes
      <3>2. k \in Nat /\ b = AlphabetSize * k + c
        BY <3>1, DivMod
      <3> HIDE DEF k
      <3>3. k < q
        <4> SUFFICES ASSUME q <= k PROVE FALSE
          BY <1>1, <3>2
        <4>1. AlphabetSize * q <= AlphabetSize * k
          BY <1>1, <3>2
        <4> QED
          BY <1>1, <1>3, <3>1, <3>2, <4>1
      <3>4. k \in 0..(q - 1)
        BY <1>1, <3>2, <3>3
      <3>5. f[k] = b
        BY <3>2, <3>4
      <3> QED
        BY <3>4, <3>5
    <2>3. f \in [0..(q - 1) -> S]
      BY <2>1
    <2>4. \A j, k \in 0..(q - 1) : f[j] = f[k] => j = k
      BY <2>1
    <2> HIDE DEF f, S
    <2> QED
      BY <2>2, <2>3, <2>4 DEF Bijection, Injection, Surjection, IsInjective
  <1>6. Cardinality(S) = q
    <2>1. IsFiniteSet(0..(q - 1)) /\ Cardinality(0..(q - 1)) = q
      BY <1>1, <1>2, FS_Interval
    <2>2. ExistsBijection(0..(q - 1), S)
      BY <1>5 DEF ExistsBijection
    <2> QED
      BY <2>1, <2>2, FS_Bijection
  <1>7. Sources[c] = Cardinality(S)
    BY DEF Sources
  <1> QED
    BY <1>2, <1>6, <1>7 DEF q

(* Every byte read finds the code short of its length.                     *)
GeneratorInv ==
    /\ generate \in {"reading", "consuming", "done", "failed"}
    /\ unread \in Nat /\ (generate = "consuming" => unread > 0)
    /\ code \in Seq(Alphabet)
    /\ IF generate = "done" THEN Len(code) = CodeLength ELSE Len(code) < CodeLength

(* A byte appends one character or, at the biased end, none.               *)
LEMMA AppendedTypes ==
    ASSUME NEW b \in Bytes
    PROVE  Appended(b) \in Seq(Alphabet) /\ Len(Appended(b)) \in {0, 1}
  <1>1. b % AlphabetSize \in Alphabet
    BY GeneratorAssumption, DivMod DEF Bytes, Alphabet
  <1> QED
    BY <1>1 DEF Appended

(* Each step of the generator keeps the code short until it is done.       *)
LEMMA GeneratorInvStep ==
    GeneratorInv /\ [GeneratorNext]_generatorVars => GeneratorInv'
  <1> SUFFICES ASSUME GeneratorInv, [GeneratorNext]_generatorVars
               PROVE  GeneratorInv'
    OBVIOUS
  <1> USE GeneratorAssumption DEF GeneratorInv
  <1>1. CASE GenerateFails
    BY <1>1 DEF GenerateFails
  <1>2. CASE ReadBatch
    BY <1>2 DEF ReadBatch
  <1>3. ASSUME NEW b \in Bytes, ConsumeByte(b)
        PROVE  GeneratorInv'
    <2>1. /\ code' \in Seq(Alphabet)
          /\ Len(code') = Len(code) + Len(Appended(b))
      BY <1>3, AppendedTypes DEF ConsumeByte
    <2>2. Len(code') <= CodeLength /\ Len(code') \in Nat
      BY <1>3, <2>1, AppendedTypes DEF ConsumeByte
    <2>3. unread' \in Nat /\ generate' = After(Len(code'), unread')
      BY <1>3 DEF ConsumeByte
    <2> QED
      BY <2>1, <2>2, <2>3 DEF After
  <1>4. CASE UNCHANGED generatorVars
    BY <1>4 DEF generatorVars
  <1> QED
    BY <1>1, <1>2, <1>3, <1>4 DEF GeneratorNext

(* Whatever the reader returns, a finished code has its length and is      *)
(* drawn from characters of equal weight (CodesUniform of codegen).        *)
THEOREM CodesAreUniform == GeneratorSpec => []CodesUniform
  <1>1. GeneratorInit => GeneratorInv
    BY GeneratorAssumption DEF GeneratorInit, GeneratorInv
  <1>2. GeneratorInv => CodesUniform
    BY EverySourceCounts DEF GeneratorInv, CodesUniform
  <1> QED
    BY <1>1, <1>2, GeneratorInvStep, PTL DEF GeneratorSpec

-----------------------------------------------------------------------------
(* VersionScript *)

(* Induction over the natural numbers, with a set for the property.        *)
LEMMA NatInduct ==
    ASSUME NEW S \in SUBSET Nat,
           \A n \in Nat : (\A m \in Nat : m < n => m \in S) => n \in S
    PROVE  S = Nat
  <1> DEFINE R == OpToRel(<, Nat)
             T == Nat \ S
  <1> SUFFICES ASSUME T # {} PROVE FALSE
    OBVIOUS
  <1>1. \E n \in T : \A m \in T : <<m, n>> \notin R
    <2>1. IsWellFoundedOn(R, Nat)
      BY NatLessThanWellFounded
    <2>2. T \subseteq Nat
      OBVIOUS
    <2> HIDE DEF R, T
    <2> QED
      BY <2>1, <2>2, WFMin
  <1>2. \A m, n \in Nat : m < n => <<m, n>> \in R
    BY DEF OpToRel
  <1> HIDE DEF R
  <1>3. PICK n \in T : \A m \in T : <<m, n>> \notin R
    BY <1>1
  <1>4. \A m \in Nat : m < n => m \in S
    BY <1>2, <1>3
  <1> QED
    BY <1>4

(* f is Decimal up to n.                                                   *)
DecimalStep(f, v) == IF v < 10 THEN <<v>> ELSE Append(f[v \div 10], v % 10)
DecimalUpTo(f, n) == f = [v \in 0..n |-> DecimalStep(f, v)]

(* What the recursion of Decimal goes down to.                             *)
LEMMA Tenth ==
    ASSUME NEW v \in Nat, v >= 10
    PROVE  v \div 10 \in Nat /\ v \div 10 < v /\ v \div 10 > 0
  OBVIOUS

(* Two functions that are Decimal up to m and up to n agree.               *)
LEMMA DecimalUnique ==
    ASSUME NEW f, NEW g, NEW m \in Nat, NEW n \in Nat,
           DecimalUpTo(f, m), DecimalUpTo(g, n)
    PROVE  \A v \in Nat : v <= m /\ v <= n => f[v] = g[v]
  <1> DEFINE Good == {v \in Nat : v <= m /\ v <= n => f[v] = g[v]}
  <1>1. ASSUME NEW v \in Nat, \A u \in Nat : u < v => u \in Good
        PROVE  v \in Good
    <2> SUFFICES ASSUME v <= m, v <= n
                 PROVE  f[v] = g[v]
      OBVIOUS
    <2>1. f[v] = DecimalStep(f, v) /\ g[v] = DecimalStep(g, v)
      BY DEF DecimalUpTo
    <2>2. v >= 10 => f[v \div 10] = g[v \div 10]
      BY <1>1, Tenth
    <2> QED
      BY <2>1, <2>2 DEF DecimalStep
  <1> HIDE DEF Good
  <1>2. Good = Nat
    BY <1>1, NatInduct DEF Good
  <1> QED
    BY <1>2 DEF Good

(* Up to any number there is such a function.                              *)
LEMMA DecimalExistsUpTo ==
    \A n \in Nat : \E f : DecimalUpTo(f, n)
  <1> DEFINE Good == {n \in Nat : \E f : DecimalUpTo(f, n)}
  <1>1. ASSUME NEW n \in Nat, \A m \in Nat : m < n => m \in Good
        PROVE  n \in Good
    <2>1. \E f : n = 0 \/ DecimalUpTo(f, n - 1)
      BY <1>1
    <2>2. PICK f : n = 0 \/ DecimalUpTo(f, n - 1)
      BY <2>1
    <2> DEFINE g == [v \in 0..n |-> IF v < n THEN f[v] ELSE DecimalStep(f, v)]
    <2>3. ASSUME NEW v \in 0..n
          PROVE  g[v] = DecimalStep(g, v)
      <3>1. CASE v < n
        <4>1. f[v] = DecimalStep(f, v)
          BY <2>2, <3>1 DEF DecimalUpTo
        <4>2. v >= 10 => g[v \div 10] = f[v \div 10]
          BY <3>1, Tenth
        <4> QED
          BY <3>1, <4>1, <4>2 DEF DecimalStep
      <3>2. CASE v = n
        <4>1. v >= 10 => g[v \div 10] = f[v \div 10]
          BY <3>2, Tenth
        <4> QED
          BY <3>2, <4>1 DEF DecimalStep
      <3> QED
        BY <3>1, <3>2
    <2>4. DecimalUpTo(g, n)
      BY <2>3 DEF DecimalUpTo
    <2> QED
      BY <2>4
  <1> HIDE DEF Good
  <1>2. Good = Nat
    BY <1>1, NatInduct DEF Good
  <1> QED
    BY <1>2 DEF Good

(* Decimal satisfies its recursion.                                        *)
LEMMA DecimalIs ==
    \A v \in Nat :
       Decimal[v] = IF v < 10 THEN <<v>> ELSE Append(Decimal[v \div 10], v % 10)
  <1> DEFINE F(n) == CHOOSE f : DecimalUpTo(f, n)
             D == [n \in Nat |-> F(n)[n]]
  <1>1. ASSUME NEW n \in Nat
        PROVE  DecimalUpTo(F(n), n)
    BY DecimalExistsUpTo
  <1> HIDE DEF F
  <1>2. ASSUME NEW n \in Nat
        PROVE  D[n] = DecimalStep(D, n)
    <2>1. D[n] = DecimalStep(F(n), n)
      BY <1>1 DEF DecimalUpTo
    <2>2. n >= 10 => F(n)[n \div 10] = D[n \div 10]
      BY <1>1, Tenth, DecimalUnique
    <2> QED
      BY <2>1, <2>2 DEF DecimalStep
  <1>3. D = [n \in Nat |-> DecimalStep(D, n)]
    BY <1>2
  <1> HIDE DEF D
  <1>4. Decimal = [n \in Nat |-> DecimalStep(Decimal, n)]
    BY <1>3 DEF Decimal, DecimalStep
  <1> QED
    BY <1>4 DEF DecimalStep

(* The decimal string of one digit.                                        *)
LEMMA OneDigit ==
    ASSUME NEW x \in Nat
    PROVE  <<x>> \in Seq(Nat) /\ Len(<<x>>) = 1 /\ <<x>>[1] = x
           /\ DOMAIN <<x>> = 1..1
  OBVIOUS

(* The decimal string with a digit more.                                   *)
LEMMA OneMoreDigit ==
    ASSUME NEW s \in Seq(Nat), NEW x \in Nat
    PROVE  Append(s, x) \in Seq(Nat) /\ Len(Append(s, x)) = Len(s) + 1
           /\ Len(s) \in Nat
  OBVIOUS

(* Decimal below ten.                                                      *)
LEMMA DecimalShort ==
    ASSUME NEW v \in Nat, v < 10
    PROVE  Decimal[v] = <<v>>
  BY DecimalIs, Zenon

(* Decimal from ten on.                                                    *)
LEMMA DecimalLong ==
    ASSUME NEW v \in Nat, v >= 10
    PROVE  Decimal[v] = Append(Decimal[v \div 10], v % 10)
  <1>1. ~(v < 10)
    OBVIOUS
  <1> QED
    BY <1>1, DecimalIs, Zenon

(* The script's order: longer ones first, then character by character.     *)
Higher(a, b) == Len(a) > Len(b) \/ (Len(a) = Len(b) /\ StringGreater(a, b))

(* A version's string has at least one character.                          *)
LEMMA DecimalTypes ==
    \A v \in Nat : Decimal[v] \in Seq(Nat) /\ Len(Decimal[v]) \in Nat \ {0}
  <1> DEFINE Typed(s) == s \in Seq(Nat) /\ Len(s) \in Nat \ {0}
             Good == {v \in Nat : Typed(Decimal[v])}
  <1>1. ASSUME NEW x \in Nat
        PROVE  Typed(<<x>>)
    BY OneDigit
  <1>2. ASSUME NEW s, Typed(s), NEW x \in Nat
        PROVE  Typed(Append(s, x))
    BY <1>2, OneMoreDigit
  <1>3. ASSUME NEW v \in Nat, \A u \in Nat : u < v => u \in Good
        PROVE  v \in Good
    <2> HIDE DEF Typed
    <2>1. CASE v < 10
      BY <1>1, <2>1, DecimalShort
    <2>2. CASE v >= 10
      <3>1. v \div 10 \in Nat /\ v \div 10 < v /\ v % 10 \in Nat
        BY <2>2, Tenth
      <3>2. Typed(Decimal[v \div 10])
        BY <1>3, <3>1
      <3>3. Typed(Append(Decimal[v \div 10], v % 10))
        BY <1>2, <3>1, <3>2
      <3> QED
        BY <2>2, <3>3, DecimalLong
    <2> QED
      BY <2>1, <2>2
  <1> HIDE DEF Good
  <1>4. Good = Nat
    BY <1>3, NatInduct DEF Good
  <1> QED
    BY <1>4 DEF Good

(* Of two strings at most one is higher.                                   *)
LEMMA HigherAsymmetric ==
    ASSUME NEW a \in Seq(Nat), NEW b \in Seq(Nat), Higher(a, b)
    PROVE  ~Higher(b, a)
  <1> SUFFICES ASSUME Higher(b, a) PROVE FALSE
    OBVIOUS
  <1>1. Len(a) = Len(b) /\ StringGreater(a, b) /\ StringGreater(b, a)
    BY DEF Higher
  <1>2. PICK i \in DOMAIN a \cap DOMAIN b :
          a[i] > b[i] /\ \A j \in 1..(i - 1) : a[j] = b[j]
    BY <1>1 DEF StringGreater
  <1>3. PICK k \in DOMAIN a \cap DOMAIN b :
          b[k] > a[k] /\ \A j \in 1..(k - 1) : a[j] = b[j]
    BY <1>1 DEF StringGreater
  <1>4. i \in Nat /\ k \in Nat /\ i > 0 /\ k > 0 /\ a[i] \in Nat /\ b[i] \in Nat
        /\ a[k] \in Nat /\ b[k] \in Nat
    OBVIOUS
  <1>5. i = k \/ i \in 1..(k - 1) \/ k \in 1..(i - 1)
    BY <1>4
  <1> QED
    BY <1>2, <1>3, <1>4, <1>5

(* One more digit keeps the order of what is before it, or decides it.     *)
LEMMA HigherAppend ==
    ASSUME NEW a \in Seq(Nat), NEW b \in Seq(Nat), NEW x \in Nat, NEW y \in Nat,
           Higher(a, b) \/ (a = b /\ x > y),
           NEW ax, ax = Append(a, x), NEW by, by = Append(b, y)
    PROVE  Higher(ax, by)
  <1>1. /\ Len(ax) = Len(a) + 1 /\ Len(by) = Len(b) + 1
        /\ \A i \in 1..Len(a) : ax[i] = a[i]
        /\ \A i \in 1..Len(b) : by[i] = b[i]
        /\ ax[Len(a) + 1] = x /\ by[Len(b) + 1] = y
        /\ DOMAIN ax = 1..(Len(a) + 1) /\ DOMAIN by = 1..(Len(b) + 1)
    OBVIOUS
  <1>2. Len(a) \in Nat /\ Len(b) \in Nat /\ DOMAIN a = 1..Len(a) /\ DOMAIN b = 1..Len(b)
    OBVIOUS
  <1>3. CASE Len(a) > Len(b)
    <2>1. Len(ax) > Len(by)
      BY <1>1, <1>2, <1>3
    <2> QED
      BY <2>1, Zenon DEF Higher
  <1>4. CASE a = b /\ x > y
    <2>1. Len(a) + 1 \in DOMAIN ax \cap DOMAIN by
      BY <1>1, <1>2, <1>4
    <2>2. \A j \in 1..(Len(a) + 1 - 1) : ax[j] = by[j]
      BY <1>1, <1>2, <1>4
    <2>3. ax[Len(a) + 1] > by[Len(a) + 1]
      BY <1>1, <1>4
    <2>4. StringGreater(ax, by)
      BY <2>1, <2>2, <2>3 DEF StringGreater
    <2>5. Len(ax) = Len(by)
      BY <1>1, <1>4
    <2> QED
      BY <2>4, <2>5, Zenon DEF Higher
  <1>5. CASE Len(a) = Len(b) /\ StringGreater(a, b)
    <2>1. PICK i \in DOMAIN a \cap DOMAIN b :
            a[i] > b[i] /\ \A j \in 1..(i - 1) : a[j] = b[j]
      BY <1>2, <1>5 DEF StringGreater
    <2>2. i \in 1..Len(a) /\ i \in 1..Len(b)
      BY <1>2
    <2>3. i \in DOMAIN ax \cap DOMAIN by
      BY <1>1, <1>2, <2>2
    <2>4. ax[i] > by[i] /\ \A j \in 1..(i - 1) : ax[j] = by[j]
      BY <1>1, <1>2, <2>1, <2>2
    <2>5. StringGreater(ax, by)
      BY <2>3, <2>4 DEF StringGreater
    <2>6. Len(ax) = Len(by)
      BY <1>1, <1>5
    <2> QED
      BY <2>5, <2>6, Zenon DEF Higher
  <1>6. Higher(a, b) => Len(a) > Len(b) \/ (Len(a) = Len(b) /\ StringGreater(a, b))
    BY Zenon DEF Higher
  <1> QED
    BY <1>3, <1>4, <1>5, <1>6, Zenon

(* The string of a greater version is higher.                              *)
LEMMA HigherIsGreater ==
    \A v \in Nat : \A w \in Nat : v > w => Higher(Decimal[v], Decimal[w])
  <1> DEFINE Good == {v \in Nat : \A w \in Nat :
                        v > w => Higher(Decimal[v], Decimal[w])}
  <1>1. ASSUME NEW v \in Nat, \A u \in Nat : u < v => u \in Good
        PROVE  v \in Good
    <2> SUFFICES ASSUME NEW w \in Nat, v > w
                 PROVE  Higher(Decimal[v], Decimal[w])
      OBVIOUS
    <2>1. CASE v < 10
      <3>1. Decimal[v] = <<v>> /\ Decimal[w] = <<w>>
        BY <2>1, DecimalShort
      <3>2. Higher(<<v>>, <<w>>)
        BY DEF Higher, StringGreater
      <3> QED
        BY <3>1, <3>2, Zenon
    <2>2. ASSUME NEW u \in Nat, u >= 10
          PROVE  /\ Decimal[u \div 10] \in Seq(Nat)
                 /\ Len(Decimal[u \div 10]) \in Nat \ {0}
                 /\ u \div 10 \in Nat /\ u % 10 \in Nat /\ u \div 10 < u
      <3>1. u \div 10 \in Nat /\ u \div 10 < u /\ u % 10 \in Nat
        BY <2>2, Tenth
      <3> QED
        BY <3>1, DecimalTypes
    <2>3. CASE v >= 10 /\ w < 10
      <3>1. Len(Append(Decimal[v \div 10], v % 10)) = Len(Decimal[v \div 10]) + 1
        BY <2>2, <2>3, OneMoreDigit
      <3>2. Len(Decimal[v]) = Len(Decimal[v \div 10]) + 1
        BY <2>3, <3>1, DecimalLong
      <3>3. Decimal[w] = <<w>>
        BY <2>3, DecimalShort
      <3>4. Len(Decimal[w]) = 1
        BY <3>3, OneDigit
      <3>5. Len(Decimal[v]) > Len(Decimal[w])
        BY <2>2, <2>3, <3>2, <3>4
      <3> QED
        BY <3>5, Zenon DEF Higher
    <2>4. CASE v >= 10 /\ w >= 10
      <3>1. \/ v \div 10 > w \div 10
            \/ v \div 10 = w \div 10 /\ v % 10 > w % 10
        OBVIOUS
      <3>2. v \div 10 > w \div 10 => Higher(Decimal[v \div 10], Decimal[w \div 10])
        BY <1>1, <2>2, <2>4
      <3>3. \/ Higher(Decimal[v \div 10], Decimal[w \div 10])
            \/ Decimal[v \div 10] = Decimal[w \div 10] /\ v % 10 > w % 10
        BY <3>1, <3>2
      <3>4. /\ Decimal[v] = Append(Decimal[v \div 10], v % 10)
            /\ Decimal[w] = Append(Decimal[w \div 10], w % 10)
        BY <2>4, DecimalLong
      <3>5. /\ Decimal[v \div 10] \in Seq(Nat) /\ v % 10 \in Nat
            /\ Decimal[w \div 10] \in Seq(Nat) /\ w % 10 \in Nat
        BY <2>2, <2>4
      <3> QED
        BY <3>3, <3>4, <3>5, HigherAppend, Zenon
    <2>5. v < 10 \/ (v >= 10 /\ w < 10) \/ (v >= 10 /\ w >= 10)
      OBVIOUS
    <2> QED
      BY <2>1, <2>3, <2>4, <2>5, Zenon
  <1> HIDE DEF Good
  <1>2. Good = Nat
    BY <1>1, NatInduct DEF Good
  <1> QED
    BY <1>2 DEF Good

(* Comparing lengths and then strings compares the versions, of however    *)
(* many digits: putIfNewerScript decides as if it compared numbers.        *)
THEOREM ScriptComparesNumbers ==
    \A v, w \in Nat : Higher(Decimal[v], Decimal[w]) <=> v > w
  <1> SUFFICES ASSUME NEW v \in Nat, NEW w \in Nat
               PROVE  Higher(Decimal[v], Decimal[w]) <=> v > w
    OBVIOUS
  <1>1. CASE v > w
    BY <1>1, HigherIsGreater
  <1>2. Decimal[v] \in Seq(Nat) /\ Decimal[w] \in Seq(Nat)
    BY DecimalTypes
  <1>3. CASE w > v
    <2>1. Higher(Decimal[w], Decimal[v])
      BY <1>3, HigherIsGreater
    <2>2. ~Higher(Decimal[v], Decimal[w])
      BY <2>1, <1>2, HigherAsymmetric, Zenon
    <2> QED
      BY <1>3, <2>2
  <1>4. CASE v = w
    <2>1. ~Higher(Decimal[v], Decimal[v])
      BY <1>2, HigherAsymmetric, Zenon
    <2> QED
      BY <1>4, <2>1
  <1> QED
    BY <1>1, <1>3, <1>4

(* An entry rejects exactly the lower versions.                            *)
LEMMA RejectedIsLower ==
    ASSUME NEW h \in Nat, NEW v \in Nat, current = Decimal[h]
    PROVE  Rejected(Decimal[v]) <=> v < h
  <1>1. current # <<>>
    <2>1. Len(current) # 0
      BY DecimalTypes
    <2> QED
      BY <2>1
  <1>2. Rejected(Decimal[v]) <=> Higher(current, Decimal[v])
    BY <1>1, Zenon DEF Rejected, Higher
  <1>3. Higher(current, Decimal[v]) <=> h > v
    BY ScriptComparesNumbers, Zenon
  <1> QED
    BY <1>2, <1>3

(* The key's version is the highest put since the key is there.            *)
VersionInv == highest \in Nat /\ StoredIsHighest

(* In whatever order versions are put and the key expires, the key holds   *)
(* the highest one put since it is there (StoredIsHighest).                *)
THEOREM StoredVersionsAreHighest == VersionSpec => []StoredIsHighest
  <1>1. VersionInit => VersionInv
    BY DEF VersionInit, VersionInv, StoredIsHighest
  <1>2. VersionInv /\ [VersionNext]_versionVars => VersionInv'
    <2> SUFFICES ASSUME VersionInv, [VersionNext]_versionVars
                 PROVE  VersionInv'
      OBVIOUS
    <2>1. CASE KeyExpires
      BY <2>1 DEF KeyExpires, VersionInv, StoredIsHighest
    <2>2. ASSUME NEW v \in Versions, PutVersion(v)
          PROVE  VersionInv'
      <3>1. v \in Nat /\ v > 0
        BY VersionsAssumption
      <3>2. Rejected(Decimal[v]) <=> v < highest
        <4>1. CASE highest = 0
          BY <3>1, <4>1 DEF VersionInv, StoredIsHighest, Rejected
        <4>2. CASE highest # 0
          BY <3>1, <4>2, RejectedIsLower DEF VersionInv, StoredIsHighest
        <4> QED
          BY <4>1, <4>2
      <3>3. /\ current' = IF v < highest THEN current ELSE Decimal[v]
            /\ highest' = IF v > highest THEN v ELSE highest
        BY <2>2, <3>2 DEF PutVersion
      <3> QED
        BY <3>1, <3>3 DEF VersionInv, StoredIsHighest
    <2>3. CASE UNCHANGED versionVars
      BY <2>3 DEF versionVars, VersionInv, StoredIsHighest
    <2> QED
      BY <2>1, <2>2, <2>3 DEF VersionNext
  <1>3. VersionInv => StoredIsHighest
    BY DEF VersionInv
  <1> QED
    BY <1>1, <1>2, <1>3, PTL DEF VersionSpec
-----------------------------------------------------------------------------
(* Histogram *)

(* Induction over the subsets of a finite set.                             *)
LEMMA SubsetInduct ==
    ASSUME NEW S, IsFiniteSet(S), NEW G \in SUBSET (SUBSET S),
           \A T \in SUBSET S :
              (\A U \in SUBSET T : U # T => U \in G) => T \in G
    PROVE  G = SUBSET S
  <1> DEFINE R == StrictSubsetOrdering(S)
             B == (SUBSET S) \ G
  <1> SUFFICES ASSUME B # {} PROVE FALSE
    OBVIOUS
  <1>1. IsWellFoundedOn(R, SUBSET S)
    <2>1. FiniteSubsetsOf(S) = SUBSET S
      BY FS_FiniteSubsetsOfFinite
    <2>2. IsWellFoundedOn(StrictSubsetOrdering(S), FiniteSubsetsOf(S))
      BY FS_StrictSubsetOrderingWellFounded
    <2> QED
      BY <2>1, <2>2, Zenon
  <1>2. \A U, T \in SUBSET S : U \subseteq T /\ U # T => <<U, T>> \in R
    BY DEF StrictSubsetOrdering
  <1>3. B \subseteq SUBSET S
    OBVIOUS
  <1> HIDE DEF R
  <1>4. PICK T \in B : \A U \in B : <<U, T>> \notin R
    <2> HIDE DEF B
    <2> QED
      BY <1>1, <1>3, WFMin
  <1>5. \A U \in SUBSET T : U # T => U \in G
    <2> SUFFICES ASSUME NEW U \in SUBSET T, U # T, U \notin G
                 PROVE  FALSE
      OBVIOUS
    <2>1. U \in B /\ U \in SUBSET S /\ T \in SUBSET S /\ U \subseteq T
      OBVIOUS
    <2>2. <<U, T>> \in R
      BY <1>2, <2>1
    <2> QED
      BY <1>4, <2>1, <2>2
  <1> QED
    BY <1>5

(* f added up over S, and the recursion behind it.                         *)
Total(f, S) == FoldFunctionOnSet(+, 0, f, S)

One(T) == CHOOSE x \in T : TRUE

TotalStep(g, f, T) == IF T = {} THEN 0 ELSE f[One(T)] + g[T \ {One(T)}]
TotalUpTo(g, f, S) == g = [T \in SUBSET S |-> TotalStep(g, f, T)]

(* A fold takes its elements from the set.                                 *)
LEMMA OneIsIn ==
    ASSUME NEW T, T # {}
    PROVE  One(T) \in T
  BY DEF One

(* Two functions that are the fold on subsets of S and of T agree.         *)
LEMMA TotalUnique ==
    ASSUME NEW f, NEW g, NEW h, NEW S, NEW T, IsFiniteSet(S),
           TotalUpTo(g, f, S), TotalUpTo(h, f, T)
    PROVE  \A U \in SUBSET S : U \subseteq T => g[U] = h[U]
  <1> DEFINE Good == {U \in SUBSET S : U \subseteq T => g[U] = h[U]}
  <1>1. ASSUME NEW U \in SUBSET S, \A V \in SUBSET U : V # U => V \in Good
        PROVE  U \in Good
    <2> SUFFICES ASSUME U \subseteq T
                 PROVE  g[U] = h[U]
      OBVIOUS
    <2>1. g[U] = TotalStep(g, f, U) /\ h[U] = TotalStep(h, f, U)
      BY DEF TotalUpTo
    <2>2. U # {} => g[U \ {One(U)}] = h[U \ {One(U)}]
      BY <1>1, OneIsIn
    <2> QED
      BY <2>1, <2>2 DEF TotalStep
  <1> HIDE DEF Good
  <1>2. Good \in SUBSET (SUBSET S)
    BY DEF Good
  <1>3. Good = SUBSET S
    BY <1>1, <1>2, SubsetInduct
  <1> QED
    BY <1>3 DEF Good

(* On the subsets of a finite set there is such a function.                *)
LEMMA TotalExists ==
    ASSUME NEW f, NEW S, IsFiniteSet(S)
    PROVE  \E g : TotalUpTo(g, f, S)
  <1> DEFINE F(T) == CHOOSE g : TotalUpTo(g, f, T)
             Good == {T \in SUBSET S : \E g : TotalUpTo(g, f, T)}
  <1>1. ASSUME NEW T \in SUBSET S, \A U \in SUBSET T : U # T => U \in Good
        PROVE  T \in Good
    <2> DEFINE x == One(T)
               g == [U \in SUBSET T |->
                       IF U # T THEN F(U)[U]
                       ELSE IF T = {} THEN 0 ELSE f[x] + F(T \ {x})[T \ {x}]]
    <2>1. ASSUME NEW U \in SUBSET T, U # T
          PROVE  TotalUpTo(F(U), f, U)
      BY <1>1, <2>1
    <2>2. T # {} => x \in T
      BY OneIsIn
    <2> HIDE DEF F, x
    <2>3. ASSUME NEW U \in SUBSET T
          PROVE  g[U] = TotalStep(g, f, U)
      <3>1. CASE U = T
        <4>1. T # {} => g[T \ {x}] = F(T \ {x})[T \ {x}]
          BY <2>2
        <4> QED
          BY <3>1, <4>1 DEF TotalStep, x
      <3>2. CASE U # T
        <4> DEFINE y == One(U)
        <4>1. g[U] = F(U)[U] /\ F(U)[U] = TotalStep(F(U), f, U)
          BY <2>1, <3>2 DEF TotalUpTo
        <4>2. U # {} => y \in U
          BY OneIsIn
        <4> HIDE DEF y
        <4>3. U # {} => F(U)[U \ {y}] = F(U \ {y})[U \ {y}]
          <5> SUFFICES ASSUME U # {}
                       PROVE  F(U)[U \ {y}] = F(U \ {y})[U \ {y}]
            OBVIOUS
          <5>1. TotalUpTo(F(U), f, U) /\ TotalUpTo(F(U \ {y}), f, U \ {y})
            BY <2>1, <3>2, <4>2
          <5>2. IsFiniteSet(U)
            BY FS_Subset
          <5> QED
            BY <5>1, <5>2, TotalUnique
        <4>4. U # {} => g[U \ {y}] = F(U \ {y})[U \ {y}]
          BY <3>2, <4>2
        <4> QED
          BY <4>1, <4>3, <4>4 DEF TotalStep, y
      <3> QED
        BY <3>1, <3>2
    <2>4. TotalUpTo(g, f, T)
      BY <2>3 DEF TotalUpTo
    <2> HIDE DEF g
    <2> QED
      BY <2>4
  <1> HIDE DEF Good
  <1>2. Good \in SUBSET (SUBSET S)
    BY DEF Good
  <1>3. Good = SUBSET S
    BY <1>1, <1>2, SubsetInduct
  <1> QED
    BY <1>3 DEF Good

(* The fold of the community modules, with its recursion named.            *)
LEMMA TotalDef ==
    ASSUME NEW f, NEW S
    PROVE  Total(f, S) = (CHOOSE g : TotalUpTo(g, f, S))[S]
  BY DEF Total, FoldFunctionOnSet, MapThenFoldSet, TotalUpTo, TotalStep, One

(* A total satisfies its recursion.                                        *)
LEMMA TotalIs ==
    ASSUME NEW f, NEW S, IsFiniteSet(S)
    PROVE  Total(f, S) = IF S = {} THEN 0
                         ELSE f[One(S)] + Total(f, S \ {One(S)})
  <1> DEFINE F(T) == CHOOSE g : TotalUpTo(g, f, T)
             x == One(S)
             R == S \ {x}
  <1>1. TotalUpTo(F(S), f, S)
    BY TotalExists
  <1>2. TotalUpTo(F(R), f, R)
    BY TotalExists, FS_Subset
  <1>3. Total(f, S) = F(S)[S] /\ Total(f, R) = F(R)[R]
    BY TotalDef
  <1> HIDE DEF F
  <1>4. F(S)[R] = F(R)[R]
    BY <1>1, <1>2, TotalUnique
  <1>5. F(S)[S] = TotalStep(F(S), f, S)
    BY <1>1 DEF TotalUpTo
  <1> QED
    BY <1>3, <1>4, <1>5 DEF TotalStep

(* Nothing adds up to zero.                                                *)
LEMMA TotalEmpty == \A f : Total(f, {}) = 0
  BY TotalIs, FS_EmptySet

(* A total of natural numbers is one of them and the total of the others,  *)
(* whichever is taken out first.                                           *)
LEMMA TotalRemove ==
    ASSUME NEW S, IsFiniteSet(S), NEW f, \A x \in S : f[x] \in Nat
    PROVE  /\ Total(f, S) \in Nat
           /\ \A y \in S : Total(f, S) = f[y] + Total(f, S \ {y})
  <1> DEFINE Good == {T \in SUBSET S :
                        /\ Total(f, T) \in Nat
                        /\ \A y \in T : Total(f, T) = f[y] + Total(f, T \ {y})}
  <1>1. ASSUME NEW T \in SUBSET S, \A U \in SUBSET T : U # T => U \in Good
        PROVE  T \in Good
    <2> DEFINE x == One(T)
    <2>1. CASE T = {}
      BY <2>1, TotalEmpty
    <2>2. CASE T # {}
      <3>1. x \in T
        BY <2>2, OneIsIn
      <3>2. Total(f, T) = f[x] + Total(f, T \ {x})
        BY <2>2, TotalIs, FS_Subset
      <3> HIDE DEF x
      <3>3. T \ {x} \in Good
        BY <1>1, <3>1
      <3>4. Total(f, T) \in Nat
        BY <3>1, <3>2, <3>3
      <3>5. ASSUME NEW y \in T, y # x
            PROVE  Total(f, T) = f[y] + Total(f, T \ {y})
        <4> DEFINE Rest == (T \ {x}) \ {y}
        <4>1. Total(f, T \ {x}) = f[y] + Total(f, Rest)
          BY <3>3, <3>5
        <4>2. T \ {y} \in Good /\ x \in T \ {y}
          BY <1>1, <3>1, <3>5
        <4>3. Total(f, T \ {y}) = f[x] + Total(f, (T \ {y}) \ {x})
          BY <4>2
        <4>4. (T \ {y}) \ {x} = Rest
          OBVIOUS
        <4>5. Rest \in Good
          BY <1>1, <3>1
        <4>6. f[x] \in Nat /\ f[y] \in Nat /\ Total(f, Rest) \in Nat
          BY <3>1, <4>5
        <4>7. Total(f, T \ {y}) = f[x] + Total(f, Rest)
          BY <4>3, <4>4, Zenon
        <4> HIDE DEF Rest
        <4>8. Total(f, T) = f[x] + (f[y] + Total(f, Rest))
          BY <3>2, <4>1, Zenon
        <4> QED
          BY <4>6, <4>7, <4>8
      <3> QED
        BY <3>2, <3>4, <3>5
    <2> QED
      BY <2>1, <2>2
  <1> HIDE DEF Good
  <1>2. Good \in SUBSET (SUBSET S)
    BY DEF Good
  <1>3. Good = SUBSET S
    BY <1>1, <1>2, SubsetInduct
  <1> QED
    BY <1>3 DEF Good

(* What is zero outside T adds up on T.                                    *)
LEMMA TotalOutside ==
    ASSUME NEW S, IsFiniteSet(S), NEW f, \A x \in S : f[x] \in Nat,
           NEW T \in SUBSET S, \A x \in S \ T : f[x] = 0
    PROVE  Total(f, T) = Total(f, S)
  <1> DEFINE Good == {U \in SUBSET S : Total(f, U \cap T) = Total(f, U)}
  <1>1. ASSUME NEW U \in SUBSET S, \A V \in SUBSET U : V # U => V \in Good
        PROVE  U \in Good
    <2>1. CASE U = {}
      <3>1. U \cap T = U
        BY <2>1
      <3> QED
        BY <3>1
    <2>2. CASE U # {}
      <3>1. PICK x \in U : TRUE
        BY <2>2
      <3> DEFINE R == U \ {x}
      <3>2. Total(f, R \cap T) = Total(f, R)
        BY <1>1, <3>1
      <3>3. Total(f, U) = f[x] + Total(f, R) /\ Total(f, R) \in Nat
        <4>1. IsFiniteSet(U) /\ IsFiniteSet(R) /\ (\A y \in U : f[y] \in Nat)
              /\ (\A y \in R : f[y] \in Nat)
          BY FS_Subset
        <4> HIDE DEF R
        <4>2. Total(f, R) \in Nat
          BY <4>1, TotalRemove
        <4>3. \A y \in U : Total(f, U) = f[y] + Total(f, U \ {y})
          BY <4>1, TotalRemove
        <4> QED
          BY <3>1, <4>2, <4>3 DEF R
      <3>4. CASE x \in T
        <4> DEFINE UT == U \cap T
        <4>1. IsFiniteSet(UT) /\ (\A y \in UT : f[y] \in Nat) /\ x \in UT
              /\ UT \ {x} = R \cap T
          BY <3>1, <3>4, FS_Subset
        <4> HIDE DEF UT
        <4>2. Total(f, UT) = f[x] + Total(f, UT \ {x})
          BY <4>1, TotalRemove
        <4>3. Total(f, UT) = Total(f, U)
          BY <3>2, <3>3, <4>1, <4>2, Zenon
        <4> QED
          BY <4>3 DEF UT
      <3>5. CASE x \notin T
        <4>1. U \cap T = R \cap T
          BY <3>1, <3>5
        <4>2. f[x] = 0
          BY <3>1, <3>5
        <4>3. Total(f, U \cap T) = Total(f, R)
          BY <3>2, <4>1, Zenon
        <4> HIDE DEF R
        <4>4. Total(f, U) = Total(f, R)
          BY <3>3, <4>2
        <4> QED
          BY <4>3, <4>4, Zenon
      <3> QED
        BY <3>4, <3>5
    <2> QED
      BY <2>1, <2>2
  <1> HIDE DEF Good
  <1>2. Good \in SUBSET (SUBSET S)
    BY DEF Good
  <1>3. Good = SUBSET S
    BY <1>1, <1>2, SubsetInduct
  <1>4. S \cap T = T
    OBVIOUS
  <1> QED
    BY <1>3, <1>4 DEF Good

(* One more at x.                                                          *)
Bump(f, x) == [f EXCEPT ![x] = @ + 1]

(* What Bump returns.                                                      *)
LEMMA BumpTypes ==
    ASSUME NEW D, NEW f \in [D -> Nat], NEW x \in D
    PROVE  /\ Bump(f, x) \in [D -> Nat]
           /\ \A y \in D : Bump(f, x)[y] = IF y = x THEN f[y] + 1 ELSE f[y]
  BY DEF Bump

(* One more at x is one more in the totals that count x, and in no other.  *)
LEMMA TotalBump ==
    ASSUME NEW D, NEW f \in [D -> Nat], NEW x \in D,
           NEW S \in SUBSET D, IsFiniteSet(S)
    PROVE  Total(Bump(f, x), S) = IF x \in S THEN Total(f, S) + 1 ELSE Total(f, S)
  <1> DEFINE g == Bump(f, x)
  <1>1. g \in [D -> Nat] /\ \A y \in D : g[y] = IF y = x THEN f[y] + 1 ELSE f[y]
    BY BumpTypes
  <1> HIDE DEF g
  <1> DEFINE Good == {U \in SUBSET S :
               Total(g, U) = IF x \in U THEN Total(f, U) + 1 ELSE Total(f, U)}
  <1>2. ASSUME NEW U \in SUBSET S, \A V \in SUBSET U : V # U => V \in Good
        PROVE  U \in Good
    <2>1. CASE U = {}
      BY <2>1, TotalEmpty
    <2>2. CASE U # {}
      <3>1. PICK y \in U : TRUE
        BY <2>2
      <3> DEFINE R == U \ {y}
      <3>2. IsFiniteSet(U) /\ IsFiniteSet(R) /\ y \in D /\ U \subseteq D /\ R \subseteq D
        BY <3>1, FS_Subset
      <3>3. /\ Total(f, U) = f[y] + Total(f, R) /\ Total(f, R) \in Nat
            /\ Total(g, U) = g[y] + Total(g, R) /\ Total(g, R) \in Nat
        <4>1. \A z \in U : f[z] \in Nat /\ g[z] \in Nat
          BY <1>1
        <4>2. \A z \in R : f[z] \in Nat /\ g[z] \in Nat
          BY <4>1
        <4> HIDE DEF R
        <4>3. Total(f, R) \in Nat /\ Total(g, R) \in Nat
          BY <3>2, <4>2, TotalRemove
        <4>4. \A z \in U : Total(f, U) = f[z] + Total(f, U \ {z})
          BY <3>2, <4>1, TotalRemove
        <4>5. \A z \in U : Total(g, U) = g[z] + Total(g, U \ {z})
          BY <3>2, <4>1, TotalRemove
        <4> QED
          BY <3>1, <4>3, <4>4, <4>5 DEF R
      <3>4. Total(g, R) = IF x \in R THEN Total(f, R) + 1 ELSE Total(f, R)
        BY <1>2, <3>1
      <3>5. f[y] \in Nat /\ g[y] = IF x = y THEN f[y] + 1 ELSE f[y]
        BY <1>1, <3>2
      <3>6. x \in U <=> (x = y \/ x \in R)
        BY <3>1
      <3>7. x = y => x \notin R
        OBVIOUS
      <3> HIDE DEF R
      <3>8. Total(g, U) = IF x \in U THEN Total(f, U) + 1 ELSE Total(f, U)
        BY <3>3, <3>4, <3>5, <3>6, <3>7
      <3> QED
        BY <3>8
    <2> QED
      BY <2>1, <2>2
  <1> HIDE DEF Good
  <1>3. Good \in SUBSET (SUBSET S)
    BY DEF Good
  <1>4. Good = SUBSET S
    BY <1>2, <1>3, SubsetInduct
  <1> QED
    BY <1>4 DEF Good, g

(* A lower bound in the set is its minimum.                                *)
LEMMA MinIs ==
    ASSUME NEW S \in SUBSET Int, NEW m \in S, \A x \in S : m <= x
    PROVE  Min(S) = m
  <1>1. \A n \in S : (\A x \in S : n <= x) => n = m
    OBVIOUS
  <1>2. Min(S) \in S /\ \A x \in S : Min(S) <= x
    BY Zenon DEF Min
  <1> QED
    BY <1>1, <1>2, Zenon

(* An upper bound in the set is its maximum.                               *)
LEMMA MaxIs ==
    ASSUME NEW S \in SUBSET Int, NEW m \in S, \A x \in S : x <= m
    PROVE  Max(S) = m
  <1>1. \A n \in S : (\A x \in S : n >= x) => n = m
    OBVIOUS
  <1>2. \A x \in S : m >= x
    OBVIOUS
  <1>3. Max(S) \in S /\ \A x \in S : Max(S) >= x
    BY <1>2, Zenon DEF Max
  <1> QED
    BY <1>1, <1>3, Zenon

(* A nonempty set of natural numbers has a minimum.                        *)
LEMMA MinNat ==
    ASSUME NEW S \in SUBSET Nat, S # {}
    PROVE  Min(S) \in S /\ \A x \in S : Min(S) <= x
  <1>1. \E m \in S : \A x \in S : m <= x
    <2> DEFINE Good == {n \in Nat : n \notin S}
    <2> SUFFICES ASSUME \A m \in S : \E x \in S : x < m
                 PROVE  FALSE
      OBVIOUS
    <2>1. ASSUME NEW n \in Nat, \A m \in Nat : m < n => m \in Good
          PROVE  n \in Good
      BY <2>1
    <2> HIDE DEF Good
    <2>2. Good = Nat
      BY <2>1, NatInduct DEF Good
    <2> QED
      BY <2>2 DEF Good
  <1>2. PICK m \in S : \A x \in S : m <= x
    BY <1>1
  <1> QED
    BY <1>2, MinIs

(* The first bucket whose bound is not below the duration.                 *)
LEMMA BucketIs ==
    ASSUME NEW c \in Nat
    PROVE  /\ Bucket(c) \in 1..Open
           /\ \A i \in DOMAIN LatencyBuckets :
                Bucket(c) <= i <=> c <= LatencyBuckets[i]
  <1> DEFINE B == {Open} \cup {i \in DOMAIN LatencyBuckets : c <= LatencyBuckets[i]}
             b == Bucket(c)
  <1>1. Len(LatencyBuckets) \in Nat /\ DOMAIN LatencyBuckets = 1..Len(LatencyBuckets)
        /\ \A i \in DOMAIN LatencyBuckets : LatencyBuckets[i] \in Nat
    BY BucketsAscend
  <1>2. B \in SUBSET (1..Open) /\ Open \in B /\ Open \in Nat
    BY <1>1 DEF Open
  <1>3. b = Min(B)
    BY DEF Bucket
  <1>4. b \in B /\ \A i \in B : b <= i
    <2> HIDE DEF B, b
    <2> QED
      BY <1>2, <1>3, MinNat
  <1> HIDE DEF b
  <1>5. ASSUME NEW i \in DOMAIN LatencyBuckets, c <= LatencyBuckets[i]
        PROVE  b <= i
    BY <1>4, <1>5
  <1>6. ASSUME NEW i \in DOMAIN LatencyBuckets, b <= i
        PROVE  c <= LatencyBuckets[i]
    <2>1. b \in DOMAIN LatencyBuckets /\ c <= LatencyBuckets[b]
      BY <1>1, <1>4, <1>6 DEF Open
    <2>2. b < i \/ b = i
      BY <1>1, <1>6, <2>1
    <2>3. LatencyBuckets[b] <= LatencyBuckets[i]
      BY <1>1, <2>1, <2>2, BucketsAscend
    <2> QED
      BY <1>1, <2>1, <2>3
  <1> QED
    BY <1>2, <1>4, <1>5, <1>6 DEF b

(* The bounds and the clamped durations are natural numbers.               *)
LEMMA HistogramConstants ==
    /\ Len(LatencyBuckets) \in Nat /\ DOMAIN LatencyBuckets = 1..Len(LatencyBuckets)
    /\ \A i \in DOMAIN LatencyBuckets : LatencyBuckets[i] \in Nat
    /\ Open \in Nat /\ Open = Len(LatencyBuckets) + 1
    /\ \A d \in Durations : Clamp(d) \in Nat
  <1>1. \A d \in Durations : d \in Int
    BY HistogramAssumption
  <1>2. \A d \in Durations : Clamp(d) \in Nat
    BY <1>1 DEF Clamp
  <1>3. Len(LatencyBuckets) \in Nat /\ DOMAIN LatencyBuckets = 1..Len(LatencyBuckets)
        /\ \A i \in DOMAIN LatencyBuckets : LatencyBuckets[i] \in Nat
    BY BucketsAscend
  <1> QED
    BY <1>2, <1>3 DEF Open

(* The samples at most b.                                                  *)
Upto(b) == {d \in Durations : Clamp(d) <= b}

(* The inductive invariant: the totals of the buckets and of the samples   *)
(* count the same, and a total time lies between its extremes.             *)
HistogramTypes ==
    /\ histogram = [count |-> histogram.count, total |-> histogram.total,
                    min |-> histogram.min, max |-> histogram.max,
                    buckets |-> histogram.buckets]
    /\ histogram.count \in Nat /\ histogram.total \in Nat
    /\ histogram.min \in Nat /\ histogram.max \in Nat
    /\ histogram.buckets \in [1..Open -> Nat]
    /\ samples \in [Durations -> Nat]

Counted == histogram.count = Total(samples, Durations)

Extremes ==
    /\ histogram.count = 0 => histogram.total = 0 /\ histogram.max = 0
    /\ histogram.count > 0 =>
         /\ histogram.min \in Observed /\ histogram.max \in Observed
         /\ \A o \in Observed : histogram.min <= o /\ o <= histogram.max

TotalBetween ==
    /\ histogram.count * histogram.min <= histogram.total
    /\ histogram.total <= histogram.count * histogram.max

Cumulated ==
    /\ \A i \in DOMAIN LatencyBuckets :
         Total(histogram.buckets, 1..i) = Total(samples, Upto(LatencyBuckets[i]))
    /\ Total(histogram.buckets, 1..Open) = histogram.count

HistogramInv ==
    /\ HistogramTypes
    /\ Counted
    /\ Extremes
    /\ histogram.count > 0 => TotalBetween
    /\ Cumulated

(* What has been observed is not negative.                                 *)
LEMMA ObservedTypes ==
    ASSUME HistogramTypes
    PROVE  /\ Observed \in SUBSET Nat
           /\ \A d \in Durations : Clamp(d) \in Nat
  BY HistogramConstants DEF Observed

(* While the count is zero there is no sample.                             *)
LEMMA NothingObserved ==
    ASSUME HistogramTypes, Counted, histogram.count = 0
    PROVE  Observed = {}
  <1> SUFFICES ASSUME NEW d \in Durations
               PROVE  ~(samples[d] > 0)
    BY DEF Observed
  <1>1. IsFiniteSet(Durations) /\ \A e \in Durations : samples[e] \in Nat
    BY HistogramAssumption DEF HistogramTypes
  <1>2. Total(samples, Durations) = samples[d] + Total(samples, Durations \ {d})
    BY <1>1, TotalRemove
  <1>3. Total(samples, Durations \ {d}) \in Nat
    <2>1. IsFiniteSet(Durations \ {d}) /\ \A e \in Durations \ {d} : samples[e] \in Nat
      BY <1>1, FS_Subset
    <2> DEFINE R == Durations \ {d}
    <2> HIDE DEF R
    <2>2. IsFiniteSet(R) /\ \A e \in R : samples[e] \in Nat
      BY <2>1 DEF R
    <2>3. Total(samples, R) \in Nat
      BY <2>2, TotalRemove
    <2> QED
      BY <2>3 DEF R
  <1>4. samples[d] \in Nat
    BY <1>1
  <1> DEFINE R == Total(samples, Durations \ {d})
  <1> HIDE DEF R
  <1>5. 0 = samples[d] + R /\ R \in Nat
    BY <1>2, <1>3, Zenon DEF Counted, R
  <1> QED
    BY <1>4, <1>5

(* Multiplication by a successor.                                          *)
LEMMA TimesOne ==
    ASSUME NEW n \in Nat, NEW k \in Nat
    PROVE  (n + 1) * k = n * k + k /\ n * k \in Nat
  OBVIOUS

(* Multiplication is monotone.                                             *)
LEMMA TimesMonotone ==
    ASSUME NEW n \in Nat, NEW a \in Nat, NEW b \in Nat, a <= b
    PROVE  n * a <= n * b
  <1>1. PICK k \in Nat : b = a + k
    <2>1. b - a \in Nat /\ b = a + (b - a)
      OBVIOUS
    <2> QED
      BY <2>1
  <1>2. n * (a + k) = n * a + n * k
    OBVIOUS
  <1>3. n * a \in Nat /\ n * k \in Nat
    OBVIOUS
  <1> QED
    BY <1>1, <1>2, <1>3

(* A new histogram satisfies the invariant.                                *)
LEMMA HistogramInvInit == HistogramInit => HistogramInv
  <1> SUFFICES ASSUME HistogramInit PROVE HistogramInv
    OBVIOUS
  <1>1. histogram = NewHistogram /\ samples = [d \in Durations |-> 0]
    BY DEF HistogramInit
  <1>2. HistogramTypes
    BY <1>1, HistogramConstants DEF HistogramTypes, NewHistogram
  <1>3. ASSUME NEW D, NEW f, f = [x \in D |-> 0], NEW S \in SUBSET D, IsFiniteSet(S)
        PROVE  Total(f, S) = 0
    <2>1. /\ \A x \in S : f[x] \in Nat
          /\ {} \in SUBSET S
          /\ \A x \in S \ {} : f[x] = 0
      BY <1>3
    <2>2. Total(f, {}) = Total(f, S)
      BY <1>3, <2>1, TotalOutside
    <2> QED
      BY <2>2, TotalEmpty
  <1>4. histogram.count = 0 /\ histogram.max = 0 /\ histogram.total = 0
        /\ histogram.buckets = [i \in 1..Open |-> 0]
    BY <1>1 DEF NewHistogram
  <1>5. ASSUME NEW S \in SUBSET Durations
        PROVE  Total(samples, S) = 0
    <2>1. IsFiniteSet(S)
      BY HistogramAssumption, FS_Subset
    <2> QED
      BY <1>1, <1>3, <2>1
  <1>6. ASSUME NEW i \in 1..Open
        PROVE  Total(histogram.buckets, 1..i) = 0
    <2>1. IsFiniteSet(1..i) /\ 1..i \in SUBSET (1..Open)
      BY HistogramConstants, FS_Interval
    <2> QED
      BY <1>3, <1>4, <2>1
  <1>7. Counted
    BY <1>4, <1>5 DEF Counted
  <1>8. Extremes /\ ~(histogram.count > 0)
    BY <1>4 DEF Extremes
  <1>9. Cumulated
    <2>1. ASSUME NEW i \in DOMAIN LatencyBuckets
          PROVE  Total(histogram.buckets, 1..i) = Total(samples, Upto(LatencyBuckets[i]))
      <3>1. i \in 1..Open
        BY HistogramConstants
      <3>2. Upto(LatencyBuckets[i]) \in SUBSET Durations
        BY DEF Upto
      <3> QED
        BY <1>5, <1>6, <3>1, <3>2
    <2>2. Open \in 1..Open
      BY HistogramConstants
    <2> QED
      BY <1>4, <1>6, <2>1, <2>2 DEF Cumulated
  <1> QED
    BY <1>2, <1>7, <1>8, <1>9 DEF HistogramInv

(* An observation adds one to the count, to the samples and to the         *)
(* cumulative buckets from its own on.                                     *)
LEMMA HistogramInvStep ==
    ASSUME HistogramInv, [HistogramNext]_histogramVars
    PROVE  HistogramInv'
  <1>1. CASE UNCHANGED histogramVars
    BY <1>1 DEF histogramVars, HistogramInv, HistogramTypes, Counted, Extremes,
                TotalBetween, Cumulated, Observed
  <1>2. ASSUME NEW d \in Durations, ObserveDuration(d)
        PROVE  HistogramInv'
    <2> DEFINE c == Clamp(d)
               b == Bucket(c)
    <2>1. c \in Nat /\ b \in 1..Open
          /\ \A i \in DOMAIN LatencyBuckets : b <= i <=> c <= LatencyBuckets[i]
      BY HistogramConstants, BucketIs
    <2> HIDE DEF c, b
    <2>2. HistogramTypes
      BY DEF HistogramInv
    <2>3. /\ histogram' = [count   |-> histogram.count + 1,
                           total   |-> histogram.total + c,
                           min     |-> IF histogram.count = 0 THEN c
                                       ELSE Min({c, histogram.min}),
                           max     |-> Max({c, histogram.max}),
                           buckets |-> [histogram.buckets EXCEPT ![b] = @ + 1]]
          /\ samples' = [samples EXCEPT ![d] = @ + 1]
      BY <1>2 DEF ObserveDuration, Observe, c, b
    <2>4. /\ histogram'.count = histogram.count + 1
          /\ histogram'.total = histogram.total + c
          /\ histogram'.buckets = [histogram.buckets EXCEPT ![b] = @ + 1]
      BY <2>3
    <2>5. histogram'.min = IF histogram.count = 0 \/ c <= histogram.min
                           THEN c ELSE histogram.min
      <3>1. ASSUME NEW m \in Nat
            PROVE  Min({c, m}) = IF c <= m THEN c ELSE m
        <4>1. {c, m} \in SUBSET Int
          BY <2>1
        <4>2. CASE c <= m
          BY <2>1, <4>1, <4>2, MinIs
        <4>3. CASE ~(c <= m)
          BY <2>1, <4>1, <4>3, MinIs
        <4> QED
          BY <4>2, <4>3
      <3>2. histogram.min \in Nat
        BY <2>2 DEF HistogramTypes
      <3>3. histogram'.min = IF histogram.count = 0 THEN c
                             ELSE Min({c, histogram.min})
        BY <2>3
      <3> QED
        BY <3>1, <3>2, <3>3
    <2>6. histogram'.max = IF histogram.max <= c THEN c ELSE histogram.max
      <3>1. ASSUME NEW m \in Nat
            PROVE  Max({c, m}) = IF m <= c THEN c ELSE m
        <4>1. {c, m} \in SUBSET Int
          BY <2>1
        <4>2. CASE m <= c
          BY <2>1, <4>1, <4>2, MaxIs
        <4>3. CASE ~(m <= c)
          BY <2>1, <4>1, <4>3, MaxIs
        <4> QED
          BY <4>2, <4>3
      <3>2. histogram.max \in Nat
        BY <2>2 DEF HistogramTypes
      <3>3. histogram'.max = Max({c, histogram.max})
        BY <2>3
      <3> QED
        BY <3>1, <3>2, <3>3
    <2>7. HistogramTypes'
      <3>1. histogram' = [count |-> histogram'.count, total |-> histogram'.total,
                          min |-> histogram'.min, max |-> histogram'.max,
                          buckets |-> histogram'.buckets]
        BY <2>3
      <3>2. /\ histogram'.count \in Nat /\ histogram'.total \in Nat
            /\ histogram'.min \in Nat /\ histogram'.max \in Nat
        BY <2>1, <2>2, <2>4, <2>5, <2>6 DEF HistogramTypes
      <3>3. histogram'.buckets \in [1..Open -> Nat]
        <4>1. histogram'.buckets = Bump(histogram.buckets, b)
          BY <2>4 DEF Bump
        <4>2. histogram.buckets \in [1..Open -> Nat]
          BY <2>2 DEF HistogramTypes
        <4> DEFINE D == 1..Open
                   f == histogram.buckets
        <4>3. f \in [D -> Nat] /\ b \in D
          BY <2>1, <4>2
        <4> HIDE DEF D, f
        <4>4. Bump(f, b) \in [D -> Nat]
          BY <4>3, BumpTypes
        <4> QED
          BY <4>1, <4>4 DEF D, f
      <3>4. samples' \in [Durations -> Nat]
        BY <2>2, <2>3 DEF HistogramTypes
      <3> QED
        BY <3>1, <3>2, <3>3, <3>4 DEF HistogramTypes
    <2>8. Observed' = Observed \cup {c}
      <3>1. /\ samples \in [Durations -> Nat]
            /\ samples' = [samples EXCEPT ![d] = @ + 1]
        BY <2>2, <2>3 DEF HistogramTypes
      <3>2. {e \in Durations : samples'[e] > 0}
              = {e \in Durations : samples[e] > 0} \cup {d}
        BY <3>1
      <3> QED
        BY <3>2 DEF Observed, c
    <2>9. ASSUME NEW S \in SUBSET Durations
          PROVE  Total(samples', S) = IF d \in S THEN Total(samples, S) + 1
                                      ELSE Total(samples, S)
      <3>1. IsFiniteSet(S)
        BY HistogramAssumption, FS_Subset
      <3>2. samples \in [Durations -> Nat] /\ samples' = Bump(samples, d)
        BY <2>2, <2>3 DEF HistogramTypes, Bump
      <3>3. Total(Bump(samples, d), S) = IF d \in S THEN Total(samples, S) + 1
                                         ELSE Total(samples, S)
        BY <3>1, <3>2, TotalBump
      <3> QED
        BY <3>2, <3>3, Zenon
    <2>10. ASSUME NEW i \in 1..Open
           PROVE  Total(histogram'.buckets, 1..i)
                    = IF b <= i THEN Total(histogram.buckets, 1..i) + 1
                      ELSE Total(histogram.buckets, 1..i)
      <3>1. IsFiniteSet(1..i) /\ 1..i \in SUBSET (1..Open)
        BY HistogramConstants, FS_Interval
      <3>2. histogram.buckets \in [1..Open -> Nat]
            /\ histogram'.buckets = Bump(histogram.buckets, b)
        BY <2>2, <2>4 DEF HistogramTypes, Bump
      <3>3. b \in 1..i <=> b <= i
        BY <2>1
      <3>4. Total(Bump(histogram.buckets, b), 1..i)
              = IF b \in 1..i THEN Total(histogram.buckets, 1..i) + 1
                ELSE Total(histogram.buckets, 1..i)
        <4> DEFINE D == 1..Open
                   f == histogram.buckets
                   S == 1..i
        <4>1. f \in [D -> Nat] /\ b \in D /\ IsFiniteSet(S) /\ S \in SUBSET D
          BY <2>1, <3>1, <3>2
        <4> HIDE DEF D, f, S
        <4>2. Total(Bump(f, b), S) = IF b \in S THEN Total(f, S) + 1 ELSE Total(f, S)
          BY <4>1, TotalBump
        <4> QED
          BY <4>2 DEF f, S
      <3> QED
        BY <3>2, <3>3, <3>4, Zenon
    <2>11. Counted'
      BY <2>4, <2>9 DEF HistogramInv, Counted
    <2>12. Extremes'
      <3>1. Observed \in SUBSET Nat /\ histogram.count \in Nat
            /\ histogram.min \in Nat /\ histogram.max \in Nat
        BY <2>2, ObservedTypes DEF HistogramTypes
      <3>2. CASE histogram.count = 0
        <4>1. Observed = {} /\ histogram.max = 0
          BY <2>2, <3>2, NothingObserved DEF HistogramInv, Extremes
        <4>2. Observed' = {c} /\ histogram'.min = c /\ histogram'.max = c
          BY <2>1, <2>5, <2>6, <2>8, <3>2, <4>1
        <4> QED
          BY <2>1, <2>4, <3>1, <4>2 DEF Extremes
      <3>3. CASE histogram.count # 0
        <4>1. /\ histogram.min \in Observed /\ histogram.max \in Observed
              /\ \A o \in Observed : histogram.min <= o /\ o <= histogram.max
          BY <3>1, <3>3 DEF HistogramInv, Extremes
        <4>2. histogram'.min \in Observed' /\ histogram'.max \in Observed'
          BY <2>5, <2>6, <2>8, <4>1
        <4>3. \A o \in Observed' : histogram'.min <= o /\ o <= histogram'.max
          BY <2>1, <2>5, <2>6, <2>8, <3>1, <3>3, <4>1
        <4> QED
          BY <2>4, <3>1, <4>2, <4>3 DEF Extremes
      <3> QED
        BY <3>2, <3>3
    <2>13. TotalBetween'
      <3> DEFINE n == histogram.count
                 t == histogram.total
                 l == histogram.min
                 u == histogram.max
                 ll == histogram'.min
                 uu == histogram'.max
      <3>1. n \in Nat /\ t \in Nat /\ l \in Nat /\ u \in Nat /\ ll \in Nat /\ uu \in Nat
        BY <2>2, <2>7 DEF HistogramTypes
      <3>2. /\ histogram'.count = n + 1 /\ histogram'.total = t + c
        BY <2>4
      <3>3. CASE n = 0
        <4>1. t = 0 /\ u = 0
          BY <3>3 DEF HistogramInv, Extremes
        <4> QED
          BY <2>1, <2>5, <2>6, <3>1, <3>2, <3>3, <4>1 DEF TotalBetween
      <3>4. CASE n # 0
        <4>1. n * l <= t /\ t <= n * u
          BY <3>1, <3>4 DEF HistogramInv, TotalBetween
        <4>2. ll <= l /\ ll <= c /\ u <= uu /\ c <= uu
          BY <2>1, <2>5, <2>6, <3>1, <3>4
        <4> HIDE DEF n, t, l, u, ll, uu
        <4>3. n * ll <= n * l /\ n * u <= n * uu
          BY <3>1, <4>2, TimesMonotone
        <4>4. (n + 1) * ll = n * ll + ll /\ (n + 1) * uu = n * uu + uu
          BY <3>1, TimesOne
        <4>5. n * ll \in Nat /\ n * l \in Nat /\ n * u \in Nat /\ n * uu \in Nat
          BY <3>1, TimesOne
        <4>6. (n + 1) * ll <= t + c /\ t + c <= (n + 1) * uu
          BY <2>1, <3>1, <4>1, <4>2, <4>3, <4>4, <4>5
        <4> QED
          BY <3>2, <4>6, Zenon DEF TotalBetween, ll, uu
      <3> QED
        BY <3>3, <3>4
    <2>14. Cumulated'
      <3>1. ASSUME NEW i \in DOMAIN LatencyBuckets
            PROVE  Total(histogram'.buckets, 1..i)
                     = Total(samples', Upto(LatencyBuckets[i]))
        <4> DEFINE S == Upto(LatencyBuckets[i])
        <4>1. i \in 1..Open
          BY HistogramConstants
        <4>2. S \in SUBSET Durations /\ (d \in S <=> c <= LatencyBuckets[i])
          BY DEF Upto, c
        <4>3. Total(histogram.buckets, 1..i) = Total(samples, S)
          BY DEF HistogramInv, Cumulated
        <4>4. b <= i <=> d \in S
          BY <2>1, <4>2
        <4> HIDE DEF S
        <4>5. Total(samples', S) = IF d \in S THEN Total(samples, S) + 1
                                   ELSE Total(samples, S)
          BY <2>9, <4>2
        <4>6. Total(histogram'.buckets, 1..i) = Total(samples', S)
          BY <2>10, <4>1, <4>3, <4>4, <4>5, Zenon
        <4> QED
          BY <4>6 DEF S
      <3>2. Total(histogram'.buckets, 1..Open) = histogram'.count
        <4>1. Open \in 1..Open /\ b <= Open
          BY <2>1, HistogramConstants
        <4>2. Total(histogram'.buckets, 1..Open) = Total(histogram.buckets, 1..Open) + 1
          BY <2>10, <4>1
        <4> QED
          BY <2>4, <4>2 DEF HistogramInv, Cumulated
      <3> QED
        BY <3>1, <3>2 DEF Cumulated, Upto
    <2> QED
      BY <2>7, <2>11, <2>12, <2>13, <2>14 DEF HistogramInv
  <1> QED
    BY <1>1, <1>2 DEF HistogramNext

(* An average lies between the bounds of its terms.                        *)
LEMMA AverageBetween ==
    ASSUME NEW t \in Nat, NEW n \in Nat \ {0}, NEW l \in Nat, NEW u \in Nat,
           n * l <= t, t <= n * u
    PROVE  t \div n \in l..u
  <1> DEFINE q == t \div n
             r == t % n
  <1>1. q \in Nat /\ r \in 0..(n - 1) /\ t = n * q + r
    BY DivMod
  <1> HIDE DEF q, r
  <1>2. n * q \in Nat /\ n * l \in Nat /\ n * u \in Nat
    BY <1>1
  <1>3. l <= q
    <2> SUFFICES ASSUME q + 1 <= l PROVE FALSE
      BY <1>1
    <2>1. n * (q + 1) <= n * l
      BY <1>1, TimesMonotone
    <2>2. n * (q + 1) = n * q + n
      BY <1>1
    <2> QED
      BY <1>1, <1>2, <2>1, <2>2
  <1>4. q <= u
    <2> SUFFICES ASSUME u + 1 <= q PROVE FALSE
      BY <1>1
    <2>1. n * (u + 1) <= n * q
      BY <1>1, TimesMonotone
    <2>2. n * (u + 1) = n * u + n
      OBVIOUS
    <2> QED
      BY <1>1, <1>2, <2>1, <2>2
  <1> QED
    BY <1>1, <1>3, <1>4 DEF q

(* A histogram that has counted its samples summarises them.               *)
LEMMA HistogramInvSummarises == HistogramInv => HistogramSummarises
  <1> SUFFICES ASSUME HistogramInv PROVE HistogramSummarises
    OBVIOUS
  <1>1. HistogramTypes /\ Counted /\ Extremes /\ Cumulated
        /\ (histogram.count > 0 => TotalBetween)
    BY DEF HistogramInv
  <1>2. histogram.count = FoldFunction(+, 0, samples)
    <2>1. DOMAIN samples = Durations
      BY <1>1 DEF HistogramTypes
    <2> QED
      BY <1>1, <2>1 DEF Counted, Total, FoldFunction
  <1>3. ASSUME histogram.count > 0
        PROVE  /\ histogram.min = Min(Observed) /\ histogram.max = Max(Observed)
               /\ Average(histogram) \in histogram.min..histogram.max
    <2>1. /\ histogram.min \in Observed /\ histogram.max \in Observed
          /\ \A o \in Observed : histogram.min <= o /\ o <= histogram.max
      BY <1>1, <1>3 DEF Extremes
    <2>2. Observed \in SUBSET Int
      BY <1>1, ObservedTypes
    <2>3. histogram.min = Min(Observed) /\ histogram.max = Max(Observed)
      BY <2>1, <2>2, MinIs, MaxIs
    <2>4. histogram.total \div histogram.count \in histogram.min..histogram.max
      <3>1. /\ histogram.total \in Nat /\ histogram.count \in Nat \ {0}
            /\ histogram.min \in Nat /\ histogram.max \in Nat
        BY <1>1, <1>3 DEF HistogramTypes
      <3> QED
        BY <1>1, <1>3, <3>1, AverageBetween DEF TotalBetween
    <2> QED
      BY <2>3, <2>4 DEF Average
  <1>4. \A i \in DOMAIN LatencyBuckets :
          Cumulative(histogram, i) = AtMost(LatencyBuckets[i])
    BY <1>1 DEF Cumulated, Cumulative, AtMost, Total, Upto
  <1>5. Cumulative(histogram, Open) = histogram.count
    BY <1>1 DEF Cumulated, Cumulative, Total
  <1> QED
    BY <1>2, <1>3, <1>4, <1>5 DEF HistogramSummarises

(* A threshold is reached exactly by the counts that are at least that     *)
(* share.                                                                  *)
LEMMA ThresholdIs ==
    ASSUME NEW n \in Nat \ {0}, NEW p \in 1..100,
           histogram.count = n
    PROVE  /\ \A k \in Nat : k >= Threshold(histogram, p) <=> 100 * k >= p * n
           /\ 100 * n >= p * n
  <1> DEFINE m == n * p
             q == (m + 99) \div 100
  <1>1. m \in Nat /\ m > 0 /\ p * n = m
    <2>1. n * 1 <= n * p
      BY TimesMonotone
    <2> QED
      BY <2>1
  <1>2. 100 * n >= p * n
    <2>1. n * p <= n * 100
      BY TimesMonotone
    <2> QED
      BY <2>1
  <1> HIDE DEF m
  <1>3. q \in Nat /\ q >= 1 /\ \A k \in Nat : k >= q <=> 100 * k >= m
    BY <1>1
  <1>4. Threshold(histogram, p) = q
    <2>1. Threshold(histogram, p) = Max({1, q})
      BY DEF Threshold, m
    <2> HIDE DEF q
    <2>2. {1, q} \in SUBSET Int /\ q \in {1, q} /\ \A x \in {1, q} : x <= q
      BY <1>3
    <2>3. Max({1, q}) = q
      BY <2>2, MaxIs
    <2> QED
      BY <2>1, <2>3
  <1> QED
    BY <1>1, <1>2, <1>3, <1>4

(* The first bucket to reach the threshold is the first whose bound covers *)
(* the share.                                                              *)
LEMMA HistogramInvTight == HistogramInv => PercentilesAreTight
  <1> SUFFICES ASSUME HistogramInv, histogram.count > 0, NEW p \in Percentiles
               PROVE  /\ 100 * AtMost(PercentileUpperBound(histogram, p))
                           >= p * histogram.count
                      /\ \A i \in DOMAIN LatencyBuckets :
                           100 * AtMost(LatencyBuckets[i]) >= p * histogram.count
                             => PercentileUpperBound(histogram, p) <= LatencyBuckets[i]
    BY DEF PercentilesAreTight
  <1> DEFINE n == histogram.count
             th == Threshold(histogram, p)
             K == {k \in 1..Open : Cumulative(histogram, k) >= th}
             i == Min(K)
             bound == PercentileUpperBound(histogram, p)
  <1>1. HistogramTypes /\ Counted /\ Extremes
    BY DEF HistogramInv
  <1>2. n \in Nat \ {0} /\ p \in 1..100
    BY <1>1, HistogramAssumption DEF HistogramTypes
  <1>3. /\ \A j \in DOMAIN LatencyBuckets :
             Cumulative(histogram, j) = AtMost(LatencyBuckets[j])
        /\ Cumulative(histogram, Open) = n
    BY HistogramInvSummarises DEF HistogramSummarises
  <1>4. /\ \A k \in Nat : k >= th <=> 100 * k >= p * n
        /\ 100 * n >= p * n
    BY <1>2, ThresholdIs
  <1>5. Open \in K
    <2>1. Open \in 1..Open
      BY HistogramConstants
    <2>2. n >= th
      BY <1>2, <1>4
    <2>3. Cumulative(histogram, Open) >= th
      BY <1>3, <2>2, Zenon
    <2> HIDE DEF th
    <2> QED
      BY <2>1, <2>3, Zenon
  <1>6. i \in K /\ \A k \in K : i <= k
    <2>1. K \in SUBSET Nat /\ K # {}
      BY <1>5, HistogramConstants
    <2> HIDE DEF K
    <2> QED
      BY <2>1, MinNat
  <1>7. bound = IF i = Open THEN histogram.max ELSE LatencyBuckets[i]
    BY DEF PercentileUpperBound
  <1>8. ASSUME NEW j \in DOMAIN LatencyBuckets
        PROVE  Cumulative(histogram, j) \in Nat
    <2>1. IsFiniteSet(1..j) /\ \A x \in 1..j : histogram.buckets[x] \in Nat
      <3>1. j \in Int /\ 1..j \subseteq 1..Open
        BY HistogramConstants
      <3>2. IsFiniteSet(1..j)
        BY <3>1, FS_Interval
      <3> QED
        BY <1>1, <3>1, <3>2 DEF HistogramTypes
    <2>2. Total(histogram.buckets, 1..j) \in Nat
      BY <2>1, TotalRemove
    <2> QED
      BY <2>2 DEF Cumulative, Total
  <1>9. ASSUME NEW j \in DOMAIN LatencyBuckets
        PROVE  j \in K <=> 100 * AtMost(LatencyBuckets[j]) >= p * n
    <2>1. Cumulative(histogram, j) \in Nat /\ j \in 1..Open
      BY <1>8, HistogramConstants
    <2>2. j \in K <=> Cumulative(histogram, j) >= th
      BY <2>1
    <2>3. Cumulative(histogram, j) >= th <=> 100 * Cumulative(histogram, j) >= p * n
      BY <1>4, <2>1
    <2> QED
      BY <1>3, <2>2, <2>3
  <1>10. AtMost(histogram.max) = n
    <2> DEFINE S == Upto(histogram.max)
    <2>1. IsFiniteSet(Durations) /\ \A d \in Durations : samples[d] \in Nat
      BY <1>1, HistogramAssumption DEF HistogramTypes
    <2>2. S \in SUBSET Durations
      BY DEF Upto
    <2>3. ASSUME NEW d \in Durations \ S
          PROVE  samples[d] = 0
      <3>1. ~(Clamp(d) <= histogram.max)
        BY DEF Upto
      <3>2. Clamp(d) \notin Observed
        BY <1>1, <1>2, <3>1 DEF Extremes
      <3>3. ~(samples[d] > 0)
        BY <3>2 DEF Observed
      <3> QED
        BY <2>1, <3>3
    <2> HIDE DEF S
    <2>4. Total(samples, S) = Total(samples, Durations)
      BY <2>1, <2>2, <2>3, TotalOutside
    <2> QED
      BY <1>1, <2>4 DEF Counted, AtMost, Total, S, Upto
  <1> HIDE DEF K, i, th, bound
  <1>11. CASE i = Open
    <2>1. 100 * AtMost(bound) >= p * n
      BY <1>4, <1>7, <1>10, <1>11
    <2>2. ASSUME NEW j \in DOMAIN LatencyBuckets
          PROVE  ~(100 * AtMost(LatencyBuckets[j]) >= p * n)
      <3>1. j < Open
        BY HistogramConstants
      <3>2. j \notin K
        BY <1>6, <1>11, <3>1, HistogramConstants
      <3> QED
        BY <1>9, <3>2
    <2> QED
      BY <2>1, <2>2 DEF bound
  <1>12. CASE i # Open
    <2>1. i \in DOMAIN LatencyBuckets /\ bound = LatencyBuckets[i]
      BY <1>6, <1>7, <1>12, HistogramConstants DEF K
    <2>2. 100 * AtMost(bound) >= p * n
      BY <1>6, <1>9, <2>1
    <2>3. ASSUME NEW j \in DOMAIN LatencyBuckets,
                 100 * AtMost(LatencyBuckets[j]) >= p * n
          PROVE  bound <= LatencyBuckets[j]
      <3>1. i <= j
        BY <1>6, <1>9, <2>3
      <3>2. i = j \/ i < j
        BY <2>1, <3>1, HistogramConstants
      <3> QED
        BY <2>1, <3>2, BucketsAscend, HistogramConstants
    <2> QED
      BY <2>2, <2>3 DEF bound
  <1> QED
    BY <1>11, <1>12

(* The invariant holds in every state.                                     *)
LEMMA HistogramInvHolds == HistogramSpec => []HistogramInv
  <1>1. HistogramInv /\ [HistogramNext]_histogramVars => HistogramInv'
    BY HistogramInvStep
  <1> QED
    BY HistogramInvInit, <1>1, PTL DEF HistogramSpec

(* For every set of bounds and durations and any number of observations,   *)
(* count, extremes, average and cumulative buckets are those of the        *)
(* samples (HistogramSummarises of ObserveDuration and of a snapshot).     *)
THEOREM SnapshotsSummarise == HistogramSpec => []HistogramSummarises
  BY HistogramInvHolds, HistogramInvSummarises, PTL

(* For all of these a percentile of a snapshot covers its share of the     *)
(* samples and no smaller bound does (PercentilesAreTight of               *)
(* percentileUpperBound).                                                  *)
THEOREM PercentilesTight == HistogramSpec => []PercentilesAreTight
  BY HistogramInvHolds, HistogramInvTight, PTL
=============================================================================
