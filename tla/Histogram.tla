----------------------------- MODULE Histogram -----------------------------
(***************************************************************************)
(* A latency histogram of the metrics recorder (metrics/recorder.go).      *)
(* ObserveDuration runs under the recorder's mutex, so that one step here  *)
(* is one call.  Durations are whole units; the conversion of a snapshot   *)
(* to milliseconds is left out.                                            *)
(***************************************************************************)
EXTENDS Integers, Sequences, FiniteSetsExt, Functions

CONSTANTS LatencyBuckets,  \* upper bounds, inclusive
          Percentiles,     \* the percentiles of a snapshot
          Durations,       \* durations observed, negative ones included
          MaxSamples       \* bound: observations

ASSUME BucketsAscend ==
    /\ LatencyBuckets \in Seq(Nat)
    /\ \A i, j \in DOMAIN LatencyBuckets :
         i < j => LatencyBuckets[i] < LatencyBuckets[j]

(* A time.Duration is an int64, and a snapshot asks for 50, 95 and 99.     *)
ASSUME HistogramAssumption ==
    /\ IsFiniteSet(Durations) /\ Durations \subseteq Int
    /\ Percentiles \subseteq 1..100

VARIABLES histogram,  \* count, total, min, max and buckets
          samples     \* history: samples[d] is how often d has been observed

histogramVars == <<histogram, samples>>

Open == Len(LatencyBuckets) + 1

NewHistogram ==
    [count |-> 0, total |-> 0, min |-> 0, max |-> 0,
     buckets |-> [i \in 1..Open |-> 0]]

(* A clock that was set back does not count as negative time.              *)
Clamp(d) == IF d < 0 THEN 0 ELSE d

Bucket(d) == Min({Open} \cup {i \in DOMAIN LatencyBuckets : d <= LatencyBuckets[i]})

(* Seeded fault: the minimum starts from zero.                             *)
ObserveFromZero(h, d) ==
    [count   |-> h.count + 1,
     total   |-> h.total + d,
     min     |-> Min({d, h.min}),
     max     |-> Max({d, h.max}),
     buckets |-> [h.buckets EXCEPT ![Bucket(d)] = @ + 1]]

Observe(h, d) ==
    [count   |-> h.count + 1,
     total   |-> h.total + d,
     min     |-> IF h.count = 0 THEN d ELSE Min({d, h.min}),
     max     |-> Max({d, h.max}),
     buckets |-> [h.buckets EXCEPT ![Bucket(d)] = @ + 1]]

ObserveDuration(d) ==
    /\ histogram.count < MaxSamples
    /\ histogram' = Observe(histogram, Clamp(d))
    /\ samples' = [samples EXCEPT ![d] = @ + 1]

HistogramInit ==
    /\ histogram = NewHistogram
    /\ samples = [d \in Durations |-> 0]

HistogramNext == \E d \in Durations : ObserveDuration(d)

HistogramSpec == HistogramInit /\ [][HistogramNext]_histogramVars

-----------------------------------------------------------------------------
(* The snapshot *)

(* The buckets up to i; the snapshot shows them as le_.                    *)
Cumulative(h, i) == FoldFunctionOnSet(+, 0, h.buckets, 1..i)

(* Seeded fault: the threshold is rounded down.                            *)
ThresholdDown(h, p) == Max({1, (h.count * p) \div 100})

Threshold(h, p) == Max({1, (h.count * p + 99) \div 100})

PercentileUpperBound(h, p) ==
    LET i == Min({k \in 1..Open : Cumulative(h, k) >= Threshold(h, p)})
    IN  IF i = Open THEN h.max ELSE LatencyBuckets[i]

Average(h) == h.total \div h.count

-----------------------------------------------------------------------------
(* Properties *)

Observed == {Clamp(d) : d \in {e \in Durations : samples[e] > 0}}
AtMost(bound) ==
    FoldFunctionOnSet(+, 0, samples, {d \in Durations : Clamp(d) <= bound})

(* However the observations come, zero and negative ones among them: count,*)
(* extremes and every cumulative bucket of a snapshot are those of the     *)
(* samples, and the average lies between the extremes.                     *)
HistogramSummarises ==
    LET h == histogram IN
    /\ h.count = FoldFunction(+, 0, samples)
    /\ h.count > 0 => /\ h.min = Min(Observed) /\ h.max = Max(Observed)
                      /\ Average(h) \in h.min..h.max
    /\ \A i \in DOMAIN LatencyBuckets : Cumulative(h, i) = AtMost(LatencyBuckets[i])
    /\ Cumulative(h, Open) = h.count

(* A percentile is an upper bound for that share of the samples, and no    *)
(* smaller bucket bound is one.                                            *)
PercentilesAreTight ==
    histogram.count > 0 =>
       \A p \in Percentiles :
          LET bound == PercentileUpperBound(histogram, p)
              Covers(b) == 100 * AtMost(b) >= p * histogram.count
          IN  /\ Covers(bound)
              /\ \A i \in DOMAIN LatencyBuckets :
                   Covers(LatencyBuckets[i]) => bound <= LatencyBuckets[i]
=============================================================================
