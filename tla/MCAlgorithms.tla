---------------------------- MODULE MCAlgorithms ----------------------------
(***************************************************************************)
(* The four pure parts of linkd in one run: a behaviour exercises one of   *)
(* them, the subject, and leaves the others in their initial states.       *)
(***************************************************************************)
EXTENDS Histogram, VersionScript, CodeGenerator, Precision

VARIABLE subject

Init ==
    /\ subject \in {"histogram", "versions", "codes", "precision"}
    /\ HistogramInit /\ VersionInit /\ GeneratorInit
    /\ PrecisionInit

Next ==
    /\ UNCHANGED subject
    /\ \/ /\ subject = "histogram" /\ HistogramNext
          /\ UNCHANGED <<versionVars, generatorVars, precisionVars>>
       \/ /\ subject = "versions" /\ VersionNext
          /\ UNCHANGED <<histogramVars, generatorVars, precisionVars>>
       \/ /\ subject = "codes" /\ GeneratorNext
          /\ UNCHANGED <<histogramVars, versionVars, precisionVars>>
       \/ /\ subject = "precision" /\ PrecisionNext
          /\ UNCHANGED <<histogramVars, versionVars, generatorVars>>

Spec == Init /\ [][Next]_<<subject, histogramVars, versionVars, generatorVars,
                           precisionVars>>

(* One inclusive bound, one bucket between, and the open bucket.           *)
TwoBuckets == <<1, 5>>
SomeDurations == {-1, 5, 7}
SnapshotPercentiles == {50, 95, 99}

(* Where the number of digits changes.                                     *)
SomeVersions == 1..120 \cup 990..1010

(* Five milliseconds of two microseconds of three nanoseconds each.        *)
FineInstants == 0..29
=============================================================================
