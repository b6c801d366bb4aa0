SPECIFICATION Spec
CONSTANTS
    LatencyBuckets <- TwoBuckets
    Percentiles <- SnapshotPercentiles
    Durations <- SomeDurations
    MaxSamples = 101
    Versions <- SomeVersions
    AlphabetSize = 62
    ByteValues = 256
    CodeLength = 2
    Micro = 3
    Milli = 6
    ClockTTL = 13
    Instants <- FineInstants
INVARIANTS
    HistogramSummarises
    PercentilesAreTight
    StoredIsHighest
    CodesUniform
    ExpiryKept
CHECK_DEADLOCK FALSE
