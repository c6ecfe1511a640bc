\* Two writers, one call each: a frequency outside the table reaches
\* clk_set_rate through the re-read of current_freq.
CONSTANTS
    w1 = w1
    w2 = w2
    cpu0 = cpu0
    cpu1 = cpu1
    NULL = NULL
    Writers <- MCWriters
    Cpus <- MCCpus
    FreqTable <- MCFreqTable
    WriteValues <- MCWriteValues
    AllocFailures = FALSE
    MaxCalls = 1
SPECIFICATION Spec
INVARIANT
    ClockOnlyTableFrequencies
