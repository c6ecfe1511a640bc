---------------------------- MODULE MCNssFreqScale ----------------------------
(***************************************************************************)
(* Model values and bounds for NssFreqScale.                               *)
(***************************************************************************)
EXTENDS NssFreqScale

CONSTANTS w1, w2, cpu0, cpu1

\* Two concurrent sysctl writers on a two-CPU system.
MCWriters == {w1, w2}
MCCpus == {cpu0, cpu1}

\* A low/mid/high table (NSS_FREQ_110, NSS_FREQ_275, NSS_FREQ_733, in MHz).
MCFreqTable == [i \in 0 .. 2 |-> CASE i = 0 -> 110 [] i = 1 -> 275 [] OTHER -> 733]

\* A table frequency, and NSS_FREQ_600, which this table does not have.
MCWriteValues == {733, 600}
====
