------------------------ MODULE MCNssDynamicInterface ------------------------
(***************************************************************************)
(* Model values and bounds for NssDynamicInterface.                        *)
(***************************************************************************)
EXTENDS NssDynamicInterface

CONSTANTS t1, t2, WIFI, TYPE_MAX

\* One calling thread, or two contending for di.sem.
MCOneThread == {t1}
MCTwoThreads == {t1, t2}

\* A single valid type keeps the node table small; TYPE_MAX is the first
\* out-of-range type argument.
MCTypes == {WIFI}
MCBadTypes == {TYPE_MAX}

\* Two dynamic if_nums, so that a second allocation still finds a free
\* node and a third finds none; 10 is the first if_num past the range.
MCDynIfStart == 8
MCSpecialIfStart == 10
MCBadIfNums == {MCSpecialIfStart}

\* Callers that only pass valid arguments: the early returns are covered
\* by the one-thread runs, the two-thread runs look at the contention.
MCNoBadTypes == {}
MCNoBadIfNums == {}

\* NSS_CMN_RESPONSE_ACK is the first value of enum nss_cmn_response, so
\* `di.response = false' stores ACK.
MCResponseReset == ACK
====
