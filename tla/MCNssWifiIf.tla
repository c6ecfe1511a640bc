----------------------------- MODULE MCNssWifiIf -----------------------------
(***************************************************************************)
(* Model values and bounds for NssWifiIf.                                  *)
(***************************************************************************)
EXTENDS NssWifiIf

CONSTANTS t1, t2

\* One WLAN thread (one vap), or two creating interfaces at once.
MCOneThread == {t1}
MCTwoThreads == {t1, t2}

\* wifi only allocates NSS_DYNAMIC_INTERFACE_TYPE_WIFI, always valid.
MCTypes == {WIFI}
MCBadTypes == {}

\* Two dynamic if_nums: two handles can be live at once.
MCDynIfStart == 8
MCSpecialIfStart == 10
MCBadIfNums == {}

\* `di.response = false' stores NSS_CMN_RESPONSE_ACK.
MCResponseReset == ACK
====
