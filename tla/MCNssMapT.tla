------------------------------- MODULE MCNssMapT -------------------------------
(***************************************************************************)
(* Model values and bounds for NssMapT.                                    *)
(***************************************************************************)
EXTENDS NssMapT

CONSTANTS c1, c2

\* One MAP-T instance, or two sharing the global pvt and event callback.
MCOneClient == {c1}
MCTwoClients == {c1, c2}

\* Two dynamic if_nums; the static NSS_MAP_T_INTERFACE is a model value.
MCDynIfStart == 8
MCSpecialIfStart == 10
====
