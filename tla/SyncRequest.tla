----------------------------- MODULE SyncRequest -----------------------------
(***************************************************************************)
(* What a synchronous request adapter promises (spec.md §4.4), apart from *)
(* any one subsystem.  Each caller goes Idle -> Armed -> Waiting -> Idle, *)
(* or Armed -> Idle when the send fails (or there is nothing to send).    *)
(* The gate admits one caller at a time: nobody else is Armed or Waiting *)
(* while a caller is.  A waiter is released by its completion or by the  *)
(* timeout, which this level does not tell apart.                         *)
(*                                                                         *)
(* The adapters of nss_dynamic_interface.c (di.sem), nss_map_t.c          *)
(* (nss_map_t_pvt.sem) and nss_ipv6.c (i6cfgp.sem) are each shown to      *)
(* implement this specification through a refinement mapping of their    *)
(* callers' program counters.                                             *)
(***************************************************************************)
CONSTANT Callers

VARIABLE st     \* each caller: "idle", "armed" or "waiting"

Busy(c) == st[c] \in {"armed", "waiting"}

\* Take the gate; no other caller holds it.
Arm(c) ==
    /\ st[c] = "idle"
    /\ \A d \in Callers : ~Busy(d)
    /\ st' = [st EXCEPT ![c] = "armed"]

\* The send failed synchronously: release the gate, no wait.
Disarm(c) ==
    /\ st[c] = "armed"
    /\ st' = [st EXCEPT ![c] = "idle"]

\* The request went out: block on the completion.
Send(c) ==
    /\ st[c] = "armed"
    /\ st' = [st EXCEPT ![c] = "waiting"]

\* Completed or timed out: release the gate and return.
Release(c) ==
    /\ st[c] = "waiting"
    /\ st' = [st EXCEPT ![c] = "idle"]

Init == st = [c \in Callers |-> "idle"]

Next == \E c \in Callers : Arm(c) \/ Disarm(c) \/ Send(c) \/ Release(c)

\* The steps alone: what an implementation checks when its own liveness
\* (every call returns) is stated over its own program counters.
SafetySpec == Init /\ [][Next]_st

\* An armed caller gets its send done or abandoned, and a waiter is released
\* (the wait is bounded by a timeout); taking the gate is the caller's choice.
Spec ==
    /\ Init /\ [][Next]_st
    /\ \A c \in Callers : WF_st(Disarm(c) \/ Send(c)) /\ WF_st(Release(c))

=============================================================================
