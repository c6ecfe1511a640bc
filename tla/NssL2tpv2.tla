------------------------------- MODULE NssL2tpv2 -------------------------------
(***************************************************************************)
(* The L2TPv2 subsystem (nss_l2tpv2.c).                                    *)
(*                                                                         *)
(* Each L2TP session holds a dynamic node (allocated from the dynamic     *)
(* interface manager before registration, abstracted here: SessIf gives   *)
(* its if_num).  nss_register_l2tpv2_if() records the session's netdev in *)
(* subsys_dp_register[], makes the session's event callback the one       *)
(* global l2tpv2_msg_callback, registers nss_l2tpv2_handler for the node  *)
(* and takes the first free debug-stats slot; nss_unregister_l2tpv2_if()  *)
(* undoes all four, clearing the global callback whoever set it.          *)
(* nss_l2tpv2_tx() is asynchronous: the answer comes back through the     *)
(* handler to the cb the message carries.  nss_l2tpv2_handler() runs in   *)
(* NAPI for messages to a registered session node and to the static       *)
(* NSS_L2TPV2_INTERFACE, whose handler is registered at init.             *)
(*                                                                         *)
(* The handler table, subsys_dp_register[], the rings, the core state and *)
(* the record of callback invocations are shared with the core and the    *)
(* other subsystems: NssTunnels composes them.  Counter values and the    *)
(* message bodies are left out; a message is [interface, type, response, *)
(* cb] and a debug-stats slot [valid, ifnum, stats].                       *)
(***************************************************************************)
EXTENDS Integers, Sequences, FiniteSets, NssRing, TLC

CONSTANTS
    Sessions,                  \* L2TP sessions, each with its own netdev
    SessIf,                    \* the dynamic if_num each session holds
    DynIfStart, SpecialIfStart,
    NSS_L2TPV2_INTERFACE,      \* the static interface (not dynamic)
    NSS_L2TPV2_MSG_SYNC_STATS,
    NSS_L2TPV2_MSG_MAX,
    L2tpTxTypes,               \* message types callers pass to nss_l2tpv2_tx()
    NSlots,                    \* NSS_MAX_L2TPV2_DYNAMIC_INTERFACES
    NONE, NULL, NOTIFY,
    CORE_INITIALIZED,          \* NSS_CORE_STATE_INITIALIZED
    CmdQueueSize,
    AllocFailures,             \* may dev_alloc_skb() fail?
    MaxSessionOps              \* register and tx calls per session (bound)

DynIfs == DynIfStart .. (SpecialIfStart - 1)
Slots == 1 .. NSlots

VARIABLES
    dp,          \* subsys_dp_register[if_num].ndev: whose netdev, or NULL
    handlers,    \* the core's handler table: if_num -> subsystem or NONE
    h2n, n2h,    \* the command queue and the N2H ring
    coreState,   \* nss_ctx->state
    calls,       \* callback invocations, in order: [cb, ctx, interface, notify]
    l2tpv2_msg_callback,   \* nss_top_main.l2tpv2_msg_callback: whose, or NULL
    slots,       \* nss_l2tpv2_session_debug_stats[]
    spc,         \* each session: "idle" or "registered"
    sops         \* register and tx calls each session made

l2tpVars == <<l2tpv2_msg_callback, slots, spc, sops>>

\* A zeroed struct nss_stats_l2tpv2_session_debug (counters abstracted to
\* whether any were added).
FreeSlot == [valid |-> FALSE, ifnum |-> 0, stats |-> FALSE]

\* nss_l2tpv2_register_handler() at init: the static interface's entry.
nss_l2tpv2_register_handler == NSS_L2TPV2_INTERFACE :> "l2tpv2"

\* The static debug-stats array starts zeroed; no session is registered.
Init ==
    /\ l2tpv2_msg_callback = NULL
    /\ slots = [i \in Slots |-> FreeSlot]
    /\ spc = [s \in Sessions |-> "idle"]
    /\ sops = [s \in Sessions |-> 0]

FirstOf(S) == CHOOSE i \in S : \A j \in S : i <= j

\* register_if, under the stats lock: the first slot that is not valid;
\* with none free the session silently gets no debug stats.
TakeSlot(n) ==
    LET free == {i \in Slots : ~slots[i].valid}
    IN IF free = {} THEN slots
       ELSE [slots EXCEPT ![FirstOf(free)] = [@ EXCEPT !.valid = TRUE, !.ifnum = n]]

ClearFirstValidSlot(n) ==
    LET used == {i \in Slots : slots[i].valid}
    IN IF used = {} THEN slots ELSE [slots EXCEPT ![FirstOf(used)] = FreeSlot]

\* unregister_if memsets the first slot whose if_num matches, valid or not.
ClearSlot(n) ==
    LET mine == {i \in Slots : slots[i].ifnum = n}
    IN IF mine = {} THEN slots ELSE [slots EXCEPT ![FirstOf(mine)] = FreeSlot]

\* nss_l2tpv2_session_debug_stats_sync(): the counters are added to the
\* first slot whose if_num matches, valid or not.
DebugStatsSync(n) ==
    LET mine == {i \in Slots : slots[i].ifnum = n}
    IN IF mine = {} THEN slots ELSE [slots EXCEPT ![FirstOf(mine)].stats = TRUE]

(***************************************************************************)
(* nss_register_l2tpv2_if(): the netdev into subsys_dp_register[if_num],  *)
(* the event callback into the global, the handler into the table, and a *)
(* debug-stats slot.                                                       *)
(***************************************************************************)
nss_register_l2tpv2_if(s) ==
    /\ spc[s] = "idle"
    /\ sops[s] < MaxSessionOps
    /\ dp' = [dp EXCEPT ![SessIf[s]] = s]
    /\ l2tpv2_msg_callback' = s
    /\ handlers' = [handlers EXCEPT ![SessIf[s]] = "l2tpv2"]
    /\ slots' = TakeSlot(SessIf[s])
    /\ spc' = [spc EXCEPT ![s] = "registered"]
    /\ sops' = [sops EXCEPT ![s] = @ + 1]
    /\ UNCHANGED <<h2n, n2h, coreState, calls>>

(***************************************************************************)
(* nss_unregister_l2tpv2_if(): clears subsys_dp_register[if_num] and the  *)
(* global l2tpv2_msg_callback, unregisters the handler and memsets the    *)
(* session's debug-stats slot.                                             *)
(***************************************************************************)
nss_unregister_l2tpv2_if(s) ==
    /\ spc[s] = "registered"
    /\ dp' = [dp EXCEPT ![SessIf[s]] = NULL]
    /\ l2tpv2_msg_callback' = NULL
    /\ handlers' = [handlers EXCEPT ![SessIf[s]] = NONE]
    /\ slots' = ClearSlot(SessIf[s])
    /\ spc' = [spc EXCEPT ![s] = "idle"]
    /\ UNCHANGED <<h2n, n2h, coreState, calls, sops>>

(***************************************************************************)
(* nss_l2tpv2_tx(msg) by a registered session, with an if_num, a type and *)
(* its own cb or none.  Refused before any side effect when the core is   *)
(* not initialised (NOT_READY), the interface is not dynamic, or          *)
(* type > NSS_L2TPV2_MSG_MAX; dev_alloc_skb() may fail; a full command    *)
(* queue is marked stopped (TX_FAILURE_QUEUE); otherwise the message is   *)
(* queued.  The caller goes on without waiting.                            *)
(***************************************************************************)
TxRefused(i, t) ==
    \/ coreState # CORE_INITIALIZED
    \/ i \notin DynIfs
    \/ t > NSS_L2TPV2_MSG_MAX

nss_l2tpv2_tx(s) ==
    /\ spc[s] = "registered"
    /\ sops[s] < MaxSessionOps
    /\ sops' = [sops EXCEPT ![s] = @ + 1]
    /\ \E i \in {SessIf[s], NSS_L2TPV2_INTERFACE}, t \in L2tpTxTypes, cb \in {s, NULL} :
          \/ TxRefused(i, t) /\ UNCHANGED h2n
          \/ ~TxRefused(i, t) /\ AllocFailures /\ UNCHANGED h2n
          \/ /\ ~TxRefused(i, t) /\ RingFull(h2n, CmdQueueSize)
             /\ h2n' = RingReject(h2n)
          \/ /\ ~TxRefused(i, t) /\ ~RingFull(h2n, CmdQueueSize)
             /\ h2n' = RingEnqueue(h2n, [interface |-> i, type |-> t,
                                         response |-> NONE, cb |-> cb])
    /\ UNCHANGED <<dp, handlers, n2h, coreState, calls, l2tpv2_msg_callback,
                   slots, spc>>

(***************************************************************************)
(* nss_l2tpv2_handler(m).  The BUG_ON() cannot fire: the core calls it    *)
(* only for interfaces it was registered for, all dynamic or the static   *)
(* one; the firmware's lengths are right.  A type >= NSS_L2TPV2_MSG_MAX   *)
(* is dropped.  A SYNC_STATS is accumulated into the session's slot.  A   *)
(* NOTIFY goes to the global l2tpv2_msg_callback, anything else to the cb *)
(* it carries; with no cb, or no netdev in subsys_dp_register[] for the   *)
(* interface ("before registration"), nothing is called; otherwise       *)
(* cb(ndev, msg).                                                          *)
(***************************************************************************)
nss_l2tpv2_handler(m) ==
    /\ \/ m.type >= NSS_L2TPV2_MSG_MAX /\ UNCHANGED <<slots, calls>>
       \/ /\ m.type < NSS_L2TPV2_MSG_MAX
          /\ slots' = IF m.type = NSS_L2TPV2_MSG_SYNC_STATS
                      THEN DebugStatsSync(m.interface) ELSE slots
          /\ LET cb  == IF m.response = NOTIFY THEN l2tpv2_msg_callback ELSE m.cb
                 ctx == dp[m.interface]
             IN calls' = IF cb # NULL /\ ctx # NULL
                         THEN Append(calls, [cb |-> cb, ctx |-> ctx, interface |-> m.interface,
                                             notify |-> m.response = NOTIFY])
                         ELSE calls
    /\ UNCHANGED <<dp, handlers, h2n, coreState, l2tpv2_msg_callback, spc, sops>>

\* The core's N2H drain calls the handler registered for the head's
\* interface: here, nss_l2tpv2_handler.
L2tpv2Dispatch ==
    /\ n2h.desc # << >>
    /\ handlers[RingHead(n2h).interface] = "l2tpv2"
    /\ n2h' = RingDequeue(n2h)
    /\ nss_l2tpv2_handler(RingHead(n2h))

Next ==
    \/ \E s \in Sessions :
          \/ nss_register_l2tpv2_if(s) \/ nss_unregister_l2tpv2_if(s)
          \/ nss_l2tpv2_tx(s)
    \/ L2tpv2Dispatch

=============================================================================
