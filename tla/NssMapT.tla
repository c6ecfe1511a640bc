------------------------------- MODULE NssMapT -------------------------------
(***************************************************************************)
(* The MAP-T subsystem (nss_map_t.c).                                      *)
(*                                                                         *)
(* MAP-T instances (their clients) each hold a dynamic node of type MAP_T. *)
(* nss_map_t_register_if() records the netdev in subsys_dp_register[],     *)
(* installs the instance's event callback as the one global                *)
(* map_t_msg_callback, registers nss_map_t_handler for the node and takes  *)
(* the first free debug-stats slot; nss_map_t_unregister_if() undoes it    *)
(* and clears the global callback.  nss_map_t_tx_sync() serialises         *)
(* requests on the one global nss_map_t_pvt: it saves the caller's cb and  *)
(* app_data there, sends the message with nss_map_t_callback as its cb,    *)
(* and waits 3 s on the one completion.  nss_map_t_handler() runs in NAPI  *)
(* for every message to a registered MAP-T interface, and for the static   *)
(* NSS_MAP_T_INTERFACE registered at init.                                 *)
(*                                                                         *)
(* The dynamic interface manager is abstracted to its slot table ditype:   *)
(* a client allocates and deallocates its node atomically (NssWifiIf      *)
(* composes the full manager).  Statistics values are left out: a stats   *)
(* message is a message, a debug-stats slot is [valid, if_num].            *)
(***************************************************************************)
EXTENDS Integers, Sequences, FiniteSets, NssRing

CONSTANTS
    Clients,             \* MAP-T instances, each with its own netdev
    DynIfStart, SpecialIfStart,
    NSS_MAP_T_INTERFACE, \* the static interface, outside the dynamic range
    NSlots,              \* NSS_MAX_MAP_T_DYNAMIC_INTERFACES
    MAP_T, NONE, NULL,
    ACK, NACK, NOTIFY,
    TX_SUCCESS, TX_FAILURE, TX_FAILURE_QUEUE, TX_FAILURE_NOT_READY,
    CORE_INITIALIZED, CORE_FW_DEAD,
    CmdQueueSize, N2HSize,
    AllocFailures,       \* may dev_alloc_skb() fail?
    TimeoutsEnabled,     \* may the 3 s wait expire?
    StaticStats,         \* does the firmware send on NSS_MAP_T_INTERFACE?
    MaxOps,              \* tx_sync calls per client (bound)
    MaxNotify,           \* stats messages the firmware sends (bound)
    CoreDeath            \* may the firmware die?

DynIfs == DynIfStart .. (SpecialIfStart - 1)
Slots == 1 .. NSlots

VARIABLES
    sem, done, response,  \* nss_map_t_pvt.sem, .complete, .response
    pvtCb,         \* nss_map_t_pvt.cb / .app_data: whose callback, or NULL
    eventCb,       \* nss_top_main.map_t_msg_callback: whose, or NULL
    dpApp,         \* subsys_dp_register[if_num].app_data (the netdev)
    handlers,      \* interfaces with nss_map_t_handler registered
    slots,         \* nss_map_t_debug_stats[]
    ditype,        \* di.type[] for the dynamic nodes
    h2n, n2h,      \* the command queue and the N2H ring
    cpc,           \* where each client is
    node,          \* the if_num each client holds, or -1
    ops,           \* tx_sync calls made
    status,        \* what the client's last tx_sync returned
    delivered,     \* the message each client's callback last received
    notes,         \* stats messages sent
    crashed,       \* BUG_ON() fired
    coreState      \* nss_ctx->state

vars == <<sem, done, response, pvtCb, eventCb, dpApp, handlers, slots, ditype,
          h2n, n2h, cpc, node, ops, status, delivered, notes, crashed, coreState>>

NoMsg == [from |-> NULL, call |-> 0, response |-> NONE]
\* A zeroed struct nss_stats_map_t_instance_debug (counters abstracted to
\* whether any were added).
FreeSlot == [valid |-> FALSE, ifnum |-> 0, stats |-> FALSE]

(***************************************************************************)
(* After nss_map_t_register_handler() at init: sema_init(sem, 1),          *)
(* init_completion(), the handler registered for NSS_MAP_T_INTERFACE; the  *)
(* static structures are zero.                                            *)
(***************************************************************************)
Init ==
    /\ sem = 1 /\ done = 0 /\ response = TX_SUCCESS
    /\ pvtCb = NULL /\ eventCb = NULL
    /\ dpApp = [n \in DynIfs |-> NULL]
    /\ handlers = {NSS_MAP_T_INTERFACE}
    /\ slots = [i \in Slots |-> FreeSlot]
    /\ ditype = [n \in DynIfs |-> NONE]
    /\ h2n = EmptyRing /\ n2h = EmptyRing
    /\ cpc = [c \in Clients |-> "idle"]
    /\ node = [c \in Clients |-> -1]
    /\ ops = [c \in Clients |-> 0]
    /\ status = [c \in Clients |-> TX_SUCCESS]
    /\ delivered = [c \in Clients |-> NoMsg]
    /\ notes = 0
    /\ crashed = FALSE
    /\ coreState = CORE_INITIALIZED

\* nss_map_t_verify_if_num(): a dynamic interface whose di.type is MAP_T.
nss_map_t_verify_if_num(i) == i \in DynIfs /\ ditype[i] = MAP_T

\* The client's node, allocated from the dynamic interface manager
\* (abstracted: nss_dynamic_interface_alloc_node(MAP_T) succeeding).
AllocNode(c) ==
    /\ cpc[c] = "idle"
    /\ \E n \in DynIfs :
          /\ ditype[n] = NONE
          /\ ditype' = [ditype EXCEPT ![n] = MAP_T]
          /\ node' = [node EXCEPT ![c] = n]
    /\ cpc' = [cpc EXCEPT ![c] = "allocated"]
    /\ UNCHANGED <<sem, done, response, pvtCb, eventCb, dpApp, handlers, slots,
                   h2n, n2h, ops, status, delivered, notes, crashed, coreState>>

\* nss_dynamic_interface_dealloc_node(if_num, MAP_T) succeeding.
DeallocNode(c) ==
    /\ cpc[c] = "allocated"
    /\ ditype' = [ditype EXCEPT ![node[c]] = NONE]
    /\ node' = [node EXCEPT ![c] = -1]
    /\ cpc' = [cpc EXCEPT ![c] = "idle"]
    /\ UNCHANGED <<sem, done, response, pvtCb, eventCb, dpApp, handlers, slots,
                   h2n, n2h, ops, status, delivered, notes, crashed, coreState>>

\* register_if takes the first slot that is not valid; with none free the
\* instance silently gets no debug stats.
TakeSlot(n) ==
    LET free == {i \in Slots : ~slots[i].valid}
    IN IF free = {} THEN slots
       ELSE [slots EXCEPT ![CHOOSE i \in free : \A j \in free : i <= j] =
                 [@ EXCEPT !.valid = TRUE, !.ifnum = n]]

ClearFirstValidSlot(n) ==
    LET used == {i \in Slots : slots[i].valid}
    IN IF used = {} THEN slots
       ELSE [slots EXCEPT ![CHOOSE i \in used : \A j \in used : i <= j] = FreeSlot]

\* unregister_if memsets the first slot whose if_num matches, valid or not.
ClearSlot(n) ==
    LET mine == {i \in Slots : slots[i].ifnum = n}
    IN IF mine = {} THEN slots
       ELSE [slots EXCEPT ![CHOOSE i \in mine : \A j \in mine : i <= j] = FreeSlot]

(***************************************************************************)
(* nss_map_t_register_if(): subsys_dp_register[if_num] gets the netdev,   *)
(* the instance's event callback becomes the global map_t_msg_callback,   *)
(* nss_map_t_handler is registered for if_num and a debug-stats slot is   *)
(* taken under nss_map_t_debug_stats_lock.                                 *)
(***************************************************************************)
nss_map_t_register_if(c) ==
    /\ cpc[c] = "allocated"
    /\ LET n == node[c] IN
       /\ dpApp' = [dpApp EXCEPT ![n] = c]
       /\ eventCb' = c
       /\ handlers' = handlers \cup {n}
       /\ slots' = TakeSlot(n)
    /\ cpc' = [cpc EXCEPT ![c] = "registered"]
    /\ UNCHANGED <<sem, done, response, pvtCb, ditype, h2n, n2h, node, ops,
                   status, delivered, notes, crashed, coreState>>

(***************************************************************************)
(* nss_map_t_unregister_if(): clears subsys_dp_register[if_num], clears   *)
(* the global map_t_msg_callback, unregisters the handler and memsets the *)
(* instance's debug-stats slot.                                            *)
(***************************************************************************)
nss_map_t_unregister_if(c) ==
    /\ cpc[c] = "registered"
    /\ LET n == node[c] IN
       /\ dpApp' = [dpApp EXCEPT ![n] = NULL]
       /\ eventCb' = NULL
       /\ handlers' = handlers \ {n}
       /\ slots' = ClearSlot(n)
    /\ cpc' = [cpc EXCEPT ![c] = "allocated"]
    /\ UNCHANGED <<sem, done, response, pvtCb, ditype, h2n, n2h, node, ops,
                   status, delivered, notes, crashed, coreState>>

-----------------------------------------------------------------------------
(* nss_map_t_tx_sync *)

\* The client calls nss_map_t_tx_sync() with its own callback, or none.
SyncBegin(c) ==
    /\ cpc[c] = "registered"
    /\ ops[c] < MaxOps
    /\ ops' = [ops EXCEPT ![c] = @ + 1]
    /\ delivered' = [delivered EXCEPT ![c] = NoMsg]
    /\ cpc' = [cpc EXCEPT ![c] = "down"]
    /\ UNCHANGED <<sem, done, response, pvtCb, eventCb, dpApp, handlers, slots,
                   ditype, h2n, n2h, node, status, notes, crashed, coreState>>

SemTakeUnguarded == sem' = 0

\* down(&nss_map_t_pvt.sem): take it, sleeping while it is held.
SemTake == sem = 1 /\ sem' = 0

\* down(); the caller's cb and app_data are saved in the global pvt and
\* the message goes out with nss_map_t_callback.
SyncDown(c) ==
    /\ cpc[c] = "down"
    /\ SemTake
    /\ \E cb \in {c, NULL} : pvtCb' = cb
    /\ cpc' = [cpc EXCEPT ![c] = "tx"]
    /\ UNCHANGED <<done, response, eventCb, dpApp, handlers, slots, ditype,
                   h2n, n2h, node, ops, status, delivered, notes, crashed, coreState>>

SyncTxFailedWithoutUp(c, st) ==
    /\ status' = [status EXCEPT ![c] = st]
    /\ cpc' = [cpc EXCEPT ![c] = "registered"]
    /\ UNCHANGED sem

\* tx_sync returns st: up(&nss_map_t_pvt.sem).  pvt.cb keeps the saved cb.
SyncTxFailed(c, st) ==
    /\ status' = [status EXCEPT ![c] = st]
    /\ cpc' = [cpc EXCEPT ![c] = "registered"]
    /\ sem' = 1

SyncMsg(c) == [interface |-> node[c], kind |-> "sync", from |-> c, call |-> ops[c]]

(***************************************************************************)
(* nss_map_t_tx() as tx_sync calls it: NSS_TX_FAILURE_NOT_READY when the  *)
(* core is not initialised; the interface (the client's own dynamic node)  *)
(* and the type and length (the client's) pass their checks;              *)
(* dev_alloc_skb() may fail (NSS_TX_FAILURE), nss_core_send_buffer() may  *)
(* find the command queue full (NSS_TX_FAILURE_QUEUE); otherwise the      *)
(* message is queued and the caller waits on nss_map_t_pvt.complete.       *)
(***************************************************************************)
SyncTx(c) ==
    /\ cpc[c] = "tx"
    /\ \/ /\ coreState # CORE_INITIALIZED
          /\ SyncTxFailed(c, TX_FAILURE_NOT_READY) /\ UNCHANGED h2n
       \/ /\ coreState = CORE_INITIALIZED /\ AllocFailures
          /\ SyncTxFailed(c, TX_FAILURE) /\ UNCHANGED h2n
       \/ /\ coreState = CORE_INITIALIZED /\ RingFull(h2n, CmdQueueSize)
          /\ h2n' = RingReject(h2n)
          /\ SyncTxFailed(c, TX_FAILURE_QUEUE)
       \/ /\ coreState = CORE_INITIALIZED /\ ~RingFull(h2n, CmdQueueSize)
          /\ h2n' = RingEnqueue(h2n, SyncMsg(c))
          /\ cpc' = [cpc EXCEPT ![c] = "wait"]
          /\ UNCHANGED <<sem, status>>
    /\ UNCHANGED <<done, response, pvtCb, eventCb, dpApp, handlers, slots, ditype,
                   n2h, node, ops, delivered, notes, crashed, coreState>>

ConsumeCompletionUnguarded == done' = done - 1

\* wait_for_completion_timeout() returns with a completion.
ConsumeCompletion == done > 0 /\ done' = done - 1

\* Woken: status = nss_map_t_pvt.response; up().
SyncWakeUp(c) ==
    /\ cpc[c] = "wait"
    /\ ConsumeCompletion
    /\ SyncTxFailed(c, response)
    /\ UNCHANGED <<response, pvtCb, eventCb, dpApp, handlers, slots, ditype, h2n,
                   n2h, node, ops, delivered, notes, crashed, coreState>>

\* Timed out: nss_map_t_pvt.response = NSS_TX_FAILURE; status = it; up().
SyncTimeout(c) ==
    /\ cpc[c] = "wait"
    /\ TimeoutsEnabled
    /\ done = 0
    /\ response' = TX_FAILURE
    /\ SyncTxFailed(c, TX_FAILURE)
    /\ UNCHANGED <<done, pvtCb, eventCb, dpApp, handlers, slots, ditype, h2n,
                   n2h, node, ops, delivered, notes, crashed, coreState>>

-----------------------------------------------------------------------------
(* The firmware (environment) and NAPI *)

Answer(m, r) == [interface |-> m.interface, kind |-> "sync", response |-> r,
                 from |-> m.from, call |-> m.call]
StatsMsg(i) == [interface |-> i, kind |-> "stats", response |-> NOTIFY,
                from |-> NULL, call |-> 0]

\* The firmware answers the oldest command, ACK or NACK.
FirmwareAnswer ==
    /\ coreState = CORE_INITIALIZED
    /\ h2n.desc # << >>
    /\ ~RingFull(n2h, N2HSize)
    /\ LET m == RingHead(h2n) IN
       \E r \in {ACK, NACK} : n2h' = RingEnqueue(n2h, Answer(m, r))
    /\ h2n' = RingDequeue(h2n)
    /\ UNCHANGED <<sem, done, response, pvtCb, eventCb, dpApp, handlers, slots,
                   ditype, cpc, node, ops, status, delivered, notes, crashed, coreState>>

\* NSS_MAP_T_MSG_SYNC_STATS, response NOTIFY, for a MAP-T node, or (when
\* StaticStats) for the static NSS_MAP_T_INTERFACE.
FirmwareNotify ==
    /\ coreState = CORE_INITIALIZED
    /\ notes < MaxNotify
    /\ ~RingFull(n2h, N2HSize)
    /\ \E i \in {n \in DynIfs : ditype[n] = MAP_T}
                \cup (IF StaticStats THEN {NSS_MAP_T_INTERFACE} ELSE {}) :
          n2h' = RingEnqueue(n2h, StatsMsg(i))
    /\ notes' = notes + 1
    /\ UNCHANGED <<sem, done, response, pvtCb, eventCb, dpApp, handlers, slots,
                   ditype, h2n, cpc, node, ops, status, delivered, crashed, coreState>>

\* The firmware dies: the context state leaves Initialized for good.  What
\* it had not answered stays unanswered; what is on N2H is still drained.
FirmwareDies ==
    /\ CoreDeath
    /\ coreState = CORE_INITIALIZED
    /\ coreState' = CORE_FW_DEAD
    /\ UNCHANGED <<sem, done, response, pvtCb, eventCb, dpApp, handlers, slots,
                   ditype, h2n, n2h, cpc, node, ops, status, delivered, notes, crashed>>

\* With no handler registered for the interface the core drops the message.
CoreDropsUnregistered ==
    /\ n2h.desc # << >>
    /\ RingHead(n2h).interface \notin handlers
    /\ n2h' = RingDequeue(n2h)
    /\ UNCHANGED <<sem, done, response, pvtCb, eventCb, dpApp, handlers, slots,
                   ditype, h2n, cpc, node, ops, status, delivered, notes,
                   crashed, coreState>>

RawResponse(m) == m.response

\* nss_map_t_callback(): ACK becomes NSS_TX_SUCCESS, anything else
\* NSS_TX_FAILURE.
CallbackResponse(m) == IF m.response = ACK THEN TX_SUCCESS ELSE TX_FAILURE

(***************************************************************************)
(* nss_map_t_handler() for the oldest N2H message.  BUG_ON() unless the    *)
(* interface is a dynamic MAP-T node.  A stats sync is accumulated into   *)
(* the debug-stats slot (values left out) and, being a NOTIFY, goes to    *)
(* the global map_t_msg_callback, or nowhere when that is NULL.  A        *)
(* tx_sync answer runs nss_map_t_callback(): it takes and clears the      *)
(* saved cb, sets pvt.response, calls the saved cb and complete()s.       *)
(***************************************************************************)
\* nss_map_t_instance_debug_stats_sync(): the counters are added to the first
\* slot whose if_num matches, valid or not (values left out: the slot records
\* that it holds counts).
DebugStatsSync(n) ==
    LET mine == {i \in Slots : slots[i].ifnum = n}
    IN IF mine = {} THEN slots
       ELSE [slots EXCEPT ![CHOOSE i \in mine : \A j \in mine : i <= j].stats = TRUE]

nss_map_t_handler ==
    /\ n2h.desc # << >>
    /\ RingHead(n2h).interface \in handlers
    /\ n2h' = RingDequeue(n2h)
    /\ LET m == RingHead(n2h) IN
       \/ /\ ~nss_map_t_verify_if_num(m.interface)
          /\ crashed' = TRUE
          /\ UNCHANGED <<done, response, pvtCb, delivered, slots>>
       \/ /\ nss_map_t_verify_if_num(m.interface)
          /\ m.kind = "stats"
          /\ slots' = DebugStatsSync(m.interface)
          /\ UNCHANGED <<done, response, pvtCb, delivered, crashed, coreState>>
       \/ /\ nss_map_t_verify_if_num(m.interface)
          /\ m.kind = "sync"
          /\ pvtCb' = NULL
          /\ response' = CallbackResponse(m)
          /\ delivered' = IF pvtCb # NULL
                          THEN [delivered EXCEPT ![pvtCb] = m] ELSE delivered
          /\ done' = done + 1
          /\ UNCHANGED <<crashed, slots>>
    /\ UNCHANGED <<sem, eventCb, dpApp, handlers, ditype, h2n, cpc, node,
                   ops, status, notes, coreState>>

Next ==
    \/ \E c \in Clients :
          \/ AllocNode(c) \/ DeallocNode(c)
          \/ nss_map_t_register_if(c) \/ nss_map_t_unregister_if(c)
          \/ SyncBegin(c) \/ SyncDown(c) \/ SyncTx(c)
          \/ SyncWakeUp(c) \/ SyncTimeout(c)
    \/ FirmwareAnswer \/ FirmwareNotify \/ FirmwareDies
    \/ CoreDropsUnregistered \/ nss_map_t_handler

(***************************************************************************)
(* Fairness: a client inside tx_sync keeps running and its down() is      *)
(* strongly fair (FIFO semaphore); the firmware answers and NAPI drains:  *)
(* it dispatches the head of N2H whether or not a handler is registered    *)
(* for its interface, so the fairness is on the dispatch as a whole.       *)
(* Clients choose when to allocate, register, send and unregister.        *)
(***************************************************************************)
Fairness ==
    /\ \A c \in Clients :
          /\ SF_vars(SyncDown(c))
          /\ WF_vars(SyncTx(c)) /\ WF_vars(SyncWakeUp(c)) /\ WF_vars(SyncTimeout(c))
    /\ WF_vars(FirmwareAnswer)
    /\ WF_vars(CoreDropsUnregistered \/ nss_map_t_handler)

Spec == Init /\ [][Next]_vars /\ Fairness

-----------------------------------------------------------------------------
(* Properties *)

Msg == [interface : DynIfs \cup {NSS_MAP_T_INTERFACE}, kind : {"sync", "stats"},
        response : {ACK, NACK, NOTIFY}, from : Clients \cup {NULL}, call : Nat]

MapTTypeOK ==
    /\ sem \in {0, 1} /\ done \in Nat
    /\ response \in {TX_SUCCESS, TX_FAILURE}
    /\ pvtCb \in Clients \cup {NULL} /\ eventCb \in Clients \cup {NULL}
    /\ slots \in [Slots -> [valid : BOOLEAN, ifnum : DynIfs \cup {0}, stats : BOOLEAN]]
    /\ \A k \in 1 .. Len(n2h.desc) : n2h.desc[k] \in Msg
    /\ status \in [Clients -> {TX_SUCCESS, TX_FAILURE, TX_FAILURE_QUEUE, TX_FAILURE_NOT_READY}]
    /\ coreState \in {CORE_INITIALIZED, CORE_FW_DEAD}

(***************************************************************************)
(* The callback a caller passes to nss_map_t_tx_sync() receives the       *)
(* answer to that caller's own message of that call, and no other: the    *)
(* cb saved in the one global nss_map_t_pvt belongs to whoever holds the  *)
(* semaphore when an answer is handled.                                    *)
(***************************************************************************)
CallbackGetsOwnAnswer ==
    \A c \in Clients :
        delivered[c] # NoMsg => delivered[c].from = c /\ delivered[c].call = ops[c]

(***************************************************************************)
(* Each registered MAP-T interface has exactly one valid debug-stats slot *)
(* and an unregistered one has none (spec §4.6: a per-instance table);    *)
(* the counts debug_stats_sync() accumulates only ever sit in the valid    *)
(* slot of a registered instance, never in one a later instance reuses.   *)
(***************************************************************************)
DebugStatsTrackRegistrations ==
    /\ \A n \in DynIfs :
          Cardinality({i \in Slots : slots[i].valid /\ slots[i].ifnum = n})
              = IF n \in handlers THEN 1 ELSE 0
    /\ \A i \in Slots : slots[i].stats => slots[i].valid /\ slots[i].ifnum \in handlers

\* Every nss_map_t_tx_sync() call returns to its caller.
EverySyncReturns ==
    \A c \in Clients : cpc[c] \in {"down", "tx", "wait"} ~> cpc[c] = "registered"

(***************************************************************************)
(* nss_map_t_tx_sync() implements the synchronous request adapter of      *)
(* spec.md §4.4 (module SyncRequest): a client between down() and the     *)
(* send is Armed, one asleep on nss_map_t_pvt.complete is Waiting, any    *)
(* other (registered, queued on down()) Idle.  nss_map_t_pvt.sem admits    *)
(* one tx_sync at a time and every way out goes back through Idle.        *)
(***************************************************************************)
AdapterState(c) == CASE cpc[c] = "tx"   -> "armed"
                     [] cpc[c] = "wait" -> "waiting"
                     [] OTHER           -> "idle"

SR == INSTANCE SyncRequest WITH Callers <- Clients,
                                st <- [c \in Clients |-> AdapterState(c)]

TxSyncImplementsSyncRequest == SR!SafetySpec

=============================================================================
