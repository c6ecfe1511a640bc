------------------------------- MODULE NssWifiIf -------------------------------
(***************************************************************************)
(* The wifi redirect interface (nss_wifi_if.c) composed with the dynamic   *)
(* interface manager it allocates its node from.                           *)
(*                                                                         *)
(* A WLAN thread calls nss_wifi_if_create(): handle_create() allocates a   *)
(* WIFI node through nss_dynamic_interface_alloc_node(), kzallocs the      *)
(* handle and its pvt and publishes it in wifi_handle[] under             *)
(* wifi_if_lock; register_handler() registers nss_wifi_if_msg_handler for *)
(* the node and initialises the handle's semaphore and completion; a      *)
(* CREATE message is sent with tx_msg_sync().  On any failure              *)
(* handle_destroy() unpublishes the handle and deallocates the node.       *)
(* nss_wifi_if_destroy() drops the netdev reference and calls              *)
(* handle_destroy().                                                       *)
(*                                                                         *)
(* NAPI runs nss_wifi_if_msg_handler() for N2H messages addressed to the   *)
(* node: it looks the handle up under wifi_if_lock, drops the lock, then   *)
(* uses the handle.  nss_wifi_if_copy_stats() (the stats file) does the    *)
(* same from process context.  Both are split at the unlock.               *)
(*                                                                         *)
(* Commands, CREATE messages and redirected packets share H2N queue 1     *)
(* (NSS_IF_CMD_QUEUE = NSS_IF_DATA_QUEUE_0 in nss_core.h).                 *)
(***************************************************************************)
EXTENDS Integers, Sequences, FiniteSets, NssRing

CONSTANTS
    Threads, Types, BadTypes, NONE, DynIfStart, SpecialIfStart, BadIfNums,
    ACK, NACK, ResponseReset, CmdQueueSize, N2HSize, MaxCalls,
    TimeoutsEnabled, TX_SUCCESS, TX_FAILURE, BAD_PARAM,
    NSS_DYNAMIC_INTERFACE, AllocFailures,
    TX_FAILURE_NOT_READY, CORE_INITIALIZED, CORE_FW_DEAD, CoreDeath,
    WIFI,                 \* NSS_DYNAMIC_INTERFACE_TYPE_WIFI, one of Types
    NOTIFY,               \* NSS_CMM_RESPONSE_NOTIFY
    NULL,
    MaxCreates,           \* nss_wifi_if_create calls per thread (bound)
    MaxNotify,            \* unsolicited stats messages the firmware sends (bound)
    WifiTimeoutsEnabled,  \* may the 3 s wait of tx_msg_sync expire?
    MaxQueueFull          \* tx_q_full_cnt events counted on queue 1 (bound)

VARIABLES
    \* the dynamic interface manager, the rings and the firmware node table
    sem, done, response, current_if_num, type, h2n, n2h, fwType,
    pc, op, arg, result, calls, owned, reply, woke, coreState,
    wifi_handle,   \* wifi_handle[]: if_num -> handle or NULL
    hstate,        \* each handle: "unused", "live" (allocated) or "freed"
    hif,           \* handle->if_num
    hsem,          \* handle->pvt->sem
    hdone,         \* handle->pvt->complete.done
    hresp,         \* handle->pvt->response
    registered,    \* if_nums with nss_wifi_if_msg_handler registered
    ndev,          \* subsys_dp_register[if_num].ndev
    refcnt,        \* references taken with dev_hold on each thread's netdev
    wpc,           \* where each WLAN thread is
    wh,            \* the handle a thread is creating, holds or destroys
    creates,       \* nss_wifi_if_create calls made
    napi,          \* msg_handler between unlock and use
    reader,        \* copy_stats between unlock and use: the handle, or NULL
    notes          \* stats messages sent by the firmware

diVars == <<sem, done, response, current_if_num, type, h2n, n2h, fwType,
            pc, op, arg, result, calls, owned, reply, woke, coreState>>
wifiVars == <<wifi_handle, hstate, hif, hsem, hdone, hresp, registered, ndev,
              refcnt, wpc, wh, creates, napi, reader, notes>>
vars == <<diVars, wifiVars>>

DI == INSTANCE NssDynamicInterface

DynIfs == DI!DynIfs
\* A thread's k-th nss_wifi_if_create allocates handle <<t, k>>; each
\* thread stands for one WLAN vap and its net_device.
Handles == Threads \X (1 .. MaxCreates)
NapiIdle == [phase |-> "idle"]

Init ==
    /\ DI!Init
    /\ wifi_handle = [n \in DynIfs |-> NULL]
    /\ hstate = [h \in Handles |-> "unused"]
    /\ hif = [h \in Handles |-> -1]
    /\ hsem = [h \in Handles |-> 0]
    /\ hdone = [h \in Handles |-> 0]
    /\ hresp = [h \in Handles |-> TX_SUCCESS]
    /\ registered = {}
    /\ ndev = [n \in DynIfs |-> NULL]
    /\ refcnt = [t \in Threads |-> 0]
    /\ wpc = [t \in Threads |-> "idle"]
    /\ wh = [t \in Threads |-> NULL]
    /\ creates = [t \in Threads |-> 0]
    /\ napi = NapiIdle
    /\ reader = NULL
    /\ notes = 0

\* The wifi variables a thread's own step leaves alone.
ThreadFrame == <<registered, napi, reader, notes>>

PublishHandleSkipped(r, h) == UNCHANGED wifi_handle

\* wifi_handle[index] = handle, under wifi_if_lock.
PublishHandle(r, h) == wifi_handle' = [wifi_handle EXCEPT ![r] = h]

UnpublishHandleSkipped(n) == UNCHANGED wifi_handle

\* wifi_handle[index] = NULL, under wifi_if_lock.
UnpublishHandle(n) == wifi_handle' = [wifi_handle EXCEPT ![n] = NULL]

ConsumeHandleCompletionUnguarded(h) == hdone' = [hdone EXCEPT ![h] = @ - 1]

\* wait_for_completion on the handle's completion consumes one done.
ConsumeHandleCompletion(h) == /\ hdone[h] > 0
                              /\ hdone' = [hdone EXCEPT ![h] = @ - 1]

(***************************************************************************)
(* nss_wifi_if_create(): NULL at once when the core is not initialised;    *)
(* otherwise handle_create() starts with                                   *)
(* nss_dynamic_interface_alloc_node(NSS_DYNAMIC_INTERFACE_TYPE_WIFI).      *)
(***************************************************************************)
nss_wifi_if_create(t) ==
    /\ wpc[t] = "idle"
    /\ creates[t] < MaxCreates
    /\ creates' = [creates EXCEPT ![t] = @ + 1]
    /\ \/ /\ coreState # CORE_INITIALIZED
          /\ UNCHANGED <<diVars, wh, wpc>>
       \/ /\ coreState = CORE_INITIALIZED
          /\ DI!nss_dynamic_interface_alloc_node(t, WIFI)
          /\ wh' = [wh EXCEPT ![t] = <<t, creates[t] + 1>>]
          /\ wpc' = [wpc EXCEPT ![t] = "c_alloc"]
    /\ UNCHANGED <<wifi_handle, hstate, hif, hsem, hdone, hresp, ndev, refcnt,
                   ThreadFrame>>

(***************************************************************************)
(* nss_wifi_if_handle_create() once alloc_node has returned: a negative    *)
(* if_num fails the create; a failed kzalloc of the handle or of its pvt   *)
(* deallocates the node (error1/error2); otherwise the zeroed handle is    *)
(* published in wifi_handle[] under wifi_if_lock.                          *)
(***************************************************************************)
nss_wifi_if_handle_create(t) ==
    /\ wpc[t] = "c_alloc"
    /\ pc[t] = "idle"
    /\ LET r == result[t]
           h == wh[t]
       IN \/ /\ r \notin DynIfs
             /\ wpc' = [wpc EXCEPT ![t] = "idle"]
             /\ wh' = [wh EXCEPT ![t] = NULL]
             /\ UNCHANGED <<diVars, wifi_handle, hstate, hif, hsem, hdone, hresp>>
          \/ /\ r \in DynIfs
             /\ AllocFailures
             /\ DI!nss_dynamic_interface_dealloc_node(t, r, WIFI)
             /\ wpc' = [wpc EXCEPT ![t] = "c_rollback"]
             /\ UNCHANGED <<wifi_handle, hstate, hif, hsem, hdone, hresp, wh>>
          \/ /\ r \in DynIfs
             /\ hstate' = [hstate EXCEPT ![h] = "live"]
             /\ hif' = [hif EXCEPT ![h] = r]
             /\ hsem' = [hsem EXCEPT ![h] = 0]
             /\ hdone' = [hdone EXCEPT ![h] = 0]
             /\ hresp' = [hresp EXCEPT ![h] = TX_SUCCESS]
             /\ PublishHandle(r, h)
             /\ wpc' = [wpc EXCEPT ![t] = "c_register"]
             /\ UNCHANGED <<diVars, wh>>
    /\ UNCHANGED <<ndev, refcnt, creates, ThreadFrame>>

\* error1/error2 of handle_create: the dealloc_node has returned.
RollbackDone(t) ==
    /\ wpc[t] = "c_rollback"
    /\ pc[t] = "idle"
    /\ wpc' = [wpc EXCEPT ![t] = "idle"]
    /\ wh' = [wh EXCEPT ![t] = NULL]
    /\ UNCHANGED <<diVars, wifi_handle, hstate, hif, hsem, hdone, hresp, ndev,
                   refcnt, creates, ThreadFrame>>

(***************************************************************************)
(* nss_wifi_if_register_handler(): nss_core_register_handler(if_num,       *)
(* nss_wifi_if_msg_handler); the fresh pvt has sem_init_done = 0, so       *)
(* sema_init(&sem, 1) and init_completion().                               *)
(***************************************************************************)
InitHandleSyncWithoutSem(h) ==
    /\ hsem' = hsem
    /\ hdone' = [hdone EXCEPT ![h] = 0]

\* sema_init(&nwip->sem, 1) and init_completion(&nwip->complete) on the
\* freshly zeroed pvt.
InitHandleSync(h) ==
    /\ hsem' = [hsem EXCEPT ![h] = 1]
    /\ hdone' = [hdone EXCEPT ![h] = 0]

nss_wifi_if_register_handler(t) ==
    /\ wpc[t] = "c_register"
    /\ LET h == wh[t] IN
       /\ registered' = registered \cup {hif[h]}
       /\ InitHandleSync(h)
    /\ wpc' = [wpc EXCEPT ![t] = "c_down"]
    /\ UNCHANGED <<diVars, wifi_handle, hstate, hif, hresp, ndev, refcnt, wh,
                   creates, napi, reader, notes>>

\* nss_wifi_if_tx_msg_sync(): down(&nwip->sem).
CreateDown(t) ==
    /\ wpc[t] = "c_down"
    /\ hsem[wh[t]] = 1
    /\ hsem' = [hsem EXCEPT ![wh[t]] = 0]
    /\ wpc' = [wpc EXCEPT ![t] = "c_tx"]
    /\ UNCHANGED <<diVars, wifi_handle, hstate, hif, hdone, hresp, ndev, refcnt,
                   wh, creates, ThreadFrame>>

\* The CREATE message, its cb nss_wifi_if_callback and app_data the handle.
CreateMsg(h) == [interface |-> hif[h], msgType |-> "create", type |-> WIFI,
                 ifnum |-> hif[h], from |-> h, call |-> 0]

\* tx_msg_sync's failure return: up(&nwip->sem); create then goes to error.
SyncFailed(t) ==
    /\ hsem' = [hsem EXCEPT ![wh[t]] = 1]
    /\ wpc' = [wpc EXCEPT ![t] = "c_error"]

(***************************************************************************)
(* nss_wifi_if_tx_msg() from tx_msg_sync: NSS_TX_FAILURE when the core is *)
(* not initialised; dev_alloc_skb() may fail, nss_core_send_buffer()      *)
(* fails on a full queue; otherwise the CREATE is queued and the thread   *)
(* waits.                                                                  *)
(***************************************************************************)
nss_wifi_if_tx_msg(t) ==
    /\ wpc[t] = "c_tx"
    /\ \/ coreState # CORE_INITIALIZED /\ SyncFailed(t) /\ UNCHANGED h2n
       \/ /\ coreState = CORE_INITIALIZED
          /\ AllocFailures /\ SyncFailed(t) /\ UNCHANGED h2n
       \/ /\ coreState = CORE_INITIALIZED /\ RingFull(h2n, CmdQueueSize)
          /\ h2n' = RingReject(h2n) /\ SyncFailed(t)
       \/ /\ coreState = CORE_INITIALIZED /\ ~RingFull(h2n, CmdQueueSize)
          /\ h2n' = RingEnqueue(h2n, CreateMsg(wh[t]))
          /\ wpc' = [wpc EXCEPT ![t] = "c_wait"]
          /\ UNCHANGED hsem
    /\ UNCHANGED <<sem, done, response, current_if_num, type, n2h, fwType, pc, op,
                   arg, result, calls, owned, reply, woke, coreState, wifi_handle, hstate,
                   hif, hdone, hresp, ndev, refcnt, wh, creates, ThreadFrame>>

(***************************************************************************)
(* wait_for_completion_timeout() returns with the completion: status =    *)
(* nwip->response; up(&nwip->sem).  On NSS_TX_SUCCESS create records the  *)
(* netdev in subsys_dp_register[if_num] unless one is there already, and  *)
(* takes a reference with dev_hold(); otherwise it goes to error.         *)
(***************************************************************************)
CreateWakeUp(t) ==
    /\ wpc[t] = "c_wait"
    /\ LET h == wh[t]
           n == hif[h]
       IN /\ ConsumeHandleCompletion(h)
          /\ hsem' = [hsem EXCEPT ![h] = 1]
          /\ IF hresp[h] = TX_SUCCESS
             THEN /\ ndev' = IF ndev[n] = NULL THEN [ndev EXCEPT ![n] = t] ELSE ndev
                  /\ refcnt' = [refcnt EXCEPT ![t] = @ + 1]
                  /\ wpc' = [wpc EXCEPT ![t] = "holding"]
             ELSE /\ wpc' = [wpc EXCEPT ![t] = "c_error"]
                  /\ UNCHANGED <<ndev, refcnt>>
    /\ UNCHANGED <<diVars, wifi_handle, hstate, hif, hresp, wh, creates,
                   ThreadFrame>>

\* The wait expires with no completion pending: nwip->response =
\* NSS_TX_FAILURE, up(&nwip->sem), and create goes to error.
CreateTimeout(t) ==
    /\ wpc[t] = "c_wait"
    /\ WifiTimeoutsEnabled
    /\ hdone[wh[t]] = 0
    /\ hresp' = [hresp EXCEPT ![wh[t]] = TX_FAILURE]
    /\ SyncFailed(t)
    /\ UNCHANGED <<diVars, wifi_handle, hstate, hif, hdone, ndev, refcnt, wh,
                   creates, ThreadFrame>>

(***************************************************************************)
(* nss_wifi_if_handle_destroy(), up to the call: wifi_handle[index] =     *)
(* NULL under wifi_if_lock, then nss_dynamic_interface_dealloc_node().    *)
(***************************************************************************)
HandleDestroyStart(t) ==
    /\ UnpublishHandle(hif[wh[t]])
    /\ DI!nss_dynamic_interface_dealloc_node(t, hif[wh[t]], WIFI)
    /\ wpc' = [wpc EXCEPT ![t] = "hd_dealloc"]

\* The error label of nss_wifi_if_create(): handle_destroy(handle).
CreateError(t) ==
    /\ wpc[t] = "c_error"
    /\ HandleDestroyStart(t)
    /\ UNCHANGED <<hstate, hif, hsem, hdone, hresp, ndev, refcnt, wh, creates,
                   ThreadFrame>>

\* A failed dealloc_node returns its status and leaves handle and pvt
\* allocated; otherwise both are kfree()d.
HandleFreedOnDealloc(h, st) ==
    IF st = TX_SUCCESS THEN [hstate EXCEPT ![h] = "freed"] ELSE hstate

(***************************************************************************)
(* nss_wifi_if_handle_destroy() once dealloc_node has returned.  The      *)
(* handle is gone for the WLAN thread either way.                         *)
(***************************************************************************)
HandleDestroyDone(t) ==
    /\ wpc[t] = "hd_dealloc"
    /\ pc[t] = "idle"
    /\ hstate' = HandleFreedOnDealloc(wh[t], result[t])
    /\ wpc' = [wpc EXCEPT ![t] = "idle"]
    /\ wh' = [wh EXCEPT ![t] = NULL]
    /\ UNCHANGED <<diVars, wifi_handle, hif, hsem, hdone, hresp, ndev, refcnt,
                   creates, ThreadFrame>>

(***************************************************************************)
(* nss_wifi_if_destroy(): NSS_TX_FAILURE_NOT_READY when the core is not   *)
(* initialised, and with no netdev in subsys_dp_register[if_num]          *)
(* NSS_TX_FAILURE_BAD_PARAM; either way nothing is released.  Otherwise   *)
(* it clears the entry, dev_put()s that netdev and destroys the handle.   *)
(***************************************************************************)
nss_wifi_if_destroy(t) ==
    /\ wpc[t] = "holding"
    /\ LET n == hif[wh[t]] IN
       \/ /\ coreState # CORE_INITIALIZED
          /\ wpc' = [wpc EXCEPT ![t] = "idle"]
          /\ wh' = [wh EXCEPT ![t] = NULL]
          /\ UNCHANGED <<diVars, wifi_handle, ndev, refcnt>>
       \/ /\ coreState = CORE_INITIALIZED /\ ndev[n] = NULL
          /\ wpc' = [wpc EXCEPT ![t] = "idle"]
          /\ wh' = [wh EXCEPT ![t] = NULL]
          /\ UNCHANGED <<diVars, wifi_handle, ndev, refcnt>>
       \/ /\ coreState = CORE_INITIALIZED /\ ndev[n] # NULL
          /\ ndev' = [ndev EXCEPT ![n] = NULL]
          /\ refcnt' = [refcnt EXCEPT ![ndev[n]] = @ - 1]
          /\ HandleDestroyStart(t)
          /\ UNCHANGED wh
    /\ UNCHANGED <<hstate, hif, hsem, hdone, hresp, creates, ThreadFrame>>

\* nss_wifi_if_register(): subsys_dp_register[if_num].ndev = netdev.
nss_wifi_if_register(t) ==
    /\ wpc[t] = "holding"
    /\ ndev' = [ndev EXCEPT ![hif[wh[t]]] = t]
    /\ UNCHANGED <<diVars, wifi_handle, hstate, hif, hsem, hdone, hresp,
                   registered, refcnt, wpc, wh, creates, napi, reader, notes>>

\* nss_wifi_if_unregister(): subsys_dp_register[if_num].ndev = NULL.
nss_wifi_if_unregister(t) ==
    /\ wpc[t] = "holding"
    /\ ndev' = [ndev EXCEPT ![hif[wh[t]]] = NULL]
    /\ UNCHANGED <<diVars, wifi_handle, hstate, hif, hsem, hdone, hresp,
                   registered, refcnt, wpc, wh, creates, napi, reader, notes>>

(***************************************************************************)
(* nss_wifi_if_tx_buf(): a packet for the node goes on NSS_IF_DATA_QUEUE_0,*)
(* the queue that also carries commands; a full queue returns              *)
(* NSS_TX_FAILURE_QUEUE.  The early returns before the send, NOT_READY    *)
(* on a core that is not initialised among them, change no state.         *)
(***************************************************************************)
nss_wifi_if_tx_buf(t) ==
    /\ wpc[t] = "holding"
    /\ coreState = CORE_INITIALIZED
    /\ RingFull(h2n, CmdQueueSize) => h2n.fullCnt < MaxQueueFull
    /\ LET n == hif[wh[t]] IN
       h2n' = IF RingFull(h2n, CmdQueueSize) THEN RingReject(h2n)
              ELSE RingEnqueue(h2n, [interface |-> n, msgType |-> "packet",
                                     type |-> WIFI, ifnum |-> n, from |-> wh[t],
                                     call |-> 0])
    /\ UNCHANGED <<sem, done, response, current_if_num, type, n2h, fwType, pc, op,
                   arg, result, calls, owned, reply, woke, coreState, wifiVars>>

(***************************************************************************)
(* nss_wifi_if_copy_stats(if_num), from the stats file: the handle is     *)
(* looked up under wifi_if_lock, the lock is dropped, then handle->stats  *)
(* is read.                                                                *)
(***************************************************************************)
CopyStatsLookup ==
    /\ reader = NULL
    /\ \E n \in DynIfs : /\ wifi_handle[n] # NULL
                         /\ reader' = wifi_handle[n]
    /\ UNCHANGED <<diVars, wifi_handle, hstate, hif, hsem, hdone, hresp,
                   registered, ndev, refcnt, wpc, wh, creates, napi, notes>>

CopyStatsRead ==
    /\ reader # NULL
    /\ reader' = NULL
    /\ UNCHANGED <<diVars, wifi_handle, hstate, hif, hsem, hdone, hresp,
                   registered, ndev, refcnt, wpc, wh, creates, napi, notes>>

-----------------------------------------------------------------------------
(* The firmware and NAPI *)

\* The firmware's answer to a CREATE for node n, and its stats sync.
WifiAnswer(n, r, h, kind) == [interface |-> n, msgType |-> kind, type |-> WIFI,
                              ifnum |-> n, response |-> r, from |-> h]

(***************************************************************************)
(* The firmware takes the oldest descriptor of queue 1 addressed to a     *)
(* wifi node: a CREATE is ACKed when the node is allocated as WIFI and    *)
(* NACKed otherwise; a redirected packet is consumed.  (Environment.)     *)
(***************************************************************************)
FirmwareWifiStep ==
    /\ coreState = CORE_INITIALIZED
    /\ h2n.desc # << >>
    /\ RingHead(h2n).interface \in DynIfs
    /\ h2n' = RingDequeue(h2n)
    /\ LET m == RingHead(h2n) IN
       \/ /\ m.msgType = "packet"
          /\ UNCHANGED n2h
       \/ /\ m.msgType = "create"
          /\ ~RingFull(n2h, N2HSize)
          /\ n2h' = RingEnqueue(n2h, WifiAnswer(m.ifnum,
                         IF fwType[m.ifnum] = WIFI THEN ACK ELSE NACK,
                         m.from, "create"))
    /\ UNCHANGED <<sem, done, response, current_if_num, type, fwType, pc, op, arg,
                   result, calls, owned, reply, woke, coreState, wifiVars>>

\* The firmware sends NSS_WIFI_IF_STATS_SYNC_MSG, response NOTIFY, for a
\* node it holds as WIFI.  (Environment, MaxNotify of them.)
FirmwareNotify ==
    /\ coreState = CORE_INITIALIZED
    /\ notes < MaxNotify
    /\ ~RingFull(n2h, N2HSize)
    /\ \E n \in DynIfs : /\ fwType[n] = WIFI
                         /\ n2h' = RingEnqueue(n2h, WifiAnswer(n, NOTIFY, NULL, "stats"))
    /\ notes' = notes + 1
    /\ UNCHANGED <<sem, done, response, current_if_num, type, h2n, fwType, pc, op,
                   arg, result, calls, owned, reply, woke, coreState, wifi_handle, hstate,
                   hif, hsem, hdone, hresp, registered, ndev, refcnt, wpc, wh,
                   creates, napi, reader>>

(***************************************************************************)
(* NAPI takes the oldest N2H message for a wifi node.  nss_core dispatches *)
(* it to the handler registered for the interface, if any (spec §4.2).    *)
(* nss_wifi_if_msg_handler() then looks the handle up under wifi_if_lock: *)
(* a NULL handle drops the message; otherwise the lock is dropped with    *)
(* the handle in hand.                                                     *)
(***************************************************************************)
nss_wifi_if_msg_handler_lookup ==
    /\ napi = NapiIdle
    /\ n2h.desc # << >>
    /\ RingHead(n2h).interface \in DynIfs
    /\ n2h' = RingDequeue(n2h)
    /\ LET m == RingHead(n2h)
           n == m.interface
       IN IF n \in registered /\ wifi_handle[n] # NULL
          THEN napi' = [phase |-> "use", h |-> wifi_handle[n], m |-> m]
          ELSE UNCHANGED napi
    /\ UNCHANGED <<sem, done, response, current_if_num, type, h2n, fwType, pc, op,
                   arg, result, calls, owned, reply, woke, coreState, wifi_handle, hstate,
                   hif, hsem, hdone, hresp, registered, ndev, refcnt, wpc, wh,
                   creates, reader, notes>>

(***************************************************************************)
(* The rest of nss_wifi_if_msg_handler(): STATS_SYNC updates              *)
(* handle->stats; a NOTIFY takes cb = handle->cb, which handle_create set *)
(* to NULL, so it stops there; the CREATE response calls its cb,          *)
(* nss_wifi_if_callback(app_data = the creating handle), which sets       *)
(* pvt->response and complete()s.                                          *)
(***************************************************************************)
\* nss_wifi_if_callback(): pvt->response from the ACK/NACK, complete().
nss_wifi_if_callback(app, m) ==
    /\ hresp' = [hresp EXCEPT ![app] = IF m.response = ACK THEN TX_SUCCESS
                                                        ELSE TX_FAILURE]
    /\ hdone' = [hdone EXCEPT ![app] = @ + 1]

\* nss_wifi_if_stats_sync(): the counters are added into handle->stats,
\* whose values are left out; what matters is that the handle is used.
nss_wifi_if_stats_sync(h) == UNCHANGED <<hresp, hdone>>

nss_wifi_if_msg_handler_use ==
    /\ napi # NapiIdle
    /\ LET m == napi.m IN
       IF m.response # NOTIFY THEN nss_wifi_if_callback(m.from, m)
                              ELSE nss_wifi_if_stats_sync(napi.h)
    /\ napi' = NapiIdle
    /\ UNCHANGED <<diVars, wifi_handle, hstate, hif, hsem, registered, ndev,
                   refcnt, wpc, wh, creates, reader, notes>>

-----------------------------------------------------------------------------
(* The dynamic interface manager runs inside the wifi calls: its thread   *)
(* steps, its firmware and its handler touch none of the wifi state.  Its *)
(* handler runs in the same NAPI context as the wifi handler.             *)
(***************************************************************************)
DIThreadStep(t) ==
    /\ \/ DI!Down(t) \/ DI!Tx(t) \/ DI!WakeUp(t) \/ DI!Timeout(t) \/ DI!Check(t)
    /\ UNCHANGED wifiVars

DIFirmwareStep == DI!FirmwareStep /\ UNCHANGED wifiVars

\* The firmware dies: it stops taking H2N descriptors and sending stats.
DIFirmwareDies == DI!FirmwareDies /\ UNCHANGED wifiVars

DIHandler == napi = NapiIdle /\ DI!nss_dynamic_interface_handler /\ UNCHANGED wifiVars

WlanStep(t) ==
    \/ nss_wifi_if_create(t)
    \/ nss_wifi_if_handle_create(t)
    \/ RollbackDone(t)
    \/ nss_wifi_if_register_handler(t)
    \/ CreateDown(t)
    \/ nss_wifi_if_tx_msg(t)
    \/ CreateWakeUp(t)
    \/ CreateTimeout(t)
    \/ CreateError(t)
    \/ HandleDestroyDone(t)
    \/ nss_wifi_if_destroy(t)
    \/ nss_wifi_if_register(t)
    \/ nss_wifi_if_unregister(t)
    \/ nss_wifi_if_tx_buf(t)

\* Every WLAN thread has made its creates and let go of its handles;
\* descriptors a dead firmware never took stay on H2N.
AllDone ==
    /\ \A t \in Threads : wpc[t] = "idle" /\ creates[t] = MaxCreates
    /\ \A t \in Threads : pc[t] = "idle"
    /\ h2n.desc = << >> \/ coreState = CORE_FW_DEAD
    /\ n2h.desc = << >>
    /\ napi = NapiIdle
    /\ reader = NULL

Next ==
    \/ \E t \in Threads : WlanStep(t) \/ DIThreadStep(t)
    \/ DIFirmwareStep \/ DIHandler \/ DIFirmwareDies
    \/ FirmwareWifiStep \/ FirmwareNotify
    \/ nss_wifi_if_msg_handler_lookup \/ nss_wifi_if_msg_handler_use
    \/ CopyStatsLookup \/ CopyStatsRead
    \/ AllDone /\ UNCHANGED vars

(***************************************************************************)
(* Fairness.  A thread that has entered a call keeps running: every step  *)
(* of create and destroy, and of the dynamic interface calls inside them, *)
(* is weakly fair, down() on di.sem strongly fair (FIFO waiters); the     *)
(* firmware answers and NAPI drains (weak fairness).  Starting a create,  *)
(* a destroy, register, unregister, tx_buf and reading the stats file are *)
(* the callers' choice and carry no fairness.                             *)
(***************************************************************************)
Fairness ==
    /\ \A t \in Threads :
          /\ SF_vars(DI!Down(t) /\ UNCHANGED wifiVars)
          /\ WF_vars(DIThreadStep(t))
          /\ WF_vars(nss_wifi_if_handle_create(t)) /\ WF_vars(RollbackDone(t))
          /\ WF_vars(nss_wifi_if_register_handler(t)) /\ WF_vars(CreateDown(t))
          /\ WF_vars(nss_wifi_if_tx_msg(t)) /\ WF_vars(CreateWakeUp(t))
          /\ WF_vars(CreateTimeout(t)) /\ WF_vars(CreateError(t))
          /\ WF_vars(HandleDestroyDone(t))
    /\ WF_vars(DIFirmwareStep) /\ WF_vars(DIHandler)
    /\ WF_vars(FirmwareWifiStep)
    /\ WF_vars(nss_wifi_if_msg_handler_lookup) /\ WF_vars(nss_wifi_if_msg_handler_use)
    /\ WF_vars(CopyStatsRead)

Spec == Init /\ [][Next]_vars /\ Fairness

-----------------------------------------------------------------------------
(* Properties *)

WlanPcs == {"idle", "c_alloc", "c_rollback", "c_register", "c_down", "c_tx",
            "c_wait", "c_error", "hd_dealloc", "holding"}

WifiTypeOK ==
    /\ wifi_handle \in [DynIfs -> Handles \cup {NULL}]
    /\ hstate \in [Handles -> {"unused", "live", "freed"}]
    /\ hsem \in [Handles -> {0, 1}]
    /\ hdone \in [Handles -> Nat]
    /\ hresp \in [Handles -> {TX_SUCCESS, TX_FAILURE}]
    /\ registered \subseteq DynIfs
    /\ ndev \in [DynIfs -> Threads \cup {NULL}]
    /\ refcnt \in [Threads -> Nat]
    /\ wpc \in [Threads -> WlanPcs]
    /\ wh \in [Threads -> Handles \cup {NULL}]
    /\ reader \in Handles \cup {NULL}
    /\ coreState \in {CORE_INITIALIZED, CORE_FW_DEAD}

(***************************************************************************)
(* nss_wifi_if_msg_handler() drops wifi_if_lock before it uses the handle *)
(* it looked up (stats_sync, and the CREATE callback on app_data).  The   *)
(* handle it is about to use has not been kfree()d by handle_destroy():   *)
(* destroy's dealloc_node can only complete through the same NAPI, after  *)
(* the handler has finished, and every late CREATE answer is drained      *)
(* before the DEALLOC answer.                                              *)
(***************************************************************************)
NapiNeverUsesFreedHandle ==
    napi # NapiIdle =>
        /\ hstate[napi.h] = "live"
        /\ napi.m.response # NOTIFY => hstate[napi.m.from] = "live"

\* The stats file's nss_wifi_if_copy_stats() reads handle->stats of a
\* handle that has not been freed.
CopyStatsNeverReadsFreedHandle == reader # NULL => hstate[reader] = "live"

(***************************************************************************)
(* A handle nss_wifi_if_create() returned is the one wifi_handle[] holds  *)
(* for its if_num, and the firmware holds that node as WIFI, until the    *)
(* WLAN thread destroys it.                                                *)
(***************************************************************************)
HeldHandleIsPublished ==
    \A t \in Threads :
        wpc[t] = "holding" =>
            /\ wifi_handle[hif[wh[t]]] = wh[t]
            /\ fwType[hif[wh[t]]] = WIFI

(***************************************************************************)
(* spec §4.6: destroy releases what create acquired.  Once every WLAN     *)
(* thread has let go of its handle and nothing is in flight, no handle is *)
(* still allocated, no netdev reference taken by dev_hold() is left and   *)
(* the firmware holds no WIFI node.                                        *)
(***************************************************************************)
AllReleasedWhenIdle ==
    (\A t \in Threads : wpc[t] = "idle") /\ DI!Quiescent =>
        /\ \A h \in Handles : hstate[h] # "live"
        /\ \A t \in Threads : refcnt[t] = 0
        /\ \A n \in DynIfs : fwType[n] # WIFI

(***************************************************************************)
(* Every create and destroy returns to the WLAN thread: the CREATE answer *)
(* reaches the handle's completion, and every dynamic interface call      *)
(* returns.                                                                *)
(***************************************************************************)
EveryWifiCallReturns ==
    \A t \in Threads : wpc[t] \notin {"idle", "holding"} ~> wpc[t] \in {"idle", "holding"}

=============================================================================
