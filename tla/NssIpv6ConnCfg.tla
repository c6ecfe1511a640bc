--------------------------- MODULE NssIpv6ConnCfg ---------------------------
(***************************************************************************)
(* Configuration of the number of IPv6 connections (nss_ipv6.c).           *)
(*                                                                         *)
(* The global nss_ipv6_conn_cfg is the driver's view of the count the      *)
(* firmware is configured with.  Two paths change it:                      *)
(*   - the sysctl dev/nss/ipv6cfg/ipv6_conn, whose handler takes           *)
(*     i6cfgp.sem, snapshots the value, lets proc_dointvec() write the     *)
(*     user's number straight into nss_ipv6_conn_cfg, sends it and waits   *)
(*     on i6cfgp.complete; on any failure it restores the snapshot;        *)
(*   - nss_ipv6_update_conn_count(), called by other kernel modules, which *)
(*     writes the global without the semaphore, sends it with a callback  *)
(*     that only logs, and restores only when the send itself fails.       *)
(* The firmware answers each CONN_CFG_RULE message with ACK or NACK and    *)
(* nss_ipv6_rx_msg_handler() runs the message's callback in NAPI.          *)
(*                                                                         *)
(* The firmware also sends NOTIFY messages: node and connection stats   *)
(* syncs, which the handler adds to the driver's counters, and which it  *)
(* then hands to the one event callback nss_ipv6_notify_register() set.   *)
(*                                                                         *)
(* nss_ipv4_conn_cfg (nss_ipv4.c) and the limits NSS_NUM_CONN_QUANTA_MASK, *)
(* NSS_MAX_TOTAL_NUM_CONN_IPV4_IPV6 and NSS_MIN_NUM_CONN (nss_core.h of    *)
(* the full tree) are not in this repository: they are constants, scaled  *)
(* down in the MC module.                                                  *)
(***************************************************************************)
EXTENDS Integers, Sequences, Bitwise, NssRing

CONSTANTS
    Writers,            \* processes writing or reading the sysctl
    Updaters,           \* callers of nss_ipv6_update_conn_count()
    Values,             \* counts a writer or an updater may ask for
    DefaultConn,        \* NSS_DEFAULT_NUM_CONN
    IPv4Conn,           \* nss_ipv4_conn_cfg
    QuantaMask,         \* NSS_NUM_CONN_QUANTA_MASK
    MaxTotal,           \* NSS_MAX_TOTAL_NUM_CONN_IPV4_IPV6
    MinConn,            \* NSS_MIN_NUM_CONN
    ACK, NACK,          \* enum nss_cmn_response
    SUCCESS, FAILURE,   \* nss_status_t, for i6cfgp.response
    CmdQueueSize, N2HSize,
    TxFailures,         \* may nss_ipv6_tx() fail (core not ready, no skb)?
    FwRejects,          \* may the firmware NACK a valid count?
    TimeoutsEnabled,    \* may the NSS_CONN_CFG_TIMEOUT wait expire?
    MaxOps,             \* sysctl calls per writer, updates per updater,
                        \* notify registrations of the event client
    NULL,               \* no callback registered
    NOTIFY,             \* NSS_CMM_RESPONSE_NOTIFY
    Notifier,           \* the module that registers for IPv6 events
    ManySize,           \* conn_sync entries the size of a sync-many message holds
    ManyCounts,         \* counts the firmware may put in a sync-many message
    MaxNotify           \* stats messages the firmware sends (bound)

VARIABLES
    conn_cfg,        \* nss_ipv6_conn_cfg
    current_value,   \* i6cfgp.current_value
    sem, done,       \* i6cfgp.sem, the counter of i6cfgp.complete
    response,        \* i6cfgp.response
    fwConn,          \* the count the firmware is configured with
    h2n, n2h,        \* command queue and N2H ring
    wpc, wops,       \* each writer: where it is, calls made
    upc, uops,       \* each updater: where it is, calls made
    saved,           \* each updater's saved_nss_ipv6_conn_cfg
    ipv6_callback,   \* nss_top_main.ipv6_callback
    ipv6_ctx,        \* nss_top_main.ipv6_ctx
    nops,            \* nss_ipv6_notify_register() calls made
    notes,           \* stats messages the firmware has sent
    connStats,       \* stats_ipv6 accelerated counters: conn syncs added
    nodeStats,       \* stats_node[NSS_IPV6_RX_INTERFACE]: node syncs added
    events           \* (message kind, app_data) pairs the event callback got

vars == <<conn_cfg, current_value, sem, done, response, fwConn, h2n, n2h,
          wpc, wops, upc, uops, saved, ipv6_callback, ipv6_ctx, nops, notes,
          connStats, nodeStats, events>>

writerVars == <<wpc, wops>>
updaterVars == <<upc, uops, saved>>
notifyVars == <<ipv6_callback, ipv6_ctx, nops, notes, connStats, nodeStats,
                events>>

(***************************************************************************)
(* After nss_ipv6_register_sysctl(): sema_init(sem, 1), init_completion(), *)
(* current_value = nss_ipv6_conn_cfg = NSS_DEFAULT_NUM_CONN, the static    *)
(* i6cfgp.response zero (NSS_SUCCESS); the firmware runs with the default. *)
(***************************************************************************)
Init ==
    /\ conn_cfg = DefaultConn
    /\ current_value = DefaultConn
    /\ sem = 1 /\ done = 0 /\ response = SUCCESS
    /\ fwConn = DefaultConn
    /\ h2n = EmptyRing /\ n2h = EmptyRing
    /\ wpc = [w \in Writers |-> "idle"] /\ wops = [w \in Writers |-> 0]
    /\ upc = [u \in Updaters |-> "idle"] /\ uops = [u \in Updaters |-> 0]
    /\ saved = [u \in Updaters |-> DefaultConn]
    /\ ipv6_callback = NULL /\ ipv6_ctx = NULL /\ nops = 0
    /\ notes = 0 /\ connStats = 0 /\ nodeStats = 0 /\ events = {}

-----------------------------------------------------------------------------
(* nss_ipv6_conn_cfg_process() *)

\* The input checks: a multiple of the quantum, IPv4 and IPv6 together
\* within the total, at least the minimum.
ConnValid(conn) ==
    /\ (conn & QuantaMask) = 0
    /\ IPv4Conn + conn <= MaxTotal
    /\ conn >= MinConn

\* The CONN_CFG_RULE message for conn with callback cb.
ConnCfgMsg(conn, cb) == [num |-> conn, cb |-> cb]

\* nss_ipv6_tx() queues the message.
ConnCfgSent(conn, cb) ==
    /\ ~RingFull(h2n, CmdQueueSize)
    /\ h2n' = RingEnqueue(h2n, ConnCfgMsg(conn, cb))

\* nss_ipv6_tx() fails (-EIO): the core is not ready or dev_alloc_skb()
\* fails, or nss_core_send_buffer() finds the command queue full.
ConnCfgTxFailed ==
    \/ TxFailures /\ UNCHANGED h2n
    \/ RingFull(h2n, CmdQueueSize) /\ h2n' = RingReject(h2n)

-----------------------------------------------------------------------------
(* nss_ipv6_conn_cfg_handler(): the sysctl *)

\* A process opens the sysctl file and reads or writes it.
SysctlBegin(w) ==
    /\ wpc[w] = "idle"
    /\ wops[w] < MaxOps
    /\ wops' = [wops EXCEPT ![w] = @ + 1]
    /\ wpc' = [wpc EXCEPT ![w] = "down"]
    /\ UNCHANGED <<conn_cfg, current_value, sem, done, response, fwConn, h2n,
                   n2h, updaterVars, notifyVars>>

SemTakeUnguarded == sem' = 0

\* down(&i6cfgp.sem): take it, sleeping while it is held.
SemTake == sem = 1 /\ sem' = 0

\* down(&i6cfgp.sem); i6cfgp.current_value = nss_ipv6_conn_cfg.
SysctlDown(w) ==
    /\ wpc[w] = "down"
    /\ SemTake
    /\ current_value' = conn_cfg
    /\ wpc' = [wpc EXCEPT ![w] = "dointvec"]
    /\ UNCHANGED <<conn_cfg, done, response, fwConn, h2n, n2h, wops,
                   updaterVars, notifyVars>>

\* The handler returns: up(&i6cfgp.sem).
SysctlReturn(w) ==
    /\ sem' = 1
    /\ wpc' = [wpc EXCEPT ![w] = "idle"]

(***************************************************************************)
(* proc_dointvec(): a read, or a write whose number does not parse, makes  *)
(* the handler up() and return; a write stores the number into            *)
(* nss_ipv6_conn_cfg, where every reader of the global sees it at once.   *)
(***************************************************************************)
SysctlDointvec(w) ==
    /\ wpc[w] = "dointvec"
    /\ \/ SysctlReturn(w) /\ UNCHANGED conn_cfg
       \/ \E v \in Values :
             /\ conn_cfg' = v
             /\ wpc' = [wpc EXCEPT ![w] = "process"]
             /\ UNCHANGED sem
    /\ UNCHANGED <<current_value, done, response, fwConn, h2n, n2h, wops,
                   updaterVars, notifyVars>>

SysctlFailureWithoutUp(w) ==
    /\ conn_cfg' = current_value
    /\ wpc' = [wpc EXCEPT ![w] = "idle"]
    /\ UNCHANGED sem

\* failure: nss_ipv6_conn_cfg = i6cfgp.current_value; up(); -EINVAL.
SysctlFailure(w) ==
    /\ conn_cfg' = current_value
    /\ SysctlReturn(w)

(***************************************************************************)
(* nss_ipv6_conn_cfg_process(nss_ctx, nss_ipv6_conn_cfg, callback): the   *)
(* global is read once, checked and sent; a bad count or a failed send    *)
(* goes to failure, a sent one waits on the completion.                   *)
(***************************************************************************)
SysctlProcess(w) ==
    /\ wpc[w] = "process"
    /\ LET conn == conn_cfg IN
       \/ ~ConnValid(conn) /\ SysctlFailure(w) /\ UNCHANGED h2n
       \/ ConnValid(conn) /\ ConnCfgTxFailed /\ SysctlFailure(w)
       \/ /\ ConnValid(conn)
          /\ ConnCfgSent(conn, "cfg")
          /\ wpc' = [wpc EXCEPT ![w] = "wait"]
          /\ UNCHANGED <<conn_cfg, sem>>
    /\ UNCHANGED <<current_value, done, response, fwConn, n2h, wops,
                   updaterVars, notifyVars>>

\* wait_for_completion_timeout() returns with a completion.
ConsumeCompletion == done > 0 /\ done' = done - 1

\* Woken: a FAILURE response goes to failure, SUCCESS returns 0.
SysctlWakeUp(w) ==
    /\ wpc[w] = "wait"
    /\ ConsumeCompletion
    /\ \/ response = FAILURE /\ SysctlFailure(w)
       \/ response = SUCCESS /\ SysctlReturn(w) /\ UNCHANGED conn_cfg
    /\ UNCHANGED <<current_value, response, fwConn, h2n, n2h, wops, updaterVars,
                   notifyVars>>

\* The wait times out: failure, with the message still on its way.
SysctlTimeout(w) ==
    /\ wpc[w] = "wait"
    /\ TimeoutsEnabled
    /\ done = 0
    /\ SysctlFailure(w)
    /\ UNCHANGED <<current_value, done, response, fwConn, h2n, n2h, wops,
                   updaterVars, notifyVars>>

-----------------------------------------------------------------------------
(* nss_ipv6_update_conn_count() *)

\* saved_nss_ipv6_conn_cfg = nss_ipv6_conn_cfg; nss_ipv6_conn_cfg = the
\* caller's count.  No semaphore is taken.
UpdateSet(u) ==
    /\ upc[u] = "idle"
    /\ uops[u] < MaxOps
    /\ \E v \in Values :
          /\ saved' = [saved EXCEPT ![u] = conn_cfg]
          /\ conn_cfg' = v
    /\ uops' = [uops EXCEPT ![u] = @ + 1]
    /\ upc' = [upc EXCEPT ![u] = "process"]
    /\ UNCHANGED <<current_value, sem, done, response, fwConn, h2n, n2h,
                   writerVars, notifyVars>>

(***************************************************************************)
(* conn_cfg_process() with nss_ipv6_update_conn_count_cb: on a bad count  *)
(* or a failed send the saved value is restored (-EINVAL); once sent the  *)
(* call returns 0 without waiting for the answer.                         *)
(***************************************************************************)
UpdateProcess(u) ==
    /\ upc[u] = "process"
    /\ LET conn == conn_cfg IN
       \/ ~ConnValid(conn) /\ conn_cfg' = saved[u] /\ UNCHANGED h2n
       \/ ConnValid(conn) /\ ConnCfgTxFailed /\ conn_cfg' = saved[u]
       \/ ConnValid(conn) /\ ConnCfgSent(conn, "update") /\ UNCHANGED conn_cfg
    /\ upc' = [upc EXCEPT ![u] = "idle"]
    /\ UNCHANGED <<current_value, sem, done, response, fwConn, n2h, uops, saved,
                   writerVars, notifyVars>>

-----------------------------------------------------------------------------
(* The firmware (environment) and NAPI *)

\* The answer to a CONN_CFG_RULE message, with the callback it carries.
ConnCfgAnswer(m, r) == [kind |-> "conn_cfg", num |-> m.num, cb |-> m.cb, resp |-> r]

\* The stats messages: NODE_STATS_SYNC, CONN_STATS_SYNC (one connection)
\* and CONN_STATS_SYNC_MANY with the count the firmware put in it.  They
\* carry no callback.
StatsMsgs ==
    {[kind |-> "node_sync", num |-> 0, cb |-> NULL, resp |-> NOTIFY],
     [kind |-> "conn_sync", num |-> 1, cb |-> NULL, resp |-> NOTIFY]} \cup
    {[kind |-> "sync_many", num |-> c, cb |-> NULL, resp |-> NOTIFY] : c \in ManyCounts}

\* The firmware sends a stats message, up to MaxNotify of them.
FirmwareNotify ==
    /\ notes < MaxNotify
    /\ ~RingFull(n2h, N2HSize)
    /\ \E m \in StatsMsgs : n2h' = RingEnqueue(n2h, m)
    /\ notes' = notes + 1
    /\ UNCHANGED <<conn_cfg, current_value, sem, done, response, fwConn, h2n,
                   writerVars, updaterVars, ipv6_callback, ipv6_ctx, nops,
                   connStats, nodeStats, events>>

\* The firmware applies an accepted count and answers ACK; it may NACK
\* (FwRejects) and keep its count.
FirmwareAnswer ==
    /\ h2n.desc # << >>
    /\ ~RingFull(n2h, N2HSize)
    /\ LET m == RingHead(h2n) IN
       \/ /\ fwConn' = m.num
          /\ n2h' = RingEnqueue(n2h, ConnCfgAnswer(m, ACK))
       \/ /\ FwRejects
          /\ n2h' = RingEnqueue(n2h, ConnCfgAnswer(m, NACK))
          /\ UNCHANGED fwConn
    /\ h2n' = RingDequeue(h2n)
    /\ UNCHANGED <<conn_cfg, current_value, sem, done, response, writerVars,
                   updaterVars, notifyVars>>

-----------------------------------------------------------------------------
(* The event client *)

\* nss_ipv6_notify_register(cb, app_data): two plain stores.
nss_ipv6_notify_register ==
    /\ ipv6_callback = NULL
    /\ nops < MaxOps
    /\ ipv6_callback' = Notifier
    /\ ipv6_ctx' = Notifier
    /\ nops' = nops + 1
    /\ UNCHANGED <<conn_cfg, current_value, sem, done, response, fwConn, h2n,
                   n2h, writerVars, updaterVars, notes, connStats, nodeStats,
                   events>>

\* nss_ipv6_notify_unregister(): the callback goes, ipv6_ctx stays.
nss_ipv6_notify_unregister ==
    /\ ipv6_callback # NULL
    /\ ipv6_callback' = NULL
    /\ UNCHANGED <<conn_cfg, current_value, sem, done, response, fwConn, h2n,
                   n2h, writerVars, updaterVars, ipv6_ctx, nops, notes,
                   connStats, nodeStats, events>>

-----------------------------------------------------------------------------
(* nss_ipv6_rx_msg_handler() *)

\* nss_ipv6_driver_conn_sync_many_update(): a count whose entries do not
\* fit below the message's size is dropped; otherwise each entry is added
\* by nss_ipv6_driver_conn_sync_update().
SyncManyAccepted(m) == m.num < ManySize

\* The switch on the message type: the driver's counters under stats_lock.
StatsUpdate(m) ==
    /\ nodeStats' = IF m.kind = "node_sync" THEN nodeStats + 1 ELSE nodeStats
    /\ connStats' = CASE m.kind = "conn_sync" -> connStats + 1
                       [] m.kind = "sync_many" /\ SyncManyAccepted(m) -> connStats + m.num
                       [] OTHER -> connStats

\* A NOTIFY gets the registered ipv6_callback (and ipv6_ctx); any other
\* message keeps the callback it was sent with.
ResolvedCallback(m) == IF m.resp = NOTIFY THEN ipv6_callback ELSE m.cb

RawConnCfgResponse(m) == m.resp

\* nss_ipv6_conn_cfg_callback(): anything but ACK is NSS_FAILURE.
ConnCfgResponse(m) == IF m.resp = ACK THEN SUCCESS ELSE FAILURE

(***************************************************************************)
(* nss_ipv6_rx_msg_handler() for the oldest N2H message (the interface,   *)
(* type and length checks pass for what the firmware sends).  The stats   *)
(* switch runs first; then the callback is resolved and, if there is one, *)
(* called: nss_ipv6_conn_cfg_callback() sets i6cfgp.response and          *)
(* complete()s, nss_ipv6_update_conn_count_cb() only logs, and the event  *)
(* callback gets the message with ipv6_ctx.  The handler runs as one step *)
(* (see README: the callback is read once and called at once).            *)
(***************************************************************************)
nss_ipv6_rx_msg_handler ==
    /\ n2h.desc # << >>
    /\ n2h' = RingDequeue(n2h)
    /\ LET m == RingHead(n2h)
           cb == ResolvedCallback(m)
       IN /\ StatsUpdate(m)
          /\ \/ /\ cb = "cfg"
                /\ response' = ConnCfgResponse(m)
                /\ done' = done + 1
                /\ UNCHANGED events
             \/ cb \in {"update", NULL} /\ UNCHANGED <<response, done, events>>
             \/ /\ cb = Notifier
                /\ events' = events \cup {[kind |-> m.kind, ctx |-> ipv6_ctx]}
                /\ UNCHANGED <<response, done>>
    /\ UNCHANGED <<conn_cfg, current_value, sem, fwConn, h2n, writerVars,
                   updaterVars, ipv6_callback, ipv6_ctx, nops, notes>>

\* No sysctl call or update is in progress and no message is on its way.
Settled ==
    /\ \A w \in Writers : wpc[w] = "idle"
    /\ \A u \in Updaters : upc[u] = "idle"
    /\ h2n.desc = << >> /\ n2h.desc = << >>

\* Every process has made its calls and everything has settled.
AllDone ==
    /\ Settled
    /\ \A w \in Writers : wops[w] = MaxOps
    /\ \A u \in Updaters : uops[u] = MaxOps
    /\ nops = MaxOps /\ ipv6_callback = NULL /\ notes = MaxNotify

Next ==
    \/ AllDone /\ UNCHANGED vars
    \/ \E w \in Writers :
          \/ SysctlBegin(w) \/ SysctlDown(w) \/ SysctlDointvec(w)
          \/ SysctlProcess(w) \/ SysctlWakeUp(w) \/ SysctlTimeout(w)
    \/ \E u \in Updaters : UpdateSet(u) \/ UpdateProcess(u)
    \/ nss_ipv6_notify_register \/ nss_ipv6_notify_unregister
    \/ FirmwareAnswer \/ FirmwareNotify \/ nss_ipv6_rx_msg_handler

(***************************************************************************)
(* Fairness: a process inside the sysctl handler, or inside               *)
(* update_conn_count, keeps running, and its down() is strongly fair      *)
(* (FIFO semaphore); the timeout fires; the firmware answers and NAPI     *)
(* drains.  Opening the sysctl, calling update_conn_count, registering   *)
(* for events and the firmware's stats syncs are choices.                 *)
(***************************************************************************)
Fairness ==
    /\ \A w \in Writers :
          /\ SF_vars(SysctlDown(w))
          /\ WF_vars(SysctlDointvec(w)) /\ WF_vars(SysctlProcess(w))
          /\ WF_vars(SysctlWakeUp(w)) /\ WF_vars(SysctlTimeout(w))
    /\ \A u \in Updaters : WF_vars(UpdateProcess(u))
    /\ WF_vars(FirmwareAnswer) /\ WF_vars(nss_ipv6_rx_msg_handler)

Spec == Init /\ [][Next]_vars /\ Fairness

-----------------------------------------------------------------------------
(* Properties *)

Ipv6TypeOK ==
    /\ conn_cfg \in Values \cup {DefaultConn}
    /\ current_value \in Values \cup {DefaultConn}
    /\ sem \in {0, 1} /\ done \in Nat
    /\ response \in {SUCCESS, FAILURE}
    /\ fwConn \in Values \cup {DefaultConn}
    /\ \A k \in 1 .. Len(n2h.desc) : n2h.desc[k].resp \in {ACK, NACK, NOTIFY}
    /\ wpc \in [Writers -> {"idle", "down", "dointvec", "process", "wait"}]
    /\ upc \in [Updaters -> {"idle", "process"}]
    /\ ipv6_callback \in {NULL, Notifier} /\ ipv6_ctx \in {NULL, Notifier}
    /\ connStats \in Nat /\ nodeStats \in Nat

(***************************************************************************)
(* Once no sysctl call or update is in progress and no message is on its  *)
(* way, nss_ipv6_conn_cfg is the count the firmware runs with: every      *)
(* failure path of the sysctl handler and of update_conn_count restores   *)
(* what was there before.                                                  *)
(***************************************************************************)
DriverValueMatchesFirmware == Settled => conn_cfg = fwConn

\* Every read or write of the ipv6_conn sysctl returns to its process.
EverySysctlReturns == \A w \in Writers : wpc[w] = "down" ~> wpc[w] = "idle"

(***************************************************************************)
(* nss_ipv6_conn_cfg_handler() implements the synchronous request adapter *)
(* of spec.md §4.4 (module SyncRequest): a writer holding i6cfgp.sem      *)
(* before its send (in proc_dointvec or conn_cfg_process) is Armed, one   *)
(* asleep on i6cfgp.complete is Waiting; a read, a bad number or a failed *)
(* send disarms.  update_conn_count takes no part: it never takes the     *)
(* semaphore.                                                              *)
(***************************************************************************)
AdapterState(w) == CASE wpc[w] \in {"dointvec", "process"} -> "armed"
                     [] wpc[w] = "wait"                     -> "waiting"
                     [] OTHER                               -> "idle"

SR == INSTANCE SyncRequest WITH Callers <- Writers,
                                st <- [w \in Writers |-> AdapterState(w)]

SysctlImplementsSyncRequest == SR!SafetySpec

====
