------------------------------- MODULE NssIpsec -------------------------------
(***************************************************************************)
(* The IPsec subsystem (nss_ipsec.c).                                      *)
(*                                                                         *)
(* Two static interfaces, NSS_IPSEC_ENCAP_IF_NUMBER and                    *)
(* NSS_IPSEC_DECAP_IF_NUMBER, carry every IPsec message; their handler is  *)
(* registered at init.  Each interface has one event callback and its     *)
(* context in nss_top (ipsec_encap_callback/ctx, ipsec_decap_callback/     *)
(* ctx).  nss_ipsec_notify_register() installs the caller's pair unless   *)
(* BOTH interfaces already have a callback ("avoid multiple registration  *)
(* for multiple tunnels"), in which case it returns the context as if it  *)
(* had; nss_ipsec_notify_unregister() clears the pair whoever set it.      *)
(* nss_ipsec_data_register() fills subsys_dp_register[if_num] unless a cb *)
(* is already there, and nss_ipsec_data_unregister() clears it.           *)
(*                                                                         *)
(* A client is an IPsec user (one per tunnel manager instance): its cb    *)
(* and app_data are the client itself.  The callback and its context are *)
(* written one after the other by set_msg_callback() and read one after  *)
(* the other by the handler; here each pair is one value, written and    *)
(* read atomically (the README lists the torn read as not modelled).      *)
(* ipn and ipd record what each client was told: the interfaces it holds *)
(* a notifier / data registration on, by the non-NULL return it got.     *)
(***************************************************************************)
EXTENDS Integers, Sequences, FiniteSets, NssRing, TLC

CONSTANTS
    IpsecClients,
    NSS_IPSEC_ENCAP_IF_NUMBER, NSS_IPSEC_DECAP_IF_NUMBER,
    IpsecBadIf,                \* another interface a caller may pass
    NSS_IPSEC_MSG_TYPE_MAX,
    IpsecTxTypes,              \* message types callers pass to nss_ipsec_tx_msg()
    NONE, NULL, NOTIFY,
    CORE_INITIALIZED,
    CmdQueueSize,
    AllocFailures,
    MaxIpsecOps                \* register and tx calls per client (bound)

IpsecIfs == {NSS_IPSEC_ENCAP_IF_NUMBER, NSS_IPSEC_DECAP_IF_NUMBER}

VARIABLES
    dp, handlers, h2n, n2h, coreState, calls,  \* shared, as in NssL2tpv2
    ipsec_callback,   \* if_num -> the client whose callback/ctx pair is set, or NULL
    ipn,              \* each client: interfaces it was told its notifier is on
    ipd,              \* each client: interfaces it was told its data path is on
    iops              \* register and tx calls each client made

ipsecVars == <<ipsec_callback, ipn, ipd, iops>>

\* nss_ipsec_register_handler() at init: both pairs NULL, the handler
\* registered for both interfaces.
nss_ipsec_register_handler == [i \in IpsecIfs |-> "ipsec"]

Init ==
    /\ ipsec_callback = [i \in IpsecIfs |-> NULL]
    /\ ipn = [c \in IpsecClients |-> {}]
    /\ ipd = [c \in IpsecClients |-> {}]
    /\ iops = [c \in IpsecClients |-> 0]

\* nss_ipsec_set_msg_callback(if_num, cb, ctx): the pair for if_num.
nss_ipsec_set_msg_callback(i, c) == [ipsec_callback EXCEPT ![i] = c]

\* "avoid multiple registration": both interfaces already have a callback.
NotifyTaken == \A i \in IpsecIfs : ipsec_callback[i] # NULL

(***************************************************************************)
(* nss_ipsec_notify_register(if_num, cb, app_data): with both callbacks   *)
(* set it returns the context without installing anything; otherwise it  *)
(* installs the pair.  Either way the caller gets a non-NULL context.    *)
(***************************************************************************)
nss_ipsec_notify_register(c, i) ==
    /\ i \notin ipn[c]
    /\ iops[c] < MaxIpsecOps
    /\ ipsec_callback' = IF NotifyTaken THEN ipsec_callback
                         ELSE nss_ipsec_set_msg_callback(i, c)
    /\ ipn' = [ipn EXCEPT ![c] = @ \cup {i}]
    /\ iops' = [iops EXCEPT ![c] = @ + 1]
    /\ UNCHANGED <<dp, handlers, h2n, n2h, coreState, calls, ipd>>

\* nss_ipsec_notify_unregister(if_num): the pair becomes NULL, NULL.
nss_ipsec_notify_unregister(c, i) ==
    /\ i \in ipn[c]
    /\ ipsec_callback' = nss_ipsec_set_msg_callback(i, NULL)
    /\ ipn' = [ipn EXCEPT ![c] = @ \ {i}]
    /\ UNCHANGED <<dp, handlers, h2n, n2h, coreState, calls, ipd, iops>>

(***************************************************************************)
(* nss_ipsec_data_register(if_num, cb, netdev): a cb already in            *)
(* subsys_dp_register[if_num] makes it return the context untouched;      *)
(* otherwise cb, ndev and features are written.  The bounds test before  *)
(* it never rejects (README, hazards); callers pass ENCAP or DECAP.        *)
(***************************************************************************)
nss_ipsec_data_register(c, i) ==
    /\ i \notin ipd[c]
    /\ iops[c] < MaxIpsecOps
    /\ dp' = IF dp[i] # NULL THEN dp ELSE [dp EXCEPT ![i] = c]
    /\ ipd' = [ipd EXCEPT ![c] = @ \cup {i}]
    /\ iops' = [iops EXCEPT ![c] = @ + 1]
    /\ UNCHANGED <<handlers, h2n, n2h, coreState, calls, ipsec_callback, ipn>>

\* nss_ipsec_data_unregister(if_num): cb, app_data, ndev, features cleared.
nss_ipsec_data_unregister(c, i) ==
    /\ i \in ipd[c]
    /\ dp' = [dp EXCEPT ![i] = NULL]
    /\ ipd' = [ipd EXCEPT ![c] = @ \ {i}]
    /\ UNCHANGED <<handlers, h2n, n2h, coreState, calls, ipsec_callback, ipn, iops>>

(***************************************************************************)
(* nss_ipsec_tx_msg(msg) by a client holding a notifier: refused when the *)
(* core is not initialised, the interface is neither ENCAP nor DECAP, or  *)
(* type > NSS_IPSEC_MSG_TYPE_MAX; dev_alloc_skb() may fail; a full        *)
(* command queue is marked stopped and reported as NSS_TX_FAILURE;        *)
(* otherwise the message is queued with the client's cb and app_data.    *)
(***************************************************************************)
TxRefused(i, ty) ==
    \/ coreState # CORE_INITIALIZED
    \/ i \notin IpsecIfs
    \/ ty > NSS_IPSEC_MSG_TYPE_MAX

nss_ipsec_tx_msg(c) ==
    /\ ipn[c] # {}
    /\ iops[c] < MaxIpsecOps
    /\ iops' = [iops EXCEPT ![c] = @ + 1]
    /\ \E i \in IpsecIfs \cup {IpsecBadIf}, ty \in IpsecTxTypes :
          \/ TxRefused(i, ty) /\ UNCHANGED h2n
          \/ ~TxRefused(i, ty) /\ AllocFailures /\ UNCHANGED h2n
          \/ /\ ~TxRefused(i, ty) /\ RingFull(h2n, CmdQueueSize)
             /\ h2n' = RingReject(h2n)
          \/ /\ ~TxRefused(i, ty) /\ ~RingFull(h2n, CmdQueueSize)
             /\ h2n' = RingEnqueue(h2n, [interface |-> i, type |-> ty,
                                         response |-> NONE, cb |-> c])
    /\ UNCHANGED <<dp, handlers, n2h, coreState, calls, ipsec_callback, ipn, ipd>>

(***************************************************************************)
(* nss_ipsec_msg_handler(m).  Its type > NSS_IPSEC_MSG_TYPE_MAX test      *)
(* never fires here: the firmware answers with the type tx let through   *)
(* (<= MAX, the MAX value itself included) and its events are in range;  *)
(* nor can the interface test (the handler is registered only for ENCAP *)
(* and DECAP) or the length and RESPONSE_LAST tests.  A NOTIFY takes cb  *)
(* and app_data from the interface's stored pair; then with no cb        *)
(* nothing is called, otherwise cb(app_data, msg).  No netdev lookup.    *)
(***************************************************************************)
nss_ipsec_msg_handler(m) ==
    /\ m.type <= NSS_IPSEC_MSG_TYPE_MAX
    /\ LET cb == IF m.response = NOTIFY THEN ipsec_callback[m.interface] ELSE m.cb
       IN calls' = IF cb # NULL
                   THEN Append(calls, [cb |-> cb, ctx |-> cb, interface |-> m.interface,
                                       notify |-> m.response = NOTIFY])
                   ELSE calls
    /\ UNCHANGED <<dp, handlers, h2n, coreState, ipsec_callback, ipn, ipd, iops>>

\* The core's N2H drain calls nss_ipsec_msg_handler for ENCAP and DECAP.
IpsecDispatch ==
    /\ n2h.desc # << >>
    /\ handlers[RingHead(n2h).interface] = "ipsec"
    /\ n2h' = RingDequeue(n2h)
    /\ nss_ipsec_msg_handler(RingHead(n2h))

Next ==
    \/ \E c \in IpsecClients, i \in IpsecIfs :
          \/ nss_ipsec_notify_register(c, i) \/ nss_ipsec_notify_unregister(c, i)
          \/ nss_ipsec_data_register(c, i) \/ nss_ipsec_data_unregister(c, i)
    \/ \E c \in IpsecClients : nss_ipsec_tx_msg(c)
    \/ IpsecDispatch

=============================================================================
