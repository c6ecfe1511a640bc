------------------------------ MODULE NssTunIpip6 ------------------------------
(***************************************************************************)
(* The IPIP6 (DS-Lite) tunnel subsystem (nss_tunipip6.c).                 *)
(*                                                                         *)
(* All tunnel messages travel on the static NSS_TUNIPIP6_INTERFACE, whose *)
(* handler is registered at init.  nss_register_tunipip6_if(if_num)       *)
(* makes the tunnel's event callback the global tunipip6_msg_callback and *)
(* records its netdev in subsys_dp_register[if_num];                       *)
(* nss_unregister_tunipip6_if() clears both.  The handler looks the netdev *)
(* up at subsys_dp_register[NSS_TUNIPIP6_INTERFACE], so a tunnel receives *)
(* its callbacks only when it registered with that if_num: TunIf is the   *)
(* if_num the tunnel registers with.  nss_tunipip6_tx() is asynchronous.  *)
(*                                                                         *)
(* The shared variables are those of NssL2tpv2; NssTunnels composes them. *)
(***************************************************************************)
EXTENDS Integers, Sequences, FiniteSets, NssRing, TLC

CONSTANTS
    Tunnels,                   \* tunnel netdevs
    TunIf,                     \* the if_num a tunnel registers with
    NSS_TUNIPIP6_INTERFACE,
    TunBadIf,                  \* another interface a caller may pass to tx
    NSS_TUNIPIP6_MAX,
    TunTxTypes,                \* message types callers pass to nss_tunipip6_tx()
    NONE, NULL, NOTIFY,
    CORE_INITIALIZED,
    CmdQueueSize,
    AllocFailures,
    MaxTunnelOps               \* register and tx calls per tunnel (bound)

VARIABLES
    dp, handlers, h2n, n2h, coreState, calls,  \* shared, as in NssL2tpv2
    tunipip6_msg_callback,     \* nss_top_main.tunipip6_msg_callback
    tpc,                       \* each tunnel: "idle" or "registered"
    tops                       \* register and tx calls each tunnel made

tunVars == <<tunipip6_msg_callback, tpc, tops>>

\* nss_tunipip6_register_handler() at init.
nss_tunipip6_register_handler == NSS_TUNIPIP6_INTERFACE :> "tunipip6"

Init ==
    /\ tunipip6_msg_callback = NULL
    /\ tpc = [t \in Tunnels |-> "idle"]
    /\ tops = [t \in Tunnels |-> 0]

\* nss_register_tunipip6_if(): the global event callback, then the netdev.
nss_register_tunipip6_if(t) ==
    /\ tpc[t] = "idle"
    /\ tops[t] < MaxTunnelOps
    /\ tunipip6_msg_callback' = t
    /\ dp' = [dp EXCEPT ![TunIf] = t]
    /\ tpc' = [tpc EXCEPT ![t] = "registered"]
    /\ tops' = [tops EXCEPT ![t] = @ + 1]
    /\ UNCHANGED <<handlers, h2n, n2h, coreState, calls>>

\* subsys_dp_register[if_num]: cb, ndev and features cleared.
ClearNdev(i) == [dp EXCEPT ![i] = NULL]

\* nss_unregister_tunipip6_if(): the netdev, then the global callback.
nss_unregister_tunipip6_if(t) ==
    /\ tpc[t] = "registered"
    /\ dp' = ClearNdev(TunIf)
    /\ tunipip6_msg_callback' = NULL
    /\ tpc' = [tpc EXCEPT ![t] = "idle"]
    /\ UNCHANGED <<handlers, h2n, n2h, coreState, calls, tops>>

(***************************************************************************)
(* nss_tunipip6_tx(msg): refused when the core is not initialised, the    *)
(* interface is not NSS_TUNIPIP6_INTERFACE or type > NSS_TUNIPIP6_MAX;    *)
(* dev_alloc_skb() may fail; a full command queue is marked stopped and   *)
(* reported as plain NSS_TX_FAILURE; otherwise the message is queued.    *)
(***************************************************************************)
TxRefusedWithoutInterfaceCheck(i, ty) ==
    \/ coreState # CORE_INITIALIZED
    \/ ty > NSS_TUNIPIP6_MAX

TxRefused(i, ty) ==
    \/ coreState # CORE_INITIALIZED
    \/ i # NSS_TUNIPIP6_INTERFACE
    \/ ty > NSS_TUNIPIP6_MAX

nss_tunipip6_tx(t) ==
    /\ tpc[t] = "registered"
    /\ tops[t] < MaxTunnelOps
    /\ tops' = [tops EXCEPT ![t] = @ + 1]
    /\ \E i \in {NSS_TUNIPIP6_INTERFACE, TunBadIf}, ty \in TunTxTypes, cb \in {t, NULL} :
          \/ TxRefused(i, ty) /\ UNCHANGED h2n
          \/ ~TxRefused(i, ty) /\ AllocFailures /\ UNCHANGED h2n
          \/ /\ ~TxRefused(i, ty) /\ RingFull(h2n, CmdQueueSize)
             /\ h2n' = RingReject(h2n)
          \/ /\ ~TxRefused(i, ty) /\ ~RingFull(h2n, CmdQueueSize)
             /\ h2n' = RingEnqueue(h2n, [interface |-> i, type |-> ty,
                                         response |-> NONE, cb |-> cb])
    /\ UNCHANGED <<dp, handlers, n2h, coreState, calls, tunipip6_msg_callback, tpc>>

(***************************************************************************)
(* nss_tunipip6_handler(m).  The BUG_ON(interface != NSS_TUNIPIP6_        *)
(* INTERFACE) cannot fire: that is the only interface it is registered    *)
(* for.  A type >= NSS_TUNIPIP6_MAX is dropped.  A NOTIFY goes to the     *)
(* global tunipip6_msg_callback, anything else to its own cb; with no cb, *)
(* or no netdev at subsys_dp_register[interface], nothing is called.     *)
(***************************************************************************)
nss_tunipip6_handler(m) ==
    /\ \/ m.type >= NSS_TUNIPIP6_MAX /\ UNCHANGED calls
       \/ /\ m.type < NSS_TUNIPIP6_MAX
          /\ LET cb  == IF m.response = NOTIFY THEN tunipip6_msg_callback ELSE m.cb
                 ctx == dp[m.interface]
             IN calls' = IF cb # NULL /\ ctx # NULL
                         THEN Append(calls, [cb |-> cb, ctx |-> ctx, interface |-> m.interface,
                                             notify |-> m.response = NOTIFY])
                         ELSE calls
    /\ UNCHANGED <<dp, handlers, h2n, coreState, tunipip6_msg_callback, tpc, tops>>

\* The core's N2H drain calls nss_tunipip6_handler for its interface.
Tunipip6Dispatch ==
    /\ n2h.desc # << >>
    /\ handlers[RingHead(n2h).interface] = "tunipip6"
    /\ n2h' = RingDequeue(n2h)
    /\ nss_tunipip6_handler(RingHead(n2h))

Next ==
    \/ \E t \in Tunnels :
          \/ nss_register_tunipip6_if(t) \/ nss_unregister_tunipip6_if(t)
          \/ nss_tunipip6_tx(t)
    \/ Tunipip6Dispatch

=============================================================================
