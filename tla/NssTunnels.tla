------------------------------- MODULE NssTunnels -------------------------------
(***************************************************************************)
(* The L2TPv2, IPIP6 and IPsec subsystems on one NSS core, composed with what    *)
(* they share: the core's handler table, subsys_dp_register[], the        *)
(* command queue, the N2H ring and the core state.  NssL2tpv2,            *)
(* NssTunIpip6 and NssIpsec are instantiated with the variables of the    *)
(* same name; each of their steps leaves the others' private state alone. *)
(*                                                                         *)
(* The core side (nss_core.c, not in this repository; spec.md §3, §4.2)   *)
(* is written here: the handler table starts with the two static          *)
(* interfaces registered at init, the N2H drain drops a message whose     *)
(* interface has no handler (spec §8, "after unregister, dispatch to     *)
(* that interface is a no-op"), and the firmware may die (the context     *)
(* state leaves Initialized; from then on only interrupts work).          *)
(***************************************************************************)
EXTENDS Integers, Sequences, FiniteSets, Functions, NssRing, TLC

CONSTANTS
    Sessions, SessIf, DynIfStart, SpecialIfStart,
    NSS_L2TPV2_INTERFACE, NSS_L2TPV2_MSG_SYNC_STATS, NSS_L2TPV2_MSG_MAX,
    L2tpTxTypes, NSlots, MaxSessionOps,
    Tunnels, TunIf, NSS_TUNIPIP6_INTERFACE, TunBadIf, NSS_TUNIPIP6_MAX,
    NSS_TUNIPIP6_RX_STATS_SYNC, TunTxTypes, MaxTunnelOps,
    IpsecClients, NSS_IPSEC_ENCAP_IF_NUMBER, NSS_IPSEC_DECAP_IF_NUMBER, IpsecBadIf,
    NSS_IPSEC_MSG_TYPE_MAX, IpsecTxTypes, MaxIpsecOps,
    NONE, NULL, NOTIFY, ACK, NACK,
    CORE_INITIALIZED, CORE_FW_DEAD,
    CmdQueueSize, N2HSize,
    AllocFailures,
    CoreDeath,        \* may the firmware die?
    MaxNotify,        \* stats messages the firmware sends (bound)
    MaxOps            \* register and tx calls of all users together (bound)

VARIABLES
    dp, handlers, h2n, n2h, coreState, calls,
    l2tpv2_msg_callback, slots, spc, sops,
    tunipip6_msg_callback, tpc, tops,
    ipsec_callback, ipn, ipd, iops,
    notes             \* stats messages sent

L2 == INSTANCE NssL2tpv2
T6 == INSTANCE NssTunIpip6
IP == INSTANCE NssIpsec

shared == <<dp, handlers, h2n, n2h, coreState, calls>>
l2tpVars == <<l2tpv2_msg_callback, slots, spc, sops>>
tunVars == <<tunipip6_msg_callback, tpc, tops>>
ipsecVars == <<ipsec_callback, ipn, ipd, iops>>
vars == <<shared, l2tpVars, tunVars, ipsecVars, notes>>

\* Register and tx calls made so far, by every session, tunnel and client.
TotalOps == FoldFunction(+, 0, sops) + FoldFunction(+, 0, tops) + FoldFunction(+, 0, iops)

Ifs == L2!DynIfs \cup {NSS_L2TPV2_INTERFACE, NSS_TUNIPIP6_INTERFACE, TunIf}
           \cup IP!IpsecIfs

\* enum nss_core_state, as far as the tunnels tell the states apart.
CoreStates == {CORE_INITIALIZED, CORE_FW_DEAD}

\* Driver init: nothing in subsys_dp_register[], the static handlers of
\* nss_l2tpv2_register_handler(), nss_tunipip6_register_handler() and
\* nss_ipsec_register_handler() in the table, empty rings, the core
\* initialised.
Init ==
    /\ dp = [i \in Ifs |-> NULL]
    /\ handlers = L2!nss_l2tpv2_register_handler @@ T6!nss_tunipip6_register_handler
                     @@ IP!nss_ipsec_register_handler @@ [i \in Ifs |-> NONE]
    /\ h2n = EmptyRing /\ n2h = EmptyRing
    /\ coreState = CORE_INITIALIZED
    /\ calls = << >>
    /\ L2!Init /\ T6!Init /\ IP!Init
    /\ notes = 0

-----------------------------------------------------------------------------
(* The firmware (environment) and the core *)

\* The firmware answers the oldest command, ACK or NACK; the answer carries
\* the command's interface, type and cb.
FirmwareAnswer ==
    /\ coreState = CORE_INITIALIZED
    /\ h2n.desc # << >>
    /\ ~RingFull(n2h, N2HSize)
    /\ \E r \in {ACK, NACK} : n2h' = RingEnqueue(n2h, [RingHead(h2n) EXCEPT !.response = r])
    /\ h2n' = RingDequeue(h2n)
    /\ UNCHANGED <<dp, handlers, coreState, calls, l2tpVars, tunVars, ipsecVars, notes>>

StatsNotify(i, ty) == [interface |-> i, type |-> ty, response |-> NOTIFY, cb |-> NULL]

\* Unsolicited stats: an L2TPv2 SYNC_STATS for a session node (registered or
\* not: the node exists) or the static interface, an IPIP6 stats sync, or
\* an IPsec event on ENCAP or DECAP.
FirmwareNotify ==
    /\ coreState = CORE_INITIALIZED
    /\ notes < MaxNotify
    /\ ~RingFull(n2h, N2HSize)
    /\ \E m \in {StatsNotify(i, NSS_L2TPV2_MSG_SYNC_STATS) :
                    i \in {SessIf[s] : s \in Sessions} \cup {NSS_L2TPV2_INTERFACE}}
                \cup {StatsNotify(NSS_TUNIPIP6_INTERFACE, NSS_TUNIPIP6_RX_STATS_SYNC)}
                \cup {StatsNotify(i, 0) : i \in IP!IpsecIfs} :
          n2h' = RingEnqueue(n2h, m)
    /\ notes' = notes + 1
    /\ UNCHANGED <<dp, handlers, h2n, coreState, calls, l2tpVars, tunVars, ipsecVars>>

\* The firmware dies: the context state leaves Initialized for good.
FirmwareDies ==
    /\ CoreDeath
    /\ coreState = CORE_INITIALIZED
    /\ coreState' = CORE_FW_DEAD
    /\ UNCHANGED <<dp, handlers, h2n, n2h, calls, l2tpVars, tunVars, ipsecVars, notes>>

\* No handler for the head's interface: the core drops the message.
CoreDropsUnregistered ==
    /\ n2h.desc # << >>
    /\ handlers[RingHead(n2h).interface] = NONE
    /\ n2h' = RingDequeue(n2h)
    /\ UNCHANGED <<dp, handlers, h2n, coreState, calls, l2tpVars, tunVars, ipsecVars, notes>>

\* Every bounded call made and everything delivered: the system idles.
Settled ==
    /\ \/ TotalOps = MaxOps
       \/ /\ \A s \in Sessions : sops[s] = MaxSessionOps
          /\ \A t \in Tunnels : tops[t] = MaxTunnelOps
          /\ \A c \in IpsecClients : iops[c] = MaxIpsecOps
    /\ n2h.desc = << >>
    /\ \/ h2n.desc = << >> \/ coreState # CORE_INITIALIZED
    /\ UNCHANGED vars

Next ==
    \/ L2!Next /\ UNCHANGED <<tunVars, ipsecVars, notes>> /\ TotalOps' <= MaxOps
    \/ T6!Next /\ UNCHANGED <<l2tpVars, ipsecVars, notes>> /\ TotalOps' <= MaxOps
    \/ IP!Next /\ UNCHANGED <<l2tpVars, tunVars, notes>> /\ TotalOps' <= MaxOps
    \/ FirmwareAnswer \/ FirmwareNotify \/ FirmwareDies
    \/ CoreDropsUnregistered
    \/ Settled

Spec == Init /\ [][Next]_vars

-----------------------------------------------------------------------------
(* Properties *)

Msg == [interface : Ifs, type : Nat,
        response : {NONE, ACK, NACK, NOTIFY},
        cb : Sessions \cup Tunnels \cup IpsecClients \cup {NULL}]

\* The rings only ever carry messages for interfaces the core has entries
\* for; the rest is the type of each variable.
TunnelsTypeOK ==
    /\ dp \in [Ifs -> Sessions \cup Tunnels \cup IpsecClients \cup {NULL}]
    /\ handlers \in [Ifs -> {NONE, "l2tpv2", "tunipip6", "ipsec"}]
    /\ coreState \in CoreStates
    /\ \A k \in 1 .. Len(h2n.desc) : h2n.desc[k] \in Msg
    /\ \A k \in 1 .. Len(n2h.desc) : n2h.desc[k] \in Msg
    /\ slots \in [L2!Slots -> [valid : BOOLEAN, ifnum : L2!DynIfs \cup {0}, stats : BOOLEAN]]
    /\ l2tpv2_msg_callback \in Sessions \cup {NULL}
    /\ tunipip6_msg_callback \in Tunnels \cup {NULL}
    /\ ipsec_callback \in [IP!IpsecIfs -> IpsecClients \cup {NULL}]

(***************************************************************************)
(* Each registered L2TP session has exactly one valid debug-stats slot    *)
(* and an unregistered one none (spec §4.6), and the counts               *)
(* nss_l2tpv2_session_debug_stats_sync() adds only ever sit in the valid  *)
(* slot of a registered session: register_if's first-free search,        *)
(* unregister_if's memset of the first slot with a matching if_num and    *)
(* stats messages still queued across an unregister must agree.          *)
(***************************************************************************)
L2tpv2DebugStatsTrackSessions ==
    /\ \A s \in Sessions :
          Cardinality({i \in L2!Slots : slots[i].valid /\ slots[i].ifnum = SessIf[s]})
              = IF spc[s] = "registered" THEN 1 ELSE 0
    /\ \A i \in L2!Slots :
          slots[i].stats =>
              /\ slots[i].valid
              /\ \E s \in Sessions : SessIf[s] = slots[i].ifnum /\ spc[s] = "registered"

=============================================================================
