------------------------------ MODULE MCNssTunnels ------------------------------
(***************************************************************************)
(* Model values and bounds for NssTunnels.                                 *)
(***************************************************************************)
EXTENDS NssTunnels

CONSTANTS s1, s2, tun1, ip1, ip2

\* Two L2TP sessions on the dynamic if_nums 8 and 9 (10 stands for
\* NSS_SPECIAL_IF_START); one IPIP6 tunnel, registered with the static
\* interface number its messages travel on.
MCSessions == {s1, s2}
MCSessIf == (s1 :> 8) @@ (s2 :> 9)
MCDynIfStart == 8
MCSpecialIfStart == 10
MCTunnels == {tun1}
MCTunIf == NSS_TUNIPIP6_INTERFACE

\* enum nss_l2tpv2_msg_types: SESSION_CREATE, SESSION_DESTROY, SYNC_STATS,
\* MAX; enum nss_tunipip6_metadata_types: TX_ENCAP_IF_CREATE,
\* TX_DECAP_IF_CREATE, RX_STATS_SYNC, MAX.  Callers pass a valid type,
\* the MAX value itself, or MAX + 1.
MCMsgMax == 3
MCSyncStats == 2
MCTxTypes == {0, 3, 4}

\* Two IPsec users, so that one can register over, or beside, the other.
\* enum nss_ipsec_msg_type ends at NSS_IPSEC_MSG_TYPE_MAX, which tx and the
\* handler both let through; callers pass a rule type, MAX or MAX + 1.
MCIpsecClients == {ip1, ip2}
====
