\* Two L2TP sessions and one IPIP6 tunnel: register, unregister and tx in
\* any order, skb failures, a one-descriptor command queue, stats messages
\* and the firmware dying.
CONSTANTS
    s1 = s1
    s2 = s2
    tun1 = tun1
    ip1 = ip1
    ip2 = ip2
    NSS_IPSEC_ENCAP_IF_NUMBER = NSS_IPSEC_ENCAP_IF_NUMBER
    NSS_IPSEC_DECAP_IF_NUMBER = NSS_IPSEC_DECAP_IF_NUMBER
    IpsecBadIf = IpsecBadIf
    NSS_L2TPV2_INTERFACE = NSS_L2TPV2_INTERFACE
    NSS_TUNIPIP6_INTERFACE = NSS_TUNIPIP6_INTERFACE
    TunBadIf = TunBadIf
    NONE = NONE
    NULL = NULL
    NOTIFY = NOTIFY
    ACK = ACK
    NACK = NACK
    CORE_INITIALIZED = CORE_INITIALIZED
    CORE_FW_DEAD = CORE_FW_DEAD
    Sessions <- MCSessions
    SessIf <- MCSessIf
    DynIfStart <- MCDynIfStart
    SpecialIfStart <- MCSpecialIfStart
    Tunnels <- MCTunnels
    TunIf <- MCTunIf
    NSS_L2TPV2_MSG_MAX <- MCMsgMax
    NSS_L2TPV2_MSG_SYNC_STATS <- MCSyncStats
    NSS_TUNIPIP6_MAX <- MCMsgMax
    NSS_TUNIPIP6_RX_STATS_SYNC <- MCSyncStats
    L2tpTxTypes <- MCTxTypes
    TunTxTypes <- MCTxTypes
    IpsecClients <- MCIpsecClients
    NSS_IPSEC_MSG_TYPE_MAX <- MCMsgMax
    IpsecTxTypes <- MCTxTypes
    NSlots = 2
    CmdQueueSize = 1
    N2HSize = 1
    AllocFailures = TRUE
    CoreDeath = TRUE
    MaxSessionOps = 2
    MaxTunnelOps = 2
    MaxIpsecOps = 2
    MaxNotify = 1
    MaxOps = 4
SPECIFICATION Spec
INVARIANTS
    TunnelsTypeOK
    L2tpv2DebugStatsTrackSessions
