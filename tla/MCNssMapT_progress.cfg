\* Two MAP-T instances; skb failures, a full command queue, timeouts and the
\* firmware dying.
CONSTANTS
    c1 = c1
    c2 = c2
    NSS_MAP_T_INTERFACE = NSS_MAP_T_INTERFACE
    MAP_T = MAP_T
    NONE = NONE
    NULL = NULL
    ACK = ACK
    NACK = NACK
    NOTIFY = NOTIFY
    TX_SUCCESS = TX_SUCCESS
    TX_FAILURE = TX_FAILURE
    TX_FAILURE_QUEUE = TX_FAILURE_QUEUE
    TX_FAILURE_NOT_READY = TX_FAILURE_NOT_READY
    CORE_INITIALIZED = CORE_INITIALIZED
    CORE_FW_DEAD = CORE_FW_DEAD
    DynIfStart <- MCDynIfStart
    SpecialIfStart <- MCSpecialIfStart
    NSlots = 2
    CmdQueueSize = 1
    N2HSize = 1
    MaxNotify = 1
    Clients <- MCTwoClients
    MaxOps = 1
    TimeoutsEnabled = TRUE
    AllocFailures = TRUE
    StaticStats = FALSE
    CoreDeath = TRUE
SPECIFICATION Spec
INVARIANTS
    MapTTypeOK
    DebugStatsTrackRegistrations
PROPERTIES
    EverySyncReturns
    TxSyncImplementsSyncRequest
