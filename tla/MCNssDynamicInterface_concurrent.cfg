\* Two threads contending for di.sem; the firmware may answer late; bad
\* types and if_nums, skb failures and a full command queue.  The firmware
\* dying is a step of the composing wifi model (wifi_single).
CONSTANTS
    t1 = t1
    t2 = t2
    WIFI = WIFI
    TYPE_MAX = TYPE_MAX
    NSS_DYNAMIC_INTERFACE = NSS_DYNAMIC_INTERFACE
    NONE = NONE
    ACK = ACK
    NACK = NACK
    TX_SUCCESS = TX_SUCCESS
    TX_FAILURE = TX_FAILURE
    BAD_PARAM = BAD_PARAM
    TX_FAILURE_NOT_READY = TX_FAILURE_NOT_READY
    CORE_INITIALIZED = CORE_INITIALIZED
    CORE_FW_DEAD = CORE_FW_DEAD
    Types <- MCTypes
    BadTypes <- MCBadTypes
    DynIfStart <- MCDynIfStart
    SpecialIfStart <- MCSpecialIfStart
    BadIfNums <- MCBadIfNums
    ResponseReset <- MCResponseReset
    CmdQueueSize = 1
    N2HSize = 1
    Threads <- MCTwoThreads
    MaxCalls = 2
    TimeoutsEnabled = TRUE
    AllocFailures = TRUE
    CoreDeath = FALSE
SPECIFICATION Spec
INVARIANTS
    TypeOK
    SlotTableTracksFirmware

PROPERTIES
    EveryCallReturns
    TxSyncImplementsSyncRequest
