\* Two sysctl writers, one update_conn_count caller and an event client
\* that registers once; two stats syncs; send failures,
\* firmware NACKs and timeouts.
CONSTANTS
    w1 = w1
    w2 = w2
    u1 = u1
    ecm = ecm
    NULL = NULL
    NOTIFY = NOTIFY
    Notifier <- ecm
    ManySize <- MCManySize
    ManyCounts <- MCManyCounts
    MaxNotify = 1
    ACK = ACK
    NACK = NACK
    SUCCESS = SUCCESS
    FAILURE = FAILURE
    Updaters <- MCOneUpdater
    Values <- MCFewValues
    DefaultConn <- MCDefaultConn
    IPv4Conn <- MCIPv4Conn
    QuantaMask <- MCQuantaMask
    MaxTotal <- MCMaxTotal
    MinConn <- MCMinConn
    CmdQueueSize = 1
    N2HSize = 1
    Writers <- MCTwoWriters
    MaxOps = 1
    TxFailures = TRUE
    FwRejects = TRUE
    TimeoutsEnabled = TRUE
SPECIFICATION Spec
INVARIANTS
    Ipv6TypeOK
PROPERTIES
    EverySysctlReturns
    SysctlImplementsSyncRequest
