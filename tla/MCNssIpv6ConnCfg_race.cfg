\* One sysctl writer and one update_conn_count caller; the firmware accepts
\* every valid count, sends succeed, nothing times out.
CONSTANTS
    w1 = w1
    w2 = w2
    u1 = u1
    ecm = ecm
    NULL = NULL
    NOTIFY = NOTIFY
    Notifier <- ecm
    ManySize <- MCManySize
    ManyCounts <- MCManyCounts
    MaxNotify = 0
    ACK = ACK
    NACK = NACK
    SUCCESS = SUCCESS
    FAILURE = FAILURE
    Updaters <- MCOneUpdater
    Values <- MCValues
    DefaultConn <- MCDefaultConn
    IPv4Conn <- MCIPv4Conn
    QuantaMask <- MCQuantaMask
    MaxTotal <- MCMaxTotal
    MinConn <- MCMinConn
    CmdQueueSize = 1
    N2HSize = 1
    Writers <- MCOneWriter
    MaxOps = 1
    TxFailures = FALSE
    FwRejects = FALSE
    TimeoutsEnabled = FALSE
SPECIFICATION Spec
INVARIANTS
    DriverValueMatchesFirmware
