\* The build without extended advertising: one chain of modes, for ever.
SPECIFICATION FairSpec
CONSTANTS
    ExtCompiled = FALSE
    ExtSupported = FALSE
    ConnectStopsScan = TRUE
    Faults = TRUE
    Connectable = TRUE
    Discoverable = TRUE
    MaxConnections = 2
INVARIANT TypeOK
INVARIANT OneDriver
INVARIANT LinksAreClosed
INVARIANT ConnectingFlagRight
PROPERTY ImplementsModes
PROPERTY BothModesRecur
\* A demo whose start failed stops for good.
CHECK_DEADLOCK FALSE
