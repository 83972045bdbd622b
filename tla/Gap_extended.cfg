\* The build with extended advertising, on a controller that has it; centrals connect.
SPECIFICATION FairSpec
CONSTANTS
    ExtCompiled = TRUE
    ExtSupported = TRUE
    ConnectStopsScan = TRUE
    Faults = TRUE
    Connectable = TRUE
    Discoverable = TRUE
    MaxConnections = 2
INVARIANT NoLeakedSet
PROPERTY ImplementsModes
PROPERTY BothModesRecur
\* A demo whose start failed stops for good.
CHECK_DEADLOCK FALSE
