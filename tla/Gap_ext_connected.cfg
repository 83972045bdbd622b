\* Built with extended advertising: a central connects.
SPECIFICATION Spec
CONSTANTS
    ExtCompiled = TRUE
    ExtSupported = TRUE
    ConnectStopsScan = TRUE
    Faults = FALSE
    Connectable = TRUE
    Discoverable = FALSE
    MaxConnections = 1
INVARIANT ModesInSequence
\* A mode that finds the set of the other chain active returns, and may stop the demo.
CHECK_DEADLOCK FALSE
