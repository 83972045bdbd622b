\* A second connection, nothing is refused: the branch that should never happen.
SPECIFICATION Spec
CONSTANTS
    Layouts <- MCLayouts
    Handles = {1}
    MaxConnections = 2
    Faults = FALSE
INVARIANT NeverUnsolicited
\* The demo stops for good once its peer stays away.
CHECK_DEADLOCK FALSE
