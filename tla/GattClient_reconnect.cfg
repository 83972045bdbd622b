\* Up to three connections, on the same handle or another one.
SPECIFICATION Spec
CONSTANTS
    Layouts <- MCLayouts
    Handles = {1, 2}
    MaxConnections = 3
    Faults = TRUE
INVARIANTS TypeOK IteratorLive SubscriptionValueRight
\* The demo stops for good once its peer stays away.
CHECK_DEADLOCK FALSE
