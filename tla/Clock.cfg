\* Every time of day; any access to the GATT server may fail.
SPECIFICATION Spec
CONSTANTS
    Payloads = {0, 23, 24, 58, 59, 60, 255}
    Faults = TRUE
INVARIANT ValidTime
PROPERTY ImplementsDayClock
