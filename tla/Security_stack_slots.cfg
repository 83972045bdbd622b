\* A build that lays the objects of the two roles at different addresses.
SPECIFICATION Spec
CONSTANTS
    Boards = {b1, b2}
    SharedSlot = FALSE
    Failures = {}
    MaxFailures = 0
    MaxReports = 1
PROPERTY KeepsRole
\* Boards with keys that their objects know nothing of encrypt, and stay linked for good.
CHECK_DEADLOCK FALSE
