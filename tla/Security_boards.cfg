\* Two boards; failures of every kind, two in each behaviour.
SPECIFICATION FairSpec
CONSTANTS
    Boards = {b1, b2}
    SharedSlot = TRUE
    Failures = {"refusal", "connection", "pairing", "link", "late", "reset"}
    MaxFailures = 2
    MaxReports = 2
INVARIANT TypeOK
INVARIANT LinksAreClosed
INVARIANT GoesOn
PROPERTY OwnDisconnection
PROPERTY KeepsRole
PROPERTY MeetAgain
\* A board whose start was refused stops for good.
CHECK_DEADLOCK FALSE
