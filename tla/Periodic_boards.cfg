\* Two boards whose controllers stop scanning to connect; anything may fail.
SPECIFICATION FairSpec
CONSTANTS
    Boards = {b1, b2}
    ConnectStopsScan = TRUE
    Failures = {"refusal", "connection", "link", "sync", "loss"}
    MaxFailures = 6
    MaxReports = 3
INVARIANT TypeOK
INVARIANT SomeoneAnswers
INVARIANT AttemptNoticed
INVARIANT OneModeAtATime
PROPERTY ImplementsElection
PROPERTY SyncFollows
\* Synchronised boards, and a board whose start failed, have nothing left to do.
CHECK_DEADLOCK FALSE
