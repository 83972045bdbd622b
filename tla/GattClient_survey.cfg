\* One connection; any local call may be refused.
SPECIFICATION FairSpec
CONSTANTS
    Layouts <- MCLayouts
    Handles = {1}
    MaxConnections = 1
    Faults = TRUE
INVARIANT NoNullDereference
INVARIANT SolicitedOnce
PROPERTY ImplementsSurvey
PROPERTY SurveyEnds
\* The demo stops for good once its peer stays away.
CHECK_DEADLOCK FALSE
