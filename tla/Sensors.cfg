\* The whole cycles of the three values; three updates refused in a row, two clients.
\* CHECK_DEADLOCK FALSE: a board whose start was refused does nothing more.
CONSTANTS
    MaxMisses = 3
    MaxClients = 2
SPECIFICATION FairSpec
INVARIANTS TypeOK ShownAge
PROPERTIES ImplementsCyclicSensor ReachableAgain ShowsAgain
CHECK_DEADLOCK FALSE
