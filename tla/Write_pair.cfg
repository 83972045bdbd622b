\* A byte of two bits (its wrap is reached in four rounds), one board calling
\* the client, two lost links and two writes of other clients.
CONSTANTS
    Modulus = 4
    Callers = {"caller"}
    MaxLosses = 2
    MaxForeign = 2
SPECIFICATION FairSpec
INVARIANTS TypeOK InSync
PROPERTIES ImplementsByteCounter NoLostUpdate RoundEnds
