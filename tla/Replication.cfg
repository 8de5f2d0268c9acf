SPECIFICATION Spec
CONSTANTS
    Nodes = {n1}
    N = 3
    B = 2
    Plans = {{"node", "commit"}, {"node", "replicant", "network", "commit"}, {"resolve", "commit"}, {"resolve", "replicant"}, {"read", "commit"}, {"read", "node"}, {"read", "resolve"}}
    MaxTx = 3
    MaxFaults = 3
INVARIANTS LogsAreHistories FailedIsNowhere NeverTooFew AckedIsEverywhere
PROPERTIES TransactionsEnd
CHECK_DEADLOCK FALSE
