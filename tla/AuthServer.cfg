SPECIFICATION Spec
CONSTANTS
    Persons = {"ann", "bob"}
    Workers = {"w1", "w2"}
    Deployments <- MCDeployments
    MaxFaults = 1
INVARIANTS Safety TokenSignsInOnce RefusalExplained
CHECK_DEADLOCK FALSE
