CONSTANTS
    Transports = {"unix", "inet", "udp"}
    Clients = {c1, c2}
    Words = {"a", "b"}
    Known = {"a"}
    MaxQueries = 2
    MaxFaults = 1
SPECIFICATION Spec
INVARIANTS AnswersTrue AnswersInStep
PROPERTIES LookupReturns ChildrenEnd
CHECK_DEADLOCK FALSE
