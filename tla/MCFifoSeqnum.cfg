CONSTANTS
    Clients = {c1, c2}
    SeqLens = {1, 2}
    MaxServerKills = 1
    MaxClientKills = 1
SPECIFICATION Spec
INVARIANTS DisjointSequences NeverSeesEof
PROPERTIES ImplementsAllocator RequestsHandled
CHECK_DEADLOCK FALSE
