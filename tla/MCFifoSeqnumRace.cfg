CONSTANTS
    Clients = {c1}
    SeqLens = {1, 2}
    MaxServerKills = 0
    MaxClientKills = 0
SPECIFICATION Spec
PROPERTIES ClientCompletes
CHECK_DEADLOCK FALSE
