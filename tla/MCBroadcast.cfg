CONSTANTS
    M = 3
    N = 2
    B = 2
    Parts = {head, tail}
SPECIFICATION Spec
INVARIANTS LossRateNotNegative OnlySentMessages
PROPERTIES FinalCountStable ParentFinishes
