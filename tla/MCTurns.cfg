SPECIFICATION BothSpec
CONSTANTS
    MaxNumSigs = 4
    MaxBlocks = 4
INVARIANTS NoSignalLost LockStep ExclusiveAccess OutputIsInput RemovedAfterReader
PROPERTIES KillReachesLivePeer ExchangeCompletes TransferCompletes
