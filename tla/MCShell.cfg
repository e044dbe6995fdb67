CONSTANTS
    Shells = {"hw3", "hw5"}
    Lines <- MCLines
    MaxStages = 4
SPECIFICATION ShellSpec
INVARIANT StagesWired
PROPERTIES EofReachesReader SigpipeReachesWriter
CHECK_DEADLOCK FALSE
