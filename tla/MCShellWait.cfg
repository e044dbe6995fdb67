CONSTANTS
    Shells = {"hw3"}
    Lines <- MCLines
    MaxStages = 4
SPECIFICATION ShellSpec
INVARIANT WaitForForeground
CHECK_DEADLOCK FALSE
