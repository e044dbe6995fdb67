CONSTANTS
    Callers = {p1, p2, p3, p4}
    STACK_SIZE = 2
    MaxCalls = 1
    MaxSpurious = 1
SPECIFICATION DriverSpec
INVARIANT OneSidedWakeup
PROPERTIES ImplementsStack CallsSettle ReturnsOrHangs
CHECK_DEADLOCK FALSE
