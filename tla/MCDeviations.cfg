SPECIFICATION Spec
CONSTANTS
    Programs <- DeviatingTable
    Promised <- DeviatingPromise
    QueueSize = 2
    MaxFaults = 0
    Faulty = {}
    Endless <- DeviatingEndless
    Deviating = {}
    Killing <- NoSignals
    Reaping = {}
    Restoring <- NoSignals
INVARIANT PromisesKept
