SPECIFICATION Spec
CONSTANTS
    Roots = {"r", "s"}
    Dirs = {"d1", "d2"}
    Names = {"a"}
    Start <- MCStart
    Users = {"u1"}
    Commands <- MCCommands
    MaxOps = 2
    MaxCommands = 1
    QueueLimit = 2
    ReadSize = 3
INVARIANTS WatchesCached StaleEntriesFound InSyncUnlessMoved
PROPERTY EventsProcessed
