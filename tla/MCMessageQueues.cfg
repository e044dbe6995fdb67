CONSTANTS
    Apis = {"sysv", "posix"}
    Servers = {s1, s2}
    Clients = {c1, c2, c3}
    Numbers = {n}
    MaxMsgs = 1
    MaxKills = 1
SPECIFICATION Spec
INVARIANT SentNotLost
PROPERTIES ClientsReleased EndStopsServer
CHECK_DEADLOCK FALSE
