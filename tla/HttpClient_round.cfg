CONSTANTS
    a = a
    b = b
    c = c
    d = d
    shared = shared
    own = own
    Callers = {a, b, c, d}
    Hosts = {shared, own}
    HostOf <- MCHostOf
    Begins <- MCBegins
    Deadline <- MCDeadline
    Gap = 3
    Retries = 2
    Pause = 1
    Timeout = 3
    MaxTime = 20
SPECIFICATION Spec
INVARIANTS
    TypeOK
    RequestsAreSpaced
    ReturnsInTime
    FailsAfterAllTries
