\* Two models and one request, with the keep-alive loop and without it.
SPECIFICATION PoolSpec
CONSTANTS
    Models = {m1, m2}
    Requests = {r1}
    KeepAlive = {TRUE, FALSE}
    MaxErrors = 2
    MaxRetries = 2
    MaxTimers = 1
INVARIANTS
    RequestsOK
PROPERTIES
    BenchedComesBack
    RequestsEnd
    DroppedLeaves
