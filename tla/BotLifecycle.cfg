\* Two requests, one after the other or overlapping, and the two bots they may
\* create.
CONSTANTS
    b1 = b1
    b2 = b2
    r1 = r1
    r2 = r2
    NoBot = NoBot
    Bots = {b1, b2}
    Requests = {r1, r2}
    MaxConcurrent = 2
SPECIFICATION FairSpec
INVARIANTS TypeOK StoppedIsFinished ServiceReachable SerialOneClient
PROPERTY ReauthEndsService
\* When the requests are answered and WhatsApp is quiet, nothing is left to do.
CHECK_DEADLOCK FALSE
