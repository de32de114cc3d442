\* One call that ends while its realtime session is being started.
CONSTANTS
    c1 = c1
    c2 = c2
    Calls = {c1, c2}
    Direction <- BothOutgoing
    PeerOf <- DistinctPeers
    StopKind = "none"
    MaxCalls = 1
    MaxHangups = 1
    Silent = {}
    SetupTimeout = 45
    TickPeriod = 15
    IdleLimit = 120
SPECIFICATION Spec
INVARIANT EndedCallHasNoSession
\* When the calls are over and the bot is stopped, or never will be, all rests.
CHECK_DEADLOCK FALSE
