\* Two StartOutgoingCall requests of one user at the same time.
CONSTANTS
    c1 = c1
    c2 = c2
    Calls = {c1, c2}
    Direction <- BothOutgoing
    PeerOf <- DistinctPeers
    StopKind = "none"
    MaxCalls = 2
    MaxHangups = 1
    Silent = {}
    SetupTimeout = 45
    TickPeriod = 15
    IdleLimit = 120
SPECIFICATION Spec
INVARIANT OneActiveCall
\* When the calls are over and the bot is stopped, or never will be, all rests.
CHECK_DEADLOCK FALSE
