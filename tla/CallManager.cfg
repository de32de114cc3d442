\* One incoming call and one outgoing call that replaces it or overlaps with it.
CONSTANTS
    c1 = c1
    c2 = c2
    Calls = {c1, c2}
    Direction <- Mixed
    PeerOf <- DistinctPeers
    StopKind = "none"
    MaxCalls = 2
    MaxHangups = 0
    Silent = {}
    SetupTimeout = 45
    TickPeriod = 15
    IdleLimit = 120
SPECIFICATION Spec
INVARIANTS DroppedCallsHungUp UnreadyCallsWatched
PROPERTY LifeSpec
\* When the calls are over and the bot is stopped, or never will be, all rests.
CHECK_DEADLOCK FALSE
