\* One call, of either direction, while the bot is stopped and a HangupCall comes in.
CONSTANTS
    c1 = c1
    c2 = c2
    Calls = {c1, c2}
    Direction <- Mixed
    PeerOf <- OnePeer
    StopKind = "stop"
    MaxCalls = 1
    MaxHangups = 1
    Silent = {}
    SetupTimeout = 45
    TickPeriod = 15
    IdleLimit = 120
SPECIFICATION FairSpec
INVARIANTS TypeOK StopEndsCalls DroppedCallsHungUp
PROPERTIES UnreadyCallsEnd ThreadsReturn
\* When the calls are over and the bot is stopped, or never will be, all rests.
CHECK_DEADLOCK FALSE
