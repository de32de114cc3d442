\* Two connections of a user and one code; the channel is as small as it may be.
CONSTANTS
    s1 = s1
    s2 = s2
    Sessions = {s1, s2}
    Capacity = 4
    MaxCodes = 1
SPECIFICATION FairSpec
INVARIANTS ReplacedIsTold OutcomeNotLost OutcomeAwaits
PROPERTY ConnectionsEnd
\* When the connections are closed, nothing is left to do.
CHECK_DEADLOCK FALSE
