\* Two subscriptions that come and go while a call publishes up to three events
\* into a replay window and channels of capacity two: the window is trimmed and a
\* slow reader lags.
CONSTANTS
    c1 = c1
    c2 = c2
    Channels = {c1, c2}
    Limit = 2
    MaxEvents = 3
SPECIFICATION FairSpec
INVARIANTS NoPanic ReplayNeverBlocks StreamComplete NothingStranded
PROPERTIES FeedSpec StreamsWindDown
\* A call that has ended and whose subscribers have left has nothing to do.
CHECK_DEADLOCK FALSE
