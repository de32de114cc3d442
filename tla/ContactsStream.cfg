\* Up to three contacts and six groups, reported by five, through a channel that
\* holds two messages.
CONSTANTS
    MaxContacts = 3
    MaxGroups = 6
    Capacity = 2
    GroupStep = 5
SPECIFICATION FairSpec
INVARIANTS OutcomeEndsStream EmptyResultIsTrue
PROPERTY StreamEnds
\* When the stream is over, or its reader gone, nothing is left to do.
CHECK_DEADLOCK FALSE
