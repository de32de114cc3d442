\* Two messages of a contact and a call with it, two at a
\* time, with one place in RxCh.
CONSTANTS
    m1 = m1
    m2 = m2
    k1 = k1
    c0 = c0
    c1 = c1
    Msgs = {m1, m2}
    Calls = {k1}
    Chans = {c0, c1}
    Leftover = c0
    NoCh = NoCh
    Addressless = {c0}
    RxCap = 1
    MaxHandlers = 2
SPECIFICATION FairSpec
INVARIANTS TypeOK HeardFromTheStart ServedOnce SentHasServer
PROPERTY SentIsServed
\* When the messages are handled, nothing is left to do.
CHECK_DEADLOCK FALSE
