\* Two bots, two modules and the listener.
CONSTANTS
    b1 = b1
    b2 = b2
    start = start
    mod = mod
    Bots = {b1, b2}
    Modules = {start, mod}
    Listener = Listener
SPECIFICATION FairSpec
INVARIANTS TypeOK ShutdownOrder
PROPERTY ProcessEnds
\* The process ends.
CHECK_DEADLOCK FALSE
