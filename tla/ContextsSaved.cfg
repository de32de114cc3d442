\* One bot and one module are enough to lose the contexts.
CONSTANTS
    b1 = b1
    b2 = b2
    start = start
    mod = mod
    Bots = {b1}
    Modules = {start}
    Listener = Listener
SPECIFICATION Spec
INVARIANT ContextsSaved
\* The process ends.
CHECK_DEADLOCK FALSE
