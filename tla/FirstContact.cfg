\* Three messages of a contact that Redis knows or not, two at a time at most,
\* and a restart of the process.
CONSTANTS
    m1 = m1
    m2 = m2
    m3 = m3
    Msgs = {m1, m2, m3}
    Preloaded = Preloaded
    NoInfo = NoInfo
    MaxHandlers = 2
    MaxRestarts = 1
SPECIFICATION Spec
INVARIANTS TypeOK AnswersAddressed GreetedOnce OneNewDialog
SYMMETRY MsgSymmetry
\* When the messages are handled, nothing is left to do.
CHECK_DEADLOCK FALSE
