\* Two command threads each calling start_capture once more than there are
\* sessions: the second store overwrites the first session.
CONSTANTS
    Callers = {t1, t2}
    MaxStarts = 2
    RingCap = 1
    NoOne = NoOne
SPECIFICATION Spec
INVARIANT NoOrphanThread
CHECK_DEADLOCK FALSE
