\* One command thread, two capture sessions, a two-frame ring.
CONSTANTS
    Callers = {t1}
    MaxStarts = 2
    RingCap = 2
    NoOne = NoOne
SPECIFICATION Spec
PROPERTY CommandsReturn
CHECK_DEADLOCK FALSE
