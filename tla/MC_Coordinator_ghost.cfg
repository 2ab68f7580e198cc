CONSTANTS
    Peers = {p1, p2}
    Servers = {s1, s2}
    Keys = {k1}
    Conns = {c1, c2}
    Users = {u1}
    Chats = {ch}
    NoKey = NoKey
    NoUser = NoUser
    NoConn = NoConn
SPECIFICATION Spec
INVARIANT NoGhostIndexEntry
CHECK_DEADLOCK FALSE
