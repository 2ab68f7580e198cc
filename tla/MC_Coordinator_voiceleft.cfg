CONSTANTS
    Peers = {p1, p2}
    Servers = {s1}
    Keys = {k1}
    Conns = {c1, c2}
    Users = {u1, u2, u3}
    Chats = {ch}
    NoKey = NoKey
    NoUser = NoUser
    NoConn = NoConn
SYMMETRY MCSymmetry
SPECIFICATION Spec
PROPERTY VoiceLeaveAnnounced
CHECK_DEADLOCK FALSE
