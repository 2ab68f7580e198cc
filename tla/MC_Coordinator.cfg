\* Socket lifecycle, registry and voice invariants over every interleaving
\* of two connections, two peers, one server, one signing key, two users.
\* Connection ids are never reused, so the model stops once both have
\* closed: that end state is an artefact of the bound, not a deadlock.
CONSTANTS
    Peers = {p1, p2}
    Servers = {s1}
    Keys = {k1}
    Conns = {c1, c2}
    Users = {u1, u2}
    Chats = {ch}
    NoKey = NoKey
    NoUser = NoUser
    NoConn = NoConn
SYMMETRY MCSymmetry
SPECIFICATION Spec
INVARIANT TypeOK
INVARIANT PeerBoundToLiveConn
INVARIANT PeerIndexed
INVARIANT VoiceUserUnique
INVARIANT VoiceConnLive
INVARIANT QuiescentClean
CHECK_DEADLOCK FALSE
