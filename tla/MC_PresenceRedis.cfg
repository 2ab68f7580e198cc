\* Two users, one signing key, one snapshot caller; TTL 3 ticks, ticker
\* every tick, at most one failed refresh in a row ((MaxMissed+1)*Period < TTL).
CONSTANTS
    Users = {u1, u2}
    Keys = {k1}
    Subscribers = {sub1}
    NoKey = NoKey
    TTL = 3
    Period = 1
    MaxMissed = 1
SPECIFICATION Spec
INVARIANT TypeOK
INVARIANT OnlineRecordLive
PROPERTY OnlineEventuallyListed
PROPERTY OnlineRecordRestored
