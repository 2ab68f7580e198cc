\* Four upgrade attempts from two IPs with a global cap of 3 and a per-IP
\* cap of 2: both caps are reached, and slots are given back and reused.
\* The run ends when every attempt has been rejected or closed.
CONSTANTS
    Conns = {c1, c2, c3, c4}
    Ips = {i1, i2}
    MaxTotal = 3
    MaxPerIp = 2
    NoIp = NoIp
SPECIFICATION Spec
INVARIANT TypeOK
PROPERTY AdmissionRefinement
CHECK_DEADLOCK FALSE
