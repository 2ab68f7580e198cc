-------------------------- MODULE AdmissionControl --------------------------
(***************************************************************************)
(* What the WebSocket connection limits promise (spec 4.5, scenario S-F):  *)
(* a connection is admitted exactly when fewer than MaxTotal connections   *)
(* hold a slot and fewer than MaxPerIp of them come from its IP (0 = no    *)
(* limit), and rejected exactly when a limit is reached; a connection      *)
(* gives its slot back once.                                               *)
(***************************************************************************)
EXTENDS Naturals, FiniteSets

CONSTANTS Conns, Ips, MaxTotal, MaxPerIp

VARIABLES admitted, rejected    \* <<conn, ip>> pairs holding a slot; rejected conns

admVars == <<admitted, rejected>>

FromIp(i) == {x \in admitted : x[2] = i}

UnderLimits(i) ==
    /\ MaxTotal = 0 \/ Cardinality(admitted) < MaxTotal
    /\ MaxPerIp = 0 \/ Cardinality(FromIp(i)) < MaxPerIp

Init == admitted = {} /\ rejected = {}

Admit(c, i) ==
    /\ UnderLimits(i)
    /\ admitted' = admitted \cup {<<c, i>>}
    /\ UNCHANGED rejected

Reject(c, i) ==
    /\ ~UnderLimits(i)
    /\ rejected' = rejected \cup {c}
    /\ UNCHANGED admitted

Release(c, i) ==
    /\ <<c, i>> \in admitted
    /\ admitted' = admitted \ {<<c, i>>}
    /\ UNCHANGED rejected

Next == \E c \in Conns, i \in Ips : Admit(c, i) \/ Reject(c, i) \/ Release(c, i)

Spec == Init /\ [][Next]_admVars

=============================================================================
