-------------------------- MODULE AbstractRegistry --------------------------
(***************************************************************************)
(* What the peer registry promises its clients (spec 4.1, 5): every peer   *)
(* is owned by at most one live connection; Hello from a connection makes *)
(* it the owner, Goodbye from the owner releases the peer, and closing a   *)
(* connection releases exactly the peers it owns.  `actor` is the          *)
(* connection whose message or close the last step handled.                *)
(***************************************************************************)
CONSTANTS Peers, Conns, NoConn

VARIABLES owner, live, actor

regVars == <<owner, live, actor>>

Init ==
    /\ owner = [p \in Peers |-> NoConn]
    /\ live = {}
    /\ actor = NoConn

Connect(c) ==
    /\ c \notin live
    /\ live' = live \cup {c}
    /\ actor' = c
    /\ UNCHANGED owner

Bind(p, c) ==
    /\ c \in live
    /\ owner' = [owner EXCEPT ![p] = c]
    /\ actor' = c
    /\ UNCHANGED live

Release(p, c) ==
    /\ owner[p] = c /\ c \in live
    /\ owner' = [owner EXCEPT ![p] = NoConn]
    /\ actor' = c
    /\ UNCHANGED live

(* A message of a live connection that changes no ownership. *)
Act(c) ==
    /\ c \in live
    /\ actor' = c
    /\ UNCHANGED <<owner, live>>

Disconnect(c) ==
    /\ c \in live
    /\ live' = live \ {c}
    /\ owner' = [p \in Peers |-> IF owner[p] = c THEN NoConn ELSE owner[p]]
    /\ actor' = c

Next ==
    \/ \E c \in Conns : Connect(c) \/ Disconnect(c) \/ Act(c)
    \/ \E p \in Peers, c \in Conns : Bind(p, c) \/ Release(p, c)

Spec == Init /\ [][Next]_regVars

=============================================================================
