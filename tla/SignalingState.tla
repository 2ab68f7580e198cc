--------------------------- MODULE SignalingState ---------------------------
(***************************************************************************)
(* The five-index peer registry of signaling-server/src/state/signaling.rs *)
(* (struct SignalingState), as pure operators on a record with one field   *)
(* per HashMap.  A HashMap K -> V is a TLA+ function whose DOMAIN is the   *)
(* set of present keys; a key is deleted by shrinking the domain, so an    *)
(* "empty set retained under a key" is representable and checkable.       *)
(* The handlers that call these operators are in Coordinator.              *)
(***************************************************************************)
EXTENDS FiniteSets, Functions

CONSTANTS
    Peers,      \* PeerId values
    Servers,    \* ServerId values
    Keys,       \* SigningPubkey values
    Conns,      \* ConnId values, one per accepted WebSocket
    NoKey       \* Option<SigningPubkey>::None

ASSUME NoKey \notin Keys

PeerConnection == [server : Servers, spk : Keys \cup {NoKey}, conn : Conns]

(* HashMap helpers: insert/overwrite, remove, entry().or_insert().insert(), *)
(* and remove-from-set-then-delete-if-empty.                               *)
Put(f, k, v) == [x \in DOMAIN f \cup {k} |-> IF x = k THEN v ELSE f[x]]

Drop(f, k) == Restrict(f, DOMAIN f \ {k})

AddTo(f, k, e) == Put(f, k, (IF k \in DOMAIN f THEN f[k] ELSE {}) \cup {e})

(* Mutant: the is_empty check dropped, the whole set is deleted.          *)
RemoveFromDropsKey(f, k, e) == IF k \in DOMAIN f THEN Drop(f, k) ELSE f

(* Mutant: the emptied set is kept under its key.                         *)
RemoveFromKeepsEmpty(f, k, e) == IF k \in DOMAIN f THEN [f EXCEPT ![k] = @ \ {e}] ELSE f

RemoveFrom(f, k, e) ==
    IF k \notin DOMAIN f THEN f
    ELSE IF f[k] \ {e} = {} THEN Drop(f, k)
    ELSE [f EXCEPT ![k] = @ \ {e}]

(* SignalingState::new *)
EmptySignaling ==
    [peers |-> <<>>, servers |-> <<>>, signing_servers |-> <<>>,
     peer_senders |-> <<>>, conn_peers |-> <<>>]

(* validate_peer_connection: the peer is registered and bound to conn.     *)
ValidatePeerConnection(st, p, c) ==
    p \in DOMAIN st.peers /\ st.peers[p].conn = c

(* register_peer: overwrites peers[p] and inserts p into the conn, server  *)
(* and (when a key is given) signing-key sets.  An earlier binding of p to *)
(* another conn, server or key is left in those indexes.                   *)
RegisterPeer(st, p, s, spk, c) ==
    [st EXCEPT
        !.peers = Put(@, p, [server |-> s, spk |-> spk, conn |-> c]),
        !.conn_peers = AddTo(@, c, p),
        !.servers = AddTo(@, s, p),
        !.signing_servers = IF spk = NoKey THEN @ ELSE AddTo(@, spk, p)]

(* register_peer's result: the other peers of servers[s] after insertion.  *)
RegisterPeerOthers(st, p, s) == st.servers[s] \ {p}

(* Mutant: unregister_peer without the peer_senders.remove.               *)
UnregisterPeerKeepsSender(st, p) ==
    IF p \in DOMAIN st.peers
    THEN LET conn == st.peers[p] IN
         [st EXCEPT
            !.peers = Drop(@, p),
            !.servers = RemoveFrom(@, conn.server, p),
            !.signing_servers = IF conn.spk = NoKey THEN @
                                ELSE RemoveFrom(@, conn.spk, p)]
    ELSE st

(* unregister_peer: removes p from peers and from the server and key sets  *)
(* named by its *current* record; always removes its sender; never touches *)
(* conn_peers.                                                             *)
UnregisterPeer(st, p) ==
    IF p \in DOMAIN st.peers
    THEN LET conn == st.peers[p] IN
         [st EXCEPT
            !.peers = Drop(@, p),
            !.servers = RemoveFrom(@, conn.server, p),
            !.signing_servers = IF conn.spk = NoKey THEN @
                                ELSE RemoveFrom(@, conn.spk, p),
            !.peer_senders = Drop(@, p)]
    ELSE [st EXCEPT !.peer_senders = Drop(@, p)]

(* get_server *)
GetServer(st, p) == st.peers[p].server

(* broadcast_server_hint_updated: the connections whose sender is sent the *)
(* ServerHintUpdated frame: every member of signing_servers[k] that still  *)
(* has a sender.                                                           *)
HintRecipients(st, k) ==
    IF k \in DOMAIN st.signing_servers
    THEN {st.peer_senders[q] : q \in st.signing_servers[k] \cap DOMAIN st.peer_senders}
    ELSE {}

=============================================================================
