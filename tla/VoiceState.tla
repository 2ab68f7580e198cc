----------------------------- MODULE VoiceState -----------------------------
(***************************************************************************)
(* Voice-chat membership of beacon-server/src/state/voice.rs (struct       *)
(* VoiceState), as pure operators on voice_chats, a function from the      *)
(* (server_id, chat_id) keys present in the HashMap to the Vec<VoicePeer>  *)
(* kept under that key.  A VoicePeer is a record [peer, user, conn].       *)
(***************************************************************************)
EXTENDS Sequences, SequencesExt, SignalingState

CONSTANTS
    Users,      \* user_id values
    Chats       \* chat_id values

ChatKeys == Servers \X Chats

VoicePeer == [peer : Peers, user : Users, conn : Conns]

(* The voice peers of a chat, as a set. *)
Members(vc, key) == IF key \in DOMAIN vc THEN ToSet(vc[key]) ELSE {}

(* register_voice_peer: the entry is created if absent, every entry of the *)
(* same user is dropped (reconnect with a new peer_id), the new entry is   *)
(* pushed at the end.                                                      *)
(* Mutant: register_voice_peer without the retain of the same user.       *)
RegisterVoicePeerNoRetain(vc, p, u, key, c) ==
    LET old == IF key \in DOMAIN vc THEN vc[key] ELSE <<>>
    IN  Put(vc, key, Append(old, [peer |-> p, user |-> u, conn |-> c]))

RegisterVoicePeer(vc, p, u, key, c) ==
    LET old == IF key \in DOMAIN vc THEN vc[key] ELSE <<>>
        kept == SelectSeq(old, LAMBDA e : e.user # u)
    IN  Put(vc, key, Append(kept, [peer |-> p, user |-> u, conn |-> c]))

(* register_voice_peer's result: the entries of the chat whose peer_id is  *)
(* not the joiner's, after the insertion.                                  *)
RegisterVoiceOthers(vc, p, key) == {e \in Members(vc, key) : e.peer # p}

(* unregister_voice_peer: removes the first entry with this peer_id and    *)
(* deletes the chat when it becomes empty; user is the removed entry's     *)
(* user_id, or NoUser when the chat or the peer is not found.              *)
UnregisterVoicePeer(vc, p, key, NoUser) ==
    LET i == IF key \in DOMAIN vc THEN SelectInSeq(vc[key], LAMBDA e : e.peer = p) ELSE 0
        rest == IF i = 0 THEN <<>> ELSE RemoveAt(vc[key], i)
    IN  IF i = 0 THEN [chats |-> vc, user |-> NoUser]
        ELSE [chats |-> IF rest = <<>> THEN Drop(vc, key) ELSE [vc EXCEPT ![key] = rest],
              user  |-> vc[key][i].user]

(* handle_voice_disconnect: in each chat, the entries on conn c are        *)
(* collected, then every entry whose peer_id equals a collected peer_id is *)
(* removed (retain by peer_id, not by conn_id); chats left empty are       *)
(* deleted.  removed is the set of reported (key, peer, user) tuples.      *)
(* Mutant: only the first entry of the connection is removed per chat.    *)
HandleVoiceDisconnectFirstOnly(vc, c) ==
    LET i(key) == SelectInSeq(vc[key], LAMBDA e : e.conn = c)
        after == [key \in DOMAIN vc |-> IF i(key) = 0 THEN vc[key] ELSE RemoveAt(vc[key], i(key))]
    IN  [chats   |-> Restrict(after, {key \in DOMAIN after : after[key] # <<>>}),
         removed |-> {<<key, vc[key][i(key)].peer, vc[key][i(key)].user>> :
                        key \in {k \in DOMAIN vc : i(k) # 0}}]

HandleVoiceDisconnect(vc, c) ==
    LET onConn(key) == {e \in ToSet(vc[key]) : e.conn = c}
        gone(key) == {e.peer : e \in onConn(key)}
        after == [key \in DOMAIN vc |-> SelectSeq(vc[key], LAMBDA e : e.peer \notin gone(key))]
    IN  [chats   |-> Restrict(after, {key \in DOMAIN after : after[key] # <<>>}),
         removed |-> UNION {{<<key, e.peer, e.user>> : e \in onConn(key)} : key \in DOMAIN vc}]

=============================================================================
