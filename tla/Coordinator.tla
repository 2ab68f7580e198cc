---------------------------- MODULE Coordinator ----------------------------
(***************************************************************************)
(* The per-message handler of the signaling server (spec section 4.4) over *)
(* the peer registry (SignalingState) and voice membership (VoiceState).   *)
(* A handler's outbound frames are the value of `sent` after its step.    *)
(* Hello, forwarding, hint publish and the socket close are each one step  *)
(* under the lock.  Goodbye, VoiceJoin and VoiceLeave check the sender's   *)
(* identity with validate_peer_connection under the SignalingState lock,   *)
(* release it, and do their work under a second acquisition (the double    *)
(* locking signaling.rs 34-35 describes; voice_chats has its own lock):    *)
(* two steps, between which other connections' handlers run.  A message   *)
(* that fails its identity check changes nothing and is not a step.        *)
(*                                                                         *)
(* The handler source (handlers/message.rs, handlers/ws.rs) is not in the  *)
(* repository snapshot: the handler actions follow spec.md 4.1 and 4.4,    *)
(* while every state change they make is an operator translated from       *)
(* signaling.rs and voice.rs.                                              *)
(***************************************************************************)
EXTENDS VoiceState

CONSTANTS NoUser, NoConn

ASSUME NoUser \notin Users /\ NoConn \notin Conns

VARIABLES
    open,       \* connections whose reader task is running
    used,       \* every ConnId ever assigned (ids are never reused)
    sig,        \* the SignalingState record
    voice,      \* VoiceState.voice_chats
    sent,       \* frames emitted by the last step
    pending,    \* per connection: the validated message awaiting its work step
    actor       \* history: the connection whose message or close the last step handled

vars == <<open, used, sig, voice, sent, pending, actor>>

FrameKinds == {"Welcome", "PeerJoined", "PeerLeft", "Signal", "Hint",
               "VoiceList", "VoicePeerJoined", "VoicePeerLeft"}

(* A frame to a connection about a peer (and, for voice frames, a user). *)
Frame(to, kind, p, u) == [to |-> to, kind |-> kind, peer |-> p, user |-> u]

(* The frames that announce `kind` about peer p (user u) to the given     *)
(* peers, through each one's registered sender (none if it has none).     *)
Announce(st, recipients, kind, p, u) ==
    {Frame(st.peer_senders[q], kind, p, u) : q \in recipients \cap DOMAIN st.peer_senders}

(* A validated Goodbye, VoiceJoin or VoiceLeave (user and key are unused *)
(* by the kinds that carry none); Idle when the reader is between frames. *)
Msg(kind, p, u, key) == [kind |-> kind, peer |-> p, user |-> u, key |-> key]

Idle == Msg("none", NoConn, NoUser, NoKey)

Msgs == {Msg("Goodbye", p, NoUser, NoKey) : p \in Peers}
        \cup {Msg("VoiceJoin", p, u, key) : p \in Peers, u \in Users, key \in ChatKeys}
        \cup {Msg("VoiceLeave", p, NoUser, key) : p \in Peers, key \in ChatKeys}

Init ==
    /\ pending = [c \in Conns |-> Idle]
    /\ actor = NoConn
    /\ open = {}
    /\ used = {}
    /\ sig = EmptySignaling
    /\ voice = <<>>
    /\ sent = {}

(* WebSocket accept: a fresh ConnId. *)
Accept(c) ==
    /\ c \notin used
    /\ open' = open \cup {c}
    /\ used' = used \cup {c}
    /\ sent' = {}
    /\ actor' = c
    /\ UNCHANGED <<sig, voice, pending>>

(* Hello{peer_id, server_id, signing_pubkey}: register_peer, bind the     *)
(* connection's sender to the peer, Welcome to the sender, PeerJoined to  *)
(* the others returned by register_peer.                                  *)
Hello(c, p, s, spk) ==
    LET st == RegisterPeer(sig, p, s, spk, c)
        st2 == [st EXCEPT !.peer_senders = Put(@, p, c)]
    IN  /\ c \in open /\ pending[c] = Idle
        /\ sig' = st2
        /\ sent' = {Frame(c, "Welcome", p, NoUser)}
                   \cup Announce(st2, RegisterPeerOthers(st2, p, s), "PeerJoined", p, NoUser)
        /\ actor' = c
        /\ UNCHANGED <<open, used, voice, pending>>

(* Offer/Answer/Ice{from, to}: forwarded to peer_senders[to] only when    *)
(* from is bound to this connection and to is registered in the same     *)
(* server; otherwise dropped (a stutter).                                 *)
Forward(c, from, to) ==
    /\ c \in open /\ pending[c] = Idle
    /\ ValidatePeerConnection(sig, from, c)
    /\ to \in DOMAIN sig.peers
    /\ GetServer(sig, to) = GetServer(sig, from)
    /\ to \in DOMAIN sig.peer_senders
    /\ sent' = {Frame(sig.peer_senders[to], "Signal", from, NoUser)}
    /\ actor' = c
    /\ UNCHANGED <<open, used, sig, voice, pending>>

(* Goodbye, VoiceJoin or VoiceLeave, first lock: validate_peer_connection *)
(* passes, the lock is released and the message waits for its work step.  *)
Validate(c, m) ==
    /\ c \in open /\ pending[c] = Idle
    /\ ValidatePeerConnection(sig, m.peer, c)
    /\ pending' = [pending EXCEPT ![c] = m]
    /\ sent' = {}
    /\ actor' = c
    /\ UNCHANGED <<open, used, sig, voice>>

(* The peers of p's current server after st; none when p is unregistered. *)
ServerPeers(before, st, p) ==
    IF p \in DOMAIN before.peers /\ GetServer(before, p) \in DOMAIN st.servers
    THEN st.servers[GetServer(before, p)] ELSE {}

Done(c) == pending' = [pending EXCEPT ![c] = Idle]

(* Goodbye{peer_id}, second lock: unregister_peer on the registry as it   *)
(* is now, PeerLeft to the peers of the server p is then registered in.   *)
Goodbye(c) ==
    LET p == pending[c].peer
        st == UnregisterPeer(sig, p)
    IN  /\ pending[c].kind = "Goodbye"
        /\ sig' = st
        /\ sent' = Announce(st, ServerPeers(sig, st, p), "PeerLeft", p, NoUser)
        /\ Done(c)
        /\ actor' = c
        /\ UNCHANGED <<open, used, voice>>

(* VoiceJoin{peer_id, user_id, server_id, chat_id}, second lock:          *)
(* register_voice_peer; the list of others back to the sender,            *)
(* VoicePeerJoined to the others.                                         *)
VoiceJoin(c) ==
    LET m == pending[c]
        vc == RegisterVoicePeer(voice, m.peer, m.user, m.key, c)
    IN  /\ m.kind = "VoiceJoin"
        /\ voice' = vc
        /\ sent' = {Frame(c, "VoiceList", m.peer, m.user)}
                   \cup Announce(sig, {e.peer : e \in RegisterVoiceOthers(vc, m.peer, m.key)},
                                 "VoicePeerJoined", m.peer, m.user)
        /\ Done(c)
        /\ actor' = c
        /\ UNCHANGED <<open, used, sig>>

(* VoiceLeave{peer_id, server_id, chat_id}, second lock:                  *)
(* unregister_voice_peer, and VoicePeerLeft to the chat's remaining peers *)
(* when an entry was removed.                                             *)
VoiceLeave(c) ==
    LET m == pending[c]
        r == UnregisterVoicePeer(voice, m.peer, m.key, NoUser)
    IN  /\ m.kind = "VoiceLeave"
        /\ voice' = r.chats
        /\ sent' = IF r.user = NoUser THEN {}
                    ELSE Announce(sig, {e.peer : e \in Members(r.chats, m.key)},
                                  "VoicePeerLeft", m.peer, r.user)
        /\ Done(c)
        /\ actor' = c
        /\ UNCHANGED <<open, used, sig>>

(* ServerHintPublish{signing_pubkey, hint} naming a peer p bound to this  *)
(* connection: broadcast_server_hint_updated; the hint is not stored.     *)
HintPublish(c, p, k) ==
    /\ c \in open /\ pending[c] = Idle
    /\ ValidatePeerConnection(sig, p, c)
    /\ sent' = {Frame(to, "Hint", p, NoUser) : to \in HintRecipients(sig, k)}
    /\ actor' = c
    /\ UNCHANGED <<open, used, sig, voice, pending>>

(* Mutant: the close handler reads conn_peers[c] (get) instead of taking  *)
(* it out (remove), so the entry of the closed connection stays.          *)
CloseKeepsConnPeers(c) ==
    LET mine == IF c \in DOMAIN sig.conn_peers THEN sig.conn_peers[c] ELSE {}
        st2 == FoldSet(LAMBDA p, st : UnregisterPeer(st, p), sig, mine)
        vd == HandleVoiceDisconnect(voice, c)
    IN  /\ c \in open /\ pending[c] = Idle
        /\ open' = open \ {c}
        /\ sig' = st2
        /\ voice' = vd.chats
        /\ sent' = {}
        /\ actor' = c
        /\ UNCHANGED <<used, pending>>

(* Socket close: conn_peers[c] is taken out, unregister_peer runs for     *)
(* each of its peers, then handle_voice_disconnect(c); PeerLeft goes to   *)
(* each unregistered peer's server and VoicePeerLeft to each affected     *)
(* chat's remaining occupants.                                            *)
Close(c) ==
    LET mine == IF c \in DOMAIN sig.conn_peers THEN sig.conn_peers[c] ELSE {}
        st1 == [sig EXCEPT !.conn_peers = Drop(@, c)]
        st2 == FoldSet(LAMBDA p, st : UnregisterPeer(st, p), st1, mine)
        vd == HandleVoiceDisconnect(voice, c)
        left(p) == LET s == GetServer(sig, p) IN
                   IF s \in DOMAIN st2.servers THEN st2.servers[s] ELSE {}
    IN  /\ c \in open /\ pending[c] = Idle
        /\ open' = open \ {c}
        /\ sig' = st2
        /\ voice' = vd.chats
        /\ sent' = UNION {Announce(st2, left(p), "PeerLeft", p, NoUser) : p \in mine \cap DOMAIN sig.peers}
                   \cup UNION {Announce(st2, {e.peer : e \in Members(vd.chats, r[1])},
                                        "VoicePeerLeft", r[2], r[3]) : r \in vd.removed}
        /\ actor' = c
        /\ UNCHANGED <<used, pending>>

Next ==
    \/ \E c \in Conns : Accept(c) \/ Close(c)
    \/ \E c \in Conns, p \in Peers, s \in Servers, spk \in Keys \cup {NoKey} : Hello(c, p, s, spk)
    \/ \E c \in Conns, from, to \in Peers : Forward(c, from, to)
    \/ \E c \in Conns, m \in Msgs : Validate(c, m)
    \/ \E c \in Conns : Goodbye(c) \/ VoiceJoin(c) \/ VoiceLeave(c)
    \/ \E c \in Conns, p \in Peers, k \in Keys : HintPublish(c, p, k)

Spec == Init /\ [][Next]_vars

-----------------------------------------------------------------------------
(* Properties *)

(* The maps of the registry and of voice_chats never keep an empty set or *)
(* an empty chat under a key (S1: emptied entries are deleted).           *)
PartialFn(f, D, R) == DOMAIN f \subseteq D /\ \A x \in DOMAIN f : f[x] \in R

TypeOK ==
    /\ open \subseteq used /\ used \subseteq Conns
    /\ PartialFn(sig.peers, Peers, PeerConnection)
    /\ PartialFn(sig.servers, Servers, SUBSET Peers \ {{}})
    /\ PartialFn(sig.signing_servers, Keys, SUBSET Peers \ {{}})
    /\ PartialFn(sig.peer_senders, Peers, Conns)
    /\ PartialFn(sig.conn_peers, Conns, SUBSET Peers \ {{}})
    /\ PartialFn(voice, ChatKeys, Seq(VoicePeer) \ {<<>>})
    /\ pending \in [Conns -> {Idle} \cup Msgs]
    /\ actor \in Conns \cup {NoConn}
    /\ \A c \in Conns \ open : pending[c] = Idle
    /\ sent \subseteq [to : Conns, kind : FrameKinds, peer : Peers, user : Users \cup {NoUser}]

(* Every registered peer is bound to a connection that is still open, is  *)
(* listed under that connection in conn_peers (so its close will find     *)
(* it), and its sender is that connection's; no sender outlives its peer. *)
(* This is what the socket-close walk over conn_peers must maintain for   *)
(* any interleaving of Hello, Goodbye and close on several sockets.       *)
PeerBoundToLiveConn ==
    /\ DOMAIN sig.peer_senders = DOMAIN sig.peers
    /\ \A p \in DOMAIN sig.peers :
         LET c == sig.peers[p].conn IN
         /\ c \in open
         /\ c \in DOMAIN sig.conn_peers /\ p \in sig.conn_peers[c]
         /\ sig.peer_senders[p] = c

(* S1, forward direction: a registered peer is a member of the server set *)
(* and (when it gave one) the signing-key set named by its record, after  *)
(* any sequence of register_peer and unregister_peer calls.               *)
PeerIndexed ==
    \A p \in DOMAIN sig.peers :
      LET r == sig.peers[p] IN
      /\ r.server \in DOMAIN sig.servers /\ p \in sig.servers[r.server]
      /\ r.spk # NoKey => r.spk \in DOMAIN sig.signing_servers
                          /\ p \in sig.signing_servers[r.spk]

(* Voice reconnect (register_voice_peer): a user has at most one entry in *)
(* a chat, whatever sequence of joins, leaves and closes led there.       *)
VoiceUserUnique ==
    \A key \in DOMAIN voice :
      \A i, j \in DOMAIN voice[key] : voice[key][i].user = voice[key][j].user => i = j

(* handle_voice_disconnect leaves no voice entry of a closed connection.  *)
VoiceConnLive ==
    \A key \in DOMAIN voice : \A e \in Members(voice, key) : e.conn \in open

(* Socket-death cleanup: once every connection has closed, no peer,       *)
(* sender, conn_peers entry or voice chat (not even an empty one) is left. *)
QuiescentClean ==
    open = {} =>
      /\ DOMAIN sig.peers = {}
      /\ DOMAIN sig.peer_senders = {}
      /\ DOMAIN sig.conn_peers = {}
      /\ DOMAIN voice = {}

(* S1, converse direction, for the server and signing-key indexes: a peer *)
(* in servers[s] (signing_servers[k]) is registered with server s (key k). *)
(* Spec 4.1 says a re-registration first removes the previous binding.    *)
NoGhostIndexEntry ==
    /\ \A s \in DOMAIN sig.servers : \A p \in sig.servers[s] :
         p \in DOMAIN sig.peers /\ sig.peers[p].server = s
    /\ \A k \in DOMAIN sig.signing_servers : \A p \in sig.signing_servers[k] :
         p \in DOMAIN sig.peers /\ sig.peers[p].spk = k

(* The set of <<key, entry>> pairs of all voice chats. *)
VoiceEntries(vc) == UNION {{<<key, e>> : e \in Members(vc, key)} : key \in DOMAIN vc}

(* A voice entry that leaves a chat, other than by being replaced by the  *)
(* same user's rejoin, is announced by VoicePeerLeft (peer and user) to   *)
(* every remaining occupant that has a sender (spec 4.2).                 *)
VoiceLeaveAnnounced ==
    [][\A ke \in VoiceEntries(voice) \ VoiceEntries(voice') :
         LET key == ke[1]
             e == ke[2]
             rest == Members(voice', key)
         IN  (\A x \in rest : x.user # e.user) =>
               \A q \in {x.peer : x \in rest} \cap DOMAIN sig'.peer_senders :
                 Frame(sig'.peer_senders[q], "VoicePeerLeft", e.peer, e.user) \in sent'
      ]_vars

(* The ownership promise of the registry: a peer is bound to the last     *)
(* connection that said Hello for it until that connection says Goodbye   *)
(* or closes; another connection's close never unbinds it.                *)
Owner == [p \in Peers |-> IF p \in DOMAIN sig.peers THEN sig.peers[p].conn ELSE NoConn]

Registry == INSTANCE AbstractRegistry WITH owner <- Owner, live <- open, actor <- actor

RegistryRefinement == Registry!Spec

=============================================================================
