---------------------------- MODULE PresenceRedis ----------------------------
(***************************************************************************)
(* The Redis presence backend of beacon-server/src/handlers/redis.rs with  *)
(* the server-side callers that drive it (spec 4.3, 4.6): presence         *)
(* messages from clients, the periodic refresh ticker, and concurrent      *)
(* snapshot calls by subscribers.                                          *)
(*                                                                         *)
(* Redis state: the hash presence:user:{u} with its remaining TTL (`rec`)  *)
(* and the sets presence:house:{k} (`house`, an empty set is an absent     *)
(* key).  Each pipeline (hello, active, disconnect, refresh) is one step;  *)
(* snapshot is three steps (SMEMBERS, the HGET pipeline, the SREM repair), *)
(* so other clients' commands interleave between them.  Time advances in   *)
(* ticks; a key whose TTL reaches 0 is deleted by Redis.                   *)
(***************************************************************************)
EXTENDS Naturals, FiniteSets, Functions

CONSTANTS
    Users,          \* user ids
    Keys,           \* signing pubkeys
    Subscribers,    \* concurrent callers of redis_presence_snapshot
    NoKey,          \* active_signing_pubkey None, stored as ""
    TTL,            \* PRESENCE_TTL_SECS, in ticks
    Period,         \* refresh ticker period, in ticks
    MaxMissed       \* consecutive refresh ticks whose pipeline fails

ASSUME NoKey \notin Keys
ASSUME TTL \in Nat \ {0} /\ Period \in Nat \ {0} /\ MaxMissed \in Nat

VARIABLES
    rec,        \* presence:user:{u}: [active, ttl] for the keys that exist
    house,      \* presence:house:{k}: the user ids in the set
    online,     \* users the server refreshes: [keys, active] per user
    since,      \* ticks since the ticker last fired
    missed,     \* consecutive failed refresh pipelines
    snap,       \* per subscriber: the snapshot in progress
    written     \* history: online users whose current entry Redis accepted

vars == <<rec, house, online, since, missed, snap, written>>

Active == Keys \cup {NoKey}

SnapState == [pc : {"idle", "hget", "repair"}, key : Keys,
              members : SUBSET Users, stale : SUBSET Users]

(* One user's part of a hello or refresh pipeline: HSET active, EXPIRE    *)
(* TTL, SADD into each listed key's set.                                  *)
HsetExpire(r, u, a) == [x \in DOMAIN r \cup {u} |->
                          IF x = u THEN [active |-> a, ttl |-> TTL] ELSE r[x]]
Sadd(h, u, ks) == [k \in Keys |-> IF k \in ks THEN h[k] \cup {u} ELSE h[k]]

(* A subscriber with no snapshot in progress. *)
IdleSnap == [pc |-> "idle", key |-> CHOOSE k \in Keys : TRUE, members |-> {}, stale |-> {}]

Init ==
    /\ rec = <<>>
    /\ house = [k \in Keys |-> {}]
    /\ online = <<>>
    /\ since = 0
    /\ missed = 0
    /\ snap = [s \in Subscribers |-> IdleSnap]
    /\ written = {}

(* The server's record of who it refreshes, after a hello or an active.  *)
Announce(u, ks, a) == [x \in DOMAIN online \cup {u} |->
                         IF x = u THEN [keys |-> ks, active |-> a] ELSE online[x]]
SetActive(u, a) ==
    IF u \in DOMAIN online THEN [online EXCEPT ![u].active = a] ELSE online

(* PresenceHello: redis_presence_hello; the user is refreshed from now on *)
(* with the keys and active key it announced.                             *)
RedisPresenceHello(u, ks, a) ==
    /\ rec' = HsetExpire(rec, u, a)
    /\ house' = Sadd(house, u, ks)
    /\ online' = Announce(u, ks, a)
    /\ written' = written \cup {u}
    /\ UNCHANGED <<since, missed, snap>>

(* redis_presence_hello returns Err (no connection, or the pipeline       *)
(* failed or timed out before Redis applied it): the handler logs it and  *)
(* goes on (spec 6, BackendUnavailable), so the user is refreshed without *)
(* a record until the next tick writes one.                               *)
RedisPresenceHelloFailed(u, ks, a) ==
    /\ online' = Announce(u, ks, a)
    /\ written' = written \ {u}
    /\ UNCHANGED <<rec, house, since, missed, snap>>

(* PresenceActive: redis_presence_active writes the record (creating it   *)
(* when absent) but no set membership.                                    *)
RedisPresenceActive(u, a) ==
    /\ rec' = HsetExpire(rec, u, a)
    /\ online' = SetActive(u, a)
    /\ written' = IF u \in DOMAIN online THEN written \cup {u} ELSE written
    /\ UNCHANGED <<house, since, missed, snap>>

(* redis_presence_active returns Err: logged and skipped; the record, if  *)
(* any, keeps the old active key until the next refresh.                  *)
RedisPresenceActiveFailed(u, a) ==
    /\ online' = SetActive(u, a)
    /\ written' = written \ {u}
    /\ UNCHANGED <<rec, house, since, missed, snap>>

(* PresenceDisconnect: redis_presence_disconnect, DEL then SREM from the  *)
(* listed keys' sets.                                                     *)
RedisPresenceDisconnect(u, ks) ==
    /\ rec' = Restrict(rec, DOMAIN rec \ {u})
    /\ house' = [k \in Keys |-> IF k \in ks THEN house[k] \ {u} ELSE house[k]]
    /\ online' = Restrict(online, DOMAIN online \ {u})
    /\ written' = written \ {u}
    /\ UNCHANGED <<since, missed, snap>>

(* The user's socket dies without PresenceDisconnect, or the disconnect   *)
(* pipeline fails: the server stops refreshing it and Redis keeps its     *)
(* record until the TTL runs out.                                         *)
ConnectionLost(u) ==
    /\ u \in DOMAIN online
    /\ online' = Restrict(online, DOMAIN online \ {u})
    /\ written' = written \ {u}
    /\ UNCHANGED <<rec, house, since, missed, snap>>

(* Mutant: refresh HSETs without EXPIRE; an existing key keeps its TTL.   *)
RedisPresenceRefreshNoExpire ==
    /\ since = Period
    /\ rec' = [x \in DOMAIN rec \cup DOMAIN online |->
                 IF x \in DOMAIN online
                 THEN [active |-> online[x].active,
                       ttl |-> IF x \in DOMAIN rec THEN rec[x].ttl ELSE TTL]
                 ELSE rec[x]]
    /\ house' = [k \in Keys |-> house[k] \cup {u \in DOMAIN online : k \in online[u].keys}]
    /\ since' = 0
    /\ missed' = 0
    /\ written' = DOMAIN online
    /\ UNCHANGED <<online, snap>>

(* Mutant: refresh renews the records but not the set memberships.        *)
RedisPresenceRefreshNoSadd ==
    /\ since = Period
    /\ rec' = [x \in DOMAIN rec \cup DOMAIN online |->
                 IF x \in DOMAIN online THEN [active |-> online[x].active, ttl |-> TTL]
                 ELSE rec[x]]
    /\ since' = 0
    /\ missed' = 0
    /\ written' = DOMAIN online
    /\ UNCHANGED <<house, online, snap>>

(* Mutant: refresh only renews the TTL of records that still exist (an   *)
(* EXPIRE without the HSET), so a missing record is never recreated.      *)
RedisPresenceRefreshExpireOnly ==
    /\ since = Period
    /\ rec' = [x \in DOMAIN rec |->
                 IF x \in DOMAIN online THEN [rec[x] EXCEPT !.ttl = TTL] ELSE rec[x]]
    /\ house' = [k \in Keys |-> house[k] \cup {u \in DOMAIN online : k \in online[u].keys}]
    /\ since' = 0
    /\ missed' = 0
    /\ written' = DOMAIN online
    /\ UNCHANGED <<online, snap>>

(* The ticker fires: redis_presence_refresh over every online user (no    *)
(* pipeline at all when there is none).                                   *)
RedisPresenceRefresh ==
    /\ since = Period
    /\ rec' = [x \in DOMAIN rec \cup DOMAIN online |->
                 IF x \in DOMAIN online THEN [active |-> online[x].active, ttl |-> TTL]
                 ELSE rec[x]]
    /\ house' = [k \in Keys |-> house[k] \cup {u \in DOMAIN online : k \in online[u].keys}]
    /\ since' = 0
    /\ missed' = 0
    /\ written' = DOMAIN online
    /\ UNCHANGED <<online, snap>>

(* The ticker fires but the refresh pipeline fails (logged, skipped, and  *)
(* tried again on the next tick, spec 7).                                 *)
RefreshFailed ==
    /\ since = Period
    /\ missed < MaxMissed
    /\ since' = 0
    /\ missed' = missed + 1
    /\ UNCHANGED <<rec, house, online, snap, written>>

(* Mutant: a key is kept while its TTL is 0 (expiry one tick late).       *)
TickExpiresLate ==
    /\ since < Period
    /\ since' = since + 1
    /\ rec' = [x \in {y \in DOMAIN rec : rec[y].ttl > 0} |-> [rec[x] EXCEPT !.ttl = @ - 1]]
    /\ UNCHANGED <<house, online, missed, snap, written>>

(* One tick of time: every TTL decreases; keys reaching 0 expire.  The    *)
(* ticker is due at `Period`, so time does not pass it.                   *)
Tick ==
    /\ since < Period
    /\ since' = since + 1
    /\ rec' = [x \in {y \in DOMAIN rec : rec[y].ttl > 1} |-> [rec[x] EXCEPT !.ttl = @ - 1]]
    /\ UNCHANGED <<house, online, missed, snap, written>>

(* redis_presence_snapshot, round 1: SMEMBERS presence:house:{k}; an      *)
(* empty set returns at once.                                             *)
SnapshotMembers(s, k) ==
    /\ snap[s].pc = "idle"
    /\ snap' = [snap EXCEPT ![s] = IF house[k] = {} THEN IdleSnap
                                   ELSE [pc |-> "hget", key |-> k, members |-> house[k], stale |-> {}]]
    /\ UNCHANGED <<rec, house, online, since, missed, written>>

(* Round 2: HGET active_signing_pubkey for every member; a member without *)
(* a record is stale.  With no stale member the snapshot returns.         *)
SnapshotHget(s) ==
    LET stale == snap[s].members \ DOMAIN rec IN
    /\ snap[s].pc = "hget"
    /\ snap' = [snap EXCEPT ![s] = IF stale = {} THEN IdleSnap
                                   ELSE [@ EXCEPT !.pc = "repair", !.stale = stale]]
    /\ UNCHANGED <<rec, house, online, since, missed, written>>

(* Round 3: SREM the stale members found in round 2.                      *)
SnapshotRepair(s) ==
    /\ snap[s].pc = "repair"
    /\ house' = [house EXCEPT ![snap[s].key] = @ \ snap[s].stale]
    /\ snap' = [snap EXCEPT ![s] = IdleSnap]
    /\ UNCHANGED <<rec, online, since, missed, written>>

Ticker == RedisPresenceRefresh \/ RefreshFailed

Next ==
    \/ \E u \in Users, ks \in SUBSET Keys, a \in Active : RedisPresenceHello(u, ks, a)
    \/ \E u \in Users, ks \in SUBSET Keys, a \in Active : RedisPresenceHelloFailed(u, ks, a)
    \/ \E u \in Users, a \in Active : RedisPresenceActive(u, a) \/ RedisPresenceActiveFailed(u, a)
    \/ \E u \in Users, ks \in SUBSET Keys : RedisPresenceDisconnect(u, ks)
    \/ \E u \in Users : ConnectionLost(u)
    \/ Ticker
    \/ Tick
    \/ \E s \in Subscribers, k \in Keys : SnapshotMembers(s, k)
    \/ \E s \in Subscribers : SnapshotHget(s) \/ SnapshotRepair(s)

(* Time passes and the ticker task runs when due (tokio interval); the    *)
(* clients and subscribers may stop at any time.                          *)
Fairness == WF_vars(Tick) /\ WF_vars(Ticker)

Spec == Init /\ [][Next]_vars /\ Fairness

-----------------------------------------------------------------------------
(* Properties *)

TypeOK ==
    /\ DOMAIN rec \subseteq Users
    /\ \A u \in DOMAIN rec : rec[u] \in [active : Active, ttl : 1..TTL]  \* live keys only
    /\ house \in [Keys -> SUBSET Users]
    /\ DOMAIN online \subseteq Users
    /\ \A u \in DOMAIN online : online[u] \in [keys : SUBSET Keys, active : Active]
    /\ since \in 0..Period /\ missed \in 0..MaxMissed
    /\ snap \in [Subscribers -> SnapState]
    /\ written \subseteq DOMAIN online

(* Refresh keeps alive (spec 8.6): once Redis has accepted a user's       *)
(* current presence (its last hello or active, or a refresh since), the   *)
(* user keeps a live presence:user record carrying its current active     *)
(* key for as long as the server refreshes it, however the record's TTL,  *)
(* the ticker period and failed refresh ticks interleave.                 *)
OnlineRecordLive ==
    \A u \in written : u \in DOMAIN rec /\ rec[u].active = online[u].active

(* A hello or active whose pipeline failed is logged and skipped, never   *)
(* retried (spec 6); the next refresh that gets through must still give   *)
(* the user a live record with its current active key.                    *)
OnlineRecordRestored ==
    \A u \in Users :
      u \in DOMAIN online
        ~> (u \notin DOMAIN online \/ (u \in DOMAIN rec /\ rec[u].active = online[u].active))

OnlineEventuallyListed ==
    \A u \in Users, k \in Keys :
      (u \in DOMAIN online /\ k \in online[u].keys)
        ~> (u \notin DOMAIN online \/ k \notin online[u].keys \/ u \in house[k])

=============================================================================
