------------------------- MODULE ConnectionTracker -------------------------
(***************************************************************************)
(* ConnectionTracker of signaling-server/src/security.rs and the WebSocket *)
(* connection lifecycle that drives it (spec 4.5, 5): try_register at      *)
(* upgrade, then a reader and a writer task that each run the close        *)
(* cleanup on exit, coordinated by a one-shot flag so that unregister runs *)
(* once.  Each tracker call holds the tracker's lock, so it is one step.   *)
(***************************************************************************)
EXTENDS Naturals, FiniteSets, Functions

CONSTANTS
    Conns,      \* WebSocket upgrade attempts
    Ips,        \* client IP strings (CF-Connecting-IP, X-Forwarded-For, "unknown")
    MaxTotal,   \* MAX_WS_CONNECTIONS, 0 = unlimited
    MaxPerIp,   \* MAX_WS_PER_IP, 0 = unlimited
    NoIp

ASSUME MaxTotal \in Nat /\ MaxPerIp \in Nat /\ NoIp \notin Ips

Tasks == {"reader", "writer"}

VARIABLES
    total,      \* ConnectionTracker.total
    per_ip,     \* ConnectionTracker.per_ip, keys present in the HashMap
    phase,      \* per attempt: "new", "open", "rejected", "closed"
    ip,         \* per attempt: its client IP once it has upgraded
    exited,     \* per attempt: the tasks that have left their loops
    cleaned     \* per attempt: the one-shot cleanup flag

vars == <<total, per_ip, phase, ip, exited, cleaned>>

Init ==
    /\ total = 0
    /\ per_ip = <<>>
    /\ phase = [c \in Conns |-> "new"]
    /\ ip = [c \in Conns |-> NoIp]
    /\ exited = [c \in Conns |-> {}]
    /\ cleaned = [c \in Conns |-> FALSE]

(* Mutant: the per-IP check uses > instead of >=.                         *)
TryRegisterPerIpOffByOne(i) ==
    LET per == IF i \in DOMAIN per_ip THEN per_ip[i] ELSE 0
        withEntry == [x \in DOMAIN per_ip \cup {i} |-> IF x = i THEN per ELSE per_ip[x]]
    IN  IF MaxTotal > 0 /\ total >= MaxTotal
        THEN [ok |-> FALSE, total |-> total, per_ip |-> per_ip]
        ELSE IF MaxPerIp > 0 /\ per > MaxPerIp
        THEN [ok |-> FALSE, total |-> total, per_ip |-> withEntry]
        ELSE [ok |-> TRUE, total |-> total + 1, per_ip |-> [withEntry EXCEPT ![i] = per + 1]]

(* try_register: the global cap is checked first; then per_ip's entry is  *)
(* created (0) and the per-IP cap checked; on success both counts grow.   *)
TryRegister(i) ==
    LET per == IF i \in DOMAIN per_ip THEN per_ip[i] ELSE 0
        withEntry == [x \in DOMAIN per_ip \cup {i} |-> IF x = i THEN per ELSE per_ip[x]]
    IN  IF MaxTotal > 0 /\ total >= MaxTotal
        THEN [ok |-> FALSE, total |-> total, per_ip |-> per_ip]
        ELSE IF MaxPerIp > 0 /\ per >= MaxPerIp
        THEN [ok |-> FALSE, total |-> total, per_ip |-> withEntry]
        ELSE [ok |-> TRUE, total |-> total + 1, per_ip |-> [withEntry EXCEPT ![i] = per + 1]]

(* Mutant: a count that reaches zero is left in per_ip.                   *)
UnregisterKeepsZero(i) ==
    LET pi == IF i \in DOMAIN per_ip
              THEN [per_ip EXCEPT ![i] = IF @ = 0 THEN 0 ELSE @ - 1]
              ELSE per_ip
    IN  [total |-> IF total = 0 THEN 0 ELSE total - 1, per_ip |-> pi]

(* unregister: per_ip saturating-decrements and drops a zero entry; total *)
(* saturating-decrements even when the IP had no entry.                   *)
Unregister(i) ==
    LET pi == IF i \in DOMAIN per_ip
              THEN IF per_ip[i] <= 1 THEN Restrict(per_ip, DOMAIN per_ip \ {i})
                   ELSE [per_ip EXCEPT ![i] = @ - 1]
              ELSE per_ip
    IN  [total |-> IF total = 0 THEN 0 ELSE total - 1, per_ip |-> pi]

(* ws_handler: the upgrade is accepted when try_register succeeds, and    *)
(* rejected ("too many connections") otherwise.                           *)
Upgrade(c, i) ==
    LET r == TryRegister(i) IN
    /\ phase[c] = "new"
    /\ total' = r.total
    /\ per_ip' = r.per_ip
    /\ phase' = [phase EXCEPT ![c] = IF r.ok THEN "open" ELSE "rejected"]
    /\ ip' = [ip EXCEPT ![c] = i]
    /\ UNCHANGED <<exited, cleaned>>

(* A task of an open connection exits (EOF, parse error, rate limit, full *)
(* channel); the first one to exit runs the cleanup, i.e. unregister.     *)
TaskExit(c, t) ==
    LET r == Unregister(ip[c]) IN
    /\ phase[c] = "open"
    /\ t \notin exited[c]
    /\ exited' = [exited EXCEPT ![c] = @ \cup {t}]
    /\ IF cleaned[c]
       THEN UNCHANGED <<total, per_ip, cleaned>>
       ELSE /\ total' = r.total
            /\ per_ip' = r.per_ip
            /\ cleaned' = [cleaned EXCEPT ![c] = TRUE]
    /\ phase' = [phase EXCEPT ![c] = IF exited'[c] = Tasks THEN "closed" ELSE "open"]
    /\ UNCHANGED ip

Next ==
    \/ \E c \in Conns, i \in Ips : Upgrade(c, i)
    \/ \E c \in Conns, t \in Tasks : TaskExit(c, t)

Spec == Init /\ [][Next]_vars

-----------------------------------------------------------------------------
(* Properties *)

TypeOK ==
    /\ total \in Nat
    /\ DOMAIN per_ip \subseteq Ips
    /\ \A i \in DOMAIN per_ip : per_ip[i] \in Nat \ {0}   \* zero counts are removed
    /\ phase \in [Conns -> {"new", "open", "rejected", "closed"}]
    /\ ip \in [Conns -> Ips \cup {NoIp}]
    /\ exited \in [Conns -> SUBSET Tasks]
    /\ cleaned \in [Conns -> BOOLEAN]

(* The connections that hold a tracker slot: open and not yet cleaned up. *)
Holding == {c \in Conns : phase[c] = "open" /\ ~cleaned[c]}

(* The tracker admits and rejects exactly as the limits say, counted over *)
(* the connections really holding a slot, across any interleaving of      *)
(* upgrades and reader/writer exits (AdmissionControl).                   *)
Admission == INSTANCE AdmissionControl
    WITH admitted <- {<<c, ip[c]>> : c \in Holding},
         rejected <- {c \in Conns : phase[c] = "rejected"}

AdmissionRefinement == Admission!Spec

=============================================================================
