------------------------------ MODULE Security ------------------------------
(***************************************************************************)
(* The security layer of signaling-server/src/security.rs (lines 1-190):  *)
(* SecurityConfig::from_env and build_cors_layer at startup, then the REST *)
(* middleware chain client_ip_middleware -> rest_rate_limit_middleware_    *)
(* optional for each request.                                              *)
(*                                                                         *)
(* Data abstraction.  An environment value is Unset (env::var is Err), a   *)
(* number, or Junk (a value u32/usize parse() rejects: text, a sign,       *)
(* surrounding spaces, an overflow).  A comma-separated value is the       *)
(* sequence of its entries; an entry is an origin or address (with any     *)
(* surrounding whitespace), Blank (empty or whitespace only), Star, or     *)
(* Invalid (a control character HeaderValue::try_from rejects).  A header  *)
(* value that to_str() rejects (not visible ASCII) is Invalid as a whole.  *)
(* The governor bucket is not modelled: its verdict on a key is an input.  *)
(***************************************************************************)
EXTENDS Integers, Sequences, SequencesExt

CONSTANTS
    Ips,            \* client addresses appearing in forwarding headers
    Origins,        \* well-formed origins appearing in BEACON_CORS_ORIGINS
    RestInputs,     \* values of BEACON_RATE_LIMIT_REST_PER_MIN
    U32Inputs,      \* values of the other numeric variables
    CorsInputs,     \* values of BEACON_CORS_ORIGINS
    HeaderInputs,   \* values of CF-Connecting-IP and X-Forwarded-For
    Unset,          \* an absent variable, header, config or limiter (None)
    Junk,           \* a numeric value parse() rejects
    Blank,          \* an empty or whitespace-only entry
    Star,           \* the entry "*"
    Invalid         \* an entry or header value that is not a valid header

Unknown == "unknown"

VARIABLES
    env,        \* the process environment read at startup
    phase,      \* "boot", "serving" or "panicked"
    config,     \* SecurityConfig, once built
    cors,       \* the CORS layer: [kind |-> "permissive"|"list", allow |-> origins]
    last        \* the last REST request: its headers, key and answer

vars == <<env, phase, config, cors, last>>

Envs == [body : U32Inputs, maxWs : U32Inputs, maxWsIp : U32Inputs,
         cors : CorsInputs, rest : RestInputs, ws : U32Inputs]

NoRequest == [cf |-> Unset, xff |-> Unset, key |-> Unknown, status |-> 0]

(* env::var(..).ok().and_then(|v| v.parse().ok()).unwrap_or(default)     *)
EnvOr(v, default) == IF v \in Nat THEN v ELSE default

(* SecurityConfig::from_env *)
FromEnv(e) ==
    [max_body_bytes          |-> EnvOr(e.body, 1000000),
     max_ws_connections      |-> EnvOr(e.maxWs, 0),
     max_ws_per_ip           |-> EnvOr(e.maxWsIp, 0),
     cors_origins            |-> e.cors,
     rate_limit_rest_per_min |-> EnvOr(e.rest, 60),
     rate_limit_ws_per_min   |-> EnvOr(e.ws, 250)]

(* build_cors_layer, lines 87-91: the whole value trimmed, kept unless it *)
(* is empty or exactly "*".                                               *)
CorsConfigured(o) == o # Unset /\ ~(Len(o) = 1 /\ o[1] \in {Blank, Star})

(* Lines 96-101: split on ',', trim, drop empty entries and entries that  *)
(* are not valid header values.                                           *)
CorsEntriesNoHeaderCheck(o) == SelectSeq(o, LAMBDA p : p # Blank)  \* mutant

CorsEntries(o) == SelectSeq(o, LAMBDA p : p \notin {Blank, Invalid})

Permissive == [kind |-> "permissive", allow |-> {}]

(* Mutant: only the first entry of the list is kept.                     *)
BuildCorsLayerFirstOnly(o) ==
    IF ~CorsConfigured(o) \/ CorsEntries(o) = <<>> THEN Permissive
    ELSE IF Head(CorsEntries(o)) = Star THEN [kind |-> "panic", allow |-> {}]
    ELSE [kind |-> "list", allow |-> {Head(CorsEntries(o))}]

(* build_cors_layer.  AllowOrigin::list (tower-http) panics when the list *)
(* holds the wildcard origin "*".                                         *)
BuildCorsLayer(o) ==
    IF ~CorsConfigured(o) \/ CorsEntries(o) = <<>> THEN Permissive
    ELSE IF Contains(CorsEntries(o), Star) THEN [kind |-> "panic", allow |-> {}]
    ELSE [kind |-> "list", allow |-> ToSet(CorsEntries(o))]

(* .split(',').next().map(|s| s.trim()) *)
FirstEntry(v) == IF Head(v) = Blank THEN "" ELSE Head(v)

(* client_ip_middleware: CF-Connecting-IP if present, else                *)
(* X-Forwarded-For; an unreadable or absent value gives "unknown".        *)
ClientIpOf(cf, xff) ==
    LET v == IF cf # Unset THEN cf ELSE xff
    IN  IF v \in {Unset, Invalid} THEN Unknown ELSE FirstEntry(v)

(* KeyedRateLimiter::per_minute: None when n = 0 (the limit is disabled). *)
PerMinute(n) == IF n = 0 THEN Unset ELSE n

Init ==
    /\ env \in Envs
    /\ phase = "boot"
    /\ config = Unset
    /\ cors = Permissive
    /\ last = NoRequest

(* Server startup: the configuration is read and the CORS layer built;    *)
(* a panic in build_cors_layer stops the process.                         *)
Startup ==
    /\ phase = "boot"
    /\ config' = FromEnv(env)
    /\ cors' = BuildCorsLayer(config'.cors_origins)
    /\ phase' = IF cors'.kind = "panic" THEN "panicked" ELSE "serving"
    /\ UNCHANGED <<env, last>>

(* A REST request through client_ip_middleware and                        *)
(* rest_rate_limit_middleware_optional; `allowed` is the limiter's        *)
(* check_key verdict on the request's key.                                *)
Request(cf, xff, allowed) ==
    LET key     == ClientIpOf(cf, xff)
        limiter == PerMinute(config.rate_limit_rest_per_min)
    IN
    /\ phase = "serving"
    /\ last' = [cf |-> cf, xff |-> xff, key |-> key,
                status |-> IF limiter # Unset /\ ~allowed THEN 429 ELSE 200]
    /\ UNCHANGED <<env, phase, config, cors>>

Next ==
    \/ Startup
    \/ \E cf, xff \in HeaderInputs, allowed \in BOOLEAN : Request(cf, xff, allowed)

Spec == Init /\ [][Next]_vars

-----------------------------------------------------------------------------
(* Properties *)

Entries(S) == SeqOf(S, 2) \ {<<>>}

TypeOK ==
    /\ env \in Envs
    /\ phase \in {"boot", "serving", "panicked"}
    /\ config \in {Unset, FromEnv(env)}
    /\ cors \in {Permissive} \cup [kind : {"list", "panic"}, allow : SUBSET Origins]
    /\ last \in {NoRequest} \cup
                [cf : HeaderInputs, xff : HeaderInputs,
                 key : Ips \cup {"", Unknown}, status : {200, 429}]

(* Allow list: once the server serves with an allow list, the origins it  *)
(* allows are exactly the well-formed origins BEACON_CORS_ORIGINS names,  *)
(* after build_cors_layer's trim, split and filters.                      *)
CorsAllowsExactlyListed ==
    (phase = "serving" /\ cors.kind = "list") =>
        cors.allow = {o \in Origins : Contains(env.cors, o)}

(* CORS as spec 6 states it: every BEACON_CORS_ORIGINS value leads to a  *)
(* serving process, which allows every origin exactly when the value is   *)
(* unset or "*" and otherwise holds an allow list.  Broken by a value     *)
(* with no usable entry (build_cors_layer falls back to permissive) and   *)
(* by "*" inside a list (AllowOrigin::list panics).                       *)
CorsAsSpecified ==
    phase # "boot" =>
        /\ phase = "serving"
        /\ (cors.kind = "permissive" <=> env.cors \in {Unset, <<Star>>})

=============================================================================
