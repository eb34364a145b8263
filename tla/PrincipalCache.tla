--------------------------- MODULE PrincipalCache ---------------------------
(***************************************************************************)
(* GatewayAuthMiddleware of middleware/auth_middleware.py: whose request   *)
(* this is, asked of the gateway or taken from a cache of its answers.     *)
(*                                                                         *)
(* dispatch runs on the event loop and calls the gateway without giving    *)
(* the loop up, so no other request is looked up meanwhile; time goes on,  *)
(* and the gateway may revoke a token at any time.                         *)
(***************************************************************************)
EXTENDS UserRequests

CONSTANTS
  Tokens,
  TokenOf,   \* the token in each request's authorization header
  Ttl,       \* cache_ttl_seconds
  MaxTime    \* bound on the clock

ASSUME PrincipalAssumption ==
  /\ TokenOf \in [Requests -> Tokens]
  /\ Ttl \in Nat /\ MaxTime \in Nat

VARIABLES
  clock,       \* time.monotonic()
  valid,       \* the tokens that the gateway accepts
  revoked,     \* history: when a token that is not valid was revoked
  principals,  \* _principal_cache: the time at which a token's entry ends, 0 without one
  auth,        \* where each request is: "new", "asking", "granted", "refused", "passed", "rejected"
  now,         \* now of the request that is being looked up
  lapsed       \* history: for how long the token of the last request that passed had been
               \* revoked at its now

principalVars == <<clock, valid, revoked, principals, auth, now, lapsed>>

PrincipalInit ==
  /\ clock = 0 /\ valid = Tokens /\ revoked = [t \in Tokens |-> 0]
  /\ principals = [t \in Tokens |-> 0]
  /\ auth = [r \in Requests |-> "new"]
  /\ now = 0 /\ lapsed = 0

Lapsed(t, time) == IF t \in valid \/ revoked[t] >= time THEN 0 ELSE time - revoked[t]

LoopIsFree == \A r \in Requests : auth[r] \notin {"asking", "granted", "refused"}

-----------------------------------------------------------------------------

Tick ==
  /\ clock < MaxTime
  /\ clock' = clock + 1
  /\ UNCHANGED <<valid, revoked, principals, auth, now, lapsed>>

\* A logout, which only passes the token on to the gateway, or the gateway's own doing.
Revoke(t) ==
  /\ t \in valid
  /\ valid' = valid \ {t} /\ revoked' = [revoked EXCEPT ![t] = clock]
  /\ UNCHANGED <<clock, principals, auth, now, lapsed>>

\* The clock is read and the cache looked up.
LookUp(r) ==
  LET t == TokenOf[r]
  IN /\ auth[r] = "new" /\ LoopIsFree
     /\ now' = clock
     /\ IF principals[t] > clock
        THEN auth' = [auth EXCEPT ![r] = "passed"] /\ lapsed' = Lapsed(t, clock)
        ELSE auth' = [auth EXCEPT ![r] = "asking"] /\ UNCHANGED lapsed
     /\ UNCHANGED <<clock, valid, revoked, principals>>

\* validate_token at the gateway; a gateway that fails refuses.
Validate(r) ==
  /\ auth[r] = "asking"
  /\ \/ /\ TokenOf[r] \in valid
        /\ auth' = [auth EXCEPT ![r] = "granted"]
     \/ auth' = [auth EXCEPT ![r] = "refused"]
  /\ UNCHANGED <<clock, valid, revoked, principals, now, lapsed>>

\* The entry lasts from when its answer arrived.
AdmitFromAnswer(r) ==
  /\ auth[r] = "granted"
  /\ principals' = [principals EXCEPT ![TokenOf[r]] = clock + Ttl]
  /\ auth' = [auth EXCEPT ![r] = "passed"]
  /\ lapsed' = Lapsed(TokenOf[r], now)
  /\ UNCHANGED <<clock, valid, revoked, now>>

\* The answer arrives; its entry lasts from the time the cache was looked up.
Admit(r) ==
  /\ auth[r] = "granted"
  /\ principals' = [principals EXCEPT ![TokenOf[r]] = now + Ttl]
  /\ auth' = [auth EXCEPT ![r] = "passed"]
  /\ lapsed' = Lapsed(TokenOf[r], now)
  /\ UNCHANGED <<clock, valid, revoked, now>>

Reject(r) ==
  /\ auth[r] = "refused"
  /\ auth' = [auth EXCEPT ![r] = "rejected"]
  /\ UNCHANGED <<clock, valid, revoked, principals, now, lapsed>>

PrincipalStep ==
  \/ Tick
  \/ \E t \in Tokens : Revoke(t)
  \/ \E r \in Requests : LookUp(r) \/ Validate(r) \/ Admit(r) \/ Reject(r)

-----------------------------------------------------------------------------

PrincipalType ==
  /\ clock \in 0 .. MaxTime /\ valid \subseteq Tokens /\ revoked \in [Tokens -> Nat]
  /\ principals \in [Tokens -> Nat]
  /\ auth \in [Requests -> {"new", "asking", "granted", "refused", "passed", "rejected"}]
  /\ now \in Nat /\ lapsed \in Nat

\* The cache outlives a logout, but not for long: a request passes only if its token was still good
\* at the gateway less than the time to live before it came, however long the gateway took to
\* answer for an earlier one (now is read before validate_token).
RevokedServedBriefly == lapsed > 0 => lapsed < Ttl
=============================================================================
