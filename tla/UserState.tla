------------------------------ MODULE UserState ------------------------------
(***************************************************************************)
(* What the controller remembers of a user between requests, and the       *)
(* requests that use it at the same time: each passes the authentication   *)
(* middleware, then updates or reads the runtime profile, posts the result *)
(* of an action, or is a turn, which reads the profile and reports the     *)
(* result that it waited for.                                              *)
(***************************************************************************)
EXTENDS PrincipalCache, RuntimeProfile, ActionContext

CONSTANT Asked  \* what the requests may be: their kinds and the actions they report

Kinds == {"upsert", "get", "turn", "post"}

ASSUME UserStateAssumption == Asked \subseteq [Requests -> [kind : Kinds, action : Actions]]

VARIABLE asks

vars == <<asks, principalVars, profileVars, contextVars>>

Init == asks \in Asked /\ PrincipalInit /\ ProfileInit /\ ContextInit

In(r, kind) == auth[r] = "passed" /\ asks[r].kind = kind

Authenticate == PrincipalStep /\ UNCHANGED <<asks, profileVars, contextVars>>

UseProfile(r) ==
  /\ \/ In(r, "upsert") /\ (Upsert(r) \/ Store(r))
     \/ In(r, "get") /\ (Get(r) \/ Fetch(r) \/ Store(r))
     \/ In(r, "turn") /\ (UseStored(r) \/ Fetch(r) \/ Store(r))
  /\ UNCHANGED <<asks, principalVars, contextVars>>

\* complete holds the dispatcher's lock: one post at a time.
MayReport(r) ==
  \/ In(r, "turn") /\ profile[r] = "done"
  \/ /\ In(r, "post")
     /\ \A q \in Requests \ {r} : asks[q].kind = "post" => reporting[q] \in {"idle", "done"}

UseContext ==
  /\ \/ \E r \in Requests : MayReport(r) /\ Report(r, asks[r].action)
     \/ Expire
  /\ UNCHANGED <<asks, principalVars, profileVars>>

Next == Authenticate \/ (\E r \in Requests : UseProfile(r)) \/ UseContext

Spec == Init /\ [][Next]_vars

\* The type of every variable; the lists of the context stay within their limits.
TypeOK == asks \in Asked /\ PrincipalType /\ ProfileType /\ ContextType
=============================================================================
