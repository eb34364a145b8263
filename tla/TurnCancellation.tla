--------------------------- MODULE TurnCancellation ---------------------------
(***************************************************************************)
(* planner/turn_cancellation.py: which turn is the active one of a user    *)
(* and which turns have been cancelled.  Each method runs under the        *)
(* store's lock and is one action.  The module that instantiates it is the *)
(* store's environment.                                                    *)
(***************************************************************************)
CONSTANTS Users, Requests, NoRequest

VARIABLES active,     \* _active: the active request of a user, or NoRequest
          cancelled   \* _cancelled: the (user, request) pairs not yet pruned

StoreTypeOK ==
    /\ active \in [Users -> Requests \cup {NoRequest}]
    /\ cancelled \subseteq Users \X Requests

StoreInit ==
    /\ active = [u \in Users |-> NoRequest]
    /\ cancelled = {}

IsCancelled(u, r) == <<u, r>> \in cancelled

(* What begin_turn returns: the turn it supersedes. *)
Superseded(u, r) == IF active[u] = r THEN NoRequest ELSE active[u]

(* begin_turn without its test that there was an active turn. *)
BeginTurnMarkingAny(u, r) ==
    /\ active' = [active EXCEPT ![u] = r]
    /\ cancelled' = cancelled \cup {<<u, active[u]>>}

BeginTurn(u, r) ==
    /\ active' = [active EXCEPT ![u] = r]
    /\ cancelled' = IF Superseded(u, r) = NoRequest THEN cancelled
                    ELSE cancelled \cup {<<u, Superseded(u, r)>>}

(* What cancel_turn cancels: the request it is given, or the active one. *)
CancelTarget(u, requested) == IF requested = NoRequest THEN active[u] ELSE requested

CancelTurn(u, target) ==
    /\ target # NoRequest
    /\ cancelled' = cancelled \cup {<<u, target>>}
    /\ active' = IF active[u] = target THEN [active EXCEPT ![u] = NoRequest] ELSE active

(* finish_turn without its test that the turn is still the active one. *)
FinishAnyTurn(u, r) ==
    /\ r \in Requests
    /\ active' = [active EXCEPT ![u] = NoRequest]
    /\ UNCHANGED cancelled

FinishTurn(u, r) ==
    /\ active' = IF active[u] = r THEN [active EXCEPT ![u] = NoRequest] ELSE active
    /\ UNCHANGED cancelled

(* An entry older than the ttl (300 s).  Every method that reads           *)
(* _cancelled prunes first, so the entry is gone when its ttl ends.        *)
Prune(u, r) ==
    /\ IsCancelled(u, r)
    /\ cancelled' = cancelled \ {<<u, r>>}
    /\ UNCHANGED active
===============================================================================
