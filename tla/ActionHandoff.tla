----------------------------- MODULE ActionHandoff -----------------------------
(***************************************************************************)
(* What ActionDispatcher promises to the turn that dispatches an action    *)
(* and to the runtime that executes it, without locks, threads or queues:  *)
(* an action is given to its owner at most once and only while it has no   *)
(* answer; the turn is told once, and what it is told is the answer of     *)
(* that moment.                                                            *)
(***************************************************************************)
CONSTANTS Users, ActionIds, ClientStatuses, ServerStatuses, NoAnswer

VARIABLES open,    \* actions each user's runtime can still be given
          given,   \* actions each user's runtime has been given
          answer,  \* the answer on record
          told     \* the answer the dispatching turn went on with

vars == <<open, given, answer, told>>

Init ==
    /\ open = [u \in Users |-> {}]
    /\ given = [u \in Users |-> {}]
    /\ answer = [a \in ActionIds |-> NoAnswer]
    /\ told = [a \in ActionIds |-> NoAnswer]

Fresh(a) ==
    /\ answer[a] = NoAnswer
    /\ \A u \in Users : a \notin open[u] \cup given[u]

(* A client action is offered to its owner. *)
Offer(u, a) ==
    /\ Fresh(a)
    /\ open' = [open EXCEPT ![u] = @ \cup {a}]
    /\ UNCHANGED <<given, answer, told>>

(* A server action is answered and never offered. *)
Serve(a, s) ==
    /\ Fresh(a)
    /\ answer' = [answer EXCEPT ![a] = s]
    /\ UNCHANGED <<open, given, told>>

Give(u, S) ==
    /\ S \subseteq open[u]
    /\ open' = [open EXCEPT ![u] = @ \ S]
    /\ given' = [given EXCEPT ![u] = @ \cup S]
    /\ UNCHANGED <<answer, told>>

Close(S) == open' = [u \in Users |-> open[u] \ S]

(* The owner's runtime answers, or revises the answer. *)
Answer(a, s) ==
    /\ ~Fresh(a)
    /\ answer' = [answer EXCEPT ![a] = s]
    /\ Close({a})
    /\ UNCHANGED <<given, told>>

(* Unanswered actions are withdrawn. *)
Withdraw(S) ==
    /\ \A a \in S : answer[a] = NoAnswer /\ ~Fresh(a)
    /\ answer' = [a \in ActionIds |-> IF a \in S THEN "rejected" ELSE answer[a]]
    /\ Close(S)
    /\ UNCHANGED <<given, told>>

(* The turn stops waiting for an unanswered action. *)
GiveUp(a) ==
    /\ answer[a] = NoAnswer /\ ~Fresh(a)
    /\ told[a] = NoAnswer
    /\ answer' = [answer EXCEPT ![a] = "timeout"]
    /\ told' = [told EXCEPT ![a] = "timeout"]
    /\ Close({a})
    /\ UNCHANGED given

Tell(a) ==
    /\ told[a] = NoAnswer
    /\ answer[a] # NoAnswer
    /\ told' = [told EXCEPT ![a] = answer[a]]
    /\ UNCHANGED <<open, given, answer>>

Next ==
    \/ \E a \in ActionIds :
          \/ \E u \in Users : Offer(u, a)
          \/ \E s \in ServerStatuses : Serve(a, s)
          \/ \E s \in ClientStatuses : Answer(a, s)
          \/ GiveUp(a)
          \/ Tell(a)
    \/ \E u \in Users : \E S \in SUBSET open[u] : Give(u, S)
    \/ \E S \in SUBSET ActionIds : Withdraw(S)

Spec == Init /\ [][Next]_vars
================================================================================
