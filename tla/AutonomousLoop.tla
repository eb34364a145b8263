---------------------------- MODULE AutonomousLoop ----------------------------
(***************************************************************************)
(* planner/autonomous_loop.py and its two hosts in router.py: a bounded    *)
(* observe-act loop asks the core for a round of actions, dispatches them  *)
(* one after the other, and asks again.  POST /deepthink/watch streams the *)
(* loop as a turn of the TurnCancellation store; a background loop runs on *)
(* a thread of its own and keeps out of the store.                         *)
(*                                                                         *)
(* Of the dispatcher only what a round sees is here: an action it put on   *)
(* record is answered, rejected by a cancellation, or timed out.           *)
(***************************************************************************)
EXTENDS Naturals, Sequences, FiniteSets, SequencesExt

CONSTANTS Users, Requests, NoRequest,
          UserOf,         \* whose loop a request is
          Background,     \* the loops started in the background
          Conversations,  \* requests that are conversation turns
          MaxIterations,  \* max_iterations (1..25 in router.py)
          MaxActions,     \* bound: actions the core returns for a loop's round
          Cancellable,    \* what a client may name in POST /conversation/cancel
          MaxCancels,     \* bound: calls of POST /conversation/cancel
          LongRounds      \* loops whose max_seconds is above the store's ttl
                          \* (300 s) and whose waits in a round may outlast it

VARIABLES active, cancelled,  \* the cancellation store
          loops,     \* request |-> where its loop stands
          sweeps,    \* cancel handlers between their two steps
          cancels,   \* how often the cancel endpoint has been called
          stopped,   \* history: loops cancelled while they ran, or superseded
          late,      \* history: rounds asked for while stopped, up to 2
          overdue,   \* history: rounds asked for past max_seconds, up to 2
          reported   \* history: loops that dispatched a notify action

store == <<active, cancelled>>
cancelling == <<sweeps, cancels, stopped>>
rounds == <<late, overdue, reported>>
vars == <<store, loops, cancelling, rounds>>

S == INSTANCE TurnCancellation

ASSUME LoopAssumption ==
    /\ NoRequest \notin Requests
    /\ UserOf \in [Requests -> Users]
    /\ Background \subseteq Requests
    /\ Conversations \subseteq Requests \ Background
    /\ LongRounds \subseteq Requests
    /\ MaxActions \in [Requests -> Nat]
    /\ {MaxIterations, MaxCancels} \subseteq Nat
    /\ Cancellable \subseteq Requests \cup {NoRequest}

(* "act" is any action but a notify; if it is an extract_dom, a completed  *)
(* one may resolve to a follow-up.                                         *)
Kinds == {"notify", "act", "followUp"}
Plans(l) == SeqOf({"notify", "act"}, MaxActions[l])

(* Of the statuses only "completed" matters to a round: "failed" stands    *)
(* for "rejected" too.                                                     *)
Status == {"none", "open", "completed", "failed"}

(* "opening": registered, the response generator not yet started; "top":   *)
(* before the checks of an iteration; "asking": past them, suspended at    *)
(* autonomous_iteration or in deepthink_execute.                           *)
Stages == {"new", "sweepPrev", "opening", "unopened", "top", "asking",
           "dispatching", "closing", "ended"}

Loop == [stage : Stages,
         prev : Requests \cup {NoRequest},
         iteration : 0..MaxIterations,  \* rounds asked for
         expired : BOOLEAN,             \* max_seconds have passed
         notify : BOOLEAN,              \* the round has a notify action
         todo : Seq(Kinds),             \* pending_actions
         doing : Kinds \cup {"none"},   \* the action being dispatched, and
         status : Status]

Idle(stage) ==
    [stage |-> stage, prev |-> NoRequest, iteration |-> 0, expired |-> FALSE,
     notify |-> FALSE, todo |-> <<>>, doing |-> "none", status |-> "none"]

TypeOK ==
    /\ S!StoreTypeOK
    /\ loops \in [Requests -> Loop]
    /\ sweeps \subseteq Users \X Requests
    /\ cancels \in 0..MaxCancels
    /\ {stopped, reported} \subseteq SUBSET Requests
    /\ {late, overdue} \subseteq [Requests -> 0..2]

Init ==
    /\ S!StoreInit
    /\ loops = [l \in Requests |-> Idle("new")]
    /\ sweeps = {}
    /\ cancels = 0
    /\ stopped = {}
    /\ late = [l \in Requests |-> 0]
    /\ overdue = [l \in Requests |-> 0]
    /\ reported = {}

-----------------------------------------------------------------------------
At(l, stage) == loops[l].stage = stage
Running(l) == loops[l].stage \notin {"new", "unopened", "ended"}
Marked(l) == S!IsCancelled(UserOf[l], l)
Go(l, stage) == loops' = [loops EXCEPT ![l].stage = stage]

(* The generator ends: a stream has its finally clause to run. *)
Leave(l) ==
    loops' = [loops EXCEPT ![l] = Idle(IF l \in Background THEN "ended" ELSE "closing")]

CountIf(count, l, counts) ==
    IF counts /\ count[l] < 2 THEN [count EXCEPT ![l] = @ + 1] ELSE count

(* cancel_request: the user's action waiting for an answer is rejected. *)
Swept(u, l) ==
    IF UserOf[l] = u /\ loops[l].status = "open"
    THEN [loops EXCEPT ![l].status = "failed"] ELSE loops

-----------------------------------------------------------------------------
(* POST /deepthink/watch, or a conversation turn: begin_turn, and then the *)
(* superseded turn is swept.                                               *)
Register(l) ==
    LET prev == S!Superseded(UserOf[l], l)
    IN /\ l \notin Background
       /\ At(l, "new")
       /\ S!BeginTurn(UserOf[l], l)
       /\ loops' = [loops EXCEPT ![l].prev = prev,
                                 ![l].stage = IF prev = NoRequest THEN "opening"
                                              ELSE "sweepPrev"]
       /\ stopped' = stopped \cup ({prev} \ {NoRequest})
       /\ UNCHANGED <<sweeps, cancels, rounds>>

SweepSuperseded(l) ==
    /\ At(l, "sweepPrev")
    /\ loops' = [Swept(UserOf[l], loops[l].prev) EXCEPT ![l].stage = "opening",
                                              ![l].prev = NoRequest]
    /\ UNCHANGED <<store, cancelling, rounds>>

(* The response generator starts; or its client is gone already, and then  *)
(* its finally clause never runs.                                          *)
StartStream(l) ==
    /\ l \notin Conversations
    /\ At(l, "opening")
    /\ Go(l, "top") \/ loops' = [loops EXCEPT ![l] = Idle("unopened")]
    /\ UNCHANGED <<store, cancelling, rounds>>

(* The rest of a conversation turn is in ConversationTurns. *)
RunConversation(l) ==
    /\ l \in Conversations
    /\ At(l, "opening")
    /\ Leave(l)
    /\ UNCHANGED <<store, cancelling, rounds>>

(* _start_background_autonomous_loop: no begin_turn. *)
StartThread(l) ==
    /\ l \in Background
    /\ At(l, "new")
    /\ Go(l, "top")
    /\ UNCHANGED <<store, cancelling, rounds>>

-----------------------------------------------------------------------------
(* is_cancelled: a watch loop asks the store; a background loop reads an   *)
(* Event of its own that nothing sets.                                     *)
SeesCancellation(l) == l \notin Background /\ Marked(l)

(* The loop does not look at the clock. *)
MayGoOnUntimed(l) ==
    /\ loops[l].iteration < MaxIterations
    /\ ~SeesCancellation(l)

MayGoOn(l) ==
    /\ loops[l].iteration < MaxIterations
    /\ ~SeesCancellation(l)
    /\ ~loops[l].expired

NextIteration(l) ==
    /\ At(l, "top")
    /\ MayGoOn(l)
    /\ loops' = [loops EXCEPT ![l].iteration = @ + 1, ![l].stage = "asking"]
    /\ UNCHANGED <<store, cancelling, rounds>>

(* The checks fail or the iterations are used up: autonomous_done. *)
StopLooping(l) ==
    /\ At(l, "top")
    /\ ~MayGoOn(l)
    /\ Leave(l)
    /\ UNCHANGED <<store, cancelling, rounds>>

(* A stop signal that is not last in its round goes unseen. *)
ReportsDoneAtEnd(plan) == plan # <<>> /\ Last(plan) = "notify"
ReportsDone(plan) == Contains(plan, "notify")

(* deepthink_execute answers with the actions of a round, or with none. *)
Ask(l) ==
    /\ At(l, "asking")
    /\ \/ Leave(l)
       \/ \E plan \in Plans(l) \ {<<>>} :
             loops' = [loops EXCEPT ![l].todo = plan,
                                    ![l].notify = ReportsDone(plan),
                                    ![l].stage = "dispatching"]
    /\ late' = CountIf(late, l, l \in stopped)
    /\ overdue' = CountIf(overdue, l, loops[l].expired)
    /\ UNCHANGED <<store, cancelling, reported>>

(* The generator has no finally clause. *)
AskFailsUnfinished(l) ==
    /\ At(l, "asking")
    /\ loops' = [loops EXCEPT ![l] = Idle("ended")]
    /\ UNCHANGED <<store, cancelling, rounds>>

(* deepthink_execute raises: through the stream's finally clause, or into  *)
(* the background thread's except.                                         *)
AskFails(l) ==
    /\ At(l, "asking")
    /\ Leave(l)
    /\ UNCHANGED <<store, cancelling, rounds>>

(* enqueue: a server action is answered at once. *)
Enqueue(l) ==
    /\ At(l, "dispatching")
    /\ loops[l].doing = "none"
    /\ loops[l].todo # <<>>
    /\ \E status \in {"open", "completed"} :
          loops' = [loops EXCEPT ![l].doing = Head(loops[l].todo),
                                 ![l].todo = Tail(@), ![l].status = status]
    /\ reported' = IF Head(loops[l].todo) = "notify" THEN reported \cup {l} ELSE reported
    /\ UNCHANGED <<store, cancelling, late, overdue>>

(* wait_for_result returns only with an answer. *)
TakeAnswer(l) ==
    LET followUp == loops[l].doing = "act" /\ loops[l].status = "completed"
    IN /\ At(l, "dispatching")
       /\ loops[l].status \notin {"none", "open"}
       /\ \E found \in {FALSE, followUp} :
             loops' = [loops EXCEPT
                          ![l].todo = IF found THEN Append(@, "followUp") ELSE @,
                          ![l].doing = "none", ![l].status = "none"]
       /\ UNCHANGED <<store, cancelling, rounds>>

(* wait_for_result returns, on an open action with a timeout.  A completed *)
(* extract_dom may append one action; that one is never an extract_dom.    *)
TakeResult(l) ==
    LET followUp == loops[l].doing = "act" /\ loops[l].status = "completed"
    IN /\ At(l, "dispatching")
       /\ loops[l].doing # "none"
       /\ \E found \in {FALSE, followUp} :
             loops' = [loops EXCEPT
                          ![l].todo = IF found THEN Append(@, "followUp") ELSE @,
                          ![l].doing = "none", ![l].status = "none"]
       /\ UNCHANGED <<store, cancelling, rounds>>

EndRound(l) ==
    /\ At(l, "dispatching")
    /\ loops[l].doing = "none"
    /\ loops[l].todo = <<>>
    /\ IF loops[l].notify THEN Leave(l) ELSE Go(l, "top")
    /\ UNCHANGED <<store, cancelling, rounds>>

(* A watch client goes away at a yield: autonomous_start,                  *)
(* autonomous_iteration, or the events around an action.                   *)
Disconnect(l) ==
    /\ l \notin Background
    /\ \/ At(l, "top") /\ loops[l].iteration = 0
       \/ At(l, "asking")
       \/ At(l, "dispatching") /\ loops[l].doing # "none"
    /\ Leave(l)
    /\ UNCHANGED <<store, cancelling, rounds>>

Close(l) ==
    /\ At(l, "closing")
    /\ S!FinishTurn(UserOf[l], l)
    /\ loops' = [loops EXCEPT ![l] = Idle("ended")]
    /\ UNCHANGED <<cancelling, rounds>>

-----------------------------------------------------------------------------
(* The runtime answers the action it was given. *)
Answer(l, status) ==
    /\ loops[l].status = "open"
    /\ loops' = [loops EXCEPT ![l].status = status]
    /\ UNCHANGED <<store, cancelling, rounds>>

(* POST /conversation/cancel, in its two steps. *)
CancelMark(u, requested) ==
    LET target == S!CancelTarget(u, requested)
    IN /\ cancels < MaxCancels
       /\ cancels' = cancels + 1
       /\ S!CancelTurn(u, target)
       /\ sweeps' = sweeps \cup {<<u, target>>}
       /\ stopped' = stopped \cup {l \in Requests : l = target /\ UserOf[l] = u /\ Running(l)}
       /\ UNCHANGED <<loops, rounds>>

CancelSweep(u, l) ==
    /\ <<u, l>> \in sweeps
    /\ loops' = Swept(u, l)
    /\ sweeps' = sweeps \ {<<u, l>>}
    /\ UNCHANGED <<store, cancels, stopped, rounds>>

TimePasses(l) ==
    /\ loops[l].stage \in {"top", "asking", "dispatching"}
    /\ ~loops[l].expired
    /\ loops' = [loops EXCEPT ![l].expired = TRUE]
    /\ UNCHANGED <<store, cancelling, rounds>>

(* The store forgets a cancellation after its ttl.  A loop still running   *)
(* by then is in a round, for its check follows the start and every round  *)
(* at once; and it waits for an action, once the handler that cancelled it *)
(* has swept: a core call alone times out in less (120 s).                 *)
Forget(u, l) ==
    /\ S!Prune(u, l)
    /\ Running(l) => /\ l \in LongRounds
                     /\ At(l, "dispatching") /\ loops[l].status = "open"
                     /\ <<u, l>> \notin sweeps
    /\ UNCHANGED <<loops, cancelling, rounds>>

LoopStep(l) ==
    \/ SweepSuperseded(l)
    \/ StartStream(l)
    \/ RunConversation(l)
    \/ NextIteration(l)
    \/ StopLooping(l)
    \/ Ask(l)
    \/ AskFails(l)
    \/ Enqueue(l)
    \/ TakeResult(l)
    \/ EndRound(l)
    \/ Close(l)

Next ==
    \/ \E l \in Requests :
          \/ Register(l) \/ StartThread(l) \/ LoopStep(l)
          \/ Disconnect(l) \/ TimePasses(l)
          \/ \E status \in {"completed", "failed"} : Answer(l, status)
    \/ \E u \in Users :
          \/ \E requested \in Cancellable : CancelMark(u, requested)
          \/ \E l \in Requests : CancelSweep(u, l) \/ Forget(u, l)

(* A loop's thread runs on: the core call has a timeout and so has a wait. *)
(* No client need disconnect.                                              *)
Fairness == \A l \in Requests : WF_vars(LoopStep(l))

Spec == Init /\ [][Next]_vars /\ Fairness

-----------------------------------------------------------------------------
(* A watch loop that was cancelled or superseded asks for at most the one  *)
(* round it was already past the check for, unless a round outlasts its    *)
(* mark; and so does any loop whose time is up (stream_autonomous_loop's   *)
(* checks, against the cancel endpoint and the clock).                     *)
OneRoundAfterStop ==
    /\ \A l \in Requests \ (Background \cup LongRounds) : late[l] =< 1
    /\ \A l \in Requests : overdue[l] =< 1

(* Once a notify action has gone out the loop asks for no further round,   *)
(* wherever in its round the notify stood (STOP_SIGNAL_ACTION_TYPES).      *)
ReportIsLast ==
    [][\A l \in reported : loops'[l].iteration =< loops[l].iteration]_vars

(* A watch loop whose stream ran is its user's active turn no more once it *)
(* has ended, by whichever of its ends (deepthink_watch, stream).          *)
EndedLoopReleased ==
    \A l \in Requests : At(l, "ended") => active[UserOf[l]] # l

(* Every loop ends, though no runtime answers and nobody cancels it.       *)
LoopEnds == \A l \in Requests : Running(l) ~> ~Running(l)

(* The module's docstring: a loop "stops when ... the turn is cancelled".  *)
(* Whatever its kind, a cancelled loop asks for at most one more round.    *)
CancelStopsLoop == \A l \in Requests : late[l] =< 1
===============================================================================
