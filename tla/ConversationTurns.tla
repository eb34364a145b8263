-------------------------- MODULE ConversationTurns --------------------------
(***************************************************************************)
(* router.py: streamed conversation turns, the cancel endpoint and the     *)
(* user's runtime, all on threads of their own, around two shared objects:  *)
(* the TurnCancellation store, and the dispatcher, of which only what it   *)
(* promises is used (ActionHandoff, which ActionDispatcher implements).    *)
(*                                                                         *)
(* A turn pulls a chunk from its inner generator, which may enqueue an     *)
(* action or wait for a result on the way, then asks the store whether it  *)
(* was cancelled, then yields the chunk.  A cancellation is two steps:     *)
(* mark the turn in the store, then reject its actions in the dispatcher.  *)
(* A turn that supersedes another takes the same two steps.                *)
(***************************************************************************)
EXTENDS Naturals, Sequences, FiniteSets

CONSTANTS Users, Requests, ActionIds, ClientStatuses, ServerStatuses,
          NoRequest, NoAction, NoAnswer,
          UserOf,      \* whose turn a request is
          Script,      \* the actions a turn dispatches, in order
          Cancellable, \* what a client may name in POST /conversation/cancel
          MaxCancels,  \* bound: calls of POST /conversation/cancel
          EagerTurns   \* turns on the realtime route, which dispatches the
                       \* whole decision before it yields the first event

VARIABLES open, given, answer, told,  \* the dispatcher
          active, cancelled,          \* the cancellation store
          turns,        \* the turn threads: request |-> where the thread stands
          sweeps,       \* cancel handlers between their two steps
          cancels,      \* how often the cancel endpoint has been called
          announced,    \* actions whose action_dispatch event the client has
          swept,        \* history: users and requests cancel_request has run for
          afterMark,    \* history: actions recorded while their turn was marked
          afterSweep,   \* history: actions recorded after their turn's sweep
          sentAfterMark \* history: content chunks yielded while marked, up to 2

dispatcher == <<open, given, answer, told>>
store == <<active, cancelled>>
history == <<swept, afterMark, afterSweep, sentAfterMark>>
vars == <<dispatcher, store, turns, sweeps, cancels, announced, history>>

D == INSTANCE ActionHandoff
S == INSTANCE TurnCancellation

(* What answers an action. *)
Statuses == {"completed", "failed", "rejected", "timeout"}

ActionsOf(r) == {Script[r][i] : i \in DOMAIN Script[r]}

(* Every enqueue draws a fresh id: no two turns have an action in common. *)
ASSUME TurnsAssumption ==
    /\ NoAction \notin ActionIds
    /\ NoRequest \notin Requests
    /\ UserOf \in [Requests -> Users]
    /\ Script \in [Requests -> Seq(ActionIds)]
    /\ \A r, q \in Requests : r # q => ActionsOf(r) \cap ActionsOf(q) = {}
    /\ ClientStatuses \cup ServerStatuses \subseteq Statuses
    /\ NoAnswer \notin Statuses
    /\ Cancellable \subseteq Requests \cup {NoRequest}
    /\ MaxCancels \in Nat
    /\ EagerTurns \subseteq Requests

(* "sweepPrev" has begun and still has to reject the actions of the turn   *)
(* it superseded; "pulling" is inside the inner generator; "holding" has a *)
(* chunk in hand; "sending" is suspended at the yield; "closing" is in the *)
(* finally clause.                                                         *)
TurnStages == {"new", "sweepPrev", "pulling", "holding", "sending", "closing", "ended"}

(* Where the inner generator stands with the current action: "handler"     *)
(* before it is on record, "recorded" before result_if_ready, "announced"  *)
(* suspended after the action_dispatch event, "waiting" for the result.    *)
InnerStages == {"idle", "handler", "recorded", "announced", "waiting"}

(* What a turn yields, to the detail the properties need. *)
Chunks == [event : {"dispatch", "result"}, action : ActionIds]
          \cup [event : {"done"}, action : {NoAction}]

Turn == [stage : TurnStages,
         prev : Requests \cup {NoRequest},
         todo : Seq(ActionIds),             \* pending_actions
         cur : ActionIds \cup {NoAction},   \* the action being dispatched, and
         inner : InnerStages,               \* how far its dispatch has come
         buffer : Seq(Chunks),              \* pulled and not yet yielded
         ending : {"none", "done", "cancelled", "disconnected"}]

TypeOK ==
    /\ open \in [Users -> SUBSET ActionIds]
    /\ given \in [Users -> SUBSET ActionIds]
    /\ {answer, told} \subseteq [ActionIds -> Statuses \cup {NoAnswer}]
    /\ S!StoreTypeOK
    /\ turns \in [Requests -> Turn]
    /\ sweeps \subseteq Users \X Requests
    /\ cancels \in 0..MaxCancels
    /\ announced \subseteq ActionIds
    /\ swept \subseteq Users \X Requests
    /\ afterMark \subseteq ActionIds
    /\ afterSweep \subseteq ActionIds
    /\ sentAfterMark \in [Requests -> 0..2]

Init ==
    /\ D!Init
    /\ S!StoreInit
    /\ turns = [r \in Requests |->
                   [stage |-> "new", prev |-> NoRequest, todo |-> Script[r],
                    cur |-> NoAction, inner |-> "idle", buffer |-> <<>>, ending |-> "none"]]
    /\ sweeps = {}
    /\ cancels = 0
    /\ announced = {}
    /\ swept = {}
    /\ afterMark = {}
    /\ afterSweep = {}
    /\ sentAfterMark = [r \in Requests |-> 0]

-----------------------------------------------------------------------------
At(r, stage) == turns[r].stage = stage
Marked(r) == S!IsCancelled(UserOf[r], r)
Live(r) == turns[r].stage \notin {"new", "ended"}
Unanswered(a) == ~D!Fresh(a) /\ answer[a] = NoAnswer
Inner(r, stage) == turns[r].stage = "pulling" /\ turns[r].inner = stage
Go(r, stage) == turns' = [turns EXCEPT ![r].stage = stage]

(* begin_turn; the turn it supersedes is marked in the same step. *)
Begin(r) ==
    LET prev == S!Superseded(UserOf[r], r)
    IN /\ At(r, "new")
       /\ S!BeginTurn(UserOf[r], r)
       /\ turns' = [turns EXCEPT ![r].prev = prev,
                                 ![r].stage = IF prev = NoRequest THEN "pulling"
                                              ELSE "sweepPrev"]
       /\ UNCHANGED <<dispatcher, sweeps, cancels, announced, history>>

(* What cancel_request rejects: of the request, and of that user. *)
Rejected(u, r) == {a \in ActionsOf(r) : UserOf[r] = u /\ Unanswered(a)}

(* begin_turn's caller never rejects the superseded turn's actions. *)
SweepSkipped(r) ==
    /\ At(r, "sweepPrev")
    /\ Go(r, "pulling")
    /\ UNCHANGED <<dispatcher, store, sweeps, cancels, announced, history>>

SweepSuperseded(r) ==
    /\ At(r, "sweepPrev")
    /\ D!Withdraw(Rejected(UserOf[r], turns[r].prev))
    /\ Go(r, "pulling")
    /\ swept' = swept \cup {<<UserOf[r], turns[r].prev>>}
    /\ UNCHANGED <<store, sweeps, cancels, announced, afterMark, afterSweep, sentAfterMark>>

-----------------------------------------------------------------------------
(* The pull.  stream_action_dispatch_events takes the next action when the *)
(* one before has its result; a lazy turn leaves the generator with every  *)
(* chunk, an eager one collects them all first (chunks.extend).            *)
(* Every turn collects its chunks first. *)
ProduceCollected(r, inner, chunk) ==
    LET t == turns[r]
        more == inner # "idle" \/ t.todo # <<>>
    IN turns' = [turns EXCEPT
                    ![r].inner = inner,
                    ![r].cur = IF inner = "idle" THEN NoAction ELSE t.cur,
                    ![r].buffer = Append(t.buffer, chunk),
                    ![r].stage = IF more THEN "pulling" ELSE "holding"]

Produce(r, inner, chunk) ==
    LET t == turns[r]
        more == inner # "idle" \/ t.todo # <<>>
    IN turns' = [turns EXCEPT
                    ![r].inner = inner,
                    ![r].cur = IF inner = "idle" THEN NoAction ELSE t.cur,
                    ![r].buffer = Append(t.buffer, chunk),
                    ![r].stage = IF r \in EagerTurns /\ more THEN "pulling" ELSE "holding"]

(* enqueue is called: the server handler runs before the action is known. *)
TakeAction(r) ==
    /\ Inner(r, "idle")
    /\ turns[r].todo # <<>>
    /\ turns' = [turns EXCEPT ![r].cur = Head(turns[r].todo), ![r].todo = Tail(@),
                              ![r].inner = "handler"]
    /\ UNCHANGED <<dispatcher, store, sweeps, cancels, announced, history>>

RecordAction(r) ==
    LET a == turns[r].cur
    IN /\ Inner(r, "handler")
       /\ D!Offer(UserOf[r], a) \/ \E s \in ServerStatuses : D!Serve(a, s)
       /\ turns' = [turns EXCEPT ![r].inner = "recorded"]
       /\ afterMark' = IF Marked(r) THEN afterMark \cup {a} ELSE afterMark
       /\ afterSweep' = IF <<UserOf[r], r>> \in swept THEN afterSweep \cup {a} ELSE afterSweep
       /\ UNCHANGED <<store, sweeps, cancels, announced, swept, sentAfterMark>>

(* result_if_ready has the result already: no action_dispatch event. *)
SkipAnnouncement(r) ==
    LET a == turns[r].cur
    IN /\ Inner(r, "recorded")
       /\ D!Tell(a)
       /\ Produce(r, "idle", [event |-> "result", action |-> a])
       /\ UNCHANGED <<store, sweeps, cancels, announced, history>>

Announce(r) ==
    LET a == turns[r].cur
    IN /\ Inner(r, "recorded")
       /\ answer[a] = NoAnswer
       /\ Produce(r, "announced", [event |-> "dispatch", action |-> a])
       /\ UNCHANGED <<dispatcher, store, sweeps, cancels, announced, history>>

StartWait(r) ==
    /\ Inner(r, "announced")
    /\ turns' = [turns EXCEPT ![r].inner = "waiting"]
    /\ UNCHANGED <<dispatcher, store, sweeps, cancels, announced, history>>

(* A wait without a deadline. *)
TakeAnswer(r) ==
    LET a == turns[r].cur
    IN /\ Inner(r, "waiting")
       /\ D!Tell(a)
       /\ Produce(r, "idle", [event |-> "result", action |-> a])
       /\ UNCHANGED <<store, sweeps, cancels, announced, history>>

(* wait_for_result returns the answer, or gives up on it. *)
TakeResult(r) ==
    LET a == turns[r].cur
    IN /\ Inner(r, "waiting")
       /\ D!Tell(a) \/ D!GiveUp(a)
       /\ Produce(r, "idle", [event |-> "result", action |-> a])
       /\ UNCHANGED <<store, sweeps, cancels, announced, history>>

(* Nothing left to dispatch: assistant_done. *)
Finished(r) ==
    /\ Inner(r, "idle")
    /\ turns[r].todo = <<>>
    /\ Produce(r, "idle", [event |-> "done", action |-> NoAction])
    /\ UNCHANGED <<dispatcher, store, sweeps, cancels, announced, history>>

-----------------------------------------------------------------------------
(* The generator stops before its end, at a yield: the inner one is closed *)
(* with it and, if suspended after an action_dispatch event, never waits.  *)
StopTurn(r, ending) ==
    turns' = [turns EXCEPT ![r].stage = "closing", ![r].ending = ending,
                           ![r].buffer = <<>>, ![r].inner = "idle", ![r].cur = NoAction]

(* The store is asked only once the last chunk is in hand. *)
CheckAtDone(r) ==
    /\ At(r, "holding")
    /\ IF Marked(r) /\ Head(turns[r].buffer).event = "done"
       THEN StopTurn(r, "cancelled") ELSE Go(r, "sending")
    /\ UNCHANGED <<dispatcher, store, sweeps, cancels, announced, history>>

(* The chunk in hand is dropped for conversation.cancelled, or yielded. *)
Check(r) ==
    /\ At(r, "holding")
    /\ IF Marked(r)
       THEN StopTurn(r, "cancelled") ELSE Go(r, "sending")
    /\ UNCHANGED <<dispatcher, store, sweeps, cancels, announced, history>>

Send(r) ==
    LET chunk == Head(turns[r].buffer)
        rest == Tail(turns[r].buffer)
    IN /\ At(r, "sending")
       /\ turns' = [turns EXCEPT
                       ![r].buffer = rest,
                       ![r].ending = IF chunk.event = "done" THEN "done" ELSE @,
                       ![r].stage = IF chunk.event = "done" THEN "closing"
                                    ELSE IF rest = <<>> THEN "pulling" ELSE "holding"]
       /\ announced' = IF chunk.event = "dispatch" THEN announced \cup {chunk.action}
                       ELSE announced
       /\ sentAfterMark' = IF Marked(r) /\ sentAfterMark[r] < 2
                           THEN [sentAfterMark EXCEPT ![r] = @ + 1] ELSE sentAfterMark
       /\ UNCHANGED <<dispatcher, store, sweeps, cancels, swept, afterMark, afterSweep>>

(* The SSE client goes away: the generator is closed at its yield. *)
Disconnect(r) ==
    /\ At(r, "sending")
    /\ StopTurn(r, "disconnected")
    /\ UNCHANGED <<dispatcher, store, sweeps, cancels, announced, history>>

Close(r) ==
    /\ At(r, "closing")
    /\ S!FinishTurn(UserOf[r], r)
    /\ Go(r, "ended")
    /\ UNCHANGED <<dispatcher, sweeps, cancels, announced, history>>

-----------------------------------------------------------------------------
(* POST /conversation/cancel, with a request id or for the active turn. *)
CancelMark(u, requested) ==
    LET target == S!CancelTarget(u, requested)
    IN /\ cancels < MaxCancels
       /\ cancels' = cancels + 1
       /\ S!CancelTurn(u, target)
       /\ sweeps' = sweeps \cup {<<u, target>>}
       /\ UNCHANGED <<dispatcher, turns, announced, history>>

CancelSweep(u, r) ==
    /\ <<u, r>> \in sweeps
    /\ D!Withdraw(Rejected(u, r))
    /\ sweeps' = sweeps \ {<<u, r>>}
    /\ swept' = swept \cup {<<u, r>>}
    /\ UNCHANGED <<store, turns, cancels, announced, afterMark, afterSweep, sentAfterMark>>

(* The actions of a user that its runtime has been given or heard of. *)
Met(u) ==
    given[u] \cup {a \in announced : \E r \in Requests : UserOf[r] = u /\ a \in ActionsOf(r)}

(* The user's runtime: polls, and posts results of actions it has met. *)
Runtime(u) ==
    /\ \/ D!Give(u, open[u])
       \/ \E a \in Met(u), s \in ClientStatuses : D!Answer(a, s)
    /\ UNCHANGED <<store, turns, sweeps, cancels, announced, history>>

(* No turn lives for a ttl after it was cancelled. *)
Forget(u, r) ==
    /\ S!Prune(u, r)
    /\ ~Live(r)
    /\ UNCHANGED <<dispatcher, turns, sweeps, cancels, announced, history>>

TurnStep(r) ==
    \/ SweepSuperseded(r)
    \/ TakeAction(r)
    \/ RecordAction(r)
    \/ SkipAnnouncement(r)
    \/ Announce(r)
    \/ StartWait(r)
    \/ TakeResult(r)
    \/ Finished(r)
    \/ Check(r)
    \/ Send(r)
    \/ Disconnect(r)
    \/ Close(r)

Next ==
    \/ \E r \in Requests : Begin(r) \/ TurnStep(r)
    \/ \E u \in Users :
          \/ \E requested \in Cancellable : CancelMark(u, requested)
          \/ \E r \in Requests : CancelSweep(u, r) \/ Forget(u, r)
          \/ Runtime(u)

(* The thread pool runs every turn and every cancel handler on, and a wait *)
(* ends at its deadline.  Nothing makes a runtime poll or a client cancel.              *)
Fairness ==
    /\ \A r \in Requests : WF_vars(TurnStep(r))
    /\ \A u \in Users, r \in Requests : WF_vars(CancelSweep(u, r))

Spec == Init /\ [][Next]_vars /\ Fairness

-----------------------------------------------------------------------------
(* A running turn that is no longer its user's active turn has been        *)
(* cancelled: turns of one user never run side by side unmarked, whatever  *)
(* the order of begin_turn, cancel_turn and the finally clauses            *)
(* (turn_cancellation.py, _stream_orchestrated_conversation).              *)
SupersededIsCancelled ==
    \A r \in Requests : Live(r) => active[UserOf[r]] = r \/ Marked(r)

(* Once a turn is marked, its client gets at most the one chunk that was   *)
(* already past the check (_stream_orchestrated_conversation).             *)
OneChunkAfterCancel == \A r \in Requests : sentAfterMark[r] =< 1

(* A turn that dispatches one action per pull enqueues at most one more    *)
(* action once it is marked.                                               *)
LateActionsBounded ==
    \A r \in Requests \ EagerTurns :
        Cardinality(afterMark \cap ActionsOf(r)) =< 1

(* What a cancelled turn leaves unanswered was enqueued after the sweep,   *)
(* or a sweep is still to come: the two steps of a cancellation cannot     *)
(* miss an action that was on record (conversation_cancel, begin_turn's    *)
(* callers, cancel_request).                                               *)
OnlyLateActionsEscape ==
    \A r \in Requests :
        At(r, "ended") /\ turns[r].ending = "cancelled" =>
            \/ <<UserOf[r], r>> \in sweeps
            \/ \E other \in Requests : At(other, "sweepPrev") /\ turns[other].prev = r
            \/ Rejected(UserOf[r], r) \subseteq afterSweep

(* A lazy turn gives up on an action without an answer only when its client *)
(* has had the action_dispatch event (stream_action_dispatch_events).      *)
LazyGiveUpAnnounced ==
    [][\A r \in Requests \ EagerTurns : \A a \in ActionsOf(r) :
           answer[a] = NoAnswer /\ told'[a] # told[a] => a \in announced]_vars

(* The documents' order of events for every turn: action_dispatch tells    *)
(* the client of an action that is queued for it (docs/action-lifecycle.md *)
(* step 7, docs/client-action-contract.md, action_dispatch).               *)
EveryTimeoutAnnounced ==
    \A a \in ActionIds : told[a] = "timeout" => a \in announced

(* A turn that is marked ends, even if its runtime never answers.          *)
CancelledTurnEnds ==
    \A r \in Requests : Live(r) /\ Marked(r) ~> ~Live(r)
===============================================================================
