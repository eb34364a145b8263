------------------------- MODULE TurnOrchestration -------------------------
(***************************************************************************)
(* One turn from its message to its final event: the routes of             *)
(* router/router.py by which a turn answers with text, dispatches the      *)
(* actions of one decision, or works through a deep plan, with the         *)
(* reporting of planner/action_pipeline.py.                                *)
(*                                                                         *)
(* On the realtime route three things run side by side: the core's event   *)
(* stream, the decision whether to act, and the choice of a mode, the last *)
(* two on threads of their own.  Their order is open: a wait with a        *)
(* deadline may end either way.  A step pulls one event of the core, runs  *)
(* one action, or makes one call.                                          *)
(***************************************************************************)
EXTENDS Naturals, Sequences, SequencesExt

CONSTANTS
  Turns,        \* what may be asked for
  ActionLists,  \* the actions, "act" or "look", that a decision or a step may hold
  Plans,        \* numbers of steps a plan may have
  Statuses,     \* how an action may end
  MaxChunks     \* bound on the events of one core stream

(* asks is the first of the controller's own answers that the words of the  *)
(* message call for; candidate says whether they look like an action.  An   *)
(* override of "chat" is its thinking_mode.                                 *)
Turn ==
  [ via : {"stream", "respond", "chat"},
    override : {"none", "realtime", "deep", "planning"},
    asks : {"loop", "recall", "action", "analysis", "nothing"},
    candidate : BOOLEAN ]

ASSUME OrchestrationAssumption ==
  /\ Turns \subseteq Turn
  /\ ActionLists \subseteq Seq({"act", "look"}) \ {<<>>}
  /\ Plans \subseteq Nat /\ MaxChunks \in Nat /\ "completed" \in Statuses

VARIABLES
  turn,
  stage,        \* where the turn is
  mode,         \* "none", or the mode of a turn that is not answered in realtime
  future,       \* the decision: "none" is made, it is "running", or "ready"
  decision,     \* what it came to
  shown,        \* emitted_action_intent
  routing,      \* the choice of a mode: "none", "running", "ready" or "shown"
  chunks,       \* events pulled from the core
  plan,         \* steps of the plan that are left
  todo,         \* pending_actions
  report,       \* action_results
  after,        \* the stage behind a dispatch
  sent,         \* the events the client has got
  ran,          \* history: the results of the turn's actions
  dispatches,   \* history: how many decisions were dispatched
  broke         \* history: what broke off, the "plan" or the "core" stream

choice == <<turn, mode>>
thread == <<future, decision>>
work == <<todo, report, after, ran, dispatches>>
vars == <<choice, stage, thread, shown, routing, chunks, plan, work, sent, broke>>

Decisions == {"nothing", "answer", "direct", "unavailable", "needs_plan", "failed"}

Stages ==
  {"start", "streaming", "recompiling", "closing", "plain", "fallback", "deciding", "orchestrating",
   "planning", "stepping", "dispatching", "ended", "raised"}

-----------------------------------------------------------------------------
(* Events.                                                                  *)

Event(name) == [event |-> name, tells |-> <<>>]

Final(results) == [event |-> "final", tells |-> results]

\* action_completion_message and the results beside it, behind the results one by one
Results(results) == [i \in DOMAIN results |-> [event |-> "result", tells |-> <<results[i]>>]]

HasSent(name) == \E i \in DOMAIN sent : sent[i].event = name

\* respond gives one response, the last of the events, and none of those on the way to it.
Heard(events) ==
  CASE turn.via # "respond" -> events
    [] turn.via = "respond" /\ events # <<>> /\ Last(events).event = "final" -> <<Last(events)>>
    [] OTHER -> <<>>

\* _stream_realtime_with_parallel_decisions: the mode is told behind the first event it can be.
Emit(events) ==
  IF routing = "ready" /\ events # <<>>
  THEN /\ sent' = sent \o <<Head(events), Event("classification")>> \o Tail(events)
       /\ routing' = "shown"
  ELSE sent' = sent \o Heard(events) /\ UNCHANGED routing

\* The end of a turn's stream, where the mode is told if it was not before.
End(events) ==
  /\ stage' = "ended"
  /\ IF routing = "ready" /\ events = <<>>
     THEN sent' = Append(sent, Event("classification")) /\ routing' = "shown"
     ELSE Emit(events)

Go(next, events) == stage' = next /\ Emit(events)

-----------------------------------------------------------------------------
(* The threads.                                                             *)

\* _start_action_decision_future's thread, and the call of respond.
Decide ==
  /\ future = "running" /\ stage \notin {"ended", "raised"}
  /\ future' = "ready"
  /\ decision' \in Decisions
  /\ UNCHANGED <<choice, stage, shown, routing, chunks, plan, work, sent, broke>>

\* _start_routing_decision_future's thread
Route ==
  /\ routing = "running" /\ stage \notin {"ended", "raised"}
  /\ routing' = "ready"
  /\ UNCHANGED <<choice, stage, thread, shown, chunks, plan, work, sent, broke>>

-----------------------------------------------------------------------------
(* Dispatching.                                                             *)

\* The actions of a decision are dispatched, and then next.
Dispatch(next) ==
  /\ stage' = "dispatching" /\ after' = next
  /\ todo' \in ActionLists /\ report' = <<>>
  /\ dispatches' = dispatches + 1
  /\ UNCHANGED ran

\* follow_up_action_from_result: what was seen of a page may ask for one more action.
FollowUps(action, status) ==
  IF action = "look" /\ status = "completed" THEN {<<>>, <<"act">>} ELSE {<<>>}

\* One action of stream_action_dispatch_events or dispatch_actions_sync.  A decision that
\* surfaces in the core's stream is dispatched before any of its events is sent.
RunAction ==
  /\ stage = "dispatching" /\ todo # <<>>
  /\ \E status \in Statuses :
       /\ \E more \in FollowUps(Head(todo), status) : todo' = Tail(todo) \o more
       /\ report' = Append(report, status) /\ ran' = Append(ran, status)
       /\ Emit(IF after = "surfaced" THEN <<>> ELSE Results(<<status>>))
  /\ UNCHANGED <<choice, stage, thread, shown, chunks, plan, after, dispatches, broke>>

\* stream_dispatched_actions reports; the steps of a plan report together at their end.
Dispatched ==
  /\ stage = "dispatching" /\ todo = <<>>
  /\ CASE after = "surfaced" ->
            End(<<Event("intent")>> \o Results(report) \o <<Final(report)>>)
       [] after = "stepping" -> Go("stepping", <<>>)
       [] OTHER -> Go(after, <<Final(report)>>)
  /\ UNCHANGED <<choice, thread, shown, chunks, plan, work, broke>>

-----------------------------------------------------------------------------
(* The realtime route: _stream_realtime_with_action_arbitration over        *)
(* _stream_with_embedded_action_intercept.                                  *)

Surfaces == future = "ready" /\ ~shown

\* A decision that acts replaces the core's stream, and so, by a slip, does any other.
PassWhileUndecided(events, next) ==
  /\ shown' = (shown \/ Surfaces)
  /\ CASE Surfaces /\ decision = "direct" -> Dispatch("surfaced") /\ UNCHANGED <<sent, routing>>
       [] Surfaces /\ decision # "direct" -> End(<<Event("intent")>>) /\ UNCHANGED work
       [] OTHER -> /\ (IF next = "ended" THEN End(events) ELSE Go(next, events))
                   /\ UNCHANGED work

\* ready_decision_chunks before an event of the core is let through: a decision that acts, or
\* that cannot be carried out, replaces what is left of the core's stream.
Pass(events, next) ==
  LET all == IF Surfaces THEN <<Event("intent")>> \o events ELSE events
  IN /\ shown' = (shown \/ Surfaces)
     /\ CASE Surfaces /\ decision = "direct" -> Dispatch("surfaced") /\ UNCHANGED <<sent, routing>>
          [] Surfaces /\ decision = "unavailable" ->
               End(<<Event("intent"), Final(<<>>)>>) /\ UNCHANGED work
          [] OTHER -> /\ (IF next = "ended" THEN End(all) ELSE Go(next, all))
                      /\ UNCHANGED work

Pull == chunks < MaxChunks /\ chunks' = chunks + 1

\* A piece of text, the core's promise to act, which is not passed on, or its final event.
PullText ==
  /\ stage = "streaming" /\ Pull
  /\ \E events \in {<<Event("text")>>, <<>>, <<Final(<<>>)>>} : Pass(events, "streaming")
  /\ UNCHANGED <<choice, thread, plan, broke>>

\* A promise for a final event: the turn ends, with the decision if it comes within its grace.
PullPromise ==
  /\ stage = "streaming" /\ Pull
  /\ IF Surfaces THEN Pass(<<Final(<<>>)>>, "ended")
     ELSE /\ shown' = (shown \/ future # "none")
          /\ End((IF future = "running" /\ ~shown THEN <<Event("intent")>> ELSE <<>>)
                   \o <<Final(<<>>)>>)
          /\ UNCHANGED work
  /\ UNCHANGED <<choice, thread, plan, broke>>

\* A block in the final event is compiled, whether or not a decision is on its way.
PullBlockUnmarked ==
  /\ stage = "streaming" /\ Pull
  /\ Go("recompiling", <<Event("retry")>>)
  /\ UNCHANGED <<choice, thread, shown, plan, work, broke>>

\* A block of actions in the final event.  Behind text its progress event lets a decision through
\* first; from here on the block stands for the decision.
PullBlock ==
  /\ stage = "streaming" /\ Pull
  /\ IF Surfaces /\ HasSent("text") /\ ~HasSent("final") THEN Pass(<<Event("retry")>>, "recompiling")
     ELSE /\ Go("recompiling", <<Event("retry")>>)
          /\ shown' = TRUE /\ UNCHANGED work
  /\ UNCHANGED <<choice, thread, plan, broke>>

\* The core's stream ends, with a final event or without.
EndOfCore ==
  /\ stage = "streaming"
  /\ Go("closing", <<>>)
  /\ broke' = IF HasSent("final") THEN broke ELSE broke \cup {"core"}
  /\ UNCHANGED <<choice, thread, shown, chunks, plan, work>>

\* The decision is waited for once more.
CloseStream ==
  /\ stage = "closing"
  /\ Pass(<<>>, "ended")
  /\ UNCHANGED <<choice, thread, chunks, plan, broke>>

\* What the compiler makes of the message now is dispatched, or the block is suppressed.
Recompile ==
  LET next == IF mode = "deep" THEN "ended" ELSE "closing"
  IN /\ stage = "recompiling"
     /\ \/ Dispatch(next) /\ UNCHANGED <<shown, sent, routing>>
        \/ IF mode = "deep" THEN Go(next, <<Final(<<>>)>>) /\ UNCHANGED <<shown, work>>
           ELSE Pass(<<Final(<<>>)>>, next)
     /\ UNCHANGED <<choice, thread, chunks, plan, broke>>

-----------------------------------------------------------------------------
(* The core's stream passed on as it is: for an analysis, without a leading *)
(* promise to act, or after a plan broke off, on the look-out for blocks.   *)

ProxyText ==
  /\ stage \in {"plain", "fallback"} /\ Pull
  /\ \E name \in {"text", "promise", "final"} :
       Emit(IF name = "promise" /\ stage = "plain" /\ chunks = 0 THEN <<>> ELSE <<Event(name)>>)
  /\ UNCHANGED <<choice, stage, thread, shown, plan, work, broke>>

ProxyBlock ==
  /\ stage = "fallback" /\ Pull
  /\ Go("recompiling", <<Event("retry")>>)
  /\ UNCHANGED <<choice, thread, shown, plan, work, broke>>

EndOfProxy ==
  /\ stage \in {"plain", "fallback"}
  /\ End(<<>>)
  /\ broke' = IF HasSent("final") THEN broke ELSE broke \cup {"core"}
  /\ UNCHANGED <<choice, thread, shown, chunks, plan, work>>

\* The core's stream raises, and the turn with it.
CoreRaises ==
  /\ stage \in {"streaming", "plain", "fallback"}
  /\ stage' = "raised"
  /\ UNCHANGED <<choice, thread, shown, routing, chunks, plan, work, sent, broke>>

-----------------------------------------------------------------------------
(* The deep route.                                                          *)

\* action_future.result(): the decision is waited for without a deadline.
TakeDecision ==
  /\ stage = "deciding" /\ future = "ready"
  /\ CASE decision = "direct" ->
            Dispatch("ended") /\ Emit(<<Event("intent")>>)
       [] decision = "failed" -> stage' = "raised" /\ UNCHANGED <<sent, routing, work>>
       [] decision = "unavailable" /\ turn.via = "stream" ->
            End(<<Event("intent"), Final(<<>>)>>) /\ UNCHANGED work
       [] OTHER -> Go(IF turn.via = "stream" THEN "planning" ELSE "orchestrating",
                      <<Event("intent")>>) /\ UNCHANGED work
  /\ UNCHANGED <<choice, thread, shown, chunks, plan, broke>>

\* orchestrate_conversation_turn of respond: the core answers, in any case but a plan's.
Orchestrate ==
  /\ stage = "orchestrating"
  /\ \E chosen \in IF turn.override = "none" THEN {"realtime", "deep", "planning"}
                   ELSE {turn.override} :
       /\ mode' = chosen
       /\ \/ chosen = "deep" /\ Go("planning", <<>>)
          \/ chosen # "deep" /\ End(<<Final(<<>>)>>)
          \/ chosen # "planning" /\ stage' = "raised" /\ UNCHANGED <<sent, routing>>
  /\ UNCHANGED <<turn, thread, shown, chunks, plan, work, broke>>

\* deepthink_plan, or build_plan in its place; respond gives the core's answer in its place.
MakePlan ==
  /\ stage = "planning"
  /\ \/ /\ plan' \in Plans
        /\ IF mode = "planning" THEN End(<<Event("plan"), Final(<<>>)>>)
           ELSE Go("stepping", <<Event("plan")>>)
     \/ /\ turn.via = "respond"
        /\ End(<<Final(<<>>)>>) /\ UNCHANGED plan
  /\ UNCHANGED <<choice, thread, shown, chunks, work, broke>>

\* Every step collects its own results.
ExecuteStepAnew ==
  /\ stage = "stepping" /\ plan > 0
  /\ plan' = plan - 1
  /\ \/ /\ todo' \in ActionLists /\ after' = "stepping" /\ stage' = "dispatching"
        /\ report' = <<>>
     \/ UNCHANGED <<todo, report, after, stage>>
  /\ UNCHANGED <<choice, thread, shown, routing, chunks, ran, dispatches, sent, broke>>

\* The plan is worked through to a step behind its last.
ExecuteStepPastEnd ==
  /\ stage = "stepping"
  /\ plan' = plan - 1
  /\ \/ /\ todo' \in ActionLists /\ after' = "stepping" /\ stage' = "dispatching"
     \/ UNCHANGED <<todo, after, stage>>
  /\ UNCHANGED <<choice, thread, shown, routing, chunks, report, ran, dispatches, sent, broke>>

\* deepthink_execute brings the actions of one step, or none.
ExecuteStep ==
  /\ stage = "stepping" /\ plan > 0
  /\ plan' = plan - 1
  /\ \/ /\ todo' \in ActionLists /\ after' = "stepping" /\ stage' = "dispatching"
     \/ UNCHANGED <<todo, after, stage>>
  /\ UNCHANGED <<choice, thread, shown, routing, chunks, report, ran, dispatches, sent, broke>>

FinishPlan ==
  /\ stage = "stepping" /\ plan = 0
  /\ End(<<Final(report)>>)
  /\ UNCHANGED <<choice, thread, shown, chunks, plan, work, broke>>

\* A step that raises: the stream turns to the core, respond to what the core said before.
StepRaises ==
  /\ stage = "stepping" /\ plan > 0
  /\ broke' = broke \cup {"plan"}
  /\ IF turn.via = "stream" THEN Go("fallback", <<>>) ELSE End(<<Final(<<>>)>>)
  /\ UNCHANGED <<choice, thread, shown, chunks, plan, work>>

-----------------------------------------------------------------------------
(* The turn as a whole.                                                     *)

Init ==
  /\ turn \in Turns /\ mode = "none" /\ stage = "start"
  /\ future = "none" /\ decision = "nothing" /\ shown = FALSE /\ routing = "none"
  /\ chunks = 0 /\ plan = 0
  /\ todo = <<>> /\ report = <<>> /\ after = "ended" /\ ran = <<>> /\ dispatches = 0
  /\ sent = <<>> /\ broke = {}

Asked(via, overrides) ==
  stage = "start" /\ turn.via = via /\ turn.override \in overrides

\* The controller answers by itself: it starts a loop, recalls what the user said before, or
\* acts on words it knows.
AnswerLocally ==
  /\ Asked("stream", {"none", "realtime"})
  /\ CASE turn.asks \in {"loop", "recall"} ->
            /\ End(<<Event("classification"), Event("text"), Final(<<>>)>>)
            /\ UNCHANGED work
       [] turn.asks = "action" -> Dispatch("ended") /\ Emit(<<Event("intent")>>)
       [] turn.asks = "analysis" -> /\ turn.override = "none"
                                    /\ Go("plain", <<Event("classification")>>)
                                    /\ UNCHANGED work
       [] OTHER -> FALSE
  /\ UNCHANGED <<choice, thread, shown, chunks, plan, broke>>

\* The core's stream is opened, and the threads beside it; chat decides whatever the words.
OpenStream ==
  /\ \/ /\ Asked("stream", {"none", "realtime"})
        /\ turn.asks = "nothing" \/ (turn.asks = "analysis" /\ turn.override = "realtime")
        /\ future' = IF turn.candidate THEN "running" ELSE "none"
     \/ Asked("chat", {"none", "realtime"}) /\ future' = "running"
  /\ stage' = "streaming"
  /\ routing' = IF turn.override = "none" THEN "running" ELSE "none"
  /\ sent' = IF turn.candidate THEN Append(sent, Event("pending")) ELSE sent
  /\ UNCHANGED <<choice, decision, shown, chunks, plan, work, broke>>

\* A turn that is to be thought about; only one that is not to be planned may act at once.
Deepen ==
  /\ Asked("stream", {"deep", "planning"})
  /\ mode' = turn.override
  /\ IF turn.override = "deep" /\ turn.candidate
     THEN future' = "running" /\ Go("deciding", <<Event("classification")>>)
     ELSE UNCHANGED future /\ Go("planning", <<Event("classification")>>)
  /\ UNCHANGED <<turn, decision, shown, chunks, plan, work, broke>>

Respond ==
  /\ Asked("respond", {"none", "realtime", "deep", "planning"})
  /\ IF turn.override = "planning" THEN stage' = "orchestrating" /\ UNCHANGED future
     ELSE stage' = "deciding" /\ future' = "running"
  /\ UNCHANGED <<choice, decision, shown, routing, chunks, plan, work, sent, broke>>

Next ==
  \/ AnswerLocally \/ OpenStream \/ Deepen \/ Respond
  \/ Decide \/ Route
  \/ RunAction \/ Dispatched
  \/ PullText \/ PullPromise \/ PullBlock \/ EndOfCore \/ CloseStream \/ Recompile
  \/ ProxyText \/ ProxyBlock \/ EndOfProxy \/ CoreRaises
  \/ TakeDecision \/ Orchestrate \/ MakePlan \/ ExecuteStep \/ FinishPlan \/ StepRaises

Spec == Init /\ [][Next]_vars

-----------------------------------------------------------------------------
(* Properties.                                                              *)

EventNames ==
  {"pending", "intent", "classification", "text", "promise", "retry", "plan", "result", "final"}

\* The type of every variable; no plan has fewer than no steps left.
TypeOK ==
  /\ turn \in Turns /\ mode \in {"none", "realtime", "deep", "planning"} /\ stage \in Stages
  /\ future \in {"none", "running", "ready"} /\ decision \in Decisions /\ shown \in BOOLEAN
  /\ routing \in {"none", "running", "ready", "shown"}
  /\ chunks \in 0 .. MaxChunks /\ plan \in Nat
  /\ todo \in Seq({"act", "look"}) /\ report \in Seq(Statuses) /\ ran \in Seq(Statuses)
  /\ after \in {"surfaced", "stepping", "closing", "ended"} /\ dispatches \in Nat
  /\ broke \subseteq {"plan", "core"}
  /\ sent \in Seq([event : EventNames, tells : Seq(Statuses)])

\* The actions of at most one decision are dispatched in a turn: a block of actions in the core's
\* answer, a decision that comes in late and the compiler's second opinion never add up
\* (_stream_realtime_with_action_arbitration, emitted_action_intent).
DispatchedOnce == dispatches =< 1

\* A turn that ends tells so: unless the core itself broke its answer off, the client has got a
\* final event, whichever way the decision, the actions and the plan went.
AlwaysAnswered == stage = "ended" /\ "core" \notin broke => HasSent("final")

\* The last of these events that says anything is the final event of these results.
Told(events, results) ==
  \E i \in DOMAIN events :
    /\ events[i] = Final(results)
    /\ \A j \in (i + 1) .. Len(events) : events[j].event \notin {"text", "final"}

\* What the user's machine did is told: when the turn ends, its last final event tells the results
\* of all actions that ran, those of earlier steps of a plan and of follow-ups included, and no
\* text comes behind it.  A plan that breaks off loses them: the core is asked anew.
ResultsTold == stage = "ended" /\ ran # <<>> /\ "plan" \notin broke => Told(sent, ran)

=============================================================================
