# A TLA+ model of jarvis_controller

jarvis_controller is the public API of an assistant: it turns a user's message
into actions, hands those actions to the user's own runtime (a desktop client that
polls for them and posts their results), and streams what happens back over SSE.
Its hard part is not the text it produces but the concurrency around one in-memory
process: turn threads, runtime polls, cancellations and background loops share a
few objects without knowing of each other. The modules here model those objects and
the threads around them, and the procedure by which a message becomes an action; they
are checked with TLC, and their safety properties are proved with TLAPS.

Paths below are relative to the repository; `src/planner/...` is the source
package's planner, and so on.

## 1. The system

| Component | State | Operations | Talks to |
|---|---|---|---|
| Action dispatcher, `planner/action_dispatcher.py` | records by action id, one deque per user, one Condition | enqueue, pending, complete, cancel_request, wait_for_result, result_if_ready | turn threads, runtime endpoints, server action handler, context store |
| Turn cancellation store, `planner/turn_cancellation.py` | active request of a user, cancelled (user, request) pairs with a ttl | begin_turn, cancel_turn, cancellation, finish_turn | conversation turns, watch loops, cancel endpoint |
| Conversation turns, `router/router.py` 3531-3608, 4512-4543 | one generator per turn | stream, barge-in, cancel endpoint | store, dispatcher, core, live TTS |
| Action dispatch streaming, `planner/action_pipeline.py` | the pending actions of one turn | dispatch, announce, wait, follow up; the free-interval search over a calendar | dispatcher |
| Autonomous loop, `planner/autonomous_loop.py`, `router/router.py` 5230-5371 | rounds, clock, a table of background threads | watch stream, background start | core, dispatcher, store |
| Action context, `planner/action_context.py` | per user: last results, browser, recent actions, seen ids | record_action_result, reads with a ttl | dispatcher (inside its lock) and turns (outside it) |
| Live TTS, `router/router.py` 450-653, 4768-4792 | sessions, one text queue each | turn puts text, audio request takes it | turn thread, audio request |
| Runtime profile cache, `router/router.py` 2852-2880, 5084-5120 | profile per user, without an end | fill on a miss, write through, refresh | core |
| Authentication, `middleware/auth_middleware.py` | principal per token, 30 s | validate | gateway |
| Realtime arbitration and orchestration, `router/router.py` 2174-2545, 3611-3993, 4369-4509 | none across turns | classify, compile, dispatch or converse, fall back | core, dispatcher |
| Action compilation, `planner/action_*.py` | none across turns | classify, gate, compile, validate, repair, adapt | local model |
| Server actions, todos, vision frames, `planner/server_actions.py`, `router/intent_todo.py`, `router/router.py` 5179-5227 | last vision frame of a user | list, create, update, delete; push, fetch | core |
| Planning engine, executor, DOM link resolver, clients, start-up | none | pure functions, HTTP | |

What is hard: every FastAPI endpoint of this kind is a `def` and runs on a thread
pool, so the endpoints of one user interleave freely. A generator of a stream runs
only between yields and may be closed at any of them. Two objects have a lock each
and a cancellation needs both. Waits have deadlines that race the answers they wait
for. Marks and caches have a ttl. Nothing is persisted: a restart loses everything,
so there is no recovery to model.

What makes the components correct:

- dispatcher: an action reaches its owner's runtime, once, in order; an unanswered one
  is never lost; nobody sleeps on an answer; a result is final but for its owner's own post;
  every dispatch returns;
- store and turns: of one user's turns at most one runs unmarked; a marked turn ends
  and lets through at most what was already past the check; a sweep misses only what
  was not on record yet; the client hears of an action before the turn gives up on it;
- autonomous loop: a stopped loop asks for one more round at most; a report is the
  last thing of a loop; loops end and let go of the store;
- live TTS: a listener hears what the turn said, once and in order, and is not left waiting;
- a turn: it acts on one decision at most, always answers, and tells what it did;
- compilation: however a decision comes about, what is risky asks first, what is opened was
  named, what the runtime did not declare stays here, and the calls of the models are bounded;
- context and caches: what is remembered is old only for the reasons the code accepts: a
  ttl, an overlap without a lock, a list with a limit.

## 2. Modules

| Module | What it models |
|---|---|
| `ActionDispatcher` | the dispatcher, a method an action, with its dispatching threads |
| `ActionHandoff` | the abstract promise of the dispatcher: offered, given once, answered, told once |
| `TurnCancellation` | the store's operations; an environment instantiates it |
| `ConversationTurns` | turns, cancel handlers and a runtime around the store and `ActionHandoff` |
| `AutonomousLoop` | watch loops, background loops and their stops around the store |
| `LiveTts` | a turn's text, the session's queue, the audio requests |
| `TurnOrchestration` | a turn from its message to its final event, on every route, with the threads that decide beside it |
| `ActionContract` | what a v2 action is, when a plan is valid for a runtime, what v1 actions it becomes |
| `ActionTemplates` | the plans written without a model, from a message or a gate |
| `LocalActions` | the actions the router writes itself from the words of a message |
| `ActionPlanParser` | what a model's answer is read as |
| `ActionCompiler` | the decision procedure over these four: gate, plan, retries, repairs |
| `PrincipalCache`, `RuntimeProfile`, `ActionContext` | what outlives a request: principals, profiles, the results of actions |
| `UserRequests`, `UserState` | the requests of one user, and the three stores composed under them |
| `ConversationTurnsProofs`, `AutonomousLoopProofs`, `LiveTtsProofs`, `ActionCompilerProofs`, `TurnOrchestrationProofs`, `UserStateProofs` | the theorems about the module each is named for, with its inductive invariant |
| `ActionDispatcherProofs` | the dispatcher's inductive invariant and its safety theorems |
| `ActionDispatcherRefinement` | `ActionDispatcher` implements `ActionHandoff`; results are final |
| `MC...` | model-checking instances |

**ActionDispatcher.** `records` is `_records`, `queues` the ids in `_queues`, `calls`
the threads that enqueue an action and wait for it. A method body runs under the
Condition's lock and is one action. Outside the lock are the server action handler
(`EnqueueCall` to `EnqueueRecord`) and the yields of the stream between `enqueue`
and `wait_for_result`. A deque is appended to only when a record is inserted, popped
at its head, and filtered by a cancellation, so its order is the order of insertion; the
model keeps that order in the record (`arrival`) and the deque as a set of ids. The
clock is one bit per waiter: has its deadline passed. `expired` is set by
`DeadlinePasses` at any moment, which is how every race of an answer with a deadline
appears. `handed` is a history variable.

**ConversationTurns.** A turn pulls a chunk from its inner generator, asks the store
whether it was cancelled, and yields it. The inner generator enqueues, announces,
waits. A cancellation is two steps, `CancelMark` and `CancelSweep`, and so is a
superseding turn, `Begin` and `SweepSuperseded`. `EagerTurns` are the turns of the
realtime route, whose `ready_decision_chunks` collects the chunks of a whole decision
before it yields the first. The dispatcher appears as `ActionHandoff`, which
`ActionDispatcherRefinement` proves it implements. What a turn decides to do is
its `Script`.

**AutonomousLoop.** The checks at the top of an iteration, the core call, the
dispatch of a round with its follow-ups, and the ends of a loop. A watch loop registers
with the store before its response is sent and lets go of it in the stream's finally
clause; if the client is gone before the stream starts that clause never runs
(`"unopened"`), and the loop stays its user's active turn until another begins. A
background loop keeps out of the store, and its own flag has no writer. A waiting
action is one status: the dispatcher's promise is enough here. A loop that ends takes
its fields with it, so an ended loop has one state.

**LiveTts.** The turn thread and any number of audio requests share a session's queue. A text
is the position of the event it came from, the end marker is 0. Where a sentence ends is a
nondeterministic cut of the buffer (`Receive`). `Streams` are the shapes of event streams a
turn produces: with deltas, with only a final content, with an acknowledgement, with two final
events, with an answer behind the first of them (a decision that comes late), without any. Text behind
the first final event is put behind the end marker: `ToSay` is what is said before. Before the turn's try block there is one yield (`Resume`): a client that
leaves there leaves a session without an end marker, and its listener waits for the timeout.

**TurnOrchestration.** One turn of the three conversation endpoints. `stage` is where its
generator is; `future` and `routing` are the two threads started beside the core's stream, which
may finish at any step. A wait with a deadline is both outcomes: a decision that is there and
one that is not. `Pass` is `ready_decision_chunks`, asked before every event of the core that
matters; `shown` is `emitted_action_intent`. `PullBlock` is a block of actions in the core's
own answer, which `_stream_with_embedded_action_intercept` compiles again (`Recompile`). The deep
route waits for its decision without a deadline, plans, and works through the steps; a step
that raises turns the stream to the core (`fallback`) and a plain response to what the core said
before. `ran` is a history of results, `dispatches` of decisions acted on, `broke` of what broke off.
How an action runs is `ActionDispatcher`'s matter: here it has a status.

**ActionCompiler** and the four modules below it. A message is the application it names and the
kinds of words the code looks for; a gate and a plan are records; a value is present in a
place or not. A step is one call of a model with everything the code does with the answer:
`AfterGate`, `CheckFirst` to `Final` are the parts of `compile_decision` in their order, `asking`
is what the next call is for. `via` tells a turn's compilation from that of an embedded block.
`ActionTemplates`, `LocalActions`, `ActionPlanParser` and `ActionContract` hold no state: they are
the functions the compiler calls.

**UserState** composes three stores that share nothing but their user's requests; each request
passes the middleware and then does its own. In `PrincipalCache` the clock moves while the gateway
is asked and an entry lasts from the time before the call. In `RuntimeProfile` a version number
stands for a profile; an update's answer may get lost on its way back. In `ActionContext` a report is five steps
because nothing locks it but, for the runtime's posts, the dispatcher, whose `complete` calls
it inside its own lock (`MayReport`).

## 3. Runs

| Run | Instance | Distinct states | Shows |
|---|---|---|---|
| `dispatcher` | 2 users, 2 requests, 2 actions | 294,209 | `HandedOnce`, `NoStrandedWaiter`, `OnlyRuntimeRevises`, `DispatchReturns` |
| `dispatcher_queue` | 1 user, 2 requests, 3 actions, limits 1 and 2, symmetry | 536,594 | `NothingLost`, `HandedInOrder`, `HandoffSpec` |
| `turns` | 1 user, a lazy turn of 2 actions, an eager turn of 1, 1 cancel | 5,470,130 | `SupersededIsCancelled`, `OneChunkAfterCancel`, `LateActionsBounded`, `OnlyLateActionsEscape`, `LazyGiveUpAnnounced` |
| `turns_live` | one action a turn, server actions too | 719,030 | `CancelledTurnEnds` |
| `loop` | a watch loop of 2 rounds of up to 2 actions, a conversation turn, a background loop | 152,166 | `OneRoundAfterStop`, `EndedLoopReleased`, `ReportIsLast`, `LoopEnds` |
| `live_tts` | five kinds of stream, two audio requests | 19,958 | `NothingLostOnTheWay`, `SharedInOrder`, `HeardInFull`, `EndIsMarked`, `AudioEnds` |
| `compile` | 2 applications, 10 messages, 7 contexts, 21 gates, 12 plan answers, 4 settings, 1 retry | 72,124 | `RiskyAsksFirst`, `OnlyMentionedAppsOpened`, `PlanCallsBounded`, `DeclaredOnly`, `StepsKept` |
| `orchestration` | one turn on every route, 3 core events, plans of up to 2 steps, up to 2 actions at once | 134,635 | `DispatchedOnce`, `AlwaysAnswered`, `ResultsTold` |
| `user_state` | 3 requests, 1 token, 2 actions, 3 ticks, lists of 1 | 1,768,608 | `RevokedServedBriefly`, `StaleOnlyByOverlap`, `FirstReportStands` |
| `eager_dispatch` | one action a turn | violation | `EveryTimeoutAnnounced` fails |
| `background_cancel` | a watch loop and a background loop | violation | `CancelStopsLoop` fails |
| `forgotten_cancel` | a watch loop, `max_seconds` above the ttl, rounds that outlast it | violation | `CancelStopsLoop` fails |

`OnlyRuntimeRevises`, `LazyGiveUpAnnounced`, `ReportIsLast` and `StepsKept` are action properties, `HandoffSpec` is
a specification, and `DispatchReturns`, `CancelledTurnEnds`, `LoopEnds` and `AudioEnds` are liveness properties;
the others are invariants. The passing runs check their module's `TypeOK` as well, but for `dispatcher_queue` and
`turns_live`, whose modules another run checks it of.

Why the bounds are enough. Two users are the least that can be confused for one
another, two requests the least that a cancellation can confuse, and three actions of
one user the least for a partial poll to leave two behind and a cancellation to take the
middle one. Two turns are the least for one to supersede the other in either
order; two actions the least for a turn to be cancelled between them. Two listeners are enough to take
from one another, and a stream of three texts for a buffer to hold one back. Two
rounds show a round after a stop, and two actions a report that is not the last of its
round. Symmetry is used only in `dispatcher_queue`, which checks no liveness. The
theorems of section 5 need none of these bounds.

In `compile` one retry is the program's default; two applications are the least that can be taken for
one another. The messages, gates and answers are chosen to reach every branch: at least one of
each template with and without its slots, a plan with a risky action, with one step of two, with a
copied text, with a missing target, and each form of answer. In `orchestration` three events are a
text, a block and a final event in any order. Two actions at once are the least for a result to be
told without the other. In `user_state` a third request can overlap the overlap of
two; lists of one entry make what the store forgets reachable with two actions.

Bounds in guards: `MaxChunks` (events of a core stream), `MaxTime` (the clock of the principal
cache), `MaxCancels` (calls of the cancel endpoint), `MaxActions` (actions the
core returns for a round), and the sizes of the constant sets. `MaxIterations` is the
program's own bound. The history counters `sentAfterMark`, `late` and `overdue` stop at 2:
the properties ask whether they pass 1.

Deadlock is checked in the dispatcher's and the turns' runs. Loops, audio requests, compilations,
the one turn of `orchestration` and the requests of `user_state` all end, and then nothing is left to
do: their runs switch the check off.

`OneChunkAfterCancel`, `LateActionsBounded` and `OneRoundAfterStop` are as strong as the code
allows: the check comes before the pull, the yield or the core call it guards, and one step
may be past it.

### Fairness

Weak fairness of every thread's next step: a thread pool runs its threads. A deadline
passes (`DeadlinePasses`), and a wait then ends by itself. A core call ends because the
client has a timeout. Nothing is assumed of the runtime, which may never poll, nor of clients,
which need not cancel. The fairness is of a thread's steps together (`ThreadStep`, `TurnStep`), and where a
disconnection is one of them another step is always possible in its place; in `AutonomousLoop` and `LiveTts`
disconnections are outside it. So no client is assumed to leave. In `LiveTts` only the audio threads
are fair: a turn may pause for ever. `compile`, `orchestration` and `user_state` check safety only and
state no fairness.

## 4. Findings

- **`action_dispatch` comes after the fact on the realtime route** (`eager_dispatch`).
  `router.py:2226` collects all chunks of a decision, the waits included, before it yields one.
  `docs/action-lifecycle.md:17` places the event before the hand-off to the runtime. Polling runtimes are
  unaffected; a client that takes its actions from the event is told when they have timed out.
- **A background loop cannot be cancelled** (`background_cancel`). `router.py:5319` makes an Event that
  nothing sets; the cancel endpoint still answers `cancelled: true`.
- **A watch loop can outlive its cancellation** (`forgotten_cancel`). The mark lives 300 s
  (`turn_cancellation.py:16`) and is looked for only between rounds (`autonomous_loop.py:60`). `max_seconds` must
  be above 300 for it (`router.py:419` allows 1800): at the default of 180 the clock, read right after the
  mark, ends the loop instead. In the run's trace the mark is made while the core is asked, the handler sweeps and finds
  nothing, the mark expires while the round waits for its action, and the next check finds no mark. One action of the
  trace stands for the several a round needs with the default timeouts (120 s for the core, 45 s for an
  action that waits for a confirmation).

Observed while reading, with no run of their own:

- `docs/client-action-contract.md:253` and `docs/action-lifecycle.md:14` give the grace for a late decision as
  6.25 s; `_action_intent_done_grace_seconds` caps it at 0.45 s unless another variable raises it.
- A legacy `app_control` action with the command `close` is read as `app.open`
  (`action_plan_parser.py`; in the model `LegacyApp`), though `docs/client-action-contract.md:382` lists it as a command.
- Behind the core's final event a decision that comes late dispatches and adds a second final event. Its
  answer is put on the speech queue behind the end marker, and a listener who heard the end does not hear it.
- A plan that breaks off loses the results of the actions that ran (`ResultsTold` says so).
- The examples of `docs/client-action-contract.md:897-911` show `mouse_click` and `mouse_drag` with
  `requires_confirm` false; the validator sets it to true (`action_validator.py:236-237`).
- A logout (`router.py`) leaves the principal cache alone: hence the bound of `RevokedServedBriefly`.
- For the router's own actions a capability counts when it is declared, also when it is declared to be
  off (`_context_supports_any_action`, `LocalSupports`); for the compiler's it must be on.
- A date such as 2/30 in a message raises in `intent_todo.py:420`.
- Some tests of `tests/test_action_compiler.py` (at lines 1003, 1054, 1240, 2050, 2124, 2475 and 2542) expect
  other results than the code at this commit gives; the modules follow the code. The last of them expects
  `working_context_text_reused` of a gate that opens an application and types copied text. The call of a plan model
  that is to transform such a text (`action_compiler.py:663-678`) is never made (`CallsInv` in
  `ActionCompilerProofs`): a gate of that kind, if it is not grounded, ends as `ungrounded app action` or in a
  repair (`action_compiler.py:355-383`), and if it is, in its template.

## 5. Proofs

For every value of the constants that satisfies `DispatcherAssumption`:

- `Invariance`: `Spec => []IInv`. The invariants the runs check are not inductive one by one.
  `NothingLost` and `HandedOnce` need that a queued or handed id has a record of that owner;
  that `EnqueueRecord` inserts a fresh record needs `CallsMatchRecords` (a thread in its
  handler stage has no record yet, all others have); `HandedInOrder` needs
  `ArrivalsBelowCount` (a new record is later than all before it). `IInv` conjoins
  them. The proof has a lemma per conjunct with a step per action.
- `TypeCorrect`, `NothingIsLost`, `HandedOutOnce`, `FirstInFirstOut`, `NobodyStranded`: each checked
  safety invariant.
- `Refinement`: `Spec => HandoffSpec`. Every step maps to a step of `ActionHandoff` or to a stutter:
  `EnqueueRecord` to `Offer` or `Serve`, `Pending` to `Give` of the unanswered part of what it
  popped, `CancelRequest` to `Withdraw`, `TimeOut` to `GiveUp`, both returns to `Tell`, and the rest stutter.
- `ResultsFinalButForRuntime`: `Spec => OnlyRuntimeRevises`.

For every value of the constants that satisfies `TurnsAssumption` (a request has one user, requests have no
action in common):

- `TurnsTypeCorrect`, by `ShapeInv`: `TypeOK`, a turn's script and action are its own, and the active turn of a
  user is one of the user's. The last is what makes a sweep reject the right actions.
- `SupersededTurnsAreCancelled`: inductive with `ShapeInv`. A turn starts to run as it becomes the active one, and
  what takes its place marks it in the same step.
- `CancelledTurnSendsOneChunk`, by `ChunkInv`: a turn that has sent its one chunk after the mark is still
  marked wherever it may send again, so the next check stops it. That needs that a mark stays as long as its turn
  runs.
- `LateActionsAreFew`, by `LateInv`: behind its late action a turn is at the point of announcing
  it, or holds a chunk, and meets the check before it pulls again.
- `SweepMissesOnlyLateActions`, by `SweepInv`: for a marked turn a sweep is to come, or one took place and all that
  is open was recorded behind it. The stages of a cancel handler and of a superseding turn are what is "to come".
- `GiveUpIsAnnounced`: the action property, by `LazyInv`: a lazy turn that waits has sent its announcement, and
  one that skipped it has an answer.
- `TurnsKeepToTheHandoff`: `Spec => D!Spec`. Every step of turns, cancellations and runtimes is a step of
  `ActionHandoff` or leaves its variables alone: with `Refinement`, the dispatcher may take its place.

For every value that satisfies `LoopAssumption`:

- `LoopTypeCorrect`, `EndedLoopsLetGo`, by `ShapeInv`: the active turn of a user was registered and has not ended.
- `LoopsStopInOneRound`, by `StopInv` and `ClockInv`: a loop that asked for its late round is in that round, or at the
  check that will stop it. `StopInv` leaves out background loops and those of `LongRounds`, whose clock lets
  a round outlast the mark: for them it is false, and two violation runs show it. `ClockInv` is about every loop.
- `NotifyIsLast`, by `ReportInv`: a loop that reported is ending, or in a round whose flag is set.

For every value that satisfies `OrchestrationAssumption`:

- `OneDecisionPerTurn`, by `OnceInv`. Up to the end of the core's stream nothing was dispatched; behind it `shown`
  tells that a decision was; only the deep route compiles a block without `shown`, and only after it has
  refused the decision it waited for.
- `OrchestrationTypeCorrect`; `TurnsAreAnswered` and `ResultsReachTheClient`, by `OutcomeInv`: before
  anything is dispatched nothing ran, while actions are dispatched the results that will be reported are all there
  are, and where a stream closes what ran was told and no decision can come any more. It needs `OnceInv`
  for the last: a second decision would add results behind the report.

For every value that satisfies `CompilerAssumption` (messages, contexts, gates, answers and settings are of
their types), by `CompilerInv`:

- `MadeInv`: decisions are made of valid plans, of templates or of the router's actions, all of which confirm what is
  risky and name what is declared. From it `CompilerTypeCorrect`, `RiskIsConfirmed`, `StepsAreDeclared`.
- `CallsInv`: how far the allowance is drawn on at each question. From it `PlanCallsAreBounded`.
- `MentionInv`: before a plan model has spoken, what a decision opens was named. From it `OpeningsAreMentioned`.
- `StepsAreKept`: the action property, from the same invariant.

They rest on a lemma for each template, parser and adapter function (what it returns is well made,
confirms, opens only what it was given), so they say as much about `ActionContract`, `ActionTemplates`, `LocalActions`
and `ActionPlanParser`.

For every value that satisfies `StreamsAssumption` (a stream is a sequence of events), with any number of
listeners, by `BridgeInv`:

- `TurnInv`: what the turn has put is what was worth speaking among the events it has passed, and while it runs the
  session is closed exactly from the first final event on. `MarkInv`: from the closing on there is one end marker,
  on the queue until a listener takes it. From both `EndsAreMarked`.
- `FlowInv`: what a listener holds and the queue behind it are in order, and no two listeners hold the same.
  From it `TextIsShared`. `KeptInv`: what a lone listener holds and the queue make up what was said. From both
  `NothingIsLost`.
- `EarlyInv`: texts before the marker come from events up to the first final one, those behind it do not. From it
  and `KeptInv` `AllIsHeard`. Without it nothing tells the answer of a late decision from what a listener missed.
- `StageInv`, the fields a listener may have at each stage, and `BridgeTypeCorrect`.

`BridgeInv` was checked with TLC, in every state of the `live_tts` instance, before it was proved.

For every value that satisfies `PrincipalAssumption`, `ProfileAssumption`, `ContextAssumption` and
`UserStateAssumption`:

- `RevocationBounded`, by `PrincipalInv`: an entry of a token that is not valid ends within `Ttl` of its
  revocation, since it starts at `now`, read when the gateway was still to be asked. That only
  one request is looked up at a time is part of it: `now` has one owner.
- `StaleProfileExplained`, by `ProfileInv`: what a request is about to store is what the core has, unless an
  update overtook it.
- `SecondReportExplained`, by `ContextInv`: `seen` is the tail of the reports that were taken, and a report
  on its way found its action not among those remembered when it looked.
- `UserStateTypeCorrect`, by `Typed`: the lists of a context stay within their limits, because the list a report
  carries from one step to the next was within them when it was read (`CarriedTyped`).

Every invariant and action property that a passing run checks is the statement of a theorem. Only model-checked are the
liveness properties `DispatchReturns`, `CancelledTurnEnds`, `LoopEnds` and `AudioEnds`, which need fairness and
ENABLED, out of the prover's reach.

Induction over a list is done once, by the least index that goes wrong (`LeastNumber` and `WithoutTyped` in
`UserStateProofs`): the library's induction theorems take the
induction formula as an operator, which no installed prover can instantiate. For the same reason `Without` is a
recursive function of its own: nothing can be proved of SelectSeq, which the prover does not define. No module with
theorems declares a RECURSIVE operator.

## 6. Abstractions to know of

- Action payloads, confirmations and descriptions are left out; an action is an id.
- The context store that `complete` and the stream write to is `ActionContext`, apart from the
  dispatcher: neither reads the other.
- In `ConversationTurns` every chunk but the dispatch, result and done events is left out. They
  pass the same check, so the bound of one chunk covers them.
- No turn of `ConversationTurns` outlives the ttl of its mark, and no loop of the `loop` run does;
  `forgotten_cancel` is what happens otherwise. There a mark expires only while its loop waits for an action: the
  check follows the start of the stream and the end of a round at once, and a core call alone is shorter than the ttl.
- `_stream_with_live_tts` sits between the two generators of `ConversationTurns` and passes every chunk
  on as it comes; `LiveTts` has the rest of it.
- A turn draws its request id once. A client that sends the `x-request-id` of a cancelled turn
  again is not modelled.

- `TurnOrchestration`: a cancellation or disconnection is `ConversationTurns`' matter. Only the events a
  property is about have names; a response that is not a stream is its final event. A promise to act is
  withheld on the plain route only as the first event.
- `ActionContext`: `Expire` is untimed and leaves a report that is under way alone; that two reports
  may create a user's working context at once is left out, and appending to the list of ids and cutting
  it are one step. A name or address is the action that brought it up.
- `RuntimeProfile`: the profile is changed through this controller only.
- `PrincipalCache`: the middleware calls the gateway without giving the event loop up, so one
  request is looked up at a time. That is what the code does and what the proof uses.
- `RiskyAsksFirst` is about the decisions of `ActionCompiler`. The actions that `deepthink_execute` returns, a
  plan's or a loop's, go to the dispatcher as they are.
- `ActionTemplates`, `LocalActions`: which words make a message mean what, in two languages, is the
  input; a regular expression appears as the kind of word it looks for. A gate's key is already
  the template its alias stands for. What a usable value is (a string that is not empty, a number from 1)
  is decided once for every place.
- `ActionCompiler`: the repair of copied text is in the module as the code has it, though no gate leads there
  (section 4); the legacy part of `compile_decision` behind its last return is
  unreachable and not modelled. `DeclaredOnly` is about plans; the router's own actions are held
  against `LocalSupports` instead.

## 7. Not modelled, and the plan

- Server actions (`server_actions.py`) are calls of the core whose data lives there; a vision frame is one
  variable without a comparison. Neither promises anything beyond the assignment.
- The free-interval search, the runtime profile enricher, the DOM link resolver, text matching and the planning
  engine are sequential functions over text and dates. `FreeIntervals`, against a reference
  definition by enumeration, is the one of them worth a module.
- The core, gateway and model clients are HTTP: a caller sees an answer or an exception, and so do the modules.
- Start-up, prompts, logging and the wording of answers.
- Reads of the action context (`public_context`) and the recall memory only shape a prompt.

Next, in this order: the reuse of a request id by a later turn, with the invariants of `ConversationTurns` that then
need the id's earlier turn; `FreeIntervals`; the liveness of larger instances.
