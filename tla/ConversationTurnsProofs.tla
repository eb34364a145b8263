----------------------- MODULE ConversationTurnsProofs -----------------------
(***************************************************************************)
(* Theorems about ConversationTurns for every set of users and turns, every *)
(* script and any number of cancellations.                                 *)
(***************************************************************************)
EXTENDS ConversationTurns, FiniteSetTheorems, SequenceTheorems, TLAPS

(* A turn's fields fit its stage and its script.                            *)
TurnShape(r) ==
  /\ turns[r].todo \in Seq(ActionsOf(r))
  /\ turns[r].inner # "idle" => turns[r].cur \in ActionsOf(r)
  /\ turns[r].stage \in {"holding", "sending"} => turns[r].buffer # <<>>
  /\ turns[r].stage = "sweepPrev" =>
        turns[r].prev \in Requests /\ UserOf[turns[r].prev] = UserOf[r]

(* An active turn is its user's own.                                        *)
ActiveOwned == \A u \in Users : active[u] # NoRequest => UserOf[active[u]] = u

ShapeInv == TypeOK /\ ActiveOwned /\ \A r \in Requests : TurnShape(r)

LEMMA ScriptActions == \A r \in Requests : ActionsOf(r) \subseteq ActionIds /\ Script[r] \in Seq(ActionsOf(r))
  <1> SUFFICES ASSUME NEW r \in Requests
               PROVE  ActionsOf(r) \subseteq ActionIds /\ Script[r] \in Seq(ActionsOf(r))
    OBVIOUS
  <1>1. Script[r] \in Seq(ActionIds)
    BY TurnsAssumption
  <1>2. \A i \in 1..Len(Script[r]) : Script[r][i] \in ActionsOf(r)
    BY <1>1 DEF ActionsOf
  <1> QED BY <1>1, <1>2 DEF ActionsOf

LEMMA ShapeInit == Init => ShapeInv
  <1> SUFFICES ASSUME Init PROVE ShapeInv
    OBVIOUS
  <1> USE TurnsAssumption
  <1>1. turns \in [Requests -> Turn]
    <2>1. \A r \in Requests : Script[r] \in Seq(ActionIds)
      OBVIOUS
    <2>2. <<>> \in Seq(Chunks)
      OBVIOUS
    <2> QED BY <2>1, <2>2 DEF Init, Turn, TurnStages, InnerStages
  <1>2. TypeOK
    BY <1>1 DEF Init, TypeOK, D!Init, S!StoreInit, S!StoreTypeOK
  <1>3. ActiveOwned
    BY DEF Init, S!StoreInit, ActiveOwned
  <1>4. \A r \in Requests : TurnShape(r)
    BY ScriptActions DEF Init, TurnShape
  <1> QED BY <1>2, <1>3, <1>4 DEF ShapeInv

(* What the dispatcher's promises do to the types of its variables.         *)
DispatcherType ==
  /\ open \in [Users -> SUBSET ActionIds]
  /\ given \in [Users -> SUBSET ActionIds]
  /\ answer \in [ActionIds -> Statuses \cup {NoAnswer}]
  /\ told \in [ActionIds -> Statuses \cup {NoAnswer}]

LEMMA DispatcherStepType ==
    ASSUME DispatcherType,
           \/ \E u \in Users, a \in ActionIds : D!Offer(u, a)
           \/ \E a \in ActionIds, s \in Statuses : D!Serve(a, s) \/ D!Answer(a, s)
           \/ \E a \in ActionIds : D!Tell(a) \/ D!GiveUp(a)
           \/ \E u \in Users : D!Give(u, open[u])
           \/ \E T \in SUBSET ActionIds : D!Withdraw(T)
           \/ UNCHANGED dispatcher
    PROVE  DispatcherType'
  <1> USE DEF DispatcherType
  <1>1. CASE \E u \in Users, a \in ActionIds : D!Offer(u, a)
    BY <1>1 DEF D!Offer
  <1>2. CASE \E a \in ActionIds, s \in Statuses : D!Serve(a, s)
    BY <1>2 DEF D!Serve
  <1>3. CASE \E a \in ActionIds, s \in Statuses : D!Answer(a, s)
    BY <1>3 DEF D!Answer, D!Close
  <1>4. CASE \E a \in ActionIds : D!Tell(a)
    BY <1>4 DEF D!Tell
  <1>5. CASE \E a \in ActionIds : D!GiveUp(a)
    BY <1>5 DEF D!GiveUp, D!Close, Statuses
  <1>6. CASE \E u \in Users : D!Give(u, open[u])
    BY <1>6 DEF D!Give
  <1>7. CASE \E T \in SUBSET ActionIds : D!Withdraw(T)
    BY <1>7 DEF D!Withdraw, D!Close, Statuses
  <1>8. CASE UNCHANGED dispatcher
    BY <1>8 DEF dispatcher
  <1> QED BY <1>1, <1>2, <1>3, <1>4, <1>5, <1>6, <1>7, <1>8

-----------------------------------------------------------------------------
(* A step of one turn gives it a turn of the right shape and leaves the     *)
(* others as they were.                                                     *)
OnlyTurn(r) ==
  /\ turns' = [turns EXCEPT ![r] = turns'[r]]
  /\ turns'[r] \in Turn
  /\ TurnShape(r)'

LEMMA TurnFields ==
    ASSUME ShapeInv, NEW r \in Requests
    PROVE  /\ turns \in [Requests -> Turn] /\ turns[r] \in Turn
           /\ turns[r].stage \in TurnStages /\ turns[r].inner \in InnerStages
           /\ turns[r].prev \in Requests \cup {NoRequest}
           /\ turns[r].todo \in Seq(ActionIds)
           /\ turns[r].cur \in ActionIds \cup {NoAction}
           /\ turns[r].buffer \in Seq(Chunks)
           /\ turns[r].ending \in {"none", "done", "cancelled", "disconnected"}
           /\ TurnShape(r)
  BY DEF ShapeInv, TypeOK, Turn

LEMMA ProduceShape ==
    ASSUME ShapeInv, NEW r \in Requests, NEW inner \in InnerStages, NEW chunk \in Chunks,
           turns[r].stage = "pulling",
           inner # "idle" => turns[r].inner # "idle",
           Produce(r, inner, chunk)
    PROVE  OnlyTurn(r)
  <1> DEFINE buffer == Append(turns[r].buffer, chunk)
  <1>1. buffer \in Seq(Chunks) /\ buffer # <<>>
    BY TurnFields, AppendProperties, EmptySeq
  <1> HIDE DEF buffer
  <1>2. PICK stage \in {"pulling", "holding"} :
          turns' = [turns EXCEPT ![r].inner = inner,
                                 ![r].cur = IF inner = "idle" THEN NoAction ELSE turns[r].cur,
                                 ![r].buffer = buffer,
                                 ![r].stage = stage]
    BY DEF Produce, buffer
  <1>3. turns[r] \in Turn /\ turns \in [Requests -> Turn] /\ TurnShape(r)
    BY TurnFields
  <1>4. turns'[r] = [turns[r] EXCEPT !.inner = inner,
                                     !.cur = IF inner = "idle" THEN NoAction ELSE turns[r].cur,
                                     !.buffer = buffer, !.stage = stage]
    BY <1>2, <1>3
  <1>5. turns'[r] \in Turn
    BY <1>1, <1>3, <1>4 DEF Turn, TurnStages
  <1>6. TurnShape(r)'
    BY <1>1, <1>3, <1>4 DEF TurnShape, Turn, ActionsOf
  <1>7. turns' = [turns EXCEPT ![r] = turns'[r]]
    BY <1>2, <1>3
  <1> QED BY <1>5, <1>6, <1>7 DEF OnlyTurn

LEMMA StopShape ==
    ASSUME ShapeInv, NEW r \in Requests,
           NEW ending \in {"cancelled", "disconnected"}, StopTurn(r, ending)
    PROVE  OnlyTurn(r)
  <1>1. turns' = [turns EXCEPT ![r] = [turns[r] EXCEPT !.stage = "closing", !.ending = ending,
                                         !.buffer = <<>>, !.inner = "idle", !.cur = NoAction]]
    BY TurnFields DEF StopTurn
  <1>2. turns'[r] = [turns[r] EXCEPT !.stage = "closing", !.ending = ending,
                                     !.buffer = <<>>, !.inner = "idle", !.cur = NoAction]
    BY <1>1, TurnFields
  <1>3. turns'[r] \in Turn
    <2>1. PICK empty \in Seq(Chunks) : empty = <<>>
      BY EmptySeq
    <2>2. turns'[r] = [turns[r] EXCEPT !.stage = "closing", !.ending = ending,
                                       !.buffer = empty, !.inner = "idle", !.cur = NoAction]
      BY <1>2, <2>1
    <2> QED BY <2>2, TurnFields DEF Turn, TurnStages, InnerStages
  <1>4. turns'[r].stage = "closing" /\ turns'[r].inner = "idle" /\ turns'[r].todo = turns[r].todo
    BY <1>2, TurnFields DEF Turn
  <1>5. TurnShape(r)'
    BY <1>4, TurnFields DEF TurnShape, ActionsOf
  <1> QED BY <1>1, <1>3, <1>5, TurnFields DEF OnlyTurn

LEMMA TurnStepShape ==
    ASSUME ShapeInv, NEW r \in Requests, TurnStep(r)
    PROVE  OnlyTurn(r)
  <1> USE TurnFields
  <1>1. CASE SweepSuperseded(r)
    BY <1>1 DEF SweepSuperseded, At, Go, OnlyTurn, Turn, TurnStages, TurnShape, ActionsOf
  <1>2. CASE TakeAction(r)
    <2> DEFINE todo == turns[r].todo
    <2>1. todo \in Seq(ActionsOf(r)) /\ todo # <<>>
      BY <1>2 DEF TakeAction, TurnShape
    <2>2. Head(todo) \in ActionsOf(r) /\ Tail(todo) \in Seq(ActionsOf(r))
      BY <2>1, HeadTailProperties
    <2>3. Head(todo) \in ActionIds /\ Tail(todo) \in Seq(ActionIds)
      BY <2>2, ScriptActions, SeqMonotonic
    <2>4. turns' = [turns EXCEPT ![r] = [turns[r] EXCEPT !.cur = Head(todo), !.todo = Tail(todo),
                                                         !.inner = "handler"]]
      BY <1>2 DEF TakeAction
    <2>5. turns[r].stage = "pulling"
      BY <1>2 DEF TakeAction, Inner
    <2> QED BY <2>2, <2>3, <2>4, <2>5 DEF OnlyTurn, Turn, InnerStages, TurnShape, ActionsOf
  <1>3. CASE RecordAction(r)
    BY <1>3 DEF RecordAction, Inner, OnlyTurn, Turn, InnerStages, TurnShape, ActionsOf
  <1>4. CASE SkipAnnouncement(r) \/ TakeResult(r)
    <2>1. turns[r].stage = "pulling" /\ turns[r].inner # "idle"
      BY <1>4 DEF SkipAnnouncement, TakeResult, Inner
    <2>2. [event |-> "result", action |-> turns[r].cur] \in Chunks
      BY <2>1, ScriptActions DEF TurnShape, Chunks
    <2>3. Produce(r, "idle", [event |-> "result", action |-> turns[r].cur])
      BY <1>4 DEF SkipAnnouncement, TakeResult
    <2> QED BY <2>1, <2>2, <2>3, ProduceShape DEF InnerStages
  <1>5. CASE Announce(r)
    <2>1. turns[r].stage = "pulling" /\ turns[r].inner # "idle"
      BY <1>5 DEF Announce, Inner
    <2>2. [event |-> "dispatch", action |-> turns[r].cur] \in Chunks
      BY <2>1, ScriptActions DEF TurnShape, Chunks
    <2>3. Produce(r, "announced", [event |-> "dispatch", action |-> turns[r].cur])
      BY <1>5 DEF Announce
    <2> QED BY <2>1, <2>2, <2>3, ProduceShape DEF InnerStages
  <1>6. CASE StartWait(r)
    BY <1>6 DEF StartWait, Inner, OnlyTurn, Turn, InnerStages, TurnShape, ActionsOf
  <1>7. CASE Finished(r)
    <2>1. turns[r].stage = "pulling"
      BY <1>7 DEF Finished, Inner
    <2>2. [event |-> "done", action |-> NoAction] \in Chunks
      BY DEF Chunks
    <2>3. Produce(r, "idle", [event |-> "done", action |-> NoAction])
      BY <1>7 DEF Finished
    <2> QED BY <2>1, <2>2, <2>3, ProduceShape DEF InnerStages
  <1>8. CASE Check(r)
    <2>1. CASE StopTurn(r, "cancelled")
      BY <2>1, StopShape
    <2>2. CASE Go(r, "sending")
      BY <1>8, <2>2 DEF Check, At, Go, OnlyTurn, Turn, TurnStages, TurnShape, ActionsOf
    <2> QED BY <1>8, <2>1, <2>2 DEF Check
  <1>9. CASE Send(r)
    <2> DEFINE buffer == turns[r].buffer
    <2>1. buffer \in Seq(Chunks) /\ buffer # <<>> /\ turns[r].stage = "sending"
      BY <1>9 DEF Send, At, TurnShape
    <2>2. Tail(buffer) \in Seq(Chunks)
      BY <2>1, HeadTailProperties
    <2>3. PICK ending \in {turns[r].ending, "done"}, stage \in {"closing", "pulling", "holding"} :
            /\ turns' = [turns EXCEPT ![r] = [turns[r] EXCEPT !.buffer = Tail(buffer),
                                                !.ending = ending, !.stage = stage]]
            /\ stage = "holding" => Tail(buffer) # <<>>
      BY <1>9 DEF Send
    <2> HIDE DEF buffer
    <2>4. turns'[r] \in Turn
      BY <2>2, <2>3 DEF Turn, TurnStages
    <2>5. TurnShape(r)'
      <3>1. /\ turns'[r].buffer = Tail(buffer) /\ turns'[r].stage = stage
            /\ turns'[r].inner = turns[r].inner /\ turns'[r].cur = turns[r].cur
            /\ turns'[r].todo = turns[r].todo
        BY <2>3 DEF Turn
      <3> QED BY <2>3, <3>1 DEF TurnShape, ActionsOf
    <2> QED BY <2>3, <2>4, <2>5 DEF OnlyTurn
  <1>10. CASE Disconnect(r)
    BY <1>10, StopShape DEF Disconnect
  <1>11. CASE Close(r)
    BY <1>11 DEF Close, At, Go, OnlyTurn, Turn, TurnStages, TurnShape, ActionsOf
  <1> QED BY <1>1, <1>2, <1>3, <1>4, <1>5, <1>6, <1>7, <1>8, <1>9, <1>10, <1>11 DEF TurnStep

(* Of a turn that keeps its thread nothing changes but the two shared       *)
(* objects.                                                                 *)
LEMMA OnlyTurnShapes ==
    ASSUME ShapeInv, NEW r \in Requests, OnlyTurn(r)
    PROVE  /\ turns' \in [Requests -> Turn]
           /\ \A q \in Requests : TurnShape(q)'
           /\ \A q \in Requests \ {r} : turns'[q] = turns[q]
  <1>1. turns \in [Requests -> Turn]
    BY DEF ShapeInv, TypeOK
  <1>2. turns' \in [Requests -> Turn] /\ \A q \in Requests \ {r} : turns'[q] = turns[q]
    BY <1>1 DEF OnlyTurn
  <1>3. \A q \in Requests \ {r} : TurnShape(q)'
    BY <1>2 DEF ShapeInv, TurnShape, ActionsOf
  <1> QED BY <1>2, <1>3 DEF OnlyTurn

LEMMA TurnStepDispatcher ==
    ASSUME ShapeInv, NEW r \in Requests, TurnStep(r)
    PROVE  DispatcherType'
  <1>1. DispatcherType
    BY DEF ShapeInv, TypeOK, DispatcherType
  <1>2. turns[r].inner # "idle" => turns[r].cur \in ActionIds
    BY TurnFields, ScriptActions DEF TurnShape
  <1>3. CASE SweepSuperseded(r)
    <2>1. turns[r].prev \in Requests
      BY <1>3, TurnFields DEF SweepSuperseded, At, TurnShape
    <2>2. Rejected(UserOf[r], turns[r].prev) \in SUBSET ActionIds
      BY <2>1, ScriptActions DEF Rejected
    <2> QED BY <1>1, <1>3, <2>2, DispatcherStepType DEF SweepSuperseded
  <1>4. CASE RecordAction(r)
    BY <1>1, <1>2, <1>4, DispatcherStepType, TurnsAssumption DEF RecordAction, Inner
  <1>5. CASE SkipAnnouncement(r) \/ TakeResult(r)
    BY <1>1, <1>2, <1>5, DispatcherStepType DEF SkipAnnouncement, TakeResult, Inner
  <1>6. CASE UNCHANGED dispatcher
    BY <1>1, <1>6, DispatcherStepType
  <1> QED BY <1>3, <1>4, <1>5, <1>6
          DEF TurnStep, TakeAction, Announce, StartWait, Finished, Check, Send, Disconnect, Close

LEMMA TurnStepStore ==
    ASSUME ShapeInv, NEW r \in Requests, TurnStep(r)
    PROVE  S!StoreTypeOK' /\ ActiveOwned' /\ cancelled' = cancelled
  <1> USE DEF ShapeInv, TypeOK, S!StoreTypeOK, ActiveOwned
  <1>1. CASE Close(r)
    BY <1>1, TurnsAssumption DEF Close, S!FinishTurn
  <1>2. CASE UNCHANGED store
    BY <1>2 DEF store
  <1> QED BY <1>1, <1>2
          DEF TurnStep, SweepSuperseded, TakeAction, RecordAction, SkipAnnouncement, Announce,
              StartWait, TakeResult, Finished, Check, Send, Disconnect

LEMMA TurnStepHistory ==
    ASSUME ShapeInv, NEW r \in Requests, TurnStep(r)
    PROVE  /\ sweeps' = sweeps /\ cancels' = cancels
           /\ announced' \subseteq ActionIds
           /\ swept' \subseteq Users \X Requests
           /\ afterMark' \subseteq ActionIds /\ afterSweep' \subseteq ActionIds
           /\ sentAfterMark' \in [Requests -> 0..2]
  <1> USE DEF ShapeInv, TypeOK
  <1>1. CASE SweepSuperseded(r)
    BY <1>1, TurnFields, TurnsAssumption DEF SweepSuperseded, At, TurnShape
  <1>2. CASE RecordAction(r)
    BY <1>2, TurnFields, ScriptActions DEF RecordAction, Inner, TurnShape
  <1>3. CASE Send(r)
    <2>1. turns[r].buffer \in Seq(Chunks) /\ turns[r].buffer # <<>>
      BY <1>3, TurnFields DEF Send, At, TurnShape
    <2>2. Head(turns[r].buffer) \in Chunks
      BY <2>1, HeadTailProperties
    <2>3. Head(turns[r].buffer).event = "dispatch" => Head(turns[r].buffer).action \in ActionIds
      BY <2>2 DEF Chunks
    <2>4. announced' \subseteq ActionIds
      BY <1>3, <2>3 DEF Send
    <2>5. sentAfterMark' \in [Requests -> 0..2]
      BY <1>3 DEF Send
    <2> QED BY <1>3, <2>4, <2>5 DEF Send
  <1>4. CASE UNCHANGED <<sweeps, cancels, announced, history>>
    BY <1>4 DEF history
  <1> QED BY <1>1, <1>2, <1>3, <1>4
          DEF TurnStep, TakeAction, SkipAnnouncement, Announce, StartWait, TakeResult, Finished,
              Check, Disconnect, Close

LEMMA BeginShape ==
    ASSUME ShapeInv, NEW r \in Requests, Begin(r)
    PROVE  ShapeInv' /\ OnlyTurn(r)
  <1> DEFINE prev == S!Superseded(UserOf[r], r)
  <1>1. UserOf[r] \in Users /\ active \in [Users -> Requests \cup {NoRequest}]
    BY TurnsAssumption DEF ShapeInv, TypeOK, S!StoreTypeOK
  <1>2. prev \in Requests \cup {NoRequest} /\ (prev # NoRequest => UserOf[prev] = UserOf[r])
    BY <1>1 DEF S!Superseded, ShapeInv, ActiveOwned
  <1>3. S!StoreTypeOK'
    BY <1>1, <1>2 DEF Begin, S!BeginTurn, S!StoreTypeOK, ShapeInv, TypeOK
  <1>4. ActiveOwned'
    BY <1>1, TurnsAssumption DEF Begin, S!BeginTurn, ShapeInv, ActiveOwned
  <1>5. PICK stage \in {"pulling", "sweepPrev"} :
          /\ turns' = [turns EXCEPT ![r] = [turns[r] EXCEPT !.prev = prev, !.stage = stage]]
          /\ stage = "sweepPrev" => prev # NoRequest
    BY DEF Begin
  <1> HIDE DEF prev
  <1>6. turns'[r] \in Turn
    BY <1>2, <1>5, TurnFields DEF Turn, TurnStages
  <1>7. /\ turns'[r].todo = turns[r].todo /\ turns'[r].inner = turns[r].inner
        /\ turns'[r].cur = turns[r].cur /\ turns'[r].stage = stage /\ turns'[r].prev = prev
    BY <1>5, TurnFields DEF Turn
  <1>8. TurnShape(r)'
    BY <1>2, <1>5, <1>7, TurnFields DEF TurnShape, ActionsOf
  <1>9. OnlyTurn(r)
    BY <1>5, <1>6, <1>8, TurnFields DEF OnlyTurn
  <1>10. TypeOK'
    BY <1>3, <1>9, OnlyTurnShapes DEF Begin, ShapeInv, TypeOK, dispatcher, history
  <1> QED BY <1>4, <1>9, <1>10, OnlyTurnShapes DEF ShapeInv

LEMMA TurnStepKeepsShape ==
    ASSUME ShapeInv, NEW r \in Requests, TurnStep(r)
    PROVE  ShapeInv'
  <1>1. OnlyTurn(r)
    BY TurnStepShape
  <1>2. DispatcherType'
    BY TurnStepDispatcher
  <1>3. TypeOK'
    BY <1>1, <1>2, OnlyTurnShapes, TurnStepStore, TurnStepHistory
       DEF TypeOK, DispatcherType, ShapeInv
  <1> QED BY <1>1, <1>3, OnlyTurnShapes, TurnStepStore DEF ShapeInv

(* What only turns write.                                                   *)
thread == <<turns, announced, afterMark, afterSweep, sentAfterMark>>

(* What a client or the runtime does leaves every turn where it stands.     *)
Outside ==
  \E u \in Users :
     \/ \E requested \in Cancellable : CancelMark(u, requested)
     \/ \E r \in Requests : CancelSweep(u, r) \/ Forget(u, r)
     \/ Runtime(u)

LEMMA OutsideShape ==
    ASSUME ShapeInv, Outside
    PROVE  ShapeInv' /\ UNCHANGED thread
  <1> USE DEF ShapeInv, TypeOK
  <1>1. turns' = turns => \A r \in Requests : TurnShape(r)'
    BY DEF TurnShape, ActionsOf
  <1>2. ASSUME NEW u \in Users, NEW requested \in Cancellable, CancelMark(u, requested)
        PROVE  ShapeInv' /\ UNCHANGED thread
    <2>1. S!CancelTarget(u, requested) \in Requests
      BY <1>2, TurnsAssumption DEF CancelMark, S!CancelTurn, S!CancelTarget, S!StoreTypeOK
    <2>2. S!StoreTypeOK' /\ ActiveOwned'
      BY <1>2, <2>1, TurnsAssumption DEF CancelMark, S!CancelTurn, S!StoreTypeOK, ActiveOwned
    <2>3. sweeps' \subseteq Users \X Requests /\ cancels' \in 0..MaxCancels /\ turns' = turns
      BY <1>2, <2>1, TurnsAssumption DEF CancelMark
    <2>4. UNCHANGED <<dispatcher, announced, history>>
      BY <1>2 DEF CancelMark
    <2> QED BY <1>1, <2>2, <2>3, <2>4 DEF dispatcher, history, thread
  <1>3. ASSUME NEW u \in Users, NEW r \in Requests, CancelSweep(u, r)
        PROVE  ShapeInv' /\ UNCHANGED thread
    <2>1. Rejected(u, r) \in SUBSET ActionIds
      BY ScriptActions DEF Rejected
    <2>2. DispatcherType'
      BY <1>3, <2>1, DispatcherStepType DEF CancelSweep, DispatcherType
    <2>3. /\ UNCHANGED <<store, turns, cancels, announced, afterMark, afterSweep, sentAfterMark>>
          /\ sweeps' \subseteq Users \X Requests /\ swept' \subseteq Users \X Requests
      BY <1>3 DEF CancelSweep
    <2> QED BY <1>1, <2>2, <2>3 DEF DispatcherType, store, thread, S!StoreTypeOK, ActiveOwned
  <1>4. ASSUME NEW u \in Users, NEW r \in Requests, Forget(u, r)
        PROVE  ShapeInv' /\ UNCHANGED thread
    BY <1>1, <1>4 DEF Forget, S!Prune, S!StoreTypeOK, ActiveOwned, dispatcher, history, thread
  <1>5. ASSUME NEW u \in Users, Runtime(u)
        PROVE  ShapeInv' /\ UNCHANGED thread
    <2>1. Met(u) \subseteq ActionIds
      BY DEF Met
    <2>2. DispatcherType'
      BY <1>5, <2>1, DispatcherStepType, TurnsAssumption DEF Runtime, DispatcherType
    <2>3. UNCHANGED <<store, turns, sweeps, cancels, announced, history>>
      BY <1>5 DEF Runtime
    <2> QED BY <1>1, <2>2, <2>3 DEF DispatcherType, store, history, thread, S!StoreTypeOK, ActiveOwned
  <1> QED BY <1>2, <1>3, <1>4, <1>5 DEF Outside

LEMMA ShapeStep == ShapeInv /\ [Next]_vars => ShapeInv'
  <1> SUFFICES ASSUME ShapeInv, [Next]_vars PROVE ShapeInv'
    OBVIOUS
  <1>1. CASE UNCHANGED vars
    BY <1>1 DEF vars, dispatcher, store, history, ShapeInv, TypeOK, S!StoreTypeOK, ActiveOwned,
                TurnShape, ActionsOf
  <1>2. CASE Next
    BY <1>2, BeginShape, TurnStepKeepsShape, OutsideShape DEF Next, Outside
  <1> QED BY <1>1, <1>2

(* Every reachable state of the turns, the store and the dispatcher has the *)
(* types the model gives them.                                              *)
THEOREM TurnsTypeCorrect == Spec => []TypeOK
  <1>1. ShapeInv => TypeOK
    BY DEF ShapeInv
  <1> QED BY ShapeInit, ShapeStep, <1>1, PTL DEF Spec

-----------------------------------------------------------------------------
(* A mark stays until its turn has ended.                                   *)
LEMMA MarkStays ==
    ASSUME ShapeInv, [Next]_vars, NEW q \in Requests, Marked(q)
    PROVE  Marked(q)' \/ (~Live(q) /\ turns' = turns /\ UNCHANGED <<dispatcher, sweeps, history>>)
  <1>1. ASSUME cancelled \subseteq cancelled' PROVE Marked(q)'
    BY <1>1 DEF Marked, S!IsCancelled
  <1>2. ASSUME NEW u \in Users, NEW r \in Requests, Forget(u, r)
        PROVE  Marked(q)' \/ (~Live(q) /\ turns' = turns /\ UNCHANGED <<dispatcher, sweeps, history>>)
    BY <1>2 DEF Forget, S!Prune, Marked, S!IsCancelled
  <1>3. ASSUME NEW r \in Requests, Begin(r)
        PROVE  cancelled \subseteq cancelled'
    BY <1>3 DEF Begin, S!BeginTurn
  <1>4. ASSUME NEW r \in Requests, TurnStep(r)
        PROVE  cancelled \subseteq cancelled'
    BY <1>4, TurnStepStore
  <1>5. ASSUME NEW u \in Users, Runtime(u) \/ \E requested \in Cancellable : CancelMark(u, requested)
        PROVE  cancelled \subseteq cancelled'
    BY <1>5 DEF Runtime, CancelMark, S!CancelTurn, store
  <1>6. ASSUME NEW u \in Users, NEW r \in Requests, CancelSweep(u, r)
        PROVE  cancelled \subseteq cancelled'
    BY <1>6 DEF CancelSweep, store
  <1>7. ASSUME UNCHANGED vars PROVE cancelled \subseteq cancelled'
    BY <1>7 DEF vars, store
  <1>8. CASE \E u \in Users, r \in Requests : Forget(u, r)
    BY <1>2, <1>8
  <1>9. CASE ~\E u \in Users, r \in Requests : Forget(u, r)
    BY <1>1, <1>3, <1>4, <1>5, <1>6, <1>7, <1>9 DEF Next
  <1> QED BY <1>8, <1>9

(* How any step looks to the turns: one of them moves, or none.             *)
LEMMA TurnsFrame ==
    ASSUME ShapeInv, [Next]_vars
    PROVE  \/ UNCHANGED thread /\ (Outside \/ UNCHANGED vars)
           \/ \E r \in Requests : (Begin(r) \/ TurnStep(r)) /\ OnlyTurn(r)
  BY OutsideShape, BeginShape, TurnStepShape DEF Next, Outside, vars, history, thread

LEMMA SupersededStep ==
    ASSUME ShapeInv, SupersededIsCancelled, [Next]_vars
    PROVE  SupersededIsCancelled'
  <1> SUFFICES ASSUME NEW q \in Requests, Live(q)' PROVE (active[UserOf[q]] = q \/ Marked(q))'
    BY DEF SupersededIsCancelled
  <1> USE DEF Live
  <1>0. UserOf[q] \in Users /\ active \in [Users -> Requests \cup {NoRequest}] /\ q # NoRequest
    BY TurnsAssumption DEF ShapeInv, TypeOK, S!StoreTypeOK
  <1>1. CASE Marked(q) /\ Live(q)
    BY <1>1, MarkStays
  <1>2. ASSUME NEW r \in Requests, Begin(r), OnlyTurn(r), ~Marked(q)
        PROVE  (active[UserOf[q]] = q \/ Marked(q))'
    <2>1. CASE r = q
      BY <1>0, <1>2, <2>1 DEF Begin, S!BeginTurn
    <2>2. CASE r # q
      <3>1. active[UserOf[q]] = q
        BY <1>2, <2>2, OnlyTurnShapes DEF SupersededIsCancelled
      <3>2. CASE UserOf[r] = UserOf[q]
        BY <1>0, <1>2, <2>2, <3>1, <3>2
           DEF Begin, S!BeginTurn, S!Superseded, Marked, S!IsCancelled
      <3>3. CASE UserOf[r] # UserOf[q]
        BY <1>0, <1>2, <3>1, <3>3 DEF Begin, S!BeginTurn
      <3> QED BY <3>2, <3>3
    <2> QED BY <2>1, <2>2
  <1>3. ASSUME NEW r \in Requests, TurnStep(r), OnlyTurn(r), ~Marked(q)
        PROVE  (active[UserOf[q]] = q \/ Marked(q))'
    <2>1. Live(q)
      <3>1. CASE r = q
        BY <1>3, <3>1
           DEF TurnStep, At, Inner, SweepSuperseded, TakeAction, RecordAction, SkipAnnouncement,
               Announce, StartWait, TakeResult, Finished, Check, Send, Disconnect, Close
      <3> QED BY <1>3, <3>1, OnlyTurnShapes
    <2>2. active[UserOf[q]] = q
      BY <1>3, <2>1 DEF SupersededIsCancelled
    <2>3. CASE Close(r)
      <3>1. r # q
        BY <2>3, TurnFields DEF Close, Go, ShapeInv, TypeOK
      <3> QED BY <1>0, <2>2, <2>3, <3>1 DEF Close, S!FinishTurn
    <2>4. CASE UNCHANGED store
      BY <2>2, <2>4 DEF store
    <2> QED BY <1>3, <2>3, <2>4
            DEF TurnStep, SweepSuperseded, TakeAction, RecordAction, SkipAnnouncement, Announce,
                StartWait, TakeResult, Finished, Check, Send, Disconnect
  <1>4. CASE UNCHANGED thread /\ Outside /\ ~Marked(q)
    <2>1. active[UserOf[q]] = q
      BY <1>4 DEF SupersededIsCancelled, thread
    <2>2. ASSUME NEW u \in Users, NEW requested \in Cancellable, CancelMark(u, requested)
          PROVE  (active[UserOf[q]] = q \/ Marked(q))'
      BY <1>0, <2>1, <2>2 DEF CancelMark, S!CancelTurn, Marked, S!IsCancelled
    <2>3. CASE UNCHANGED active
      BY <2>1, <2>3
    <2> QED BY <1>4, <2>2, <2>3 DEF Outside, CancelSweep, Forget, S!Prune, Runtime, store
  <1>5. CASE UNCHANGED vars
    BY <1>5 DEF vars, store, SupersededIsCancelled, Marked, S!IsCancelled
  <1>6. UNCHANGED thread => Live(q)
    BY DEF thread
  <1>7. \A r \in Requests : (Begin(r) \/ TurnStep(r)) /\ Marked(q) => Marked(q)'
    BY MarkStays, TurnStepStore DEF Begin, S!BeginTurn, Marked, S!IsCancelled
  <1> QED BY <1>1, <1>2, <1>3, <1>4, <1>5, <1>6, <1>7, TurnsFrame

(* Of one user's turns at most one runs without a mark: begin_turn,         *)
(* cancel_turn and finish_turn interleave freely and none of them leaves a  *)
(* running turn both inactive and unmarked (TurnCancellationStore).         *)
THEOREM SupersededTurnsAreCancelled == Spec => []SupersededIsCancelled
  <1>1. Init => SupersededIsCancelled
    BY DEF Init, SupersededIsCancelled, Live
  <1>2. ShapeInv /\ SupersededIsCancelled /\ [Next]_vars => SupersededIsCancelled'
    BY SupersededStep
  <1> QED BY ShapeInit, ShapeStep, <1>1, <1>2, PTL DEF Spec

-----------------------------------------------------------------------------
(* A step of one turn leaves what is known of the others.                   *)
LEMMA OthersHistory ==
    ASSUME ShapeInv, NEW r \in Requests, Begin(r) \/ TurnStep(r), OnlyTurn(r),
           NEW q \in Requests, q # r
    PROVE  /\ turns'[q] = turns[q]
           /\ sentAfterMark'[q] = sentAfterMark[q]
           /\ afterMark' \cap ActionsOf(q) = afterMark \cap ActionsOf(q)
           /\ announced \subseteq announced'
           /\ cancelled \subseteq cancelled'
  <1>1. turns'[q] = turns[q]
    BY OnlyTurnShapes
  <1>2. CASE RecordAction(r)
    <2>1. turns[r].cur \in ActionsOf(r)
      BY <1>2, TurnFields DEF RecordAction, Inner, TurnShape
    <2>2. turns[r].cur \notin ActionsOf(q)
      BY <2>1, TurnsAssumption
    <2> QED BY <1>1, <1>2, <2>2 DEF RecordAction, store
  <1>3. CASE Send(r)
    BY <1>1, <1>3 DEF Send, store, ShapeInv, TypeOK
  <1>4. CASE Begin(r)
    BY <1>1, <1>4 DEF Begin, S!BeginTurn, history
  <1>5. CASE UNCHANGED <<announced, afterMark, sentAfterMark>> /\ TurnStep(r)
    BY <1>1, <1>5, TurnStepStore
  <1> QED BY <1>2, <1>3, <1>4, <1>5
          DEF TurnStep, SweepSuperseded, TakeAction, SkipAnnouncement, Announce, StartWait,
              TakeResult, Finished, Check, Disconnect, Close, history

(* Where one step of a turn takes it.                                       *)
LEMMA StageStep ==
    ASSUME ShapeInv, NEW r \in Requests, TurnStep(r)
    PROVE  /\ turns[r].stage \notin {"new", "ended"} /\ turns'[r].stage # "new"
           /\ turns[r].stage = "pulling" => turns'[r].stage \in {"pulling", "holding"}
           /\ turns[r].stage = "holding" =>
                turns'[r].stage = IF Marked(r) THEN "closing" ELSE "sending"
           /\ turns[r].stage = "sending" => turns'[r].stage \in {"pulling", "holding", "closing"}
           /\ turns[r].stage = "closing" => turns'[r].stage = "ended"
           /\ turns[r].stage # "sending" \/ ~Marked(r) => sentAfterMark'[r] = sentAfterMark[r]
           /\ sentAfterMark'[r] \in {sentAfterMark[r], sentAfterMark[r] + 1}
  <1>0. /\ turns \in [Requests -> Turn] /\ turns[r] \in Turn
        /\ sentAfterMark \in [Requests -> 0..2]
    BY DEF ShapeInv, TypeOK
  <1>1. CASE SweepSuperseded(r)
    BY <1>0, <1>1 DEF SweepSuperseded, At, Go, Turn
  <1>2. CASE TakeAction(r) \/ RecordAction(r) \/ StartWait(r)
    <2>1. turns[r].stage = "pulling" /\ turns'[r].stage = "pulling"
      BY <1>0, <1>2 DEF TakeAction, RecordAction, StartWait, Inner, Turn
    <2> QED BY <1>2, <2>1 DEF TakeAction, RecordAction, StartWait, history
  <1>3. CASE SkipAnnouncement(r) \/ Announce(r) \/ TakeResult(r) \/ Finished(r)
    <2>1. turns[r].stage = "pulling" /\ UNCHANGED history
      BY <1>3 DEF SkipAnnouncement, Announce, TakeResult, Finished, Inner
    <2>2. turns'[r].stage \in {"pulling", "holding"}
      <3> SUFFICES ASSUME NEW inner, NEW chunk, Produce(r, inner, chunk)
                   PROVE  turns'[r].stage \in {"pulling", "holding"}
        BY <1>3 DEF SkipAnnouncement, Announce, TakeResult, Finished
      <3> QED BY <1>0 DEF Produce, Turn
    <2> QED BY <2>1, <2>2 DEF history
  <1>4. CASE Check(r)
    <2>1. turns[r].stage = "holding" /\ UNCHANGED history
      BY <1>4 DEF Check, At
    <2>2. turns'[r].stage = IF Marked(r) THEN "closing" ELSE "sending"
      BY <1>0, <1>4 DEF Check, StopTurn, Go, Turn
    <2> QED BY <2>1, <2>2 DEF history
  <1>5. CASE Send(r)
    <2>1. turns[r].stage = "sending"
      BY <1>5 DEF Send, At
    <2>2. turns'[r].stage \in {"pulling", "holding", "closing"}
      BY <1>0, <1>5 DEF Send, Turn
    <2>3. sentAfterMark' = IF Marked(r) /\ sentAfterMark[r] < 2
                           THEN [sentAfterMark EXCEPT ![r] = @ + 1] ELSE sentAfterMark
      BY <1>5 DEF Send
    <2> QED BY <1>0, <2>1, <2>2, <2>3
  <1>6. CASE Disconnect(r) \/ Close(r)
    <2>1. \/ turns[r].stage = "sending" /\ turns'[r].stage = "closing"
          \/ turns[r].stage = "closing" /\ turns'[r].stage = "ended"
      BY <1>0, <1>6 DEF Disconnect, Close, StopTurn, Go, At, Turn
    <2> QED BY <1>6, <2>1 DEF Disconnect, Close, history
  <1> QED BY <1>1, <1>2, <1>3, <1>4, <1>5, <1>6 DEF TurnStep

(* A turn that sent a chunk while it was marked is on its way to the check, *)
(* which the mark will stop, or past its end.                               *)
ChunkInv ==
  \A r \in Requests :
     \/ sentAfterMark[r] = 0
     \/ /\ sentAfterMark[r] = 1
        /\ \/ turns[r].stage = "ended"
           \/ turns[r].stage \in {"pulling", "holding", "closing"} /\ Marked(r)

LEMMA ChunkStep ==
    ASSUME ShapeInv, ChunkInv, [Next]_vars
    PROVE  ChunkInv'
  <1> DEFINE Goal(q) == \/ sentAfterMark'[q] = 0
                        \/ /\ sentAfterMark'[q] = 1
                           /\ \/ turns'[q].stage = "ended"
                              \/ turns'[q].stage \in {"pulling", "holding", "closing"} /\ Marked(q)'
  <1> SUFFICES ASSUME NEW q \in Requests PROVE Goal(q)
    BY DEF ChunkInv
  <1>1. CASE UNCHANGED thread
    BY <1>1, MarkStays DEF ChunkInv, Live, thread
  <1>2. ASSUME NEW r \in Requests, Begin(r) \/ TurnStep(r), OnlyTurn(r), r # q
        PROVE  Goal(q)
    BY <1>2, OthersHistory DEF ChunkInv, Marked, S!IsCancelled
  <1>3. CASE Begin(q)
    BY <1>3 DEF Begin, At, history, ChunkInv
  <1>4. CASE TurnStep(q)
    <2>1. Marked(q)' <=> Marked(q)
      BY <1>4, TurnStepStore DEF Marked, S!IsCancelled
    <2> QED BY <1>4, <2>1, StageStep DEF ChunkInv
  <1> QED BY <1>1, <1>2, <1>3, <1>4, TurnsFrame

(* After its mark a turn yields at most one more chunk, the one that was    *)
(* past the check, however many it still produces and whoever marked it     *)
(* (_stream_orchestrated_conversation).                                     *)
THEOREM CancelledTurnSendsOneChunk == Spec => []OneChunkAfterCancel
  <1>1. Init => ChunkInv
    BY DEF Init, ChunkInv
  <1>2. ChunkInv => OneChunkAfterCancel
    BY DEF ChunkInv, OneChunkAfterCancel
  <1> QED BY ShapeInit, ShapeStep, ChunkStep, <1>1, <1>2, PTL DEF Spec

-----------------------------------------------------------------------------
(* The action a lazy turn recorded after its mark is the last: the turn has *)
(* yet to reach the check with it, or is past its end.                      *)
LateActions(r) == afterMark \cap ActionsOf(r)

LateInv ==
  \A r \in Requests \ EagerTurns :
     \/ LateActions(r) = {}
     \/ /\ \E a : LateActions(r) = {a}
        /\ \/ turns[r].stage \in {"closing", "ended"}
           \/ Marked(r) /\ turns[r].stage = "holding"
           \/ Marked(r) /\ turns[r].stage = "pulling" /\ turns[r].inner = "recorded"

LEMMA LazyRecords ==
    ASSUME ShapeInv, NEW r \in Requests \ EagerTurns, TurnStep(r)
    PROVE  \/ /\ LateActions(r)' = LateActions(r)
              /\ turns[r].stage = "pulling" /\ turns[r].inner = "recorded" =>
                    turns'[r].stage = "holding"
           \/ /\ turns[r].stage = "pulling" /\ turns[r].inner = "handler"
              /\ turns'[r].stage = "pulling" /\ turns'[r].inner = "recorded"
              /\ LateActions(r)' = IF Marked(r) THEN LateActions(r) \cup {turns[r].cur}
                                   ELSE LateActions(r)
  <1>0. turns \in [Requests -> Turn] /\ turns[r] \in Turn
    BY DEF ShapeInv, TypeOK
  <1>1. CASE RecordAction(r)
    <2>1. turns[r].stage = "pulling" /\ turns[r].inner = "handler"
      BY <1>1 DEF RecordAction, Inner
    <2>2. turns'[r].stage = "pulling" /\ turns'[r].inner = "recorded"
      BY <1>0, <1>1, <2>1 DEF RecordAction, Turn
    <2>3. turns[r].cur \in ActionsOf(r)
      BY <2>1, TurnFields DEF TurnShape
    <2> QED BY <1>1, <2>1, <2>2, <2>3 DEF RecordAction, LateActions, ActionsOf
  <1>2. CASE SkipAnnouncement(r) \/ Announce(r)
    <2>1. afterMark' = afterMark
      BY <1>2 DEF SkipAnnouncement, Announce, history
    <2>2. turns'[r].stage = "holding"
      <3> SUFFICES ASSUME NEW inner, NEW chunk, Produce(r, inner, chunk)
                   PROVE  turns'[r].stage = "holding"
        BY <1>2 DEF SkipAnnouncement, Announce
      <3> QED BY <1>0 DEF Produce, Turn
    <2> QED BY <2>1, <2>2 DEF LateActions, ActionsOf
  <1>3. CASE /\ afterMark' = afterMark
             /\ turns[r].stage # "pulling" \/ turns[r].inner # "recorded"
    BY <1>3 DEF LateActions, ActionsOf
  <1> QED BY <1>1, <1>2, <1>3
          DEF TurnStep, SweepSuperseded, TakeAction, StartWait, TakeResult, Finished, Check, Send,
              Disconnect, Close, Inner, At, history

LEMMA LateStep ==
    ASSUME ShapeInv, LateInv, [Next]_vars
    PROVE  LateInv'
  <1> DEFINE Goal(q) ==
         \/ LateActions(q)' = {}
         \/ /\ \E a : LateActions(q)' = {a}
            /\ \/ turns'[q].stage \in {"closing", "ended"}
               \/ Marked(q)' /\ turns'[q].stage = "holding"
               \/ Marked(q)' /\ turns'[q].stage = "pulling" /\ turns'[q].inner = "recorded"
  <1> SUFFICES ASSUME NEW q \in Requests \ EagerTurns PROVE Goal(q)
    BY DEF LateInv
  <1>1. CASE UNCHANGED thread
    <2>1. LateActions(q)' = LateActions(q) /\ turns' = turns
      BY <1>1 DEF LateActions, ActionsOf, thread
    <2> QED BY <2>1, MarkStays DEF LateInv, Live
  <1>2. ASSUME NEW r \in Requests, Begin(r) \/ TurnStep(r), OnlyTurn(r), r # q
        PROVE  Goal(q)
    <2>1. LateActions(q)' = LateActions(q) /\ turns'[q] = turns[q] /\ (Marked(q) => Marked(q)')
      BY <1>2, OthersHistory DEF LateActions, ActionsOf, Marked, S!IsCancelled
    <2> QED BY <2>1 DEF LateInv
  <1>3. CASE Begin(q)
    <2>1. LateActions(q)' = LateActions(q) /\ turns[q].stage = "new"
      BY <1>3 DEF Begin, At, history, LateActions, ActionsOf
    <2> QED BY <2>1 DEF LateInv
  <1>4. CASE TurnStep(q)
    <2>1. Marked(q)' <=> Marked(q)
      BY <1>4, TurnStepStore DEF Marked, S!IsCancelled
    <2>2. CASE LateActions(q)' = LateActions(q)
               /\ (turns[q].stage = "pulling" /\ turns[q].inner = "recorded" =>
                      turns'[q].stage = "holding")
      BY <1>4, <2>1, <2>2, StageStep DEF LateInv
    <2>3. CASE ~(LateActions(q)' = LateActions(q)
               /\ (turns[q].stage = "pulling" /\ turns[q].inner = "recorded" =>
                      turns'[q].stage = "holding"))
      <3>1. /\ turns[q].stage = "pulling" /\ turns[q].inner = "handler"
            /\ turns'[q].stage = "pulling" /\ turns'[q].inner = "recorded"
            /\ LateActions(q)' = IF Marked(q) THEN LateActions(q) \cup {turns[q].cur}
                                 ELSE LateActions(q)
        BY <1>4, <2>3, LazyRecords
      <3>2. LateActions(q) = {}
        BY <3>1 DEF LateInv
      <3> QED BY <2>1, <3>1, <3>2
    <2> QED BY <2>2, <2>3
  <1> QED BY <1>1, <1>2, <1>3, <1>4, TurnsFrame

(* A turn that dispatches one action per pull puts at most one action on    *)
(* record after its mark, whatever its script (the check between the pulls  *)
(* of _stream_orchestrated_conversation).                                   *)
THEOREM LateActionsAreFew == Spec => []LateActionsBounded
  <1>1. Init => LateInv
    BY DEF Init, LateInv, LateActions
  <1>2. LateInv => LateActionsBounded
    <2> SUFFICES ASSUME LateInv, NEW r \in Requests \ EagerTurns
                 PROVE  Cardinality(LateActions(r)) =< 1
      BY DEF LateActionsBounded, LateActions
    <2>1. CASE LateActions(r) = {}
      BY <2>1, FS_EmptySet
    <2>2. ASSUME NEW a, LateActions(r) = {a} PROVE Cardinality(LateActions(r)) =< 1
      <3>1. Cardinality({a}) = 1
        BY FS_Singleton
      <3> QED BY <2>2, <3>1
    <2> QED BY <2>1, <2>2 DEF LateInv
  <1> QED BY ShapeInit, ShapeStep, LateStep, <1>1, <1>2, PTL DEF Spec

-----------------------------------------------------------------------------
(* A cancellation of a turn is on its way to the dispatcher: a handler or a *)
(* turn that superseded it stands between the two steps.                    *)
SweepPending(r) ==
  \/ <<UserOf[r], r>> \in sweeps
  \/ \E other \in Requests : At(other, "sweepPrev") /\ turns[other].prev = r

Swept(r) == <<UserOf[r], r>> \in swept

(* A cancellation that began is pending or was carried out; and once it was *)
(* carried out, only what came later can be unanswered.                     *)
SweepInv ==
  \A r \in Requests :
     /\ Marked(r) \/ turns[r].ending = "cancelled" => SweepPending(r) \/ Swept(r)
     /\ Swept(r) => Rejected(UserOf[r], r) \subseteq afterSweep

(* An answered action stays answered, and an action becomes unanswered only *)
(* by being recorded.                                                       *)
LEMMA HandoffUnanswered ==
    ASSUME DispatcherType, NEW a \in ActionIds,
           \/ \E b \in ActionIds, s \in Statuses : D!Answer(b, s)
           \/ \E b \in ActionIds : D!Tell(b) \/ D!GiveUp(b)
           \/ \E u \in Users : D!Give(u, open[u])
           \/ \E T \in SUBSET ActionIds : D!Withdraw(T)
           \/ UNCHANGED dispatcher
    PROVE  Unanswered(a)' => Unanswered(a)
  <1> USE DEF DispatcherType
  <1>1. Unanswered(a) <=> answer[a] = NoAnswer /\ \E u \in Users : a \in open[u] \cup given[u]
    BY DEF Unanswered, D!Fresh
  <1>2. Unanswered(a)' <=> answer'[a] = NoAnswer /\ \E u \in Users : a \in open'[u] \cup given'[u]
    BY DEF Unanswered, D!Fresh
  <1>3. CASE \E b \in ActionIds, s \in Statuses : D!Answer(b, s)
    BY <1>1, <1>2, <1>3, TurnsAssumption DEF D!Answer, D!Close
  <1>4. CASE \E b \in ActionIds : D!Tell(b)
    BY <1>1, <1>2, <1>4 DEF D!Tell
  <1>5. CASE \E b \in ActionIds : D!GiveUp(b)
    BY <1>1, <1>2, <1>5, TurnsAssumption DEF D!GiveUp, D!Close, Statuses
  <1>6. CASE \E u \in Users : D!Give(u, open[u])
    BY <1>1, <1>2, <1>6 DEF D!Give
  <1>7. CASE \E T \in SUBSET ActionIds : D!Withdraw(T)
    BY <1>1, <1>2, <1>7, TurnsAssumption DEF D!Withdraw, D!Close, Statuses
  <1>8. CASE UNCHANGED dispatcher
    BY <1>1, <1>2, <1>8 DEF dispatcher
  <1> QED BY <1>3, <1>4, <1>5, <1>6, <1>7, <1>8

LEMMA RecordUnanswered ==
    ASSUME ShapeInv, NEW r \in Requests, RecordAction(r), NEW a \in ActionIds, a # turns[r].cur
    PROVE  Unanswered(a)' => Unanswered(a)
  <1> USE DEF ShapeInv, TypeOK, Unanswered, D!Fresh
  <1>1. CASE D!Offer(UserOf[r], turns[r].cur)
    BY <1>1, TurnsAssumption DEF D!Offer
  <1>2. CASE \E s \in ServerStatuses : D!Serve(turns[r].cur, s)
    BY <1>2, TurnFields, ScriptActions DEF D!Serve, TurnShape
  <1> QED BY <1>1, <1>2 DEF RecordAction

LEMMA RejectedStep ==
    ASSUME ShapeInv, [Next]_vars, NEW q \in Requests, ~RecordAction(q)
    PROVE  Rejected(UserOf[q], q)' \subseteq Rejected(UserOf[q], q)
  <1>0. ActionsOf(q) \subseteq ActionIds /\ DispatcherType
    BY ScriptActions DEF ShapeInv, TypeOK, DispatcherType
  <1> SUFFICES ASSUME NEW a \in ActionsOf(q) PROVE Unanswered(a)' => Unanswered(a)
    BY DEF Rejected, ActionsOf
  <1>1. ASSUME NEW r \in Requests, RecordAction(r)
        PROVE  Unanswered(a)' => Unanswered(a)
    <2>1. turns[r].cur \in ActionsOf(r)
      BY <1>1, TurnFields DEF RecordAction, Inner, TurnShape
    <2>2. a # turns[r].cur
      BY <1>1, <2>1, TurnsAssumption
    <2> QED BY <1>0, <1>1, <2>2, RecordUnanswered
  <1>2. ASSUME NEW r \in Requests, SweepSuperseded(r)
        PROVE  Unanswered(a)' => Unanswered(a)
    <2>1. turns[r].prev \in Requests
      BY <1>2, TurnFields DEF SweepSuperseded, At, TurnShape
    <2>2. Rejected(UserOf[r], turns[r].prev) \in SUBSET ActionIds
      BY <2>1, ScriptActions DEF Rejected
    <2> QED BY <1>0, <1>2, <2>2, HandoffUnanswered DEF SweepSuperseded
  <1>3. ASSUME NEW r \in Requests, SkipAnnouncement(r) \/ TakeResult(r)
        PROVE  Unanswered(a)' => Unanswered(a)
    <2>1. turns[r].cur \in ActionIds
      BY <1>3, TurnFields, ScriptActions DEF SkipAnnouncement, TakeResult, Inner, TurnShape
    <2> QED BY <1>0, <1>3, <2>1, HandoffUnanswered DEF SkipAnnouncement, TakeResult
  <1>4. ASSUME NEW u \in Users, NEW r \in Requests, CancelSweep(u, r)
        PROVE  Unanswered(a)' => Unanswered(a)
    <2>1. Rejected(u, r) \in SUBSET ActionIds
      BY ScriptActions DEF Rejected
    <2> QED BY <1>0, <1>4, <2>1, HandoffUnanswered DEF CancelSweep
  <1>5. ASSUME NEW u \in Users, Runtime(u)
        PROVE  Unanswered(a)' => Unanswered(a)
    <2>1. Met(u) \subseteq ActionIds
      BY DEF Met, ShapeInv, TypeOK
    <2> QED BY <1>0, <1>5, <2>1, HandoffUnanswered, TurnsAssumption DEF Runtime
  <1>6. CASE UNCHANGED dispatcher
    BY <1>0, <1>6, HandoffUnanswered
  <1> QED BY <1>1, <1>2, <1>3, <1>4, <1>5, <1>6
          DEF Next, TurnStep, Begin, TakeAction, Announce, StartWait, Finished, Check, Send,
              Disconnect, Close, CancelMark, Forget, vars

LEMMA PendingStep ==
    ASSUME ShapeInv, [Next]_vars, NEW q \in Requests, SweepPending(q)
    PROVE  SweepPending(q)' \/ Swept(q)'
  <1>1. CASE <<UserOf[q], q>> \in sweeps
    <2>1. ASSUME NEW u \in Users, NEW r \in Requests, CancelSweep(u, r)
          PROVE  SweepPending(q)' \/ Swept(q)'
      BY <1>1, <2>1 DEF CancelSweep, SweepPending, Swept
    <2>2. CASE sweeps \subseteq sweeps'
      BY <1>1, <2>2 DEF SweepPending
    <2>3. ASSUME NEW r \in Requests, TurnStep(r) PROVE sweeps' = sweeps
      BY <2>3, TurnStepHistory
    <2> QED BY <2>1, <2>2, <2>3 DEF Next, Begin, CancelMark, Forget, Runtime, vars
  <1>2. ASSUME NEW other \in Requests, At(other, "sweepPrev"), turns[other].prev = q
        PROVE  SweepPending(q)' \/ Swept(q)'
    <2>1. CASE turns'[other] = turns[other]
      BY <1>2, <2>1 DEF SweepPending, At
    <2>2. CASE Begin(other)
      BY <1>2, <2>2 DEF Begin, At
    <2>3. CASE TurnStep(other)
      <3>1. SweepSuperseded(other)
        BY <1>2, <2>3
           DEF TurnStep, At, Inner, TakeAction, RecordAction, SkipAnnouncement, Announce,
               StartWait, TakeResult, Finished, Check, Send, Disconnect, Close
      <3>2. UserOf[q] = UserOf[other]
        BY <1>2, TurnFields DEF At, TurnShape
      <3> QED BY <1>2, <3>1, <3>2 DEF SweepSuperseded, Swept
    <2> QED BY <2>1, <2>2, <2>3, TurnsFrame, OthersHistory DEF thread
  <1> QED BY <1>1, <1>2 DEF SweepPending

LEMMA CancelledStep ==
    ASSUME ShapeInv, [Next]_vars, NEW q \in Requests,
           ~(Marked(q) \/ turns[q].ending = "cancelled"),
           Marked(q)' \/ turns'[q].ending = "cancelled"
    PROVE  SweepPending(q)'
  <1>0. turns \in [Requests -> Turn] /\ UserOf \in [Requests -> Users]
        /\ active \in [Users -> Requests \cup {NoRequest}]
    BY TurnsAssumption DEF ShapeInv, TypeOK, S!StoreTypeOK
  <1>1. ASSUME NEW r \in Requests, Begin(r) PROVE SweepPending(q)'
    <2> DEFINE prev == S!Superseded(UserOf[r], r)
    <2>1. turns'[q].ending = turns[q].ending
      BY <1>0, <1>1 DEF Begin, Turn
    <2>2. prev = q /\ UserOf[r] = UserOf[q] /\ prev # NoRequest
      BY <1>0, <1>1, <2>1, TurnsAssumption DEF Begin, S!BeginTurn, Marked, S!IsCancelled
    <2>3. turns'[r].stage = "sweepPrev" /\ turns'[r].prev = q
      BY <1>0, <1>1, <2>2 DEF Begin, Turn
    <2> QED BY <2>3 DEF SweepPending, At
  <1>2. ASSUME NEW u \in Users, NEW requested \in Cancellable, CancelMark(u, requested)
        PROVE  SweepPending(q)'
    BY <1>2 DEF CancelMark, S!CancelTurn, Marked, S!IsCancelled, SweepPending
  <1>3. ASSUME NEW r \in Requests, TurnStep(r) PROVE FALSE
    <2>1. cancelled' = cancelled
      BY <1>3, TurnStepStore
    <2>2. turns'[q].ending = "cancelled" /\ turns[q].ending # "cancelled" /\ ~Marked(q)
      BY <2>1 DEF Marked, S!IsCancelled
    <2>3. r = q
      BY <1>3, <2>2, TurnStepShape, OnlyTurnShapes
    <2>4. turns[r] \in Turn
      BY <1>0
    <2>5. CASE SweepSuperseded(q) \/ TakeAction(q) \/ RecordAction(q) \/ StartWait(q) \/ Close(q)
      BY <1>0, <2>2, <2>5 DEF SweepSuperseded, TakeAction, RecordAction, StartWait, Close, Go, Turn
    <2>6. CASE SkipAnnouncement(q) \/ Announce(q) \/ TakeResult(q) \/ Finished(q)
      <3> SUFFICES ASSUME NEW inner, NEW chunk, Produce(q, inner, chunk) PROVE FALSE
        BY <2>6 DEF SkipAnnouncement, Announce, TakeResult, Finished
      <3> QED BY <1>0, <2>2 DEF Produce, Turn
    <2>7. CASE Check(q)
      BY <1>0, <2>2, <2>7 DEF Check, Go, Turn
    <2>8. CASE Send(q)
      BY <1>0, <2>2, <2>8 DEF Send, Turn
    <2>9. CASE Disconnect(q)
      BY <1>0, <2>2, <2>9 DEF Disconnect, StopTurn, Turn
    <2> QED BY <1>3, <2>3, <2>5, <2>6, <2>7, <2>8, <2>9 DEF TurnStep
  <1>4. CASE turns' = turns /\ cancelled' \subseteq cancelled
    BY <1>4 DEF Marked, S!IsCancelled
  <1> QED BY <1>1, <1>2, <1>3, <1>4
          DEF Next, CancelSweep, Forget, S!Prune, Runtime, vars, store

LEMMA SweptStep ==
    ASSUME ShapeInv, [Next]_vars
    PROVE  swept \subseteq swept' /\ afterSweep \subseteq afterSweep'
  BY DEF Next, TurnStep, Begin, SweepSuperseded, TakeAction, RecordAction, SkipAnnouncement,
         Announce, StartWait, TakeResult, Finished, Check, Send, Disconnect, Close, CancelMark,
         CancelSweep, Runtime, Forget, vars, history

(* A sweep leaves nothing of the turn unanswered.                           *)
LEMMA SweepEmpties ==
    ASSUME ShapeInv, [Next]_vars, NEW q \in Requests, ~Swept(q), Swept(q)'
    PROVE  Rejected(UserOf[q], q)' = {}
  <1> DEFINE gone == Rejected(UserOf[q], q)
  <1>1. gone \subseteq ActionIds /\ answer \in [ActionIds -> Statuses \cup {NoAnswer}]
    BY ScriptActions DEF Rejected, ShapeInv, TypeOK
  <1>2. ASSUME D!Withdraw(gone), gone' \subseteq gone PROVE gone' = {}
    <2>1. \A a \in gone : answer'[a] # NoAnswer
      BY <1>1, <1>2, TurnsAssumption DEF D!Withdraw, Statuses
    <2> QED BY <1>2, <2>1 DEF Rejected, Unanswered
  <1>3. gone' \subseteq gone \/ RecordAction(q)
    BY RejectedStep
  <1>4. ~RecordAction(q)
    BY DEF RecordAction, Swept
  <1>5. ASSUME NEW u \in Users, NEW r \in Requests, CancelSweep(u, r) PROVE D!Withdraw(gone)
    BY <1>5 DEF CancelSweep, Swept
  <1>6. ASSUME NEW r \in Requests, SweepSuperseded(r) PROVE D!Withdraw(gone)
    BY <1>6 DEF SweepSuperseded, Swept
  <1>7. CASE swept' = swept
    BY <1>7 DEF Swept
  <1> QED BY <1>2, <1>3, <1>4, <1>5, <1>6, <1>7
          DEF Next, TurnStep, Begin, TakeAction, RecordAction, SkipAnnouncement, Announce,
              StartWait, TakeResult, Finished, Check, Send, Disconnect, Close, CancelMark,
              Runtime, Forget, vars, history

LEMMA SweepStep ==
    ASSUME ShapeInv, SweepInv, [Next]_vars
    PROVE  SweepInv'
  <1> SUFFICES ASSUME NEW q \in Requests
               PROVE  /\ Marked(q)' \/ turns'[q].ending = "cancelled" =>
                            SweepPending(q)' \/ Swept(q)'
                      /\ Swept(q)' => Rejected(UserOf[q], q)' \subseteq afterSweep'
    BY DEF SweepInv
  <1>1. Swept(q) => Swept(q)'
    BY SweptStep DEF Swept
  <1>2. ASSUME Marked(q)' \/ turns'[q].ending = "cancelled"
        PROVE  SweepPending(q)' \/ Swept(q)'
    <2>1. CASE Marked(q) \/ turns[q].ending = "cancelled"
      BY <1>1, <2>1, PendingStep DEF SweepInv
    <2> QED BY <1>2, <2>1, CancelledStep
  <1>3. ASSUME Swept(q)' PROVE Rejected(UserOf[q], q)' \subseteq afterSweep'
    <2>1. CASE ~Swept(q)
      BY <1>3, <2>1, SweepEmpties
    <2>2. CASE Swept(q) /\ RecordAction(q)
      <3>1. turns[q].cur \in afterSweep' /\ Rejected(UserOf[q], q) \subseteq afterSweep'
        BY <2>2, SweptStep DEF RecordAction, Swept, SweepInv
      <3>2. ASSUME NEW a \in ActionsOf(q), a # turns[q].cur
            PROVE  Unanswered(a)' => Unanswered(a)
        BY <2>2, <3>2, ScriptActions, RecordUnanswered
      <3> QED BY <3>1, <3>2 DEF Rejected, ActionsOf
    <2>3. CASE Swept(q) /\ ~RecordAction(q)
      BY <2>3, RejectedStep, SweptStep DEF SweepInv
    <2> QED BY <2>1, <2>2, <2>3
  <1> QED BY <1>2, <1>3

(* What a cancelled turn leaves unanswered was enqueued after the sweep, or *)
(* a sweep is still to come: between a mark and its sweep no order of the    *)
(* threads loses an action that was on record (conversation_cancel, the     *)
(* callers of begin_turn, cancel_request).                                  *)
THEOREM SweepMissesOnlyLateActions == Spec => []OnlyLateActionsEscape
  <1>1. Init => SweepInv
    BY TurnsAssumption DEF Init, S!StoreInit, SweepInv, Marked, S!IsCancelled, Swept
  <1>2. SweepInv => OnlyLateActionsEscape
    BY DEF SweepInv, OnlyLateActionsEscape, SweepPending, Swept
  <1> QED BY ShapeInit, ShapeStep, SweepStep, <1>1, <1>2, PTL DEF Spec

-----------------------------------------------------------------------------
(* A lazy turn holds one chunk at a time, and waits for an action only when *)
(* its action_dispatch chunk has been sent.                                 *)
LazyShape(r) ==
  /\ turns[r].stage \in {"new", "sweepPrev"} => turns[r].inner = "idle"
  /\ turns[r].stage \in {"new", "sweepPrev", "pulling"} => turns[r].buffer = <<>>
  /\ turns[r].stage \in {"holding", "sending"} =>
        /\ turns[r].inner \in {"idle", "announced"}
        /\ \E chunk \in Chunks :
              /\ turns[r].buffer = <<chunk>>
              /\ turns[r].inner = "announced" =>
                    chunk = [event |-> "dispatch", action |-> turns[r].cur]
  /\ turns[r].stage = "pulling" /\ turns[r].inner \in {"announced", "waiting"} =>
        turns[r].cur \in announced

LazyInv == \A r \in Requests \ EagerTurns : LazyShape(r)

LEMMA LazyProduce ==
    ASSUME ShapeInv, NEW r \in Requests \ EagerTurns, LazyShape(r), turns[r].stage = "pulling",
           NEW inner \in {"idle", "announced"}, NEW chunk \in Chunks,
           inner = "announced" => chunk = [event |-> "dispatch", action |-> turns[r].cur],
           Produce(r, inner, chunk)
    PROVE  LazyShape(r)'
  <1>0. turns \in [Requests -> Turn] /\ turns[r] \in Turn
    BY DEF ShapeInv, TypeOK
  <1>1. turns[r].buffer = <<>>
    BY DEF LazyShape
  <1>2. Append(turns[r].buffer, chunk) = <<chunk>>
    BY <1>1
  <1>3. /\ turns'[r].stage = "holding" /\ turns'[r].inner = inner
        /\ turns'[r].buffer = Append(turns[r].buffer, chunk)
        /\ inner = "announced" => turns'[r].cur = turns[r].cur
    BY <1>0 DEF Produce, Turn
  <1> QED BY <1>2, <1>3 DEF LazyShape

LEMMA LazyStep ==
    ASSUME ShapeInv, LazyInv, [Next]_vars
    PROVE  LazyInv'
  <1> SUFFICES ASSUME NEW q \in Requests \ EagerTurns PROVE LazyShape(q)'
    BY DEF LazyInv
  <1>0. turns \in [Requests -> Turn] /\ turns[q] \in Turn /\ LazyShape(q)
    BY DEF ShapeInv, TypeOK, LazyInv
  <1>1. CASE turns'[q] = turns[q] /\ announced \subseteq announced'
    BY <1>0, <1>1 DEF LazyShape
  <1>2. CASE Begin(q)
    <2>1. turns[q].stage = "new" /\ turns'[q].stage \in {"pulling", "sweepPrev"}
          /\ turns'[q].inner = turns[q].inner /\ turns'[q].buffer = turns[q].buffer
      BY <1>0, <1>2 DEF Begin, At, Turn
    <2> QED BY <1>0, <2>1 DEF LazyShape
  <1>3. CASE SweepSuperseded(q) \/ TakeAction(q) \/ RecordAction(q)
    <2>1. /\ turns[q].stage \in {"sweepPrev", "pulling"} /\ turns'[q].stage = "pulling"
          /\ turns'[q].inner \in {turns[q].inner, "handler", "recorded"}
          /\ turns[q].stage = "pulling" => turns'[q].inner \in {"handler", "recorded"}
      BY <1>0, <1>3 DEF SweepSuperseded, TakeAction, RecordAction, At, Inner, Go, Turn
    <2>2. turns'[q].buffer = turns[q].buffer
      BY <1>0, <1>3 DEF SweepSuperseded, TakeAction, RecordAction, Go, Turn
    <2> QED BY <1>0, <2>1, <2>2 DEF LazyShape
  <1>4. CASE SkipAnnouncement(q) \/ TakeResult(q) \/ Finished(q)
    <2>1. turns[q].stage = "pulling"
      BY <1>4 DEF SkipAnnouncement, TakeResult, Finished, Inner
    <2>2. turns[q].inner # "idle" => turns[q].cur \in ActionIds
      BY TurnFields, ScriptActions DEF TurnShape
    <2>3. PICK chunk \in Chunks : Produce(q, "idle", chunk)
      BY <1>4, <2>2 DEF SkipAnnouncement, TakeResult, Finished, Inner, Chunks
    <2> QED BY <1>0, <2>1, <2>3, LazyProduce
  <1>5. CASE Announce(q)
    <2>1. turns[q].stage = "pulling" /\ turns[q].cur \in ActionIds
      BY <1>5, TurnFields, ScriptActions DEF Announce, Inner, TurnShape
    <2>2. [event |-> "dispatch", action |-> turns[q].cur] \in Chunks
      BY <2>1 DEF Chunks
    <2>3. Produce(q, "announced", [event |-> "dispatch", action |-> turns[q].cur])
      BY <1>5 DEF Announce
    <2> QED BY <1>0, <2>1, <2>2, <2>3, LazyProduce
  <1>6. CASE StartWait(q)
    <2>1. /\ turns[q].stage = "pulling" /\ turns[q].inner = "announced"
          /\ turns'[q] = [turns[q] EXCEPT !.inner = "waiting"] /\ announced' = announced
      BY <1>0, <1>6 DEF StartWait, Inner
    <2> QED BY <1>0, <2>1 DEF LazyShape, Turn
  <1>7. CASE Check(q)
    <2>1. CASE turns'[q].stage = "closing"
      BY <2>1 DEF LazyShape
    <2>2. CASE Go(q, "sending")
      <3>1. /\ turns[q].stage = "holding" /\ turns'[q].stage = "sending"
            /\ turns'[q].inner = turns[q].inner /\ turns'[q].buffer = turns[q].buffer
            /\ turns'[q].cur = turns[q].cur
        BY <1>0, <1>7, <2>2 DEF Check, At, Go, Turn
      <3> QED BY <1>0, <3>1 DEF LazyShape
    <2> QED BY <1>0, <1>7, <2>1, <2>2 DEF Check, StopTurn, Turn
  <1>8. CASE Send(q)
    <2>1. turns[q].stage = "sending"
      BY <1>8 DEF Send, At
    <2>2. PICK chunk \in Chunks :
            /\ turns[q].buffer = <<chunk>> /\ turns[q].inner \in {"idle", "announced"}
            /\ turns[q].inner = "announced" =>
                  chunk = [event |-> "dispatch", action |-> turns[q].cur]
      BY <1>0, <2>1 DEF LazyShape
    <2>3. Head(turns[q].buffer) = chunk /\ Tail(turns[q].buffer) = <<>>
      BY <2>2
    <2>4. turns'[q].buffer = <<>> /\ turns'[q].inner = turns[q].inner /\ turns'[q].cur = turns[q].cur
          /\ turns'[q].stage \in {"closing", "pulling"}
      BY <1>0, <1>8, <2>3 DEF Send, Turn
    <2>5. turns[q].inner = "announced" => turns[q].cur \in announced'
      BY <1>8, <2>2, <2>3 DEF Send
    <2> QED BY <2>2, <2>4, <2>5 DEF LazyShape
  <1>9. CASE Disconnect(q) \/ Close(q)
    <2>1. turns'[q].stage \in {"closing", "ended"}
      BY <1>0, <1>9 DEF Disconnect, Close, StopTurn, Go, Turn
    <2> QED BY <2>1 DEF LazyShape
  <1>10. CASE TurnStep(q)
    BY <1>3, <1>4, <1>5, <1>6, <1>7, <1>8, <1>9, <1>10 DEF TurnStep
  <1> QED BY <1>1, <1>2, <1>10, TurnsFrame, OthersHistory DEF thread

(* Of the steps that change an action's fate towards its turn, only giving  *)
(* up does so without an answer.                                            *)
LEMMA OnlyWaitersGiveUp ==
    ASSUME ShapeInv, [Next]_vars, NEW a \in ActionIds, answer[a] = NoAnswer, told'[a] # told[a]
    PROVE  \E r \in Requests : turns[r].cur = a /\ Inner(r, "waiting")
  <1>0. told \in [ActionIds -> Statuses \cup {NoAnswer}]
    BY DEF ShapeInv, TypeOK
  <1>1. ASSUME NEW r \in Requests, SkipAnnouncement(r) PROVE FALSE
    BY <1>0, <1>1 DEF SkipAnnouncement, D!Tell
  <1>2. ASSUME NEW r \in Requests, TakeResult(r)
        PROVE  turns[r].cur = a /\ Inner(r, "waiting")
    BY <1>0, <1>2 DEF TakeResult, D!Tell, D!GiveUp
  <1>3. CASE told' = told
    BY <1>3
  <1> QED BY <1>1, <1>2, <1>3
          DEF Next, TurnStep, Begin, SweepSuperseded, TakeAction, RecordAction, Announce, StartWait,
              Finished, Check, Send, Disconnect, Close, CancelMark, CancelSweep, Runtime, Forget,
              D!Withdraw, D!Offer, D!Serve, D!Give, D!Answer, vars, dispatcher

(* A turn that yields chunk by chunk gives up on an action only when its    *)
(* client has had the action_dispatch event, whatever other threads do      *)
(* between the announcement and the wait (stream_action_dispatch_events).   *)
THEOREM GiveUpIsAnnounced == Spec => LazyGiveUpAnnounced
  <1>1. Init => LazyInv
    BY DEF Init, LazyInv, LazyShape
  <1>2. ASSUME ShapeInv, LazyInv, [Next]_vars
        PROVE  \A r \in Requests \ EagerTurns : \A a \in ActionsOf(r) :
                  answer[a] = NoAnswer /\ told'[a] # told[a] => a \in announced
    <2> SUFFICES ASSUME NEW r \in Requests \ EagerTurns, NEW a \in ActionsOf(r),
                        answer[a] = NoAnswer, told'[a] # told[a]
                 PROVE  a \in announced
      OBVIOUS
    <2>1. PICK q \in Requests : turns[q].cur = a /\ Inner(q, "waiting")
      BY <1>2, ScriptActions, OnlyWaitersGiveUp
    <2>2. a \in ActionsOf(q)
      BY <1>2, <2>1, TurnFields DEF Inner, TurnShape
    <2>3. q = r
      BY <2>2, TurnsAssumption
    <2> QED BY <1>2, <2>1, <2>3 DEF LazyInv, LazyShape, Inner
  <1> QED BY ShapeInit, ShapeStep, LazyStep, <1>1, <1>2, PTL DEF Spec, LazyGiveUpAnnounced

-----------------------------------------------------------------------------
(* The turns, the cancel handlers and the runtime use the dispatcher only   *)
(* within its promise: whatever ActionHandoff guarantees, which             *)
(* ActionDispatcherRefinement proves of the dispatcher, holds among them.   *)
THEOREM TurnsKeepToTheHandoff == Spec => D!Spec
  <1>1. Init => D!Init
    BY DEF Init
  <1>2. ASSUME ShapeInv, [Next]_vars PROVE [D!Next]_(D!vars)
    <2>1. ASSUME NEW r \in Requests, TurnStep(r) PROVE D!Next \/ UNCHANGED dispatcher
      <3>1. turns[r].inner # "idle" => turns[r].cur \in ActionIds
        BY <1>2, TurnFields, ScriptActions DEF TurnShape
      <3>2. CASE SweepSuperseded(r)
        <4>1. turns[r].prev \in Requests
          BY <1>2, <3>2, TurnFields DEF SweepSuperseded, At, TurnShape
        <4>2. Rejected(UserOf[r], turns[r].prev) \in SUBSET ActionIds
          BY <4>1, ScriptActions DEF Rejected
        <4> QED BY <3>2, <4>2 DEF SweepSuperseded, D!Next
      <3>3. CASE RecordAction(r)
        BY <3>1, <3>3, TurnsAssumption DEF RecordAction, Inner, D!Next
      <3>4. CASE SkipAnnouncement(r) \/ TakeResult(r)
        BY <3>1, <3>4 DEF SkipAnnouncement, TakeResult, Inner, D!Next
      <3> QED BY <2>1, <3>2, <3>3, <3>4
              DEF TurnStep, TakeAction, Announce, StartWait, Finished, Check, Send, Disconnect, Close
    <2>2. ASSUME NEW u \in Users, NEW r \in Requests, CancelSweep(u, r) PROVE D!Next
      <3>1. Rejected(u, r) \in SUBSET ActionIds
        BY ScriptActions DEF Rejected
      <3> QED BY <2>2, <3>1 DEF CancelSweep, D!Next
    <2>3. ASSUME NEW u \in Users, Runtime(u) PROVE D!Next
      <3>1. Met(u) \subseteq ActionIds
        BY <1>2 DEF Met, ShapeInv, TypeOK
      <3> QED BY <2>3, <3>1 DEF Runtime, D!Next
    <2>4. D!Next \/ UNCHANGED dispatcher
      BY <1>2, <2>1, <2>2, <2>3 DEF Next, Begin, CancelMark, Forget, vars
    <2> QED BY <2>4 DEF dispatcher, D!vars
  <1> QED BY ShapeInit, ShapeStep, <1>1, <1>2, PTL DEF Spec, D!Spec
=============================================================================
