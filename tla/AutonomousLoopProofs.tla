------------------------ MODULE AutonomousLoopProofs ------------------------
(***************************************************************************)
(* Theorems about AutonomousLoop for every number of loops, rounds, actions *)
(* and cancellations.                                                      *)
(***************************************************************************)
EXTENDS AutonomousLoop, SequenceTheorems, TLAPS

(* A round without a notify action has none among its pending actions, and  *)
(* a loop that still has to sweep superseded one.                           *)
LoopShape(l) ==
  /\ loops[l].stage = "sweepPrev" => loops[l].prev \in Requests
  /\ ~loops[l].notify => loops[l].todo \in Seq({"act", "followUp"})

(* An active turn is its user's own, was registered and has not ended.      *)
ActiveRuns ==
  \A u \in Users : active[u] # NoRequest =>
     /\ UserOf[active[u]] = u
     /\ active[u] \notin Background
     /\ loops[active[u]].stage \notin {"new", "ended"}

ShapeInv == TypeOK /\ ActiveRuns /\ \A l \in Requests : LoopShape(l)

LEMMA IdleLoop ==
    ASSUME NEW stage \in Stages
    PROVE  /\ Idle(stage) \in Loop
           /\ Idle(stage).stage = stage /\ Idle(stage).iteration = 0
           /\ Idle(stage).todo \in Seq({"act", "followUp"})
  <1>1. \A T : <<>> \in Seq(T)
    BY EmptySeq
  <1>2. Idle(stage) = [stage |-> stage, prev |-> NoRequest, iteration |-> 0, expired |-> FALSE,
                       notify |-> FALSE, todo |-> <<>>, doing |-> "none", status |-> "none"]
    BY DEF Idle
  <1>3. PICK empty \in Seq(Kinds) : empty = <<>>
    BY <1>1
  <1>4. Idle(stage) = [stage |-> stage, prev |-> NoRequest, iteration |-> 0, expired |-> FALSE,
                       notify |-> FALSE, todo |-> empty, doing |-> "none", status |-> "none"]
    BY <1>2, <1>3
  <1>5. Idle(stage) \in Loop
    BY <1>4, LoopAssumption DEF Loop, Status
  <1> QED BY <1>1, <1>2, <1>5

LEMMA PlanShape ==
    ASSUME NEW l \in Requests, NEW plan \in Plans(l)
    PROVE  /\ plan \in Seq(Kinds)
           /\ ~ReportsDone(plan) => plan \in Seq({"act", "followUp"})
  <1>1. PICK m \in 0..MaxActions[l] : plan \in [1..m -> {"notify", "act"}]
    BY DEF Plans, SeqOf
  <1>2. m \in Nat /\ DOMAIN plan = 1..m
    BY <1>1, LoopAssumption
  <1>3. Len(plan) = m
    BY <1>1, <1>2
  <1>4. plan \in [1..m -> Kinds]
    BY <1>1 DEF Kinds
  <1>5. ~ReportsDone(plan) => plan \in [1..m -> {"act", "followUp"}]
    BY <1>1, <1>3 DEF ReportsDone, Contains
  <1> QED BY <1>2, <1>4, <1>5, SeqDef

LEMMA LoopFields ==
    ASSUME ShapeInv, NEW l \in Requests
    PROVE  /\ loops \in [Requests -> Loop] /\ loops[l] \in Loop
           /\ loops[l].stage \in Stages /\ loops[l].iteration \in 0..MaxIterations
           /\ loops[l].expired \in BOOLEAN /\ loops[l].notify \in BOOLEAN
           /\ loops[l].todo \in Seq(Kinds) /\ loops[l].status \in Status
           /\ LoopShape(l)
  BY DEF ShapeInv, TypeOK, Loop

LEMMA ShapeInit == Init => ShapeInv
  <1> SUFFICES ASSUME Init PROVE ShapeInv
    OBVIOUS
  <1> USE LoopAssumption
  <1>1. Idle("new") \in Loop /\ Idle("new").stage = "new"
        /\ Idle("new").todo \in Seq({"act", "followUp"})
    BY IdleLoop DEF Stages
  <1>2. loops \in [Requests -> Loop] /\ \A l \in Requests : loops[l] = Idle("new")
    BY <1>1 DEF Init
  <1>3. TypeOK
    BY <1>2 DEF Init, TypeOK, S!StoreInit, S!StoreTypeOK
  <1>4. ActiveRuns
    BY DEF Init, S!StoreInit, ActiveRuns
  <1> QED BY <1>1, <1>2, <1>3, <1>4 DEF ShapeInv, LoopShape

-----------------------------------------------------------------------------
(* A loop no step moves keeps all but the status of its waiting action.     *)
Still(l) ==
  /\ loops'[l].stage = loops[l].stage /\ loops'[l].prev = loops[l].prev
  /\ loops'[l].iteration = loops[l].iteration /\ loops'[l].expired = loops[l].expired
  /\ loops'[l].notify = loops[l].notify /\ loops'[l].todo = loops[l].todo

OnlyLoop(l) ==
  /\ loops' \in [Requests -> Loop]
  /\ LoopShape(l)'
  /\ \A q \in Requests \ {l} : Still(q)

(* A step that gives one loop a record of the right shape.                  *)
LEMMA OneLoop ==
    ASSUME ShapeInv, NEW l \in Requests, NEW new \in Loop,
           loops' = [loops EXCEPT ![l] = new],
           new.stage = "sweepPrev" => new.prev \in Requests,
           ~new.notify => new.todo \in Seq({"act", "followUp"})
    PROVE  OnlyLoop(l) /\ loops'[l] = new
  <1>1. loops \in [Requests -> Loop]
    BY LoopFields
  <1>2. loops' \in [Requests -> Loop] /\ loops'[l] = new
    BY <1>1
  <1>3. \A q \in Requests \ {l} : loops'[q] = loops[q]
    BY <1>1
  <1> QED BY <1>2, <1>3 DEF OnlyLoop, LoopShape, Still

LEMMA LeaveLoop ==
    ASSUME ShapeInv, NEW l \in Requests, NEW stage \in {"closing", "ended", "unopened"},
           loops' = [loops EXCEPT ![l] = Idle(stage)]
    PROVE  OnlyLoop(l) /\ loops'[l].stage = stage /\ loops'[l].iteration = 0
  <1>1. Idle(stage) \in Loop /\ Idle(stage).stage = stage /\ Idle(stage).iteration = 0
        /\ Idle(stage).todo \in Seq({"act", "followUp"})
    BY IdleLoop DEF Stages
  <1>2. OnlyLoop(l) /\ loops'[l] = Idle(stage)
    BY <1>1, OneLoop
  <1> QED BY <1>1, <1>2

LEMMA GoLoop ==
    ASSUME ShapeInv, NEW l \in Requests, NEW stage \in Stages \ {"sweepPrev"}, Go(l, stage)
    PROVE  /\ OnlyLoop(l) /\ loops'[l].stage = stage
           /\ loops'[l].iteration = loops[l].iteration /\ loops'[l].expired = loops[l].expired
           /\ loops'[l].notify = loops[l].notify
  <1>1. loops[l] \in Loop /\ LoopShape(l)
    BY LoopFields
  <1>2. loops' = [loops EXCEPT ![l] = [loops[l] EXCEPT !.stage = stage]]
    BY LoopFields DEF Go
  <1> DEFINE new == [loops[l] EXCEPT !.stage = stage]
  <1>3. new \in Loop /\ new.stage = stage /\ new.iteration = loops[l].iteration
        /\ new.expired = loops[l].expired /\ new.notify = loops[l].notify /\ new.todo = loops[l].todo
    BY <1>1 DEF Loop
  <1> HIDE DEF new
  <1>4. OnlyLoop(l) /\ loops'[l] = new
    BY <1>1, <1>2, <1>3, OneLoop DEF LoopShape, new
  <1> QED BY <1>3, <1>4

(* Where one step of a loop takes it.                                       *)
Moves(l) ==
  /\ OnlyLoop(l)
  /\ loops'[l].iteration =< loops[l].iteration
  /\ \/ loops[l].stage = "new" /\ loops'[l].stage \in {"sweepPrev", "opening", "top"}
     \/ loops[l].stage = "sweepPrev" /\ loops'[l].stage = "opening"
     \/ loops[l].stage = "opening" /\ loops'[l].stage \in {"top", "unopened", "closing"}
     \/ loops[l].stage \in {"top", "asking", "dispatching"} /\ loops'[l].stage \in {"closing", "ended"}
     \/ loops[l].stage = "dispatching" /\ loops'[l].stage = "top" /\ ~loops[l].notify
        /\ loops'[l].expired = loops[l].expired
     \/ loops[l].stage = "closing" /\ loops'[l].stage = "ended"

LEMMA SweepMoves ==
    ASSUME ShapeInv, NEW l \in Requests, SweepSuperseded(l)
    PROVE  Moves(l)
  <1>0. loops \in [Requests -> Loop] /\ loops[l].stage = "sweepPrev" /\ loops[l].prev \in Requests
    BY LoopFields DEF SweepSuperseded, At, LoopShape
  <1> DEFINE swept == Swept(UserOf[l], loops[l].prev)
  <1>1. swept \in [Requests -> Loop]
    BY <1>0 DEF Swept, Loop, Status
  <1>2. \A q \in Requests :
           /\ swept[q].stage = loops[q].stage /\ swept[q].prev = loops[q].prev
           /\ swept[q].iteration = loops[q].iteration /\ swept[q].expired = loops[q].expired
           /\ swept[q].notify = loops[q].notify /\ swept[q].todo = loops[q].todo
    BY <1>0 DEF Swept, Loop
  <1>3. loops' = [swept EXCEPT ![l] = [swept[l] EXCEPT !.stage = "opening", !.prev = NoRequest]]
    BY <1>1 DEF SweepSuperseded
  <1> HIDE DEF swept
  <1>4. loops' \in [Requests -> Loop] /\ \A q \in Requests \ {l} : loops'[q] = swept[q]
    BY <1>1, <1>3 DEF Loop, Stages
  <1>5. /\ loops'[l].stage = "opening" /\ loops'[l].iteration = loops[l].iteration
        /\ loops'[l].notify = loops[l].notify /\ loops'[l].todo = loops[l].todo
    BY <1>1, <1>2, <1>3 DEF Loop
  <1>6. loops[l].iteration \in Nat /\ LoopShape(l)
    BY LoopFields, LoopAssumption
  <1> QED BY <1>0, <1>2, <1>4, <1>5, <1>6 DEF Moves, OnlyLoop, LoopShape, Still

LEMMA LeaveMoves ==
    ASSUME ShapeInv, NEW l \in Requests, Leave(l)
    PROVE  /\ OnlyLoop(l) /\ loops'[l].iteration = 0
           /\ loops'[l].stage = IF l \in Background THEN "ended" ELSE "closing"
  BY LeaveLoop DEF Leave

LEMMA StartMoves ==
    ASSUME ShapeInv, NEW l \in Requests, Register(l)
    PROVE  Moves(l) /\ loops[l].stage = "new" /\ loops'[l].stage \in {"sweepPrev", "opening"}
  <1> DEFINE prev == S!Superseded(UserOf[l], l)
             stage == IF prev = NoRequest THEN "opening" ELSE "sweepPrev"
             new == [loops[l] EXCEPT !.prev = prev, !.stage = stage]
  <1>1. prev \in Requests \cup {NoRequest}
    BY LoopAssumption DEF S!Superseded, ShapeInv, TypeOK, S!StoreTypeOK
  <1>2. loops \in [Requests -> Loop] /\ loops[l] \in Loop /\ LoopShape(l)
        /\ loops[l].stage = "new" /\ loops[l].iteration \in Nat
    BY LoopFields, LoopAssumption DEF Register, At
  <1>3. loops' = [loops EXCEPT ![l] = new]
    BY <1>2 DEF Register
  <1>4. stage \in {"opening", "sweepPrev"} /\ (stage = "sweepPrev" => prev \in Requests)
    BY <1>1
  <1> HIDE DEF prev, stage
  <1>5. new \in Loop /\ new.stage = stage /\ new.prev = prev /\ new.iteration = loops[l].iteration
        /\ new.notify = loops[l].notify /\ new.todo = loops[l].todo
    BY <1>1, <1>2, <1>4 DEF Loop, Stages
  <1> HIDE DEF new
  <1>6. OnlyLoop(l) /\ loops'[l] = new
    BY <1>2, <1>3, <1>4, <1>5, OneLoop DEF LoopShape
  <1> QED BY <1>2, <1>4, <1>5, <1>6 DEF Moves

LEMMA StepMoves ==
    ASSUME ShapeInv, NEW l \in Requests,
           StartThread(l) \/ StartStream(l) \/ RunConversation(l) \/ StopLooping(l)
              \/ AskFails(l) \/ EndRound(l) \/ Close(l) \/ Disconnect(l)
    PROVE  Moves(l)
  <1>0. loops[l].iteration \in Nat
    BY LoopFields, LoopAssumption
  <1>1. CASE StartThread(l)
    BY <1>0, <1>1, GoLoop DEF StartThread, At, Moves, Stages
  <1>2. CASE StartStream(l)
    <2>1. CASE Go(l, "top")
      BY <1>0, <1>2, <2>1, GoLoop DEF StartStream, At, Moves, Stages
    <2>2. CASE loops' = [loops EXCEPT ![l] = Idle("unopened")]
      <3>1. OnlyLoop(l) /\ loops'[l].stage = "unopened" /\ loops'[l].iteration = 0
        BY <2>2, LeaveLoop
      <3> QED BY <1>0, <1>2, <3>1 DEF StartStream, At, Moves
    <2> QED BY <1>2, <2>1, <2>2 DEF StartStream
  <1>3. CASE RunConversation(l)
    BY <1>0, <1>3, LeaveMoves, LoopAssumption DEF RunConversation, At, Moves
  <1>4. CASE StopLooping(l) \/ AskFails(l)
    BY <1>0, <1>4, LeaveMoves DEF StopLooping, AskFails, At, Moves
  <1>5. CASE EndRound(l)
    <2>1. CASE loops[l].notify
      BY <1>0, <1>5, <2>1, LeaveMoves DEF EndRound, At, Moves
    <2>2. CASE ~loops[l].notify
      BY <1>0, <1>5, <2>2, GoLoop DEF EndRound, At, Moves, Stages
    <2> QED BY <2>1, <2>2
  <1>6. CASE Close(l)
    <2>1. OnlyLoop(l) /\ loops'[l].stage = "ended" /\ loops'[l].iteration = 0
      BY <1>6, LeaveLoop DEF Close
    <2> QED BY <1>0, <1>6, <2>1 DEF Close, At, Moves
  <1>7. CASE Disconnect(l)
    BY <1>0, <1>7, LeaveMoves DEF Disconnect, At, Moves
  <1> QED BY <1>1, <1>2, <1>3, <1>4, <1>5, <1>6, <1>7

LEMMA NextIterationMoves ==
    ASSUME ShapeInv, NEW l \in Requests, NextIteration(l)
    PROVE  /\ OnlyLoop(l)
           /\ loops[l].stage = "top" /\ loops'[l].stage = "asking"
           /\ ~loops[l].expired /\ loops'[l].expired = loops[l].expired
  <1> DEFINE new == [loops[l] EXCEPT !.iteration = loops[l].iteration + 1, !.stage = "asking"]
  <1>1. loops[l] \in Loop /\ LoopShape(l) /\ loops[l].stage = "top" /\ ~loops[l].expired
        /\ loops[l].iteration + 1 \in 0..MaxIterations
    BY LoopFields, LoopAssumption DEF NextIteration, At, MayGoOn
  <1>2. loops' = [loops EXCEPT ![l] = new]
    BY LoopFields DEF NextIteration
  <1>3. new \in Loop /\ new.stage = "asking" /\ new.expired = loops[l].expired
        /\ new.notify = loops[l].notify /\ new.todo = loops[l].todo
    BY <1>1 DEF Loop, Stages
  <1> HIDE DEF new
  <1>4. OnlyLoop(l) /\ loops'[l] = new
    BY <1>1, <1>2, <1>3, OneLoop DEF LoopShape
  <1> QED BY <1>1, <1>3, <1>4

LEMMA AskMoves ==
    ASSUME ShapeInv, NEW l \in Requests, Ask(l)
    PROVE  /\ OnlyLoop(l)
           /\ loops[l].stage = "asking" /\ loops'[l].stage \in {"closing", "ended", "dispatching"}
           /\ loops'[l].iteration =< loops[l].iteration
           /\ loops'[l].stage = "dispatching" => loops'[l].expired = loops[l].expired
  <1>0. loops[l] \in Loop /\ loops[l].stage = "asking" /\ loops[l].iteration \in Nat
    <2>1. loops[l] \in Loop /\ loops[l].iteration \in Nat
      BY LoopFields, LoopAssumption
    <2> QED BY <2>1 DEF Ask, At
  <1>1. CASE Leave(l)
    <2>1. OnlyLoop(l) /\ loops'[l].iteration = 0 /\ loops'[l].stage \in {"closing", "ended"}
      BY <1>1, LeaveMoves
    <2> QED BY <1>0, <2>1
  <1>2. ASSUME NEW plan \in Plans(l),
               loops' = [loops EXCEPT ![l].todo = plan, ![l].notify = ReportsDone(plan),
                                      ![l].stage = "dispatching"]
        PROVE  /\ OnlyLoop(l) /\ loops'[l].stage = "dispatching"
               /\ loops'[l].iteration = loops[l].iteration
               /\ loops'[l].expired = loops[l].expired
    <2> DEFINE reports == ReportsDone(plan)
               new == [loops[l] EXCEPT !.todo = plan, !.notify = reports, !.stage = "dispatching"]
    <2>1. plan \in Seq(Kinds) /\ reports \in BOOLEAN /\ (~reports => plan \in Seq({"act", "followUp"}))
      BY PlanShape DEF ReportsDone, Contains
    <2>2. loops' = [loops EXCEPT ![l] = new]
      BY <1>2, LoopFields
    <2> HIDE DEF reports
    <2>3. new \in Loop /\ new.stage = "dispatching" /\ new.iteration = loops[l].iteration
          /\ new.notify = reports /\ new.todo = plan /\ new.expired = loops[l].expired
      BY <1>0, <2>1 DEF Loop, Stages
    <2> HIDE DEF new
    <2>4. OnlyLoop(l) /\ loops'[l] = new
      BY <2>1, <2>2, <2>3, OneLoop
    <2> QED BY <2>3, <2>4
  <1>3. CASE \E plan \in Plans(l) \ {<<>>} :
               loops' = [loops EXCEPT ![l].todo = plan, ![l].notify = ReportsDone(plan),
                                      ![l].stage = "dispatching"]
    <2>1. /\ OnlyLoop(l) /\ loops'[l].stage = "dispatching"
          /\ loops'[l].iteration = loops[l].iteration
          /\ loops'[l].expired = loops[l].expired
      BY <1>2, <1>3
    <2> QED BY <1>0, <2>1
  <1> QED BY <1>1, <1>3 DEF Ask

(* The steps within a round.                                                *)
LEMMA RoundMoves ==
    ASSUME ShapeInv, NEW l \in Requests, Enqueue(l) \/ TakeResult(l)
    PROVE  /\ OnlyLoop(l)
           /\ loops[l].stage = "dispatching" /\ loops'[l].stage = "dispatching"
           /\ loops'[l].iteration = loops[l].iteration /\ loops'[l].expired = loops[l].expired
           /\ loops'[l].notify = loops[l].notify
           /\ loops[l].todo # <<>> /\ Head(loops[l].todo) = "notify" => loops[l].notify
  <1>0. loops \in [Requests -> Loop] /\ loops[l] \in Loop /\ LoopShape(l)
        /\ loops[l].stage = "dispatching" /\ loops[l].todo \in Seq(Kinds)
    BY LoopFields DEF Enqueue, TakeResult, At
  <1>1. loops[l].todo # <<>> =>
           /\ Head(loops[l].todo) \in Kinds /\ Tail(loops[l].todo) \in Seq(Kinds)
           /\ ~loops[l].notify => /\ Head(loops[l].todo) \in {"act", "followUp"}
                                  /\ Tail(loops[l].todo) \in Seq({"act", "followUp"})
    BY <1>0, HeadTailProperties DEF LoopShape
  <1>2. ASSUME NEW todo \in Seq(Kinds), NEW doing \in Kinds \cup {"none"}, NEW status \in Status,
               ~loops[l].notify => todo \in Seq({"act", "followUp"}),
               loops' = [loops EXCEPT ![l] = [loops[l] EXCEPT !.todo = todo, !.doing = doing,
                                                              !.status = status]]
        PROVE  /\ OnlyLoop(l) /\ loops'[l].stage = "dispatching"
               /\ loops'[l].iteration = loops[l].iteration /\ loops'[l].expired = loops[l].expired
               /\ loops'[l].notify = loops[l].notify
    <2> DEFINE new == [loops[l] EXCEPT !.todo = todo, !.doing = doing, !.status = status]
    <2>1. new \in Loop /\ new.stage = "dispatching" /\ new.iteration = loops[l].iteration
          /\ new.notify = loops[l].notify /\ new.todo = todo /\ new.expired = loops[l].expired
      BY <1>0 DEF Loop
    <2>2. loops' = [loops EXCEPT ![l] = new]
      BY <1>2
    <2> HIDE DEF new
    <2>3. OnlyLoop(l) /\ loops'[l] = new
      BY <1>2, <2>1, <2>2, OneLoop
    <2> QED BY <2>1, <2>3
  <1>3. CASE Enqueue(l)
    <2>1. PICK status \in {"open", "completed"} :
            loops' = [loops EXCEPT ![l] = [loops[l] EXCEPT !.todo = Tail(loops[l].todo),
                                             !.doing = Head(loops[l].todo), !.status = status]]
      BY <1>0, <1>3 DEF Enqueue
    <2>2. loops[l].todo # <<>> /\ status \in Status
      BY <1>3 DEF Enqueue, Status
    <2> QED BY <1>0, <1>1, <1>2, <2>1, <2>2
  <1>4. CASE TakeResult(l)
    <2>1. PICK found \in BOOLEAN :
            loops' = [loops EXCEPT ![l] = [loops[l] EXCEPT
                        !.todo = IF found THEN Append(loops[l].todo, "followUp") ELSE loops[l].todo,
                        !.doing = "none", !.status = "none"]]
      BY <1>0, <1>4 DEF TakeResult
    <2> DEFINE todo == IF found THEN Append(loops[l].todo, "followUp") ELSE loops[l].todo
    <2>2. todo \in Seq(Kinds) /\ (~loops[l].notify => todo \in Seq({"act", "followUp"}))
      BY <1>0, AppendProperties DEF LoopShape, Kinds
    <2> HIDE DEF todo
    <2>3. loops' = [loops EXCEPT ![l] = [loops[l] EXCEPT !.todo = todo, !.doing = "none",
                                                         !.status = "none"]]
      BY <2>1 DEF todo
    <2> QED BY <1>0, <1>1, <1>2, <2>2, <2>3 DEF Status
  <1> QED BY <1>3, <1>4

(* The steps that move no loop: the runtime, the cancel endpoint, the ttl.  *)
Outside ==
  \/ \E l \in Requests, status \in {"completed", "failed"} : Answer(l, status)
  \/ \E u \in Users, requested \in Cancellable : CancelMark(u, requested)
  \/ \E u \in Users, l \in Requests : CancelSweep(u, l) \/ Forget(u, l)
  \/ UNCHANGED vars

LEMMA OutsideStill ==
    ASSUME ShapeInv, Outside
    PROVE  /\ loops' \in [Requests -> Loop]
           /\ \A q \in Requests : Still(q)
           /\ UNCHANGED rounds
  <1>0. loops \in [Requests -> Loop]
    BY DEF ShapeInv, TypeOK
  <1>1. ASSUME loops' = loops
        PROVE  loops' \in [Requests -> Loop] /\ \A q \in Requests : Still(q)
    BY <1>0, <1>1 DEF Still
  <1>2. ASSUME NEW l \in Requests, NEW status \in Status,
               loops' = [loops EXCEPT ![l].status = status]
        PROVE  loops' \in [Requests -> Loop] /\ \A q \in Requests : Still(q)
    BY <1>0, <1>2 DEF Loop, Still
  <1>3. \A l \in Requests, status \in {"completed", "failed"} :
           Answer(l, status) => loops' = [loops EXCEPT ![l].status = status] /\ UNCHANGED rounds
    BY DEF Answer
  <1>4. \A u \in Users, l \in Requests :
           CancelSweep(u, l) => /\ loops' = loops \/ loops' = [loops EXCEPT ![l].status = "failed"]
                                /\ UNCHANGED rounds
    BY DEF CancelSweep, Swept
  <1>5. {"completed", "failed"} \subseteq Status
    BY DEF Status
  <1>6. UNCHANGED rounds
    BY <1>3, <1>4 DEF Outside, CancelMark, Forget, vars
  <1>7. \/ loops' = loops
        \/ \E l \in Requests, status \in Status : loops' = [loops EXCEPT ![l].status = status]
    BY <1>3, <1>4, <1>5 DEF Outside, CancelMark, Forget, vars
  <1> QED BY <1>1, <1>2, <1>6, <1>7

LEMMA TimeMoves ==
    ASSUME ShapeInv, NEW l \in Requests, TimePasses(l)
    PROVE  /\ OnlyLoop(l) /\ loops'[l].stage = loops[l].stage
           /\ loops'[l].iteration = loops[l].iteration /\ loops'[l].notify = loops[l].notify
           /\ loops[l].stage \in {"top", "asking", "dispatching"}
           /\ ~loops[l].expired /\ loops'[l].expired
  <1>0. loops \in [Requests -> Loop] /\ loops[l] \in Loop /\ LoopShape(l)
    BY LoopFields
  <1> DEFINE new == [loops[l] EXCEPT !.expired = TRUE]
  <1>1. loops' = [loops EXCEPT ![l] = new]
    BY <1>0 DEF TimePasses
  <1>2. new \in Loop /\ new.stage = loops[l].stage /\ new.prev = loops[l].prev
        /\ new.iteration = loops[l].iteration
        /\ new.notify = loops[l].notify /\ new.todo = loops[l].todo /\ new.expired
    BY <1>0 DEF Loop
  <1> HIDE DEF new
  <1>3. OnlyLoop(l) /\ loops'[l] = new
    BY <1>0, <1>1, <1>2, OneLoop DEF LoopShape
  <1> QED BY <1>2, <1>3 DEF TimePasses

(* Every step, by the loop it moves and how.                                *)
LEMMA Steps ==
    ASSUME ShapeInv, [Next]_vars
    PROVE  \/ Outside
           \/ \E l \in Requests :
                 \/ Register(l) \/ SweepSuperseded(l) \/ NextIteration(l) \/ Ask(l)
                 \/ Enqueue(l) \/ TakeResult(l) \/ TimePasses(l)
                 \/ StartThread(l) \/ StartStream(l) \/ RunConversation(l) \/ StopLooping(l)
                       \/ AskFails(l) \/ EndRound(l) \/ Close(l) \/ Disconnect(l)
  BY DEF Next, LoopStep, Outside

(* The moving loop is the only one.                                         *)
LEMMA StepsMoveOne ==
    ASSUME ShapeInv, NEW l \in Requests,
           \/ Register(l) \/ SweepSuperseded(l) \/ NextIteration(l) \/ Ask(l)
           \/ Enqueue(l) \/ TakeResult(l) \/ TimePasses(l)
           \/ StartThread(l) \/ StartStream(l) \/ RunConversation(l) \/ StopLooping(l)
                 \/ AskFails(l) \/ EndRound(l) \/ Close(l) \/ Disconnect(l)
    PROVE  OnlyLoop(l)
  BY StartMoves, SweepMoves, NextIterationMoves, AskMoves, RoundMoves, TimeMoves, StepMoves
     DEF Moves

-----------------------------------------------------------------------------
(* The histories count up to 2 and the store keeps its types.               *)
LEMMA RoundsType ==
    ASSUME ShapeInv, [Next]_vars
    PROVE  {late, overdue}' \subseteq [Requests -> 0..2] /\ reported' \subseteq Requests
  <1> USE DEF ShapeInv, TypeOK
  <1>1. CASE UNCHANGED rounds
    BY <1>1 DEF rounds
  <1>2. ASSUME NEW l \in Requests, Ask(l)
        PROVE  {late, overdue}' \subseteq [Requests -> 0..2] /\ reported' \subseteq Requests
    <2>1. ASSUME NEW count \in [Requests -> 0..2], NEW counts \in BOOLEAN
          PROVE  CountIf(count, l, counts) \in [Requests -> 0..2]
      BY DEF CountIf
    <2>2. (l \in stopped) \in BOOLEAN /\ loops[l].expired \in BOOLEAN
      BY LoopFields
    <2>3. late' \in [Requests -> 0..2] /\ overdue' \in [Requests -> 0..2] /\ reported' = reported
      BY <1>2, <2>1, <2>2 DEF Ask
    <2> QED BY <2>3
  <1>3. ASSUME NEW l \in Requests, Enqueue(l)
        PROVE  {late, overdue}' \subseteq [Requests -> 0..2] /\ reported' \subseteq Requests
    BY <1>3 DEF Enqueue
  <1> QED BY <1>1, <1>2, <1>3, Steps, OutsideStill
          DEF Register, SweepSuperseded, NextIteration, TakeResult, TimePasses, StartThread,
              StartStream, RunConversation, StopLooping, AskFails, EndRound, Close, Disconnect

LEMMA StoreType ==
    ASSUME ShapeInv, [Next]_vars
    PROVE  /\ S!StoreTypeOK' /\ sweeps' \subseteq Users \X Requests
           /\ cancels' \in 0..MaxCancels /\ stopped' \subseteq Requests
  <1> USE LoopAssumption DEF ShapeInv, TypeOK, S!StoreTypeOK
  <1>1. CASE UNCHANGED <<store, cancelling>>
    BY <1>1 DEF store, cancelling
  <1>2. ASSUME NEW l \in Requests, Register(l)
        PROVE  /\ S!StoreTypeOK' /\ sweeps' \subseteq Users \X Requests
               /\ cancels' \in 0..MaxCancels /\ stopped' \subseteq Requests
    <2>1. S!Superseded(UserOf[l], l) \in Requests \cup {NoRequest}
      BY DEF S!Superseded
    <2> QED BY <1>2, <2>1 DEF Register, S!BeginTurn
  <1>3. ASSUME NEW l \in Requests, Close(l)
        PROVE  S!StoreTypeOK' /\ UNCHANGED cancelling
    BY <1>3 DEF Close, S!FinishTurn
  <1>4. ASSUME NEW u \in Users, NEW requested \in Cancellable, CancelMark(u, requested)
        PROVE  /\ S!StoreTypeOK' /\ sweeps' \subseteq Users \X Requests
               /\ cancels' \in 0..MaxCancels /\ stopped' \subseteq Requests
    <2>1. S!CancelTarget(u, requested) \in Requests
      BY <1>4 DEF CancelMark, S!CancelTurn, S!CancelTarget
    <2>2. S!StoreTypeOK'
      BY <1>4, <2>1 DEF CancelMark, S!CancelTurn
    <2>3. sweeps' \subseteq Users \X Requests /\ stopped' \subseteq Requests
      BY <1>4, <2>1 DEF CancelMark
    <2>4. cancels' \in 0..MaxCancels
      BY <1>4 DEF CancelMark
    <2> QED BY <2>2, <2>3, <2>4
  <1>5. ASSUME NEW u \in Users, NEW l \in Requests, CancelSweep(u, l) \/ Forget(u, l)
        PROVE  /\ S!StoreTypeOK' /\ sweeps' \subseteq Users \X Requests
               /\ cancels' \in 0..MaxCancels /\ stopped' \subseteq Requests
    BY <1>5 DEF CancelSweep, Forget, S!Prune, store, cancelling
  <1>6. CASE Outside
    BY <1>1, <1>4, <1>5, <1>6 DEF Outside, Answer, vars
  <1> QED BY <1>1, <1>2, <1>3, <1>6, Steps
          DEF SweepSuperseded, NextIteration, Ask, Enqueue, TakeResult, TimePasses, StartThread,
              StartStream, RunConversation, StopLooping, AskFails, EndRound, Disconnect, cancelling

LEMMA ActiveStep ==
    ASSUME ShapeInv, [Next]_vars
    PROVE  ActiveRuns'
  <1> SUFFICES ASSUME NEW u \in Users, active'[u] # NoRequest
               PROVE  /\ UserOf[active'[u]] = u
                      /\ active'[u] \notin Background
                      /\ loops'[active'[u]].stage \notin {"new", "ended"}
    BY DEF ActiveRuns
  <1> DEFINE a == active'[u]
  <1>0. active \in [Users -> Requests \cup {NoRequest}] /\ UserOf \in [Requests -> Users]
    BY LoopAssumption DEF ShapeInv, TypeOK, S!StoreTypeOK
  <1>1. a \in Requests
    BY StoreType DEF S!StoreTypeOK
  <1>2. CASE a = active[u]
    <2>1. UserOf[a] = u /\ a \notin Background /\ loops[a].stage \notin {"new", "ended"}
      BY <1>2 DEF ShapeInv, ActiveRuns
    <2>2. CASE Still(a)
      BY <2>1, <2>2 DEF Still
    <2>3. CASE Close(a)
      BY <1>0, <1>1, <1>2, <2>1, <2>3, LoopAssumption DEF Close, S!FinishTurn
    <2>4. CASE NextIteration(a) \/ Ask(a) \/ Enqueue(a) \/ TakeResult(a) \/ TimePasses(a)
               \/ Register(a) \/ SweepSuperseded(a)
      <3>1. Ask(a) => loops'[a].stage \in {"closing", "dispatching"}
        <4>1. ASSUME Leave(a) PROVE loops'[a].stage = "closing"
          BY <1>1, <2>1, <4>1, LeaveMoves
        <4>2. ASSUME NEW plan, loops' = [loops EXCEPT ![a].todo = plan,
                                           ![a].notify = ReportsDone(plan),
                                           ![a].stage = "dispatching"]
              PROVE  loops'[a].stage = "dispatching"
          BY <1>1, <4>2, LoopFields DEF Loop
        <4> QED BY <4>1, <4>2 DEF Ask
      <3> QED BY <1>1, <2>1, <2>4, <3>1, NextIterationMoves, RoundMoves, TimeMoves, StartMoves,
                 SweepMoves DEF Moves, SweepSuperseded, At
    <2>5. CASE StartThread(a) \/ StartStream(a) \/ RunConversation(a) \/ StopLooping(a)
               \/ AskFails(a) \/ EndRound(a) \/ Disconnect(a)
      <3>1. Leave(a) => loops'[a].stage = "closing"
        BY <1>1, <2>1, LeaveMoves
      <3>2. /\ Go(a, "top") => loops'[a].stage = "top"
            /\ loops' = [loops EXCEPT ![a] = Idle("unopened")] => loops'[a].stage = "unopened"
        BY <1>1, GoLoop, LeaveLoop DEF Stages
      <3> QED BY <2>1, <2>5, <3>1, <3>2
              DEF StartThread, StartStream, RunConversation, StopLooping, AskFails, EndRound,
                  Disconnect
    <2> QED BY <1>1, <2>1, <2>2, <2>3, <2>4, <2>5, Steps, StepsMoveOne, OutsideStill DEF OnlyLoop
  <1>3. CASE a # active[u]
    <2>1. PICK l \in Requests : Register(l) /\ UserOf[l] = u /\ a = l
      <3>1. ASSUME NEW l \in Requests, Register(l) PROVE UserOf[l] = u /\ a = l
        BY <1>0, <1>3, <3>1 DEF Register, S!BeginTurn
      <3>2. ASSUME NEW l \in Requests, Close(l) PROVE FALSE
        BY <1>0, <1>1, <1>3, <3>2, LoopAssumption DEF Close, S!FinishTurn
      <3>3. CASE UNCHANGED store
        BY <1>3, <3>3 DEF store
      <3>4. CASE Outside
        <4>1. ASSUME NEW v \in Users, NEW requested \in Cancellable, CancelMark(v, requested)
              PROVE  FALSE
          BY <1>0, <1>1, <1>3, <4>1, LoopAssumption DEF CancelMark, S!CancelTurn
        <4>2. active' = active
          BY <3>4, <4>1 DEF Outside, Answer, CancelSweep, Forget, S!Prune, store, vars
        <4> QED BY <1>3, <4>2
      <3> QED BY <3>1, <3>2, <3>3, <3>4, Steps
              DEF SweepSuperseded, NextIteration, Ask, Enqueue, TakeResult, TimePasses,
                  StartThread, StartStream, RunConversation, StopLooping, AskFails, EndRound,
                  Disconnect
    <2>2. a \notin Background /\ loops'[a].stage \in {"sweepPrev", "opening"}
      BY <2>1, StartMoves DEF Register
    <2> QED BY <2>1, <2>2
  <1> QED BY <1>2, <1>3

LEMMA LoopsStep ==
    ASSUME ShapeInv, [Next]_vars
    PROVE  loops' \in [Requests -> Loop] /\ \A q \in Requests : LoopShape(q)'
  <1>1. ASSUME NEW q \in Requests, Still(q) PROVE LoopShape(q)'
    BY <1>1, LoopFields DEF Still, LoopShape
  <1>2. CASE Outside
    BY <1>1, <1>2, OutsideStill
  <1>3. ASSUME NEW l \in Requests, OnlyLoop(l)
        PROVE  loops' \in [Requests -> Loop] /\ \A q \in Requests : LoopShape(q)'
    BY <1>1, <1>3 DEF OnlyLoop
  <1> QED BY <1>2, <1>3, Steps, StepsMoveOne

LEMMA ShapeStep == ShapeInv /\ [Next]_vars => ShapeInv'
  BY RoundsType, StoreType, ActiveStep, LoopsStep DEF ShapeInv, TypeOK

(* Every reachable state of the loops and the store has the types the model *)
(* gives them.                                                              *)
THEOREM LoopTypeCorrect == Spec => []TypeOK
  <1>1. ShapeInv => TypeOK
    BY DEF ShapeInv
  <1> QED BY ShapeInit, ShapeStep, <1>1, PTL DEF Spec

(* A loop that has ended is not its user's active turn, whichever end it    *)
(* took: a cancellation that names no request is never spent on it          *)
(* (deepthink_watch, stream's finally clause).                              *)
THEOREM EndedLoopsLetGo == Spec => []EndedLoopReleased
  <1>1. ShapeInv => EndedLoopReleased
    BY LoopAssumption DEF ShapeInv, ActiveRuns, EndedLoopReleased, At
  <1> QED BY ShapeInit, ShapeStep, <1>1, PTL DEF Spec

-----------------------------------------------------------------------------
(* A stopped loop stays marked while it runs, so that it never passes the   *)
(* check again; the round it counts is one it was past the check for.       *)
StopInv ==
  \A l \in Requests \ (Background \cup LongRounds) :
     /\ l \in stopped =>
           /\ loops[l].stage # "new"
           /\ Marked(l) \/ loops[l].stage \in {"unopened", "ended"}
     /\ \/ late[l] = 0
        \/ /\ late[l] = 1 /\ l \in stopped
           /\ loops[l].stage \in {"dispatching", "top", "closing", "ended"}

LEMMA MarkStep ==
    ASSUME ShapeInv, StopInv, [Next]_vars, NEW q \in Requests \ (Background \cup LongRounds)
    PROVE  /\ q \in stopped /\ Marked(q) => Marked(q)' \/ loops'[q].stage \in {"unopened", "ended"}
           /\ q \in stopped' \ stopped => Marked(q)' /\ loops'[q].stage # "new"
           /\ stopped \subseteq stopped'
  <1>0. /\ UserOf \in [Requests -> Users] /\ active \in [Users -> Requests \cup {NoRequest}]
        /\ loops \in [Requests -> Loop]
    BY LoopAssumption DEF ShapeInv, TypeOK, S!StoreTypeOK
  <1> DEFINE Goal == /\ q \in stopped /\ Marked(q) =>
                          Marked(q)' \/ loops'[q].stage \in {"unopened", "ended"}
                     /\ q \in stopped' \ stopped => Marked(q)' /\ loops'[q].stage # "new"
                     /\ stopped \subseteq stopped'
  <1>1. CASE cancelled' = cancelled /\ stopped' = stopped
    BY <1>1 DEF Marked, S!IsCancelled
  <1>2. ASSUME NEW l \in Requests, Register(l) PROVE Goal
    <2> DEFINE prev == S!Superseded(UserOf[l], l)
    <2>1. cancelled \subseteq cancelled' /\ stopped' = stopped \cup ({prev} \ {NoRequest})
      BY <1>2 DEF Register, S!BeginTurn
    <2>2. CASE q = prev /\ prev # NoRequest
      <3>1. UserOf[q] = UserOf[l] /\ loops[q].stage # "new" /\ q # l
        BY <1>0, <2>2 DEF S!Superseded, ShapeInv, ActiveRuns
      <3>2. <<UserOf[q], q>> \in cancelled'
        BY <1>2, <2>2, <3>1 DEF Register, S!BeginTurn
      <3>3. loops'[q].stage = loops[q].stage
        BY <1>2, <3>1, StepsMoveOne DEF OnlyLoop, Still
      <3> QED BY <2>1, <3>1, <3>2, <3>3 DEF Marked, S!IsCancelled
    <2> QED BY <2>1, <2>2 DEF Marked, S!IsCancelled
  <1>3. ASSUME NEW u \in Users, NEW requested \in Cancellable, CancelMark(u, requested)
        PROVE  Goal
    <2>1. cancelled \subseteq cancelled' /\ stopped \subseteq stopped' /\ loops' = loops
      BY <1>3 DEF CancelMark, S!CancelTurn
    <2>2. q \in stopped' \ stopped =>
             /\ q = S!CancelTarget(u, requested) /\ UserOf[q] = u /\ Running(q)
      BY <1>3 DEF CancelMark
    <2>3. q \in stopped' \ stopped => <<UserOf[q], q>> \in cancelled'
      BY <1>3, <2>2 DEF CancelMark, S!CancelTurn
    <2> QED BY <2>1, <2>2, <2>3 DEF Marked, S!IsCancelled, Running
  <1>4. ASSUME NEW u \in Users, NEW l \in Requests, Forget(u, l) PROVE Goal
    <2>1. /\ cancelled' = cancelled \ {<<u, l>>} /\ stopped' = stopped /\ loops' = loops
          /\ Running(l) => l \in LongRounds
      BY <1>4 DEF Forget, S!Prune, cancelling
    <2>2. CASE q = l /\ q \in stopped
      BY <2>1, <2>2 DEF StopInv, Running
    <2> QED BY <2>1, <2>2 DEF Marked, S!IsCancelled
  <1>5. ASSUME NEW l \in Requests, Close(l) PROVE cancelled' = cancelled /\ stopped' = stopped
    BY <1>5 DEF Close, S!FinishTurn, cancelling
  <1>6. CASE Outside
    BY <1>1, <1>3, <1>4, <1>6 DEF Outside, Answer, CancelSweep, vars, store, cancelling
  <1> QED BY <1>1, <1>2, <1>5, <1>6, Steps
          DEF SweepSuperseded, NextIteration, Ask, Enqueue, TakeResult, TimePasses, StartThread,
              StartStream, RunConversation, StopLooping, AskFails, EndRound, Disconnect, store,
              cancelling

(* Rounds are counted only when the core is asked.                          *)
LEMMA CountStep ==
    ASSUME ShapeInv, [Next]_vars, NEW q \in Requests
    PROVE  \/ late'[q] = late[q] /\ overdue'[q] = overdue[q]
           \/ /\ Ask(q) /\ late'[q] \in {late[q], late[q] + 1}
              /\ overdue'[q] \in {overdue[q], overdue[q] + 1}
              /\ q \notin stopped => late'[q] = late[q]
              /\ ~loops[q].expired => overdue'[q] = overdue[q]
  <1>1. CASE UNCHANGED <<late, overdue>>
    BY <1>1
  <1>2. ASSUME NEW l \in Requests, Ask(l), l # q
        PROVE  late'[q] = late[q] /\ overdue'[q] = overdue[q]
    BY <1>2 DEF Ask, CountIf, ShapeInv, TypeOK
  <1>3. CASE Ask(q)
    <2>1. /\ late' = CountIf(late, q, q \in stopped)
          /\ overdue' = CountIf(overdue, q, loops[q].expired)
      BY <1>3 DEF Ask
    <2>2. ASSUME NEW count \in [Requests -> 0..2], NEW counts \in BOOLEAN
          PROVE  /\ CountIf(count, q, counts)[q] \in {count[q], count[q] + 1}
                 /\ ~counts => CountIf(count, q, counts)[q] = count[q]
      BY DEF CountIf
    <2>3. /\ late \in [Requests -> 0..2] /\ overdue \in [Requests -> 0..2]
          /\ (q \in stopped) \in BOOLEAN /\ loops[q].expired \in BOOLEAN
      BY LoopFields DEF ShapeInv, TypeOK
    <2> QED BY <1>3, <2>1, <2>2, <2>3
  <1> QED BY <1>1, <1>2, <1>3, Steps, OutsideStill
          DEF Register, SweepSuperseded, NextIteration, Enqueue, TakeResult, TimePasses,
              StartThread, StartStream, RunConversation, StopLooping, AskFails, EndRound, Close,
              Disconnect, rounds

(* What any step does to one loop.                                          *)
LEMMA LoopMoves ==
    ASSUME ShapeInv, [Next]_vars, NEW q \in Requests
    PROVE  Still(q) \/ Moves(q) \/ NextIteration(q) \/ Ask(q) \/ Enqueue(q) \/ TakeResult(q)
              \/ TimePasses(q)
  <1>1. CASE Outside
    BY <1>1, OutsideStill
  <1>2. ASSUME NEW l \in Requests, OnlyLoop(l), l # q PROVE Still(q)
    BY <1>2 DEF OnlyLoop
  <1> QED BY <1>1, <1>2, Steps, StepsMoveOne, StartMoves, SweepMoves, StepMoves

LEMMA StopStep ==
    ASSUME ShapeInv, StopInv, [Next]_vars
    PROVE  StopInv'
  <1> SUFFICES ASSUME NEW q \in Requests \ (Background \cup LongRounds)
               PROVE  /\ q \in stopped' =>
                            /\ loops'[q].stage # "new"
                            /\ Marked(q)' \/ loops'[q].stage \in {"unopened", "ended"}
                      /\ \/ late'[q] = 0
                         \/ /\ late'[q] = 1 /\ q \in stopped'
                            /\ loops'[q].stage \in {"dispatching", "top", "closing", "ended"}
    BY DEF StopInv
  <1>0. loops[q].stage \in Stages
    BY LoopFields
  <1>1. loops[q].stage # "new" => loops'[q].stage # "new"
    BY <1>0, LoopMoves, NextIterationMoves, AskMoves, RoundMoves, TimeMoves DEF Still, Moves
  <1>2. loops[q].stage \in {"unopened", "ended"} => loops'[q].stage = loops[q].stage
    BY <1>0, LoopMoves, NextIterationMoves, AskMoves, RoundMoves, TimeMoves DEF Still, Moves
  <1>3. q \in stopped' => /\ loops'[q].stage # "new"
                          /\ Marked(q)' \/ loops'[q].stage \in {"unopened", "ended"}
    BY <1>1, <1>2, MarkStep DEF StopInv
  <1>4. CASE late[q] = 0 /\ late'[q] # late[q]
    <2>1. Ask(q) /\ late'[q] = 1 /\ q \in stopped
      BY <1>4, CountStep
    <2> QED BY <1>3, <2>1, AskMoves, MarkStep
  <1>5. CASE late[q] # 0
    <2>1. late[q] = 1 /\ q \in stopped /\ loops[q].stage \in {"dispatching", "top", "closing", "ended"}
      BY <1>5 DEF StopInv
    <2>2. ~Ask(q) /\ late'[q] = late[q]
      BY <2>1, CountStep DEF Ask, At
    <2>3. ~NextIteration(q)
      <3>1. loops[q].stage = "top" => Marked(q)
        BY <2>1 DEF StopInv
      <3> QED BY <3>1 DEF NextIteration, At, MayGoOn, SeesCancellation
    <2>4. loops'[q].stage \in {"dispatching", "top", "closing", "ended"}
      BY <2>1, <2>2, <2>3, LoopMoves, RoundMoves, TimeMoves DEF Still, Moves
    <2> QED BY <1>3, <2>1, <2>2, <2>4, MarkStep
  <1> QED BY <1>3, <1>4, <1>5

(* A loop whose time is up does not pass the check again.                   *)
ClockInv ==
  \A l \in Requests :
     \/ overdue[l] = 0
     \/ /\ overdue[l] = 1
        /\ \/ loops[l].stage \in {"closing", "ended"}
           \/ loops[l].expired /\ loops[l].stage \in {"dispatching", "top"}

LEMMA ClockStep ==
    ASSUME ShapeInv, ClockInv, [Next]_vars
    PROVE  ClockInv'
  <1> SUFFICES ASSUME NEW q \in Requests
               PROVE  \/ overdue'[q] = 0
                      \/ /\ overdue'[q] = 1
                         /\ \/ loops'[q].stage \in {"closing", "ended"}
                            \/ loops'[q].expired /\ loops'[q].stage \in {"dispatching", "top"}
    BY DEF ClockInv
  <1>1. CASE overdue[q] = 0 /\ overdue'[q] # overdue[q]
    <2>1. Ask(q) /\ overdue'[q] = 1 /\ loops[q].expired
      BY <1>1, LoopFields, CountStep
    <2> QED BY <2>1, AskMoves
  <1>2. CASE overdue[q] # 0
    <2>1. /\ overdue[q] = 1
          /\ \/ loops[q].stage \in {"closing", "ended"}
             \/ loops[q].expired /\ loops[q].stage \in {"dispatching", "top"}
      BY <1>2 DEF ClockInv
    <2>2. ~Ask(q) /\ overdue'[q] = overdue[q] /\ ~NextIteration(q)
      BY <2>1, CountStep DEF Ask, At, NextIteration, MayGoOn
    <2>3. \/ loops'[q].stage \in {"closing", "ended"}
          \/ loops'[q].expired /\ loops'[q].stage \in {"dispatching", "top"}
      BY <2>1, <2>2, LoopMoves, RoundMoves, TimeMoves DEF Still, Moves
    <2> QED BY <2>1, <2>2, <2>3
  <1> QED BY <1>1, <1>2

(* A cancelled or superseded watch loop asks the core for at most one more  *)
(* round, and so does any loop past max_seconds: the check at the top of an *)
(* iteration is enough whenever the stop comes (stream_autonomous_loop).    *)
THEOREM LoopsStopInOneRound == Spec => []OneRoundAfterStop
  <1>1. Init => StopInv /\ ClockInv
    BY DEF Init, StopInv, ClockInv
  <1>2. StopInv /\ ClockInv => OneRoundAfterStop
    BY DEF StopInv, ClockInv, OneRoundAfterStop
  <1> QED BY ShapeInit, ShapeStep, StopStep, ClockStep, <1>1, <1>2, PTL DEF Spec

-----------------------------------------------------------------------------
(* A loop that sent a notify action finishes the round that held it.        *)
ReportInv ==
  \A l \in reported :
     \/ loops[l].stage \in {"closing", "ended"}
     \/ loops[l].stage = "dispatching" /\ loops[l].notify

LEMMA ReportStep ==
    ASSUME ShapeInv, ReportInv, [Next]_vars
    PROVE  /\ ReportInv'
           /\ \A l \in reported : loops'[l].iteration =< loops[l].iteration
  <1>0. reported \subseteq Requests /\ reported' \subseteq Requests
    BY RoundsType DEF ShapeInv, TypeOK
  <1>1. ASSUME NEW q \in reported
        PROVE  /\ \/ loops'[q].stage \in {"closing", "ended"}
                  \/ loops'[q].stage = "dispatching" /\ loops'[q].notify
               /\ loops'[q].iteration =< loops[q].iteration
    <2>1. \/ loops[q].stage \in {"closing", "ended"}
          \/ loops[q].stage = "dispatching" /\ loops[q].notify
      BY DEF ReportInv
    <2>2. q \in Requests /\ ~Ask(q) /\ ~NextIteration(q)
      BY <1>0, <2>1 DEF Ask, At, NextIteration
    <2>3. loops[q].iteration \in Nat
      BY <2>2, LoopFields, LoopAssumption
    <2> QED BY <2>1, <2>2, <2>3, LoopMoves, RoundMoves, TimeMoves DEF Still, Moves
  <1>2. ASSUME NEW q \in reported' \ reported
        PROVE  loops'[q].stage = "dispatching" /\ loops'[q].notify
    <2>1. Enqueue(q) /\ loops[q].todo # <<>> /\ Head(loops[q].todo) = "notify"
      <3>1. ASSUME NEW l \in Requests, Enqueue(l)
            PROVE  q = l /\ loops[l].todo # <<>> /\ Head(loops[l].todo) = "notify"
        BY <3>1 DEF Enqueue
      <3> QED BY <3>1, Steps, OutsideStill
              DEF Register, SweepSuperseded, NextIteration, Ask, TakeResult, TimePasses,
                  StartThread, StartStream, RunConversation, StopLooping, AskFails, EndRound,
                  Close, Disconnect, rounds
    <2> QED BY <1>0, <2>1, RoundMoves
  <1> QED BY <1>1, <1>2 DEF ReportInv

(* Once a notify action has gone out, the loop asks for no further round:   *)
(* the flag of the round outlives its place in the plan and every follow-up *)
(* behind it (STOP_SIGNAL_ACTION_TYPES).                                    *)
THEOREM NotifyIsLast == Spec => ReportIsLast
  <1>1. Init => ReportInv
    BY DEF Init, ReportInv
  <1> QED BY ShapeInit, ShapeStep, ReportStep, <1>1, PTL DEF Spec, ReportIsLast
=============================================================================
