----------------------- MODULE TurnOrchestrationProofs -----------------------
(***************************************************************************)
(* Theorems about TurnOrchestration for every turn, plan, list of actions  *)
(* and length of the core's stream: no turn acts on two decisions, each    *)
(* one is answered, and the answer tells what the runtime did.             *)
(***************************************************************************)
EXTENDS TurnOrchestration, SequenceTheorems, TLAPS

(* Stages from which a decision may still be dispatched.                    *)
Undispatched ==
  {"start", "streaming", "recompiling", "plain", "fallback", "deciding", "orchestrating",
   "planning", "stepping"}

(* Two things keep a second decision away: behind the core's stream it is   *)
(* shown that one was dispatched, and the deep route looks for a block of   *)
(* actions only after it has refused the decision.                          *)
OnceInv ==
  /\ stage \in Stages /\ shown \in BOOLEAN /\ dispatches \in {0, 1}
  /\ stage \in Undispatched => dispatches = 0
  /\ stage = "closing" /\ ~shown => dispatches = 0
  /\ stage = "recompiling" /\ mode # "deep" => shown
  /\ stage = "dispatching" =>
       \/ after \in {"surfaced", "ended"}
       \/ after = "closing" /\ shown
       \/ after = "stepping" /\ dispatches = 0 /\ mode = "deep"
  /\ stage = "deciding" /\ turn.via = "stream" => mode = "deep"
  /\ stage = "planning" => mode \in {"deep", "planning"}
  /\ stage \in {"stepping", "fallback"} => mode = "deep"

LEMMA OnceInvInit == Init => OnceInv
  BY DEF Init, OnceInv, Stages, Undispatched

(* Steps before the core's stream, and the threads.                         *)
LEMMA StartStep ==
    ASSUME OnceInv, AnswerLocally \/ OpenStream \/ Deepen \/ Respond \/ Decide \/ Route
    PROVE  OnceInv'
  <1> USE DEF OnceInv, Stages, Undispatched, choice, work
  <1>1. CASE AnswerLocally
    <2>1. dispatches = 0
      BY <1>1 DEF AnswerLocally, Asked
    <2>2. \/ stage' = "ended" /\ dispatches' = 0
          \/ stage' = "dispatching" /\ after' = "ended" /\ dispatches' = 1
          \/ stage' = "plain" /\ dispatches' = 0
      BY <1>1, <2>1 DEF AnswerLocally, End, Go, Dispatch
    <2> QED BY <1>1, <2>2 DEF AnswerLocally
  <1>2. CASE OpenStream
    BY <1>2 DEF OpenStream, Asked
  <1>3. CASE Deepen
    <2>1. turn.override \in {"deep", "planning"} /\ mode' = turn.override /\ dispatches = 0
      BY <1>3 DEF Deepen, Asked
    <2>2. UNCHANGED <<turn, shown, dispatches, after>>
      BY <1>3 DEF Deepen
    <2>3. \/ stage' = "deciding" /\ turn.override = "deep"
          \/ stage' = "planning"
      BY <1>3 DEF Deepen, Go
    <2> QED BY <2>1, <2>2, <2>3
  <1>4. CASE Respond
    BY <1>4 DEF Respond, Asked
  <1>5. CASE Decide \/ Route
    BY <1>5 DEF Decide, Route
  <1> QED BY <1>1, <1>2, <1>3, <1>4, <1>5

(* What passes the core's stream while nothing was dispatched, or when the  *)
(* decision was shown before.                                               *)
LEMMA PassOnce ==
    ASSUME OnceInv, dispatches = 0 \/ shown, NEW events,
           NEW next \in {"streaming", "recompiling", "closing", "ended"},
           next = "streaming" => dispatches = 0,
           next = "recompiling" => dispatches = 0 /\ Surfaces,
           Pass(events, next), UNCHANGED choice
    PROVE  OnceInv'
  <1> USE DEF OnceInv, Stages, Undispatched, choice, work
  <1>1. shown' = (shown \/ Surfaces) /\ shown' \in BOOLEAN /\ (Surfaces => ~shown)
    BY DEF Pass, Surfaces
  <1>2. CASE Surfaces /\ decision = "direct"
    BY <1>1, <1>2 DEF Pass, Dispatch
  <1>3. CASE Surfaces /\ decision = "unavailable"
    BY <1>1, <1>3 DEF Pass, End
  <1>4. CASE ~(Surfaces /\ decision \in {"direct", "unavailable"})
    <2>1. stage' = next /\ dispatches' = dispatches /\ after' = after
      BY <1>4 DEF Pass, End, Go
    <2> QED BY <1>1, <2>1
  <1> QED BY <1>2, <1>3, <1>4

(* The realtime route.                                                      *)
LEMMA RealtimeStep ==
    ASSUME OnceInv,
           PullText \/ PullPromise \/ PullBlock \/ EndOfCore \/ CloseStream \/ Recompile
    PROVE  OnceInv'
  <1>1. CASE PullText
    <2>1. dispatches = 0
      BY <1>1 DEF PullText, OnceInv, Undispatched
    <2>2. PICK events : Pass(events, "streaming")
      BY <1>1 DEF PullText
    <2> QED BY <1>1, <2>1, <2>2, PassOnce DEF PullText
  <1>2. CASE PullPromise
    <2>1. dispatches = 0 /\ UNCHANGED choice
      BY <1>2 DEF PullPromise, OnceInv, Undispatched
    <2>2. CASE Surfaces
      BY <1>2, <2>1, <2>2, PassOnce DEF PullPromise
    <2>3. CASE ~Surfaces
      BY <1>2, <2>1, <2>3 DEF PullPromise, End, OnceInv, Stages, Undispatched, choice, work
    <2> QED BY <2>2, <2>3
  <1>3. CASE PullBlock
    <2>1. dispatches = 0 /\ UNCHANGED choice
      BY <1>3 DEF PullBlock, OnceInv, Undispatched
    <2>2. CASE Surfaces /\ HasSent("text") /\ ~HasSent("final")
      BY <1>3, <2>1, <2>2, PassOnce DEF PullBlock
    <2>3. CASE ~(Surfaces /\ HasSent("text") /\ ~HasSent("final"))
      BY <1>3, <2>1, <2>3 DEF PullBlock, Go, OnceInv, Stages, Undispatched, choice, work
    <2> QED BY <2>2, <2>3
  <1>4. CASE EndOfCore
    BY <1>4 DEF EndOfCore, Go, OnceInv, Stages, Undispatched, choice, work
  <1>5. CASE CloseStream
    <2>1. dispatches = 0 \/ shown
      BY <1>5 DEF CloseStream, OnceInv
    <2> QED BY <1>5, <2>1, PassOnce DEF CloseStream
  <1>6. CASE Recompile
    <2>1. stage = "recompiling" /\ dispatches = 0 /\ UNCHANGED choice
      BY <1>6 DEF Recompile, OnceInv, Undispatched
    <2>2. CASE mode = "deep"
      BY <1>6, <2>1, <2>2
      DEF Recompile, Dispatch, Go, OnceInv, Stages, Undispatched, choice, work
    <2>3. CASE mode # "deep" /\ Dispatch("closing") /\ UNCHANGED shown
      BY <2>1, <2>3 DEF Dispatch, OnceInv, Stages, Undispatched, choice
    <2>4. CASE mode # "deep" /\ Pass(<<Final(<<>>)>>, "closing")
      BY <2>1, <2>4, PassOnce
    <2> QED BY <1>6, <2>2, <2>3, <2>4 DEF Recompile
  <1> QED BY <1>1, <1>2, <1>3, <1>4, <1>5, <1>6

(* The core's stream as it is, dispatching, and the deep route.             *)
LEMMA OtherStep ==
    ASSUME OnceInv,
           \/ RunAction \/ Dispatched \/ ProxyText \/ ProxyBlock \/ EndOfProxy \/ CoreRaises
           \/ TakeDecision \/ Orchestrate \/ MakePlan \/ ExecuteStep \/ FinishPlan \/ StepRaises
    PROVE  OnceInv'
  <1> USE DEF OnceInv, Stages, Undispatched, choice, work
  <1>1. CASE RunAction
    BY <1>1 DEF RunAction
  <1>2. CASE Dispatched
    <2>1. stage = "dispatching" /\ UNCHANGED <<turn, mode, shown, dispatches, after>>
      BY <1>2 DEF Dispatched
    <2>2. stage' = IF after = "surfaced" THEN "ended" ELSE after
      BY <1>2 DEF Dispatched, End, Go
    <2> QED BY <2>1, <2>2
  <1>3. CASE ProxyText \/ ProxyBlock \/ EndOfProxy \/ CoreRaises
    BY <1>3 DEF ProxyText, ProxyBlock, EndOfProxy, CoreRaises, End, Go
  <1>4. CASE TakeDecision
    <2>1. stage = "deciding" /\ dispatches = 0 /\ UNCHANGED <<turn, mode, shown>>
      BY <1>4 DEF TakeDecision
    <2>2. \/ stage' = "dispatching" /\ after' = "ended" /\ dispatches' = 1
          \/ stage' \in {"ended", "raised", "orchestrating"} /\ dispatches' = 0
          \/ stage' = "planning" /\ turn.via = "stream" /\ dispatches' = 0
      BY <1>4, <2>1 DEF TakeDecision, Dispatch, End, Go
    <2> QED BY <2>1, <2>2
  <1>5. CASE Orchestrate
    <2>1. dispatches = 0 /\ UNCHANGED <<turn, shown, dispatches, after>>
      BY <1>5 DEF Orchestrate
    <2>2. stage' \in {"ended", "raised"} \/ (stage' = "planning" /\ mode' = "deep")
      BY <1>5 DEF Orchestrate, End, Go
    <2> QED BY <2>1, <2>2
  <1>6. CASE MakePlan
    BY <1>6 DEF MakePlan, End, Go
  <1>7. CASE ExecuteStep \/ FinishPlan \/ StepRaises
    BY <1>7 DEF ExecuteStep, FinishPlan, StepRaises, End, Go
  <1> QED BY <1>1, <1>2, <1>3, <1>4, <1>5, <1>6, <1>7

(* At most one decision is dispatched in any turn, on every route and       *)
(* whenever the decision comes (emitted_action_intent of                    *)
(* _stream_realtime_with_action_arbitration).                               *)
THEOREM OneDecisionPerTurn == Spec => []DispatchedOnce
  <1>1. OnceInv /\ UNCHANGED vars => OnceInv'
    BY DEF OnceInv, vars, choice, work
  <1>2. OnceInv /\ [Next]_vars => OnceInv'
    BY <1>1, StartStep, RealtimeStep, OtherStep DEF Next
  <1>3. OnceInv => DispatchedOnce
    BY DEF OnceInv, DispatchedOnce
  <1> QED BY OnceInvInit, <1>2, <1>3, PTL DEF Spec

-----------------------------------------------------------------------------
(* Types, and what a step adds to the client's events.                      *)

EventSet == [event : EventNames, tells : Seq(Statuses)]

ChoiceOK ==
  /\ turn \in Turns /\ mode \in {"none", "realtime", "deep", "planning"}
  /\ future \in {"none", "running", "ready"} /\ decision \in Decisions /\ shown \in BOOLEAN

SpeechOK ==
  /\ stage \in Stages
  /\ routing \in {"none", "running", "ready", "shown"}
  /\ sent \in Seq(EventSet)

WorkOK ==
  /\ todo \in Seq({"act", "look"}) /\ report \in Seq(Statuses) /\ ran \in Seq(Statuses)
  /\ after \in {"surfaced", "stepping", "closing", "ended"} /\ dispatches \in Nat

RestOK ==
  /\ chunks \in 0 .. MaxChunks /\ plan \in Nat
  /\ broke \subseteq {"plan", "core"}

LEMMA TypeParts == TypeOK <=> ChoiceOK /\ SpeechOK /\ WorkOK /\ RestOK
  BY DEF TypeOK, ChoiceOK, SpeechOK, WorkOK, RestOK, EventSet

LEMMA EventTypes ==
  /\ \A name \in EventNames : Event(name) \in EventSet /\ Event(name).event = name
  /\ \A r \in Seq(Statuses) : Final(r) \in EventSet /\ Final(r).event = "final"
  /\ \A r \in Seq(Statuses) : Results(r) \in Seq(EventSet)
  <1>1. ASSUME NEW name \in EventNames PROVE Event(name) \in EventSet /\ Event(name).event = name
    <2>1. <<>> \in Seq(Statuses)
      BY EmptySeq
    <2> QED BY <2>1 DEF Event, EventSet
  <1>2. ASSUME NEW r \in Seq(Statuses) PROVE Final(r) \in EventSet /\ Final(r).event = "final"
    BY DEF Final, EventSet, EventNames
  <1>3. ASSUME NEW r \in Seq(Statuses) PROVE Results(r) \in Seq(EventSet)
    <2>1. DOMAIN r = 1 .. Len(r) /\ Len(r) \in Nat
      BY LenProperties
    <2>2. \A i \in 1 .. Len(r) : [event |-> "result", tells |-> <<r[i]>>] \in EventSet
      <3> SUFFICES ASSUME NEW i \in 1 .. Len(r)
                   PROVE  [event |-> "result", tells |-> <<r[i]>>] \in EventSet
        OBVIOUS
      <3>1. r[i] \in Statuses
        BY ElementOfSeq
      <3>2. <<r[i]>> \in Seq(Statuses)
        BY <3>1
      <3> QED BY <3>2 DEF EventSet, EventNames
    <2>3. Results(r) = [i \in 1 .. Len(r) |-> [event |-> "result", tells |-> <<r[i]>>]]
      BY <2>1 DEF Results
    <2>4. Results(r) \in [1 .. Len(r) -> EventSet]
      BY <2>2, <2>3
    <2> QED BY <2>1, <2>4, SeqDef
  <1> QED BY <1>1, <1>2, <1>3

(* The client's events only grow.                                           *)
Grows ==
  /\ Len(sent) =< Len(sent')
  /\ \A i \in 1 .. Len(sent) : sent'[i] = sent[i]

LEMMA AppendGrows ==
    ASSUME sent \in Seq(EventSet), NEW more \in Seq(EventSet), sent' = sent \o more
    PROVE  /\ sent' \in Seq(EventSet) /\ Grows
           /\ Len(sent') = Len(sent) + Len(more)
           /\ \A i \in 1 .. Len(more) : sent'[Len(sent) + i] = more[i]
  <1>1. Len(sent) \in Nat /\ Len(more) \in Nat
    BY LenProperties
  <1>2. /\ sent' \in Seq(EventSet) /\ Len(sent') = Len(sent) + Len(more)
        /\ \A i \in 1 .. Len(sent) + Len(more) :
             sent'[i] = IF i =< Len(sent) THEN sent[i] ELSE more[i - Len(sent)]
    BY ConcatProperties
  <1>3. \A i \in 1 .. Len(more) : sent'[Len(sent) + i] = more[i]
    BY <1>1, <1>2
  <1> QED BY <1>1, <1>2, <1>3 DEF Grows

LEMMA HeardTyped ==
    ASSUME NEW events \in Seq(EventSet)
    PROVE  /\ Heard(events) \in Seq(EventSet)
           /\ Heard(<<>>) = <<>>
           /\ events # <<>> /\ events[Len(events)].event = "final" =>
                /\ Heard(events) # <<>>
                /\ Heard(events)[Len(Heard(events))] = events[Len(events)]
  <1>1. CASE turn.via # "respond"
    BY <1>1, EmptySeq DEF Heard
  <1>2. CASE turn.via = "respond" /\ events # <<>> /\ events[Len(events)].event = "final"
    <2>1. Heard(events) = <<events[Len(events)]>>
      BY <1>2 DEF Heard, Last
    <2>2. events[Len(events)] \in EventSet
      BY <1>2, LenProperties, ElementOfSeq, EmptySeq
    <2>3. Heard(<<>>) = <<>>
      BY <1>2 DEF Heard
    <2> QED BY <2>1, <2>2, <2>3
  <1>3. CASE turn.via = "respond" /\ ~(events # <<>> /\ events[Len(events)].event = "final")
    <2>1. Heard(events) = <<>> /\ Heard(<<>>) = <<>>
      BY <1>3 DEF Heard, Last
    <2> QED BY <1>3, <2>1, EmptySeq
  <1> QED BY <1>1, <1>2, <1>3

LEMMA EmitTyped ==
    ASSUME SpeechOK, NEW events \in Seq(EventSet), Emit(events)
    PROVE  routing' \in {"none", "running", "ready", "shown"} /\ sent' \in Seq(EventSet) /\ Grows
  <1> USE DEF SpeechOK
  <1>1. CASE routing = "ready" /\ events # <<>>
    <2> DEFINE mid == <<Head(events), Event("classification")>>
    <2>1. Head(events) \in EventSet /\ Tail(events) \in Seq(EventSet)
      BY <1>1, HeadTailProperties
    <2>2. mid \in Seq(EventSet)
      BY <2>1, EventTypes DEF EventNames
    <2>3. sent' = (sent \o mid) \o Tail(events) /\ routing' = "shown"
      BY <1>1 DEF Emit
    <2> HIDE DEF mid
    <2>4. sent' = sent \o (mid \o Tail(events))
      BY <2>1, <2>2, <2>3, ConcatAssociative
    <2>5. mid \o Tail(events) \in Seq(EventSet)
      BY <2>1, <2>2, ConcatProperties
    <2> QED BY <2>3, <2>4, <2>5, AppendGrows
  <1>2. CASE ~(routing = "ready" /\ events # <<>>)
    <2>1. sent' = sent \o Heard(events) /\ routing' = routing
      BY <1>2 DEF Emit
    <2> QED BY <2>1, HeardTyped, AppendGrows
  <1> QED BY <1>1, <1>2

LEMMA EmitTells ==
    ASSUME SpeechOK, NEW events \in Seq(EventSet), Emit(events),
           NEW results, events # <<>>, events[Len(events)] = Final(results)
    PROVE  Told(sent', results)
  <1> USE DEF SpeechOK
  <1> DEFINE n == Len(sent)
  <1>0. n \in Nat /\ Len(events) \in Nat \ {0}
    BY LenProperties, EmptySeq
  <1>1. CASE routing = "ready"
    <2> DEFINE mid == <<Head(events), Event("classification")>>
               more == mid \o Tail(events)
    <2>1. /\ Head(events) \in EventSet /\ Tail(events) \in Seq(EventSet)
          /\ Len(Tail(events)) = Len(events) - 1
          /\ Head(events) = events[1]
          /\ \A i \in 1 .. Len(Tail(events)) : Tail(events)[i] = events[i + 1]
      BY HeadTailProperties
    <2>2. /\ mid \in Seq(EventSet) /\ Len(mid) = 2
          /\ mid[1] = events[1] /\ mid[2] = Event("classification")
      BY <2>1, EventTypes DEF EventNames
    <2>3. sent' = (sent \o mid) \o Tail(events)
      BY <1>1 DEF Emit
    <2> HIDE DEF mid
    <2>4. sent' = sent \o more
      BY <2>1, <2>2, <2>3, ConcatAssociative
    <2>5. /\ more \in Seq(EventSet) /\ Len(more) = Len(events) + 1
          /\ more[1] = events[1] /\ more[2] = Event("classification")
          /\ \A i \in 2 .. Len(events) : more[i + 1] = events[i]
      <3>0. /\ more \in Seq(EventSet) /\ Len(more) = Len(mid) + Len(Tail(events))
            /\ \A i \in 1 .. Len(mid) + Len(Tail(events)) :
                 more[i] = IF i =< Len(mid) THEN mid[i] ELSE Tail(events)[i - Len(mid)]
        BY <2>1, <2>2, ConcatProperties
      <3> HIDE DEF more
      <3>1. /\ more \in Seq(EventSet) /\ Len(more) = 2 + Len(Tail(events))
            /\ \A i \in 1 .. 2 + Len(Tail(events)) :
                 more[i] = IF i =< 2 THEN mid[i] ELSE Tail(events)[i - 2]
        BY <2>2, <3>0
      <3>2. Len(more) = Len(events) + 1
        BY <1>0, <2>1, <3>1
      <3>3. more[1] = events[1] /\ more[2] = Event("classification")
        BY <1>0, <2>1, <2>2, <3>1
      <3>4. ASSUME NEW i \in 2 .. Len(events) PROVE more[i + 1] = events[i]
        <4>1. more[i + 1] = Tail(events)[i - 1]
          BY <1>0, <2>1, <3>1
        <4>2. Tail(events)[i - 1] = events[i]
          BY <1>0, <2>1
        <4> QED BY <4>1, <4>2
      <3> QED BY <3>1, <3>2, <3>3, <3>4
    <2> HIDE DEF more
    <2>6. /\ sent' \in Seq(EventSet) /\ Len(sent') = n + Len(events) + 1
          /\ \A i \in 1 .. Len(events) + 1 : sent'[n + i] = more[i]
      <3>1. /\ sent' \in Seq(EventSet) /\ Len(sent') = n + Len(more)
            /\ \A i \in 1 .. Len(more) : sent'[n + i] = more[i]
        BY <2>4, <2>5, AppendGrows
      <3>2. Len(more) = Len(events) + 1 /\ n + Len(more) = n + Len(events) + 1
        BY <1>0, <2>5
      <3> QED BY <3>1, <3>2
    <2>7. DOMAIN sent' = 1 .. n + Len(events) + 1
      BY <2>6, LenProperties
    <2>8. Event("classification").event = "classification"
      BY EventTypes DEF EventNames
    <2>9. CASE Len(events) = 1
      <3>1. sent'[n + 1] = Final(results) /\ n + 1 \in DOMAIN sent'
        BY <1>0, <2>5, <2>6, <2>7, <2>9
      <3>2. Len(sent') = n + 2 /\ sent'[n + 2].event = "classification"
        BY <1>0, <2>5, <2>6, <2>8, <2>9
      <3>3. \A j \in n + 1 + 1 .. Len(sent') : j = n + 2
        BY <1>0, <3>2
      <3> QED BY <3>1, <3>2, <3>3 DEF Told
    <2>10. CASE Len(events) > 1
      <3>1. sent'[n + Len(events) + 1] = Final(results)
        BY <1>0, <2>5, <2>6, <2>10
      <3>2. n + Len(events) + 1 \in DOMAIN sent'
        BY <1>0, <2>7
      <3>3. \A j \in n + Len(events) + 1 + 1 .. Len(sent') : FALSE
        BY <1>0, <2>6
      <3> QED BY <3>1, <3>2, <3>3 DEF Told
    <2>11. Len(events) = 1 \/ Len(events) > 1
      <3>1. \A k \in Nat \ {0} : k = 1 \/ k > 1
        OBVIOUS
      <3> QED BY <1>0, <3>1
    <2> QED BY <2>9, <2>10, <2>11
  <1>2. CASE routing # "ready"
    <2> DEFINE more == Heard(events)
    <2>1. sent' = sent \o more
      BY <1>2 DEF Emit
    <2>2. more \in Seq(EventSet) /\ more # <<>> /\ more[Len(more)] = Final(results)
      <3>1. events[Len(events)].event = "final"
        BY DEF Final
      <3> QED BY <3>1, HeardTyped
    <2> HIDE DEF more
    <2>3. Len(more) \in Nat \ {0}
      BY <2>2, EmptySeq
    <2>4. /\ sent' \in Seq(EventSet) /\ Len(sent') = n + Len(more)
          /\ sent'[n + Len(more)] = Final(results)
      BY <1>0, <2>1, <2>2, <2>3, AppendGrows
    <2>5. n + Len(more) \in DOMAIN sent'
      BY <1>0, <2>3, <2>4, LenProperties
    <2>6. \A j \in n + Len(more) + 1 .. Len(sent') : FALSE
      BY <1>0, <2>3, <2>4
    <2> QED BY <2>4, <2>5, <2>6 DEF Told
  <1> QED BY <1>1, <1>2

(* Nothing is told behind the results at the end of a stream.               *)
LEMMA EndKeeps ==
    ASSUME SpeechOK, End(<<>>), NEW results, Told(sent, results)
    PROVE  Told(sent', results)
  <1> USE DEF SpeechOK
  <1>0. Len(sent) \in Nat /\ DOMAIN sent = 1 .. Len(sent)
    BY LenProperties
  <1>1. PICK i \in 1 .. Len(sent) :
          /\ sent[i] = Final(results)
          /\ \A j \in (i + 1) .. Len(sent) : sent[j].event \notin {"text", "final"}
    BY <1>0 DEF Told
  <1>2. CASE routing = "ready"
    <2>1. sent' = Append(sent, Event("classification"))
      BY <1>2 DEF End
    <2>2. Event("classification") \in EventSet /\ Event("classification").event = "classification"
      BY EventTypes DEF EventNames
    <2>3. /\ sent' \in Seq(EventSet) /\ Len(sent') = Len(sent) + 1
          /\ \A k \in 1 .. Len(sent) : sent'[k] = sent[k]
          /\ sent'[Len(sent) + 1] = Event("classification")
      BY <2>1, <2>2, AppendProperties
    <2>4. i \in DOMAIN sent' /\ sent'[i] = Final(results)
      BY <1>0, <1>1, <2>3, LenProperties
    <2>5. ASSUME NEW j \in (i + 1) .. Len(sent') PROVE sent'[j].event \notin {"text", "final"}
      <3>1. CASE j \in (i + 1) .. Len(sent)
        BY <1>0, <1>1, <2>3, <3>1
      <3>2. CASE j = Len(sent) + 1
        BY <2>2, <2>3, <3>2
      <3> QED BY <1>0, <2>3, <3>1, <3>2
    <2> QED BY <2>4, <2>5 DEF Told
  <1>3. CASE routing # "ready"
    <2>1. sent' = sent \o <<>>
      BY <1>3, HeardTyped, EmptySeq DEF End, Emit
    <2>2. sent' = sent
      BY <2>1, ConcatEmptySeq
    <2> QED BY <2>2 DEF Told
  <1> QED BY <1>2, <1>3

LEMMA FinalStays ==
    ASSUME sent \in Seq(EventSet), sent' \in Seq(EventSet), Grows, HasSent("final")
    PROVE  HasSent("final")'
  <1>1. Len(sent) \in Nat /\ Len(sent') \in Nat
        /\ DOMAIN sent = 1 .. Len(sent) /\ DOMAIN sent' = 1 .. Len(sent')
    BY LenProperties
  <1> QED BY <1>1 DEF HasSent, Grows

LEMMA Speaks ==
    ASSUME SpeechOK, NEW events \in Seq(EventSet), NEW next \in Stages, Go(next, events)
    PROVE  SpeechOK' /\ Grows
  <1>1. stage' = next /\ Emit(events)
    BY DEF Go
  <1> QED BY <1>1, EmitTyped DEF SpeechOK

LEMMA Ends ==
    ASSUME SpeechOK, NEW events \in Seq(EventSet), End(events)
    PROVE  SpeechOK' /\ Grows /\ stage' = "ended"
  <1>1. stage' = "ended"
    BY DEF End
  <1>2. CASE routing = "ready" /\ events = <<>>
    <2>1. Event("classification") \in EventSet
      BY EventTypes DEF EventNames
    <2>2. sent' = Append(sent, Event("classification")) /\ routing' = "shown"
      BY <1>2 DEF End
    <2>3. /\ sent' \in Seq(EventSet) /\ Len(sent') = Len(sent) + 1
          /\ \A i \in 1 .. Len(sent) : sent'[i] = sent[i]
      BY <2>1, <2>2, AppendProperties DEF SpeechOK
    <2>4. Len(sent) =< Len(sent')
      BY <2>3, LenProperties DEF SpeechOK
    <2> QED BY <1>1, <2>2, <2>3, <2>4 DEF SpeechOK, Stages, Grows
  <1>3. CASE ~(routing = "ready" /\ events = <<>>)
    <2>1. Emit(events)
      BY <1>3 DEF End
    <2> QED BY <1>1, <2>1, EmitTyped DEF SpeechOK, Stages
  <1> QED BY <1>2, <1>3, <1>1

LEMMA Silent ==
    ASSUME SpeechOK, stage' \in Stages, UNCHANGED <<sent, routing>>
    PROVE  SpeechOK' /\ Grows
  <1>1. Len(sent) \in Nat
    BY LenProperties DEF SpeechOK
  <1> QED BY <1>1 DEF SpeechOK, Grows

LEMMA Dispatching ==
    ASSUME WorkOK, NEW next \in {"surfaced", "stepping", "closing", "ended"}, Dispatch(next)
    PROVE  /\ WorkOK' /\ stage' = "dispatching" /\ stage' \in Stages /\ after' = next
           /\ report' = <<>> /\ ran' = ran
  <1>1. todo' \in Seq({"act", "look"})
    BY OrchestrationAssumption DEF Dispatch
  <1>2. report' \in Seq(Statuses)
    BY EmptySeq DEF Dispatch
  <1> QED BY <1>1, <1>2 DEF Dispatch, WorkOK, Stages

(* The events that the actions send are events.                             *)
LEMMA EventLists ==
  /\ <<>> \in Seq(EventSet)
  /\ \A name \in EventNames : <<Event(name)>> \in Seq(EventSet)
  /\ <<Final(<<>>)>> \in Seq(EventSet)
  /\ \A r \in Seq(Statuses) : <<Final(r)>> \in Seq(EventSet)
  /\ <<Event("intent"), Final(<<>>)>> \in Seq(EventSet)
  /\ <<Event("plan"), Final(<<>>)>> \in Seq(EventSet)
  /\ <<Event("classification"), Event("text"), Final(<<>>)>> \in Seq(EventSet)
  /\ \A events \in Seq(EventSet) : <<Event("intent")>> \o events \in Seq(EventSet)
  <1>1. \A name \in EventNames : Event(name) \in EventSet
    BY EventTypes
  <1>2. \A r \in Seq(Statuses) : Final(r) \in EventSet
    BY EventTypes
  <1>3. <<>> \in Seq(Statuses) /\ <<>> \in Seq(EventSet)
    BY EmptySeq
  <1>4. /\ Event("intent") \in EventSet /\ Event("plan") \in EventSet /\ Final(<<>>) \in EventSet
        /\ Event("classification") \in EventSet /\ Event("text") \in EventSet
    BY <1>1, <1>2, <1>3 DEF EventNames
  <1>5. \A e \in EventSet : <<e>> \in Seq(EventSet)
    OBVIOUS
  <1>6. \A events \in Seq(EventSet) : <<Event("intent")>> \o events \in Seq(EventSet)
    BY <1>4, <1>5, ConcatProperties
  <1> QED BY <1>1, <1>2, <1>3, <1>4, <1>5, <1>6

LEMMA PassTyped ==
    ASSUME TypeOK, NEW events \in Seq(EventSet),
           NEW next \in {"streaming", "recompiling", "closing", "ended"}, Pass(events, next)
    PROVE  /\ shown' \in BOOLEAN /\ SpeechOK' /\ WorkOK' /\ Grows
           /\ \/ /\ stage' = "dispatching" /\ Surfaces
                 /\ after' = "surfaced" /\ report' = <<>> /\ ran' = ran
              \/ /\ Surfaces /\ End(<<Event("intent"), Final(<<>>)>>) /\ UNCHANGED work
              \/ /\ UNCHANGED work
                 /\ \E all \in {events, <<Event("intent")>> \o events} :
                      /\ all = events \/ Surfaces
                      /\ IF next = "ended" THEN End(all) ELSE Go(next, all)
  <1>0. ChoiceOK /\ SpeechOK /\ WorkOK
    BY TypeParts
  <1>1. shown' \in BOOLEAN
    BY DEF Pass
  <1>2. CASE Surfaces /\ decision = "direct"
    <2>1. Dispatch("surfaced") /\ UNCHANGED <<sent, routing>>
      BY <1>2 DEF Pass
    <2> QED BY <1>0, <1>1, <1>2, <2>1, Dispatching, Silent
  <1>3. CASE Surfaces /\ decision = "unavailable"
    <2>1. End(<<Event("intent"), Final(<<>>)>>) /\ UNCHANGED work
      BY <1>3 DEF Pass
    <2>2. WorkOK'
      BY <1>0, <2>1 DEF WorkOK, work
    <2> QED BY <1>0, <1>1, <1>3, <2>1, <2>2, Ends, EventLists
  <1>4. CASE ~(Surfaces /\ decision \in {"direct", "unavailable"})
    <2> DEFINE all == IF Surfaces THEN <<Event("intent")>> \o events ELSE events
    <2>1. (IF next = "ended" THEN End(all) ELSE Go(next, all)) /\ UNCHANGED work
      BY <1>4 DEF Pass
    <2>2. all \in {events, <<Event("intent")>> \o events} /\ (all = events \/ Surfaces)
      OBVIOUS
    <2>3. all \in Seq(EventSet) /\ next \in Stages
      BY EventLists DEF Stages
    <2>4. WorkOK'
      BY <1>0, <2>1 DEF WorkOK, work
    <2> HIDE DEF all
    <2>5. SpeechOK' /\ Grows
      BY <1>0, <2>1, <2>3, Ends, Speaks
    <2> QED BY <1>1, <2>1, <2>2, <2>4, <2>5
  <1> QED BY <1>2, <1>3, <1>4

(* Every step keeps the types and only adds to the events.                  *)
Good == TypeOK' /\ Grows

LEMMA GoodParts ==
    ASSUME TypeOK, ChoiceOK', SpeechOK', WorkOK', RestOK', Grows
    PROVE  Good
  BY DEF Good, TypeOK, ChoiceOK, SpeechOK, WorkOK, RestOK, EventSet

LEMMA Untouched ==
    ASSUME TypeOK
    PROVE  /\ UNCHANGED <<choice, thread, shown>> => ChoiceOK'
           /\ UNCHANGED work => WorkOK'
           /\ UNCHANGED <<chunks, plan, broke>> => RestOK'
           /\ (Pull \/ UNCHANGED chunks) /\ UNCHANGED <<plan, broke>> => RestOK'
  <1>1. MaxChunks \in Nat /\ chunks \in 0 .. MaxChunks
    BY OrchestrationAssumption DEF TypeOK
  <1>2. Pull => chunks' \in 0 .. MaxChunks
    BY <1>1 DEF Pull
  <1>3. (Pull \/ UNCHANGED chunks) /\ UNCHANGED <<plan, broke>> => RestOK'
    BY <1>1, <1>2 DEF TypeOK, RestOK
  <1> QED BY <1>3 DEF TypeOK, ChoiceOK, WorkOK, RestOK, choice, thread, work

LEMMA StartTyped ==
    ASSUME TypeOK, AnswerLocally \/ OpenStream \/ Deepen \/ Respond \/ Decide \/ Route
    PROVE  Good
  <1>0. ChoiceOK /\ SpeechOK /\ WorkOK /\ RestOK
    BY TypeParts
  <1>1. CASE AnswerLocally
    <2>1. ChoiceOK' /\ RestOK'
      BY <1>1, Untouched DEF AnswerLocally
    <2>2. CASE /\ End(<<Event("classification"), Event("text"), Final(<<>>)>>)
               /\ UNCHANGED work
      BY <1>0, <2>1, <2>2, Ends, EventLists, Untouched, GoodParts
    <2>3. CASE Dispatch("ended") /\ Emit(<<Event("intent")>>)
      <3>1. WorkOK' /\ stage' \in Stages
        BY <1>0, <2>3, Dispatching
      <3>2. <<Event("intent")>> \in Seq(EventSet)
        BY EventLists DEF EventNames
      <3>3. SpeechOK' /\ Grows
        BY <1>0, <2>3, <3>1, <3>2, EmitTyped DEF SpeechOK
      <3> QED BY <2>1, <3>1, <3>3, GoodParts
    <2>4. CASE Go("plain", <<Event("classification")>>) /\ UNCHANGED work
      <3>1. <<Event("classification")>> \in Seq(EventSet) /\ "plain" \in Stages
        BY EventLists DEF EventNames, Stages
      <3>2. SpeechOK' /\ Grows
        BY <1>0, <2>4, <3>1, Speaks
      <3> QED BY <2>1, <2>4, <3>2, Untouched, GoodParts
    <2> QED BY <1>1, <2>2, <2>3, <2>4 DEF AnswerLocally
  <1>2. CASE OpenStream
    <2>1. stage = "start" /\ stage' = "streaming" /\ future' \in {"none", "running"}
      BY <1>2 DEF OpenStream, Asked
    <2>2. routing' \in {"none", "running"}
      BY <1>2 DEF OpenStream
    <2>3. UNCHANGED <<choice, decision, shown, chunks, plan, work, broke>>
      BY <1>2 DEF OpenStream
    <2>4. Event("pending") \in EventSet
      BY EventTypes DEF EventNames
    <2>5. sent' \in {sent, Append(sent, Event("pending"))} /\ Len(sent) \in Nat
      BY <1>0, <1>2, LenProperties DEF OpenStream, SpeechOK
    <2>6. sent' \in Seq(EventSet) /\ Grows
      BY <1>0, <2>4, <2>5, AppendProperties DEF SpeechOK, Grows
    <2>7. SpeechOK'
      BY <2>1, <2>2, <2>6 DEF SpeechOK, Stages
    <2>8. ChoiceOK'
      BY <1>0, <2>1, <2>3 DEF ChoiceOK, choice
    <2> QED BY <2>3, <2>6, <2>7, <2>8, Untouched, GoodParts
  <1>3. CASE Deepen
    <2>1. turn.override \in {"deep", "planning"} /\ mode' = turn.override
      BY <1>3 DEF Deepen, Asked
    <2>2. future' \in {"none", "running", "ready"}
      BY <1>0, <1>3 DEF Deepen, ChoiceOK
    <2>3. UNCHANGED <<turn, decision, shown, chunks, plan, work, broke>>
      BY <1>3 DEF Deepen
    <2>4. ChoiceOK'
      BY <1>0, <2>1, <2>2, <2>3 DEF ChoiceOK
    <2>5. PICK next \in {"deciding", "planning"} : Go(next, <<Event("classification")>>)
      BY <1>3 DEF Deepen
    <2>6. <<Event("classification")>> \in Seq(EventSet) /\ next \in Stages
      BY EventLists DEF EventNames, Stages
    <2>7. SpeechOK' /\ Grows
      BY <1>0, <2>5, <2>6, Speaks
    <2> QED BY <2>3, <2>4, <2>7, Untouched, GoodParts
  <1>4. CASE Respond
    <2>1. stage' \in {"orchestrating", "deciding"} /\ future' \in {"none", "running", "ready"}
      BY <1>0, <1>4 DEF Respond, ChoiceOK
    <2>2. UNCHANGED <<choice, decision, shown, routing, chunks, plan, work, sent, broke>>
      BY <1>4 DEF Respond
    <2>3. ChoiceOK'
      BY <1>0, <2>1, <2>2 DEF ChoiceOK, choice
    <2>4. SpeechOK' /\ Grows
      BY <1>0, <2>1, <2>2, Silent DEF Stages
    <2> QED BY <2>2, <2>3, <2>4, Untouched, GoodParts
  <1>5. CASE Decide
    <2>1. UNCHANGED <<choice, stage, shown, routing, chunks, plan, work, sent, broke>>
      BY <1>5 DEF Decide
    <2>2. ChoiceOK'
      BY <1>0, <1>5, <2>1 DEF Decide, ChoiceOK, choice
    <2>3. SpeechOK' /\ Grows
      BY <1>0, <2>1, Silent DEF SpeechOK
    <2> QED BY <2>1, <2>2, <2>3, Untouched, GoodParts
  <1>6. CASE Route
    <2>1. UNCHANGED <<choice, stage, thread, shown, chunks, plan, work, sent, broke>>
      BY <1>6 DEF Route
    <2>2. SpeechOK' /\ Grows
      <3>1. routing' = "ready" /\ Len(sent) \in Nat
        BY <1>0, <1>6, LenProperties DEF Route, SpeechOK
      <3> QED BY <1>0, <2>1, <3>1 DEF SpeechOK, Grows
    <2> QED BY <2>1, <2>2, Untouched, GoodParts
  <1> QED BY <1>1, <1>2, <1>3, <1>4, <1>5, <1>6

LEMMA RealtimeTyped ==
    ASSUME TypeOK,
           PullText \/ PullPromise \/ PullBlock \/ EndOfCore \/ CloseStream \/ Recompile
    PROVE  Good
  <1>0. ChoiceOK /\ SpeechOK /\ WorkOK /\ RestOK
    BY TypeParts
  <1>1. ASSUME NEW events \in Seq(EventSet),
               NEW next \in {"streaming", "recompiling", "closing", "ended"},
               Pass(events, next), UNCHANGED <<choice, thread>>, RestOK'
        PROVE  Good
    <2>1. shown' \in BOOLEAN /\ SpeechOK' /\ WorkOK' /\ Grows
      BY <1>1, PassTyped
    <2>2. ChoiceOK'
      BY <1>0, <1>1, <2>1 DEF ChoiceOK, choice, thread
    <2> QED BY <1>1, <2>1, <2>2, GoodParts
  <1>2. CASE PullText
    <2>1. PICK events \in {<<Event("text")>>, <<>>, <<Final(<<>>)>>} : Pass(events, "streaming")
      BY <1>2 DEF PullText
    <2>2. events \in Seq(EventSet)
      BY EventLists DEF EventNames
    <2>3. UNCHANGED <<choice, thread>> /\ RestOK'
      BY <1>2, Untouched DEF PullText
    <2> QED BY <1>1, <2>1, <2>2, <2>3
  <1>3. CASE PullPromise
    <2>1. UNCHANGED <<choice, thread>> /\ RestOK'
      BY <1>3, Untouched DEF PullPromise
    <2>2. CASE Surfaces
      BY <1>1, <1>3, <2>1, <2>2, EventLists DEF PullPromise
    <2>3. CASE ~Surfaces
      <3>1. shown' \in BOOLEAN /\ UNCHANGED work
        BY <1>0, <1>3, <2>3 DEF PullPromise, ChoiceOK
      <3>2. PICK pre \in {<<Event("intent")>>, <<>>} : End(pre \o <<Final(<<>>)>>)
        BY <1>3, <2>3 DEF PullPromise
      <3>3. pre \in Seq(EventSet) /\ <<Final(<<>>)>> \in Seq(EventSet)
        BY EventLists DEF EventNames
      <3>4. pre \o <<Final(<<>>)>> \in Seq(EventSet)
        BY <3>3, ConcatProperties
      <3>5. SpeechOK' /\ Grows
        BY <1>0, <3>2, <3>4, Ends
      <3>6. ChoiceOK'
        BY <1>0, <2>1, <3>1 DEF ChoiceOK, choice, thread
      <3> QED BY <2>1, <3>1, <3>5, <3>6, Untouched, GoodParts
    <2> QED BY <2>2, <2>3
  <1>4. CASE PullBlock
    <2>1. UNCHANGED <<choice, thread>> /\ RestOK'
      BY <1>4, Untouched DEF PullBlock
    <2>2. <<Event("retry")>> \in Seq(EventSet) /\ "recompiling" \in Stages
      BY EventLists DEF EventNames, Stages
    <2>3. CASE Pass(<<Event("retry")>>, "recompiling")
      BY <1>1, <2>1, <2>2, <2>3
    <2>4. CASE Go("recompiling", <<Event("retry")>>) /\ shown' = TRUE /\ UNCHANGED work
      <3>1. SpeechOK' /\ Grows
        BY <1>0, <2>2, <2>4, Speaks
      <3>2. ChoiceOK'
        BY <1>0, <2>1, <2>4 DEF ChoiceOK, choice, thread
      <3> QED BY <2>1, <2>4, <3>1, <3>2, Untouched, GoodParts
    <2> QED BY <1>4, <2>3, <2>4 DEF PullBlock
  <1>5. CASE EndOfCore
    <2>1. Go("closing", <<>>) /\ "closing" \in Stages /\ <<>> \in Seq(EventSet)
      BY <1>5, EventLists DEF EndOfCore, Stages
    <2>2. SpeechOK' /\ Grows
      BY <1>0, <2>1, Speaks
    <2>3. RestOK'
      BY <1>0, <1>5 DEF EndOfCore, RestOK
    <2>4. ChoiceOK' /\ WorkOK'
      BY <1>5, Untouched DEF EndOfCore
    <2> QED BY <2>2, <2>3, <2>4, GoodParts
  <1>6. CASE CloseStream
    <2>1. UNCHANGED <<choice, thread>> /\ RestOK' /\ Pass(<<>>, "ended")
      BY <1>6, Untouched DEF CloseStream
    <2> QED BY <1>1, <2>1, EventLists
  <1>7. CASE Recompile
    <2> DEFINE next == IF mode = "deep" THEN "ended" ELSE "closing"
    <2>1. UNCHANGED <<choice, thread>> /\ RestOK'
      BY <1>7, Untouched DEF Recompile
    <2>2. CASE Dispatch(next) /\ UNCHANGED <<shown, sent, routing>>
      <3>1. WorkOK' /\ stage' \in Stages
        BY <1>0, <2>2, Dispatching
      <3>2. SpeechOK' /\ Grows
        BY <1>0, <2>2, <3>1, Silent
      <3> QED BY <2>1, <2>2, <3>1, <3>2, Untouched, GoodParts
    <2>3. CASE Go(next, <<Final(<<>>)>>) /\ UNCHANGED <<shown, work>>
      <3>1. SpeechOK' /\ Grows
        BY <1>0, <2>3, Speaks, EventLists DEF Stages
      <3> QED BY <2>1, <2>3, <3>1, Untouched, GoodParts
    <2>4. CASE Pass(<<Final(<<>>)>>, next)
      BY <1>1, <2>1, <2>4, EventLists
    <2> QED BY <1>7, <2>2, <2>3, <2>4 DEF Recompile
  <1> QED BY <1>2, <1>3, <1>4, <1>5, <1>6, <1>7

LEMMA DispatchTyped ==
    ASSUME TypeOK, RunAction \/ Dispatched
    PROVE  Good
  <1>0. ChoiceOK /\ SpeechOK /\ WorkOK /\ RestOK
    BY TypeParts
  <1>1. CASE RunAction
    <2>1. PICK status \in Statuses :
            /\ \E more \in FollowUps(Head(todo), status) : todo' = Tail(todo) \o more
            /\ report' = Append(report, status) /\ ran' = Append(ran, status)
            /\ Emit(IF after = "surfaced" THEN <<>> ELSE Results(<<status>>))
      BY <1>1 DEF RunAction
    <2>2. PICK more \in {<<>>, <<"act">>} : todo' = Tail(todo) \o more
      BY <2>1 DEF FollowUps
    <2>3. todo # <<>> /\ UNCHANGED <<choice, stage, thread, shown, chunks, plan, after, dispatches, broke>>
      BY <1>1 DEF RunAction
    <2>4. todo' \in Seq({"act", "look"})
      <3>1. Tail(todo) \in Seq({"act", "look"})
        BY <1>0, <2>3, HeadTailProperties DEF WorkOK
      <3>2. <<>> \in Seq({"act", "look"}) /\ <<"act">> \in Seq({"act", "look"})
        BY EmptySeq
      <3>3. more \in Seq({"act", "look"})
        BY <3>2
      <3> QED BY <2>2, <3>1, <3>3, ConcatProperties
    <2>5. report' \in Seq(Statuses) /\ ran' \in Seq(Statuses)
      BY <1>0, <2>1, AppendProperties DEF WorkOK
    <2>6. WorkOK'
      BY <1>0, <2>3, <2>4, <2>5 DEF WorkOK
    <2>7. <<status>> \in Seq(Statuses)
      OBVIOUS
    <2>8. (IF after = "surfaced" THEN <<>> ELSE Results(<<status>>)) \in Seq(EventSet)
      BY <2>7, EventTypes, EmptySeq
    <2>9. SpeechOK' /\ Grows
      <3>1. routing' \in {"none", "running", "ready", "shown"} /\ sent' \in Seq(EventSet) /\ Grows
        BY <1>0, <2>1, <2>8, EmitTyped
      <3> QED BY <1>0, <2>3, <3>1 DEF SpeechOK
    <2> QED BY <2>3, <2>6, <2>9, Untouched, GoodParts
  <1>2. CASE Dispatched
    <2>1. UNCHANGED <<choice, thread, shown, chunks, plan, work, broke>>
      BY <1>2 DEF Dispatched
    <2>2. report \in Seq(Statuses) /\ after \in {"surfaced", "stepping", "closing", "ended"}
      BY <1>0 DEF WorkOK
    <2>3. SpeechOK' /\ Grows
      <3>1. CASE after = "surfaced"
        <4>1. End(<<Event("intent")>> \o Results(report) \o <<Final(report)>>)
          BY <1>2, <3>1 DEF Dispatched
        <4>2. /\ <<Event("intent")>> \in Seq(EventSet) /\ Results(report) \in Seq(EventSet)
              /\ <<Final(report)>> \in Seq(EventSet)
          BY <2>2, EventLists, EventTypes DEF EventNames
        <4>3. <<Event("intent")>> \o Results(report) \o <<Final(report)>> \in Seq(EventSet)
          BY <4>2, ConcatProperties
        <4> QED BY <1>0, <4>1, <4>3, Ends
      <3>2. CASE after = "stepping"
        <4>1. Go("stepping", <<>>) /\ "stepping" \in Stages /\ <<>> \in Seq(EventSet)
          BY <1>2, <3>2, EventLists DEF Dispatched, Stages
        <4> QED BY <1>0, <4>1, Speaks
      <3>3. CASE after \in {"closing", "ended"}
        <4>1. Go(after, <<Final(report)>>) /\ after \in Stages
          BY <1>2, <3>3 DEF Dispatched, Stages
        <4>2. <<Final(report)>> \in Seq(EventSet)
          BY <2>2, EventLists
        <4> QED BY <1>0, <4>1, <4>2, Speaks
      <3> QED BY <2>2, <3>1, <3>2, <3>3
    <2> QED BY <2>1, <2>3, Untouched, GoodParts
  <1> QED BY <1>1, <1>2

LEMMA ProxyTyped ==
    ASSUME TypeOK, ProxyText \/ ProxyBlock \/ EndOfProxy \/ CoreRaises
    PROVE  Good
  <1>0. ChoiceOK /\ SpeechOK /\ WorkOK /\ RestOK
    BY TypeParts
  <1>1. CASE ProxyText
    <2>1. UNCHANGED <<choice, stage, thread, shown, plan, work, broke>> /\ Pull
      BY <1>1 DEF ProxyText
    <2>2. PICK name \in {"text", "promise", "final"} :
            Emit(IF name = "promise" /\ stage = "plain" /\ chunks = 0 THEN <<>> ELSE <<Event(name)>>)
      BY <1>1 DEF ProxyText
    <2>3. (IF name = "promise" /\ stage = "plain" /\ chunks = 0 THEN <<>> ELSE <<Event(name)>>)
            \in Seq(EventSet)
      BY EventLists DEF EventNames
    <2>4. routing' \in {"none", "running", "ready", "shown"} /\ sent' \in Seq(EventSet) /\ Grows
      BY <1>0, <2>2, <2>3, EmitTyped
    <2>5. SpeechOK'
      BY <1>0, <2>1, <2>4 DEF SpeechOK
    <2> QED BY <2>1, <2>4, <2>5, Untouched, GoodParts
  <1>2. CASE ProxyBlock
    <2>1. Go("recompiling", <<Event("retry")>>) /\ Pull
      BY <1>2 DEF ProxyBlock
    <2>2. "recompiling" \in Stages /\ <<Event("retry")>> \in Seq(EventSet)
      BY EventLists DEF Stages, EventNames
    <2>3. SpeechOK' /\ Grows
      BY <1>0, <2>1, <2>2, Speaks
    <2> QED BY <1>2, <2>3, Untouched, GoodParts DEF ProxyBlock
  <1>3. CASE EndOfProxy
    <2>1. SpeechOK' /\ Grows
      BY <1>0, <1>3, Ends, EventLists DEF EndOfProxy
    <2>2. RestOK'
      BY <1>0, <1>3 DEF EndOfProxy, RestOK
    <2> QED BY <1>3, <2>1, <2>2, Untouched, GoodParts DEF EndOfProxy
  <1>4. CASE CoreRaises
    <2>1. SpeechOK' /\ Grows
      BY <1>0, <1>4, Silent DEF CoreRaises, Stages
    <2> QED BY <1>4, <2>1, Untouched, GoodParts DEF CoreRaises
  <1> QED BY <1>1, <1>2, <1>3, <1>4

LEMMA DeepTyped ==
    ASSUME TypeOK,
           TakeDecision \/ Orchestrate \/ MakePlan \/ ExecuteStep \/ FinishPlan \/ StepRaises
    PROVE  Good
  <1>0. ChoiceOK /\ SpeechOK /\ WorkOK /\ RestOK
    BY TypeParts
  <1>1. CASE TakeDecision
    <2>1. UNCHANGED <<choice, thread, shown, chunks, plan, broke>>
      BY <1>1 DEF TakeDecision
    <2>2. <<Event("intent")>> \in Seq(EventSet)
      BY EventLists DEF EventNames
    <2>3. CASE Dispatch("ended") /\ Emit(<<Event("intent")>>)
      <3>1. WorkOK' /\ stage' \in Stages
        BY <1>0, <2>3, Dispatching
      <3>2. SpeechOK' /\ Grows
        BY <1>0, <2>2, <2>3, <3>1, EmitTyped DEF SpeechOK
      <3> QED BY <2>1, <3>1, <3>2, Untouched, GoodParts
    <2>4. CASE stage' = "raised" /\ UNCHANGED <<sent, routing, work>>
      <3>1. SpeechOK' /\ Grows
        BY <1>0, <2>4, Silent DEF Stages
      <3> QED BY <2>1, <2>4, <3>1, Untouched, GoodParts
    <2>5. CASE End(<<Event("intent"), Final(<<>>)>>) /\ UNCHANGED work
      <3>1. SpeechOK' /\ Grows
        BY <1>0, <2>5, Ends, EventLists
      <3> QED BY <2>1, <2>5, <3>1, Untouched, GoodParts
    <2>6. CASE /\ Go(IF turn.via = "stream" THEN "planning" ELSE "orchestrating", <<Event("intent")>>)
               /\ UNCHANGED work
      <3>1. SpeechOK' /\ Grows
        BY <1>0, <2>2, <2>6, Speaks DEF Stages
      <3> QED BY <2>1, <2>6, <3>1, Untouched, GoodParts
    <2> QED BY <1>1, <2>3, <2>4, <2>5, <2>6 DEF TakeDecision
  <1>2. CASE Orchestrate
    <2>1. UNCHANGED <<turn, thread, shown, chunks, plan, work, broke>>
      BY <1>2 DEF Orchestrate
    <2>2. mode' \in {"none", "realtime", "deep", "planning"}
      <3>1. turn.override \in {"none", "realtime", "deep", "planning"}
        BY <1>0, OrchestrationAssumption DEF ChoiceOK, Turn
      <3> QED BY <1>2, <3>1 DEF Orchestrate
    <2>3. ChoiceOK'
      BY <1>0, <2>1, <2>2 DEF ChoiceOK, thread
    <2>4. SpeechOK' /\ Grows
      <3>1. \/ Go("planning", <<>>)
            \/ End(<<Final(<<>>)>>)
            \/ stage' = "raised" /\ UNCHANGED <<sent, routing>>
        BY <1>2 DEF Orchestrate
      <3>2. "planning" \in Stages /\ "raised" \in Stages
        BY DEF Stages
      <3> QED BY <1>0, <3>1, <3>2, Speaks, Ends, Silent, EventLists
    <2> QED BY <2>1, <2>3, <2>4, Untouched, GoodParts
  <1>3. CASE MakePlan
    <2>1. UNCHANGED <<choice, thread, shown, chunks, work, broke>>
      BY <1>3 DEF MakePlan
    <2>2. RestOK'
      BY <1>0, <1>3, OrchestrationAssumption DEF MakePlan, RestOK
    <2>3. \/ End(<<Event("plan"), Final(<<>>)>>)
          \/ Go("stepping", <<Event("plan")>>)
          \/ End(<<Final(<<>>)>>)
      BY <1>3 DEF MakePlan
    <2>4. "stepping" \in Stages /\ <<Event("plan")>> \in Seq(EventSet)
      BY EventLists DEF Stages, EventNames
    <2>5. SpeechOK' /\ Grows
      BY <1>0, <2>3, <2>4, Speaks, Ends, EventLists
    <2> QED BY <2>1, <2>2, <2>5, Untouched, GoodParts
  <1>4. CASE ExecuteStep
    <2>1. UNCHANGED <<choice, thread, shown, routing, chunks, report, ran, dispatches, sent, broke>>
      BY <1>4 DEF ExecuteStep
    <2>2. RestOK'
      BY <1>0, <1>4 DEF ExecuteStep, RestOK
    <2>3. todo' \in Seq({"act", "look"}) /\ after' \in {"surfaced", "stepping", "closing", "ended"}
      BY <1>0, <1>4, OrchestrationAssumption DEF ExecuteStep, WorkOK
    <2>4. stage' \in Stages
      BY <1>0, <1>4 DEF ExecuteStep, SpeechOK, Stages
    <2>5. SpeechOK' /\ Grows
      BY <1>0, <2>1, <2>4, Silent
    <2>6. WorkOK'
      BY <1>0, <2>1, <2>3 DEF WorkOK
    <2> QED BY <2>1, <2>2, <2>5, <2>6, Untouched, GoodParts
  <1>5. CASE FinishPlan
    <2>1. <<Final(report)>> \in Seq(EventSet)
      BY <1>0, EventLists DEF WorkOK
    <2>2. SpeechOK' /\ Grows
      BY <1>0, <1>5, <2>1, Ends DEF FinishPlan
    <2> QED BY <1>5, <2>2, Untouched, GoodParts DEF FinishPlan
  <1>6. CASE StepRaises
    <2>1. SpeechOK' /\ Grows
      <3>1. Go("fallback", <<>>) \/ End(<<Final(<<>>)>>)
        BY <1>6 DEF StepRaises
      <3>2. "fallback" \in Stages
        BY DEF Stages
      <3> QED BY <1>0, <3>1, <3>2, Speaks, Ends, EventLists
    <2>2. RestOK'
      BY <1>0, <1>6 DEF StepRaises, RestOK
    <2> QED BY <1>6, <2>1, <2>2, Untouched, GoodParts DEF StepRaises
  <1> QED BY <1>1, <1>2, <1>3, <1>4, <1>5, <1>6

LEMMA StepTyped ==
    ASSUME TypeOK, Next
    PROVE  Good
  BY StartTyped, RealtimeTyped, DispatchTyped, ProxyTyped, DeepTyped DEF Next

(* Every variable keeps its type.                                           *)
THEOREM OrchestrationTypeCorrect == Spec => []TypeOK
  <1>1. Init => TypeOK
    <2>1. /\ <<>> \in Seq({"act", "look"}) /\ <<>> \in Seq(Statuses)
          /\ <<>> \in Seq(EventSet)
      BY EmptySeq
    <2>2. 0 \in 0 .. MaxChunks
      BY OrchestrationAssumption
    <2>3. Init => ChoiceOK /\ SpeechOK
      BY <2>1 DEF Init, ChoiceOK, SpeechOK, Stages, Decisions
    <2>4. Init => WorkOK /\ RestOK
      BY <2>1, <2>2 DEF Init, WorkOK, RestOK
    <2> QED BY <2>3, <2>4, TypeParts
  <1>2. TypeOK /\ [Next]_vars => TypeOK'
    <2>1. TypeOK /\ UNCHANGED vars => TypeOK'
      BY DEF TypeOK, vars, choice, thread, work
    <2> QED BY <2>1, StepTyped DEF Good
  <1> QED BY <1>1, <1>2, PTL DEF Spec

-----------------------------------------------------------------------------
(* Answers and results.                                                     *)

(* Before anything is dispatched nothing ran; while actions are dispatched  *)
(* the results that will be reported are all there are; and where a stream  *)
(* closes, what ran was told and no decision can come any more.  A plan     *)
(* that broke off is answered all the same, without its results.            *)
OutcomeInv ==
  /\ stage \in {"closing", "ended"} => HasSent("final") \/ "core" \in broke
  /\ "plan" \notin broke =>
       /\ stage \in Undispatched \ {"stepping"} => ran = <<>> /\ report = <<>>
       /\ stage \in {"stepping", "dispatching"} => ran = report
       /\ stage \in {"closing", "ended"} /\ ran # <<>> => Told(sent, ran)
       /\ stage = "closing" /\ ran # <<>> => shown

LEMMA EndTells ==
    ASSUME SpeechOK, NEW events \in Seq(EventSet), NEW results,
           events # <<>>, events[Len(events)] = Final(results),
           End(events) \/ (\E next : Go(next, events))
    PROVE  Told(sent', results) /\ HasSent("final")'
  <1>1. Emit(events)
    BY DEF End, Go
  <1>2. Told(sent', results)
    BY <1>1, EmitTells
  <1> QED BY <1>2 DEF Told, Final, HasSent

(* Three ways in which the outcome stays right.                             *)
LEMMA OutcomeMovesOn ==
    ASSUME OutcomeInv, UNCHANGED <<ran, report, broke>>,
           stage \in Undispatched \ {"stepping"}, stage' \in Undispatched \ {"stepping"}
    PROVE  OutcomeInv'
  BY DEF OutcomeInv, Undispatched

LEMMA OutcomeDispatched ==
    ASSUME OutcomeInv, UNCHANGED <<ran, broke>>, report' = <<>>, stage' = "dispatching",
           stage \in Undispatched \ {"stepping"} \/ (stage = "closing" /\ ~shown)
    PROVE  OutcomeInv'
  BY DEF OutcomeInv, Undispatched

LEMMA OutcomeTold ==
    ASSUME NEW results, UNCHANGED <<ran, broke>>,
           "plan" \notin broke /\ ran # <<>> => results = ran,
           Told(sent', results), HasSent("final")',
           stage' = "ended" \/ (stage' = "closing" /\ ("plan" \notin broke /\ ran # <<>> => shown'))
    PROVE  OutcomeInv'
  BY DEF OutcomeInv, Undispatched

(* The final events of the actions end with a final event.                  *)
LEMMA Closings ==
  /\ \A r \in Seq(Statuses) :
       <<Final(r)>> # <<>> /\ <<Final(r)>>[Len(<<Final(r)>>)] = Final(r)
  /\ LET events == <<Event("intent"), Final(<<>>)>>
     IN  events # <<>> /\ events[Len(events)] = Final(<<>>)
  /\ LET events == <<Event("plan"), Final(<<>>)>>
     IN  events # <<>> /\ events[Len(events)] = Final(<<>>)
  /\ LET events == <<Event("classification"), Event("text"), Final(<<>>)>>
     IN  events # <<>> /\ events[Len(events)] = Final(<<>>)
  /\ \A pre \in Seq(EventSet), r \in Seq(Statuses) :
       LET events == pre \o <<Final(r)>>
       IN  events \in Seq(EventSet) /\ events # <<>> /\ events[Len(events)] = Final(r)
  <1>1. ASSUME NEW pre \in Seq(EventSet), NEW r \in Seq(Statuses)
        PROVE  LET events == pre \o <<Final(r)>>
               IN  events \in Seq(EventSet) /\ events # <<>> /\ events[Len(events)] = Final(r)
    <2>1. <<Final(r)>> \in Seq(EventSet)
      BY EventLists
    <2>2. Len(<<Final(r)>>) = 1 /\ <<Final(r)>>[1] = Final(r) /\ Len(pre) \in Nat
      BY LenProperties
    <2> DEFINE last == <<Final(r)>>
               events == pre \o last
    <2>3. /\ last \in Seq(EventSet) /\ Len(last) = 1 /\ last[1] = Final(r)
      BY <2>1, <2>2
    <2> HIDE DEF last
    <2>4. /\ events \in Seq(EventSet) /\ Len(events) = Len(pre) + Len(last)
          /\ \A i \in 1 .. Len(pre) + Len(last) :
               events[i] = IF i =< Len(pre) THEN pre[i] ELSE last[i - Len(pre)]
      BY <2>3, ConcatProperties
    <2> HIDE DEF events
    <2>5. Len(events) = Len(pre) + 1 /\ events[Len(pre) + 1] = last[1]
      BY <2>2, <2>3, <2>4
    <2>6. events # <<>>
      BY <2>2, <2>5, EmptySeq
    <2> QED BY <2>3, <2>4, <2>5, <2>6 DEF events, last
  <1>2. \A r \in Seq(Statuses) :
          <<Final(r)>> # <<>> /\ <<Final(r)>>[Len(<<Final(r)>>)] = Final(r)
    OBVIOUS
  <1> QED BY <1>1, <1>2

LEMMA PassOutcome ==
    ASSUME TypeOK, OutcomeInv, stage \in {"streaming", "recompiling"},
           NEW events \in Seq(EventSet),
           NEW next \in {"streaming", "recompiling", "closing", "ended"},
           next \in {"closing", "ended"} => events = <<Final(<<>>)>>,
           Pass(events, next), UNCHANGED broke
    PROVE  OutcomeInv'
  <1>0. SpeechOK
    BY TypeParts
  <1>1. "plan" \notin broke => ran = <<>>
    BY DEF OutcomeInv, Undispatched
  <1>2. <<>> \in Seq(Statuses)
    BY EmptySeq
  <1>3. CASE stage' = "dispatching" /\ report' = <<>> /\ ran' = ran
    BY <1>3, OutcomeDispatched DEF Undispatched
  <1>4. CASE End(<<Event("intent"), Final(<<>>)>>) /\ UNCHANGED work
    <2>1. Told(sent', <<>>) /\ HasSent("final")'
      BY <1>0, <1>4, EndTells, EventLists, Closings
    <2>2. stage' = "ended"
      BY <1>4 DEF End
    <2> QED BY <1>1, <1>4, <2>1, <2>2, OutcomeTold DEF work
  <1>5. ASSUME UNCHANGED work,
               NEW all \in {events, <<Event("intent")>> \o events},
               IF next = "ended" THEN End(all) ELSE Go(next, all)
        PROVE  OutcomeInv'
    <2>1. stage' = next
      BY <1>5 DEF End, Go
    <2>2. CASE next \in {"streaming", "recompiling"}
      BY <1>5, <2>1, <2>2, OutcomeMovesOn DEF Undispatched, work
    <2>3. CASE next \in {"closing", "ended"}
      <3>1. all \in Seq(EventSet) /\ all # <<>> /\ all[Len(all)] = Final(<<>>)
        <4>1. <<Event("intent")>> \in Seq(EventSet)
          BY EventLists DEF EventNames
        <4>2. events \in Seq(EventSet) /\ events # <<>> /\ events[Len(events)] = Final(<<>>)
          BY <1>2, <2>3, EventLists, Closings
        <4>3. CASE all = <<Event("intent")>> \o events
          <5>1. all = <<Event("intent")>> \o <<Final(<<>>)>>
            BY <2>3, <4>3
          <5> QED BY <1>2, <4>1, <5>1, Closings
        <4> QED BY <1>5, <4>2, <4>3
      <3>2. Told(sent', <<>>) /\ HasSent("final")'
        BY <1>0, <1>5, <3>1, EndTells
      <3> QED BY <1>1, <1>5, <2>1, <2>3, <3>2, OutcomeTold DEF work
    <2> QED BY <2>2, <2>3
  <1> QED BY <1>3, <1>4, <1>5, PassTyped

LEMMA StartOutcome ==
    ASSUME TypeOK, OutcomeInv, AnswerLocally \/ OpenStream \/ Deepen \/ Respond \/ Decide \/ Route
    PROVE  OutcomeInv'
  <1>0. SpeechOK
    BY TypeParts
  <1>1. CASE AnswerLocally
    <2>1. stage = "start" /\ UNCHANGED broke
      BY <1>1 DEF AnswerLocally, Asked
    <2>2. "plan" \notin broke => ran = <<>>
      BY <2>1 DEF OutcomeInv, Undispatched
    <2>3. CASE /\ End(<<Event("classification"), Event("text"), Final(<<>>)>>)
               /\ UNCHANGED work
      <3>1. Told(sent', <<>>) /\ HasSent("final")' /\ stage' = "ended"
        BY <1>0, <2>3, EndTells, EventLists, Closings DEF End
      <3> QED BY <2>1, <2>2, <2>3, <3>1, OutcomeTold DEF work
    <2>4. CASE Dispatch("ended")
      BY <2>1, <2>4, OutcomeDispatched DEF Dispatch, Undispatched
    <2>5. CASE Go("plain", <<Event("classification")>>) /\ UNCHANGED work
      BY <2>1, <2>5, OutcomeMovesOn DEF Go, Undispatched, work
    <2> QED BY <1>1, <2>3, <2>4, <2>5 DEF AnswerLocally
  <1>2. CASE OpenStream \/ Deepen \/ Respond
    <2>1. stage = "start" /\ stage' \in Undispatched \ {"stepping"} /\ UNCHANGED <<ran, report, broke>>
      BY <1>2 DEF OpenStream, Deepen, Respond, Asked, Go, Undispatched, work
    <2> QED BY <2>1, OutcomeMovesOn DEF Undispatched
  <1>3. CASE Decide \/ Route
    BY <1>3 DEF Decide, Route, OutcomeInv, HasSent, work
  <1> QED BY <1>1, <1>2, <1>3

LEMMA RealtimeOutcome ==
    ASSUME TypeOK, OutcomeInv,
           PullText \/ PullPromise \/ PullBlock \/ EndOfCore \/ CloseStream \/ Recompile
    PROVE  OutcomeInv'
  <1>0. SpeechOK /\ ChoiceOK
    BY TypeParts
  <1>1. CASE PullText
    <2>1. PICK events \in {<<Event("text")>>, <<>>, <<Final(<<>>)>>} : Pass(events, "streaming")
      BY <1>1 DEF PullText
    <2>2. events \in Seq(EventSet)
      BY EventLists DEF EventNames
    <2> QED BY <1>1, <2>1, <2>2, PassOutcome DEF PullText
  <1>2. CASE PullPromise
    <2>1. stage = "streaming" /\ UNCHANGED broke
      BY <1>2 DEF PullPromise
    <2>2. CASE Surfaces
      BY <1>2, <2>1, <2>2, PassOutcome, EventLists DEF PullPromise
    <2>3. CASE ~Surfaces
      <3>1. PICK pre \in {<<Event("intent")>>, <<>>} :
              End(pre \o <<Final(<<>>)>>) /\ UNCHANGED work
        BY <1>2, <2>3 DEF PullPromise
      <3>2. pre \in Seq(EventSet) /\ <<>> \in Seq(Statuses)
        BY EventLists, EmptySeq DEF EventNames
      <3> DEFINE all == pre \o <<Final(<<>>)>>
      <3>3. all \in Seq(EventSet) /\ all # <<>> /\ all[Len(all)] = Final(<<>>)
        BY <3>2, Closings
      <3>4. End(all)
        BY <3>1
      <3> HIDE DEF all
      <3>5. Told(sent', <<>>) /\ HasSent("final")' /\ stage' = "ended"
        BY <1>0, <3>3, <3>4, EndTells DEF End
      <3>6. "plan" \notin broke => ran = <<>>
        BY <2>1 DEF OutcomeInv, Undispatched
      <3> QED BY <2>1, <3>1, <3>5, <3>6, OutcomeTold DEF work
    <2> QED BY <2>2, <2>3
  <1>3. CASE PullBlock
    <2>1. stage = "streaming" /\ UNCHANGED broke /\ <<Event("retry")>> \in Seq(EventSet)
      BY <1>3, EventLists DEF PullBlock, EventNames
    <2>2. CASE Pass(<<Event("retry")>>, "recompiling")
      BY <2>1, <2>2, PassOutcome
    <2>3. CASE Go("recompiling", <<Event("retry")>>) /\ UNCHANGED work
      BY <2>1, <2>3, OutcomeMovesOn DEF Go, Undispatched, work
    <2> QED BY <1>3, <2>2, <2>3 DEF PullBlock
  <1>4. CASE EndOfCore
    <2>1. stage = "streaming" /\ stage' = "closing" /\ UNCHANGED work
      BY <1>4 DEF EndOfCore, Go
    <2>2. broke' = IF HasSent("final") THEN broke ELSE broke \cup {"core"}
      BY <1>4 DEF EndOfCore
    <2>3. sent \in Seq(EventSet) /\ sent' \in Seq(EventSet) /\ Grows
      BY <1>0, <1>4, RealtimeTyped, TypeParts DEF Good, SpeechOK, TypeOK, EventSet
    <2>4. HasSent("final") => HasSent("final")'
      BY <2>3, FinalStays
    <2>5. HasSent("final")' \/ "core" \in broke'
      BY <2>2, <2>4
    <2>6. "plan" \notin broke' => ran' = <<>>
      BY <2>1, <2>2 DEF OutcomeInv, Undispatched, work
    <2> QED BY <2>1, <2>5, <2>6 DEF OutcomeInv, Undispatched
  <1>5. CASE CloseStream
    <2>1. stage = "closing" /\ Pass(<<>>, "ended") /\ UNCHANGED broke
      BY <1>5 DEF CloseStream
    <2>2. "plan" \notin broke /\ ~shown => ran = <<>>
      BY <2>1 DEF OutcomeInv
    <2>3. CASE stage' = "dispatching" /\ Surfaces /\ report' = <<>> /\ ran' = ran
      BY <2>1, <2>3, OutcomeDispatched DEF Surfaces
    <2>4. CASE Surfaces /\ End(<<Event("intent"), Final(<<>>)>>) /\ UNCHANGED work
      <3>1. Told(sent', <<>>) /\ HasSent("final")' /\ stage' = "ended"
        BY <1>0, <2>4, EndTells, EventLists, Closings DEF End
      <3> QED BY <2>1, <2>2, <2>4, <3>1, OutcomeTold DEF work, Surfaces
    <2>5. ASSUME UNCHANGED work,
                 NEW all \in {<<>>, <<Event("intent")>> \o <<>>},
                 all = <<>> \/ Surfaces, End(all)
          PROVE  OutcomeInv'
      <3>1. stage' = "ended" /\ UNCHANGED <<ran, broke>>
        BY <2>1, <2>5 DEF End, work
      <3>2. sent \in Seq(EventSet) /\ sent' \in Seq(EventSet) /\ Grows
        BY <1>0, <1>5, RealtimeTyped, TypeParts DEF Good, SpeechOK, TypeOK, EventSet
      <3>3. HasSent("final")' \/ "core" \in broke'
        BY <2>1, <3>1, <3>2, FinalStays DEF OutcomeInv
      <3>4. "plan" \notin broke /\ ran # <<>> => Told(sent', ran)
        <4> SUFFICES ASSUME "plan" \notin broke, ran # <<>>
                     PROVE  Told(sent', ran)
          OBVIOUS
        <4>1. shown /\ Told(sent, ran)
          BY <2>1 DEF OutcomeInv
        <4>2. End(<<>>)
          BY <2>5, <4>1 DEF Surfaces
        <4> QED BY <1>0, <4>1, <4>2, EndKeeps
      <3> QED BY <3>1, <3>3, <3>4 DEF OutcomeInv, Undispatched
    <2> QED BY <2>1, <2>3, <2>4, <2>5, PassTyped, EventLists
  <1>6. CASE Recompile
    <2> DEFINE next == IF mode = "deep" THEN "ended" ELSE "closing"
    <2>1. stage = "recompiling" /\ UNCHANGED broke
      BY <1>6 DEF Recompile
    <2>2. CASE Dispatch(next)
      BY <2>1, <2>2, OutcomeDispatched DEF Dispatch, Undispatched
    <2>3. CASE Go("ended", <<Final(<<>>)>>) /\ UNCHANGED <<shown, work>>
      <3>1. Told(sent', <<>>) /\ HasSent("final")' /\ stage' = "ended"
        BY <1>0, <2>3, EndTells, EventLists, Closings, EmptySeq DEF Go
      <3>2. "plan" \notin broke => ran = <<>>
        BY <2>1 DEF OutcomeInv, Undispatched
      <3> QED BY <2>1, <2>3, <3>1, <3>2, OutcomeTold DEF work
    <2>4. CASE Pass(<<Final(<<>>)>>, next)
      BY <2>1, <2>4, PassOutcome, EventLists
    <2> QED BY <1>6, <2>2, <2>3, <2>4 DEF Recompile
  <1> QED BY <1>1, <1>2, <1>3, <1>4, <1>5, <1>6

LEMMA DispatchOutcome ==
    ASSUME TypeOK, OnceInv, OutcomeInv, RunAction \/ Dispatched
    PROVE  OutcomeInv'
  <1>0. SpeechOK /\ WorkOK
    BY TypeParts
  <1>1. CASE RunAction
    <2>1. stage = "dispatching" /\ stage' = "dispatching" /\ UNCHANGED broke
      BY <1>1 DEF RunAction
    <2>2. \E status : report' = Append(report, status) /\ ran' = Append(ran, status)
      BY <1>1 DEF RunAction
    <2> QED BY <2>1, <2>2 DEF OutcomeInv, Undispatched
  <1>2. CASE Dispatched
    <2>1. stage = "dispatching" /\ UNCHANGED <<ran, report, broke, shown>>
      BY <1>2 DEF Dispatched, work
    <2>2. report \in Seq(Statuses) /\ after \in {"surfaced", "stepping", "closing", "ended"}
      BY <1>0 DEF WorkOK
    <2>3. "plan" \notin broke => ran = report
      BY <2>1 DEF OutcomeInv
    <2>4. CASE after = "surfaced"
      <3> DEFINE pre == <<Event("intent")>> \o Results(report)
      <3>1. pre \in Seq(EventSet)
        <4>1. <<Event("intent")>> \in Seq(EventSet) /\ Results(report) \in Seq(EventSet)
          BY <2>2, EventLists, EventTypes DEF EventNames
        <4> QED BY <4>1, ConcatProperties
      <3>2. End(pre \o <<Final(report)>>)
        BY <1>2, <2>4 DEF Dispatched
      <3> HIDE DEF pre
      <3> DEFINE all == pre \o <<Final(report)>>
      <3>3. all \in Seq(EventSet) /\ all # <<>> /\ all[Len(all)] = Final(report)
        BY <2>2, <3>1, Closings
      <3>4. End(all)
        BY <3>2
      <3> HIDE DEF all
      <3>5. Told(sent', report) /\ HasSent("final")' /\ stage' = "ended"
        BY <1>0, <3>3, <3>4, EndTells DEF End
      <3> QED BY <2>1, <2>3, <3>5, OutcomeTold
    <2>5. CASE after = "stepping"
      <3>1. stage' = "stepping"
        BY <1>2, <2>5 DEF Dispatched, Go
      <3> QED BY <2>1, <3>1 DEF OutcomeInv, Undispatched
    <2>6. CASE after \in {"closing", "ended"}
      <3>1. Go(after, <<Final(report)>>)
        BY <1>2, <2>6 DEF Dispatched
      <3>2. Told(sent', report) /\ HasSent("final")' /\ stage' = after
        BY <1>0, <2>2, <3>1, EndTells, EventLists, Closings DEF Go
      <3>3. after = "closing" => shown'
        BY <2>1 DEF OnceInv
      <3> QED BY <2>1, <2>3, <2>6, <3>2, <3>3, OutcomeTold
    <2> QED BY <2>2, <2>4, <2>5, <2>6
  <1> QED BY <1>1, <1>2

LEMMA ProxyOutcome ==
    ASSUME TypeOK, OutcomeInv, ProxyText \/ ProxyBlock \/ EndOfProxy \/ CoreRaises
    PROVE  OutcomeInv'
  <1>1. CASE ProxyText
    BY <1>1, OutcomeMovesOn DEF ProxyText, Undispatched, work
  <1>2. CASE ProxyBlock
    BY <1>2, OutcomeMovesOn DEF ProxyBlock, Go, Undispatched, work
  <1>3. CASE EndOfProxy
    <2>1. stage \in {"plain", "fallback"} /\ stage' = "ended" /\ UNCHANGED work
      BY <1>3 DEF EndOfProxy, End
    <2>2. broke' = IF HasSent("final") THEN broke ELSE broke \cup {"core"}
      BY <1>3 DEF EndOfProxy
    <2>3. sent \in Seq(EventSet) /\ sent' \in Seq(EventSet) /\ Grows
      BY <1>3, ProxyTyped DEF Good, TypeOK, EventSet
    <2>4. HasSent("final") => HasSent("final")'
      BY <2>3, FinalStays
    <2>5. HasSent("final")' \/ "core" \in broke'
      BY <2>2, <2>4
    <2>6. "plan" \notin broke' => ran' = <<>>
      BY <2>1, <2>2 DEF OutcomeInv, Undispatched, work
    <2> QED BY <2>1, <2>5, <2>6 DEF OutcomeInv, Undispatched
  <1>4. CASE CoreRaises
    BY <1>4 DEF CoreRaises, OutcomeInv, Undispatched
  <1> QED BY <1>1, <1>2, <1>3, <1>4

LEMMA DeepOutcome ==
    ASSUME TypeOK, OutcomeInv,
           TakeDecision \/ Orchestrate \/ MakePlan \/ ExecuteStep \/ FinishPlan \/ StepRaises
    PROVE  OutcomeInv'
  <1>0. SpeechOK /\ WorkOK /\ <<>> \in Seq(Statuses)
    BY TypeParts, EmptySeq
  <1>1. ASSUME stage \in Undispatched \ {"stepping"}, UNCHANGED <<work, broke>>,
               NEW events \in {<<Event("intent"), Final(<<>>)>>, <<Event("plan"), Final(<<>>)>>,
                               <<Final(<<>>)>>},
               End(events)
        PROVE  OutcomeInv'
    <2>1. events \in Seq(EventSet) /\ events # <<>> /\ events[Len(events)] = Final(<<>>)
      BY <1>0, EventLists, Closings
    <2>2. Told(sent', <<>>) /\ HasSent("final")' /\ stage' = "ended"
      BY <1>0, <1>1, <2>1, EndTells DEF End
    <2>3. "plan" \notin broke => ran = <<>>
      BY <1>1 DEF OutcomeInv
    <2> QED BY <1>1, <2>2, <2>3, OutcomeTold DEF work
  <1>2. CASE TakeDecision
    <2>1. stage = "deciding" /\ UNCHANGED broke
      BY <1>2 DEF TakeDecision
    <2>2. CASE Dispatch("ended")
      BY <2>1, <2>2, OutcomeDispatched DEF Dispatch, Undispatched
    <2>3. CASE stage' = "raised"
      BY <2>3 DEF OutcomeInv, Undispatched
    <2>4. CASE End(<<Event("intent"), Final(<<>>)>>) /\ UNCHANGED work
      BY <1>1, <2>1, <2>4 DEF Undispatched
    <2>5. CASE /\ Go(IF turn.via = "stream" THEN "planning" ELSE "orchestrating", <<Event("intent")>>)
               /\ UNCHANGED work
      BY <2>1, <2>5, OutcomeMovesOn DEF Go, Undispatched, work
    <2> QED BY <1>2, <2>2, <2>3, <2>4, <2>5 DEF TakeDecision
  <1>3. CASE Orchestrate
    <2>1. stage = "orchestrating" /\ UNCHANGED <<work, broke>>
      BY <1>3 DEF Orchestrate
    <2>2. Go("planning", <<>>) \/ End(<<Final(<<>>)>>) \/ stage' = "raised"
      BY <1>3 DEF Orchestrate
    <2>3. CASE Go("planning", <<>>)
      BY <2>1, <2>3, OutcomeMovesOn DEF Go, Undispatched, work
    <2>4. CASE End(<<Final(<<>>)>>)
      BY <1>1, <2>1, <2>4 DEF Undispatched
    <2>5. CASE stage' = "raised"
      BY <2>5 DEF OutcomeInv, Undispatched
    <2> QED BY <2>2, <2>3, <2>4, <2>5
  <1>4. CASE MakePlan
    <2>1. stage = "planning" /\ UNCHANGED <<work, broke>>
      BY <1>4 DEF MakePlan
    <2>2. \/ End(<<Event("plan"), Final(<<>>)>>)
          \/ Go("stepping", <<Event("plan")>>)
          \/ End(<<Final(<<>>)>>)
      BY <1>4 DEF MakePlan
    <2>3. CASE Go("stepping", <<Event("plan")>>)
      BY <2>1, <2>3 DEF Go, OutcomeInv, Undispatched, work
    <2> QED BY <1>1, <2>1, <2>2, <2>3 DEF Undispatched
  <1>5. CASE ExecuteStep
    <2>1. stage = "stepping" /\ stage' \in {"stepping", "dispatching"} /\ UNCHANGED <<ran, report, broke>>
      BY <1>5 DEF ExecuteStep
    <2> QED BY <2>1 DEF OutcomeInv, Undispatched
  <1>6. CASE FinishPlan
    <2>1. stage = "stepping" /\ stage' = "ended" /\ UNCHANGED <<ran, broke>>
      BY <1>6 DEF FinishPlan, End, work
    <2>2. Told(sent', report) /\ HasSent("final")'
      <3>1. <<Final(report)>> \in Seq(EventSet) /\ report \in Seq(Statuses)
        BY <1>0, EventLists DEF WorkOK
      <3> QED BY <1>0, <1>6, <3>1, EndTells, Closings DEF FinishPlan
    <2>3. "plan" \notin broke => ran = report
      BY <2>1 DEF OutcomeInv
    <2> QED BY <2>1, <2>2, <2>3, OutcomeTold
  <1>7. CASE StepRaises
    <2>1. "plan" \in broke'
      BY <1>7 DEF StepRaises
    <2>2. CASE Go("fallback", <<>>)
      BY <2>1, <2>2 DEF Go, OutcomeInv
    <2>3. CASE End(<<Final(<<>>)>>)
      <3>1. HasSent("final")'
        BY <1>0, <2>3, EndTells, EventLists, Closings
      <3> QED BY <2>1, <3>1 DEF OutcomeInv
    <2> QED BY <1>7, <2>2, <2>3 DEF StepRaises
  <1> QED BY <1>2, <1>3, <1>4, <1>5, <1>6, <1>7

(* What is behind both theorems below.                                      *)
OrchestrationInv == TypeOK /\ OnceInv /\ OutcomeInv

LEMMA OutcomeStep ==
    ASSUME TypeOK, OnceInv, OutcomeInv, Next
    PROVE  OutcomeInv'
  BY StartOutcome, RealtimeOutcome, DispatchOutcome, ProxyOutcome, DeepOutcome DEF Next

LEMMA OutcomeAlways == Spec => []OrchestrationInv
  <1>1. Init => OutcomeInv
    BY DEF Init, OutcomeInv, Undispatched
  <1>2. OrchestrationInv /\ [Next]_vars => OutcomeInv'
    <2>1. OutcomeInv /\ UNCHANGED vars => OutcomeInv'
      BY DEF OutcomeInv, HasSent, vars, choice, thread, work
    <2> QED BY <2>1, OutcomeStep DEF OrchestrationInv
  <1>3. OnceInv /\ [Next]_vars => OnceInv'
    <2>1. OnceInv /\ UNCHANGED vars => OnceInv'
      BY DEF OnceInv, vars, choice, work
    <2> QED BY <2>1, StartStep, RealtimeStep, OtherStep DEF Next
  <1>4. OrchestrationInv <=> TypeOK /\ OnceInv /\ OutcomeInv
    BY DEF OrchestrationInv
  <1> QED BY <1>1, <1>2, <1>3, <1>4, OnceInvInit, OrchestrationTypeCorrect, PTL DEF Spec

(* A turn that ends has sent a final event, unless the core broke its own   *)
(* answer off: on every route and for every outcome of the decision, the    *)
(* actions and the plan.                                                    *)
THEOREM TurnsAreAnswered == Spec => []AlwaysAnswered
  <1>1. OrchestrationInv => AlwaysAnswered
    BY DEF OrchestrationInv, OutcomeInv, AlwaysAnswered
  <1> QED BY <1>1, OutcomeAlways, PTL

(* The last final event of a turn tells the results of every action that    *)
(* ran in it, those of all steps of a plan and of follow-ups, in order.     *)
THEOREM ResultsReachTheClient == Spec => []ResultsTold
  <1>1. OrchestrationInv => ResultsTold
    BY DEF OrchestrationInv, OutcomeInv, ResultsTold
  <1> QED BY <1>1, OutcomeAlways, PTL
=============================================================================
