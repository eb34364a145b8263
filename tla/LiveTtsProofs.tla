----------------------------- MODULE LiveTtsProofs -----------------------------
(***************************************************************************)
(* Theorems about LiveTts: what a listener hears is what the turn put on   *)
(* the queue, in order, shared with no other listener, up to the end       *)
(* marker; and the marker is there when the turn has ended.                *)
(***************************************************************************)
EXTENDS LiveTts, SequenceTheorems, TLAPS

-----------------------------------------------------------------------------
(* Sequences. *)

(* A concatenation holds what its parts hold. *)
LEMMA CatHolds ==
    ASSUME NEW S, NEW s \in Seq(S), NEW t \in Seq(S)
    PROVE  /\ s \o t \in Seq(S)
           /\ ToSet(s \o t) = ToSet(s) \cup ToSet(t)
<1>1. s \o t \in Seq(S)
  OBVIOUS
<1>2. ToSet(s \o t) \subseteq ToSet(s) \cup ToSet(t)
  <2> SUFFICES ASSUME NEW i \in DOMAIN (s \o t) PROVE (s \o t)[i] \in ToSet(s) \cup ToSet(t)
    BY DEF ToSet
  <2>1. CASE i =< Len(s)
    <3>1. i \in DOMAIN s /\ (s \o t)[i] = s[i]
      BY <2>1
    <3> QED BY <3>1 DEF ToSet
  <2>2. CASE i > Len(s)
    <3>1. i - Len(s) \in DOMAIN t /\ (s \o t)[i] = t[i - Len(s)]
      BY <2>2
    <3> QED BY <3>1 DEF ToSet
  <2> QED BY <2>1, <2>2
<1>3. ToSet(s) \subseteq ToSet(s \o t)
  <2> SUFFICES ASSUME NEW i \in DOMAIN s PROVE s[i] \in ToSet(s \o t)
    BY DEF ToSet
  <2>1. i \in DOMAIN (s \o t) /\ (s \o t)[i] = s[i]
    OBVIOUS
  <2> QED BY <2>1 DEF ToSet
<1>4. ToSet(t) \subseteq ToSet(s \o t)
  <2> SUFFICES ASSUME NEW i \in DOMAIN t PROVE t[i] \in ToSet(s \o t)
    BY DEF ToSet
  <2>1. i + Len(s) \in DOMAIN (s \o t) /\ (s \o t)[i + Len(s)] = t[i]
    OBVIOUS
  <2> QED BY <2>1 DEF ToSet
<1> QED BY <1>1, <1>2, <1>3, <1>4

(* One element and none. *)
LEMMA SmallHolds ==
    /\ ToSet(<<>>) = {}
    /\ \A x : ToSet(<<x>>) = {x}
BY DEF ToSet

LEMMA SmallSeqs ==
    ASSUME NEW S, NEW x \in S, NEW s, s = <<>> \/ s = <<x>>
    PROVE  s \in Seq(S)
<1>1. <<>> \in Seq(S) /\ <<x>> \in Seq(S)
  OBVIOUS
<1> QED BY <1>1

LEMMA WiderSeq ==
    ASSUME NEW S, NEW T, S \subseteq T, NEW s \in Seq(S)
    PROVE  s \in Seq(T)
<1>1. PICK n \in Nat : s \in [1..n -> S]
  BY SeqDef
<1>2. s \in [1..n -> T]
  BY <1>1
<1> QED BY <1>2, SeqDef

(* A sequence cut in two is put together again. *)
LEMMA CutInTwo ==
    ASSUME NEW S, NEW s \in Seq(S), NEW n \in 0..Len(s)
    PROVE  /\ SubSeq(s, 1, n) \in Seq(S)
           /\ SubSeq(s, n + 1, Len(s)) \in Seq(S)
           /\ SubSeq(s, 1, n) \o SubSeq(s, n + 1, Len(s)) = s
<1>1. SubSeq(s, 1, n) \in Seq(S)
  BY SubSeqProperties
<1>2. SubSeq(s, n + 1, Len(s)) \in Seq(S)
  BY SubSeqProperties
<1>3. SubSeq(s, 1, n) \o SubSeq(s, n + 1, Len(s)) = SubSeq(s, 1, Len(s))
  <2>1. 1 \in 1..Len(s) + 1 /\ n \in 1 - 1..Len(s) /\ Len(s) \in n..Len(s)
    OBVIOUS
  <2> QED BY <2>1, ConcatAdjacentSubSeq
<1>4. SubSeq(s, 1, Len(s)) = s
  BY SubSeqFull
<1> QED BY <1>1, <1>2, <1>3, <1>4

(* The head of a queue and the rest of it. *)
LEMMA HeadThenTail ==
    ASSUME NEW S, NEW q \in Seq(S), q # <<>>
    PROVE  /\ Head(q) \in S
           /\ Tail(q) \in Seq(S)
           /\ q = <<Head(q)>> \o Tail(q)
           /\ Len(q) > 0 /\ Head(q) = q[1]
           /\ Len(Tail(q)) = Len(q) - 1
           /\ \A i \in 1..Len(q) - 1 : Tail(q)[i] = q[i + 1]
<1>1. Head(q) \in S /\ Tail(q) \in Seq(S) /\ Len(q) > 0 /\ Head(q) = q[1]
      /\ Len(Tail(q)) = Len(q) - 1 /\ \A i \in 1..Len(q) - 1 : Tail(q)[i] = q[i + 1]
  OBVIOUS
<1>2. q = <<Head(q)>> \o Tail(q)
  OBVIOUS
<1> QED BY <1>1, <1>2

(* Every text of s is earlier than every text of t. *)
Before(s, t) == \A x \in ToSet(s), y \in ToSet(t) : EndMark \notin {x, y} => x < y

(* A concatenation is in order if its parts are, and the first is before   *)
(* the second.                                                             *)
LEMMA CatInOrder ==
    ASSUME NEW s \in Seq(Nat), NEW t \in Seq(Nat)
    PROVE  InOrder(s \o t) <=> InOrder(s) /\ InOrder(t) /\ Before(s, t)
<1>1. ASSUME InOrder(s \o t) PROVE InOrder(s)
  <2> SUFFICES ASSUME NEW i \in DOMAIN s, NEW j \in DOMAIN s, i < j, EndMark \notin {s[i], s[j]}
               PROVE  s[i] < s[j]
    BY DEF InOrder
  <2>1. /\ i \in DOMAIN (s \o t) /\ j \in DOMAIN (s \o t)
        /\ (s \o t)[i] = s[i] /\ (s \o t)[j] = s[j]
    OBVIOUS
  <2> QED BY <1>1, <2>1 DEF InOrder
<1>2. ASSUME InOrder(s \o t) PROVE InOrder(t)
  <2> SUFFICES ASSUME NEW i \in DOMAIN t, NEW j \in DOMAIN t, i < j, EndMark \notin {t[i], t[j]}
               PROVE  t[i] < t[j]
    BY DEF InOrder
  <2>1. /\ i + Len(s) \in DOMAIN (s \o t) /\ j + Len(s) \in DOMAIN (s \o t)
        /\ (s \o t)[i + Len(s)] = t[i] /\ (s \o t)[j + Len(s)] = t[j]
        /\ i + Len(s) < j + Len(s)
    OBVIOUS
  <2> QED BY <1>2, <2>1 DEF InOrder
<1>3. ASSUME InOrder(s \o t) PROVE Before(s, t)
  <2> SUFFICES ASSUME NEW i \in DOMAIN s, NEW j \in DOMAIN t, EndMark \notin {s[i], t[j]}
               PROVE  s[i] < t[j]
    BY DEF Before, ToSet
  <2>1. /\ i \in DOMAIN (s \o t) /\ j + Len(s) \in DOMAIN (s \o t)
        /\ (s \o t)[i] = s[i] /\ (s \o t)[j + Len(s)] = t[j]
        /\ i < j + Len(s)
    OBVIOUS
  <2> QED BY <1>3, <2>1 DEF InOrder
<1>4. ASSUME InOrder(s), InOrder(t), Before(s, t) PROVE InOrder(s \o t)
  <2> SUFFICES ASSUME NEW i \in DOMAIN (s \o t), NEW j \in DOMAIN (s \o t), i < j,
                      EndMark \notin {(s \o t)[i], (s \o t)[j]}
               PROVE  (s \o t)[i] < (s \o t)[j]
    BY DEF InOrder
  <2>1. CASE j =< Len(s)
    <3>1. i \in DOMAIN s /\ j \in DOMAIN s /\ (s \o t)[i] = s[i] /\ (s \o t)[j] = s[j]
      BY <2>1
    <3> QED BY <1>4, <3>1 DEF InOrder
  <2>2. CASE i > Len(s)
    <3>1. /\ i - Len(s) \in DOMAIN t /\ j - Len(s) \in DOMAIN t /\ i - Len(s) < j - Len(s)
          /\ (s \o t)[i] = t[i - Len(s)] /\ (s \o t)[j] = t[j - Len(s)]
      BY <2>2
    <3> QED BY <1>4, <3>1 DEF InOrder
  <2>3. CASE i =< Len(s) /\ j > Len(s)
    <3>1. /\ i \in DOMAIN s /\ j - Len(s) \in DOMAIN t
          /\ (s \o t)[i] = s[i] /\ (s \o t)[j] = t[j - Len(s)]
      BY <2>3
    <3>2. (s \o t)[i] \in ToSet(s) /\ (s \o t)[j] \in ToSet(t)
      BY <3>1 DEF ToSet
    <3> QED BY <1>4, <3>2 DEF Before
  <2> QED BY <2>1, <2>2, <2>3
<1> QED BY <1>1, <1>2, <1>3, <1>4

-----------------------------------------------------------------------------
(* Types. *)

Marked == Texts \cup {EndMark}

LEMMA MarkedIsNat == Marked = Nat /\ Texts \subseteq Nat /\ EndMark \notin Texts /\ EndMark \in Nat
BY DEF Marked, Texts, EndMark

(* What the turn is about to look at is an event, and a position a text. *)
LEMMA PullTypes ==
    ASSUME StreamsAssumption, TypeOK, turn.pos =< Len(stream)
    PROVE  /\ turn.pos \in Texts /\ turn.pos + 1 \in 1..Len(stream) + 1
           /\ stream[turn.pos] \in Events
BY DEF StreamsAssumption, TypeOK, Texts

LEMMA TypesInit == StreamsAssumption /\ Init => TypeOK
<1> SUFFICES ASSUME StreamsAssumption, Init PROVE TypeOK
  OBVIOUS
<1>1. Len(stream) \in Nat
  BY DEF Init, StreamsAssumption
<1>2. turn \in [stage : TurnStages, pos : 1..Len(stream) + 1, sawDelta : BOOLEAN]
  BY <1>1 DEF Init, TurnStages
<1>3. audio \in [Listeners -> [stage : AudioStages, ending : {"heard", "timedOut"},
                                segment : Seq(Texts), buffer : Seq(Texts)]]
  BY DEF Init, AudioStages
<1>4. textQueue \in Seq(Marked)
  BY DEF Init
<1>5. spoken \in [Listeners -> Seq(Texts)]
  BY DEF Init
<1>6. stream \in Streams /\ listed = FALSE /\ closed = FALSE /\ said = {}
  BY DEF Init
<1> QED BY <1>2, <1>3, <1>4, <1>5, <1>6 DEF TypeOK, Marked

(* _finish_live_tts_session puts the texts and, once, the marker. *)
LEMMA PutTypes ==
    ASSUME TypeOK, NEW texts \in Seq(Texts), PutAndFinish(texts)
    PROVE  /\ textQueue' \in Seq(Marked)
           /\ closed' \in BOOLEAN
           /\ textQueue' = textQueue \o (texts \o (IF closed THEN <<>> ELSE <<EndMark>>))
<1>1. textQueue \in Seq(Marked) /\ texts \in Seq(Marked) /\ EndMark \in Marked
  BY DEF TypeOK, Marked, Texts
<1>2. closed' \in BOOLEAN
  BY DEF PutAndFinish
<1>3. CASE closed
  <2>1. textQueue' = textQueue \o texts
    BY <1>3 DEF PutAndFinish
  <2>2. texts \o <<>> = texts
    BY <1>1
  <2> QED BY <1>1, <1>2, <1>3, <2>1, <2>2
<1>4. CASE ~closed
  <2>1. textQueue' = Append(textQueue \o texts, EndMark)
    BY <1>4 DEF PutAndFinish
  <2>2. Append(textQueue \o texts, EndMark) = textQueue \o (texts \o <<EndMark>>)
    BY <1>1
  <2>3. textQueue \o (texts \o <<EndMark>>) \in Seq(Marked)
    BY <1>1
  <2> QED BY <1>2, <1>4, <2>1, <2>2, <2>3
<1> QED BY <1>3, <1>4

(* What a pull takes out of an event is its position, if anything. *)
Taken == IF Speaks(stream[turn.pos]) THEN <<turn.pos>> ELSE <<>>

LEMMA PullPuts ==
    ASSUME StreamsAssumption, TypeOK, Pull
    PROVE  /\ Taken \in Seq(Texts)
           /\ textQueue' = textQueue \o (Taken \o (IF stream[turn.pos] = "done" /\ ~closed
                                                   THEN <<EndMark>> ELSE <<>>))
           /\ textQueue' \in Seq(Marked)
           /\ closed' = (closed \/ stream[turn.pos] = "done")
           /\ said' = said \cup ToSet(Taken)
<1>1. Taken \in Seq(Texts)
  BY PullTypes DEF Pull, Taken
<1>2. said' = said \cup ToSet(Taken)
  BY DEF Pull, Taken
<1>3. CASE stream[turn.pos] = "done"
  <2>1. PutAndFinish(Taken)
    BY <1>3 DEF Pull, Taken
  <2>2. closed' = TRUE
    BY <2>1 DEF PutAndFinish
  <2> HIDE DEF Taken
  <2>3. /\ textQueue' \in Seq(Marked)
        /\ textQueue' = textQueue \o (Taken \o (IF closed THEN <<>> ELSE <<EndMark>>))
    BY <1>1, <2>1, PutTypes
  <2> QED BY <1>1, <1>2, <1>3, <2>2, <2>3
<1>4. CASE stream[turn.pos] # "done"
  <2>1. textQueue' = textQueue \o Taken /\ closed' = closed
    BY <1>4 DEF Pull, Taken
  <2> HIDE DEF Taken
  <2>2. Taken \o <<>> = Taken
    BY <1>1
  <2>3. textQueue \o Taken \in Seq(Marked)
    BY <1>1 DEF TypeOK, Marked
  <2>4. closed \in BOOLEAN
    BY DEF TypeOK
  <2> QED BY <1>1, <1>2, <1>4, <2>1, <2>2, <2>3, <2>4
<1> QED BY <1>3, <1>4

(* The two ends of a turn. *)
LEMMA FinishPuts ==
    ASSUME TypeOK, NEW stage, Finish(stage)
    PROVE  /\ textQueue' = textQueue \o (IF closed THEN <<>> ELSE <<EndMark>>)
           /\ textQueue' \in Seq(Marked)
           /\ closed' = TRUE
<1>1. PutAndFinish(<<>>)
  BY DEF Finish
<1>2. <<>> \in Seq(Texts)
  OBVIOUS
<1>3. /\ textQueue' \in Seq(Marked)
      /\ textQueue' = textQueue \o (<<>> \o (IF closed THEN <<>> ELSE <<EndMark>>))
  BY <1>1, <1>2, PutTypes
<1>4. <<>> \o (IF closed THEN <<>> ELSE <<EndMark>>) = (IF closed THEN <<>> ELSE <<EndMark>>)
  BY MarkedIsNat
<1> QED BY <1>1, <1>3, <1>4 DEF PutAndFinish

LEMMA TypesStep == StreamsAssumption /\ TypeOK /\ [Next]_vars => TypeOK'
<1> SUFFICES ASSUME StreamsAssumption, TypeOK, [Next]_vars PROVE TypeOK'
  OBVIOUS
<1> DEFINE Audio == [stage : AudioStages, ending : {"heard", "timedOut"},
                     segment : Seq(Texts), buffer : Seq(Texts)]
<1>0. /\ Len(stream) \in Nat
      /\ textQueue \in Seq(Marked)
      /\ audio \in [Listeners -> Audio]
      /\ spoken \in [Listeners -> Seq(Texts)]
      /\ <<>> \in Seq(Texts)
      /\ "receiving" \in AudioStages /\ "refused" \in AudioStages /\ "speaking" \in AudioStages
      /\ "last" \in AudioStages /\ "cut" \in AudioStages
  BY DEF TypeOK, StreamsAssumption, Marked, AudioStages
<1>1. CASE Open \/ Resume \/ Yield
  BY <1>1 DEF Open, Resume, Yield, TypeOK, TurnStages
<1>2. CASE Pull
  <2>1. /\ turn' = [stage |-> "yielding", pos |-> turn.pos + 1,
                    sawDelta |-> turn.sawDelta \/ stream[turn.pos] = "delta"]
        /\ turn.pos =< Len(stream)
        /\ UNCHANGED <<stream, listed, audio, spoken>>
    BY <1>2 DEF Pull
  <2>2. turn' \in [stage : TurnStages, pos : 1..Len(stream) + 1, sawDelta : BOOLEAN]
    BY <2>1, PullTypes DEF TurnStages, TypeOK
  <2>3. /\ Taken \in Seq(Texts) /\ textQueue' \in Seq(Marked) /\ said' = said \cup ToSet(Taken)
        /\ closed' \in BOOLEAN
    BY <1>2, PullPuts
  <2>4. ToSet(Taken) \subseteq Texts
    BY <2>3 DEF ToSet
  <2> QED BY <2>1, <2>2, <2>3, <2>4 DEF TypeOK, Marked
<1>3. ASSUME NEW stage \in TurnStages, Finish(stage) PROVE TypeOK'
  <2>1. textQueue' \in Seq(Marked) /\ closed' = TRUE
    BY <1>3, FinishPuts
  <2>2. /\ turn' = [turn EXCEPT !.stage = stage]
        /\ UNCHANGED <<stream, listed, audio, spoken, said>>
    BY <1>3 DEF Finish
  <2> QED BY <2>1, <2>2 DEF TypeOK, Marked
<1>4. CASE EndOfStream \/ BreakOff
  BY <1>3, <1>4 DEF EndOfStream, BreakOff, TurnStages
<1>5. ASSUME NEW l \in Listeners, Receive(l) PROVE TypeOK'
  <2>1. Head(textQueue) \in Marked /\ Tail(textQueue) \in Seq(Marked)
    BY <1>0, <1>5, HeadThenTail DEF Receive
  <2>2. CASE IsEnd(Head(textQueue))
    <3>1. audio' = [audio EXCEPT ![l].stage = "last", ![l].ending = "heard"]
      BY <1>5, <2>2 DEF Receive
    <3>2. audio' \in [Listeners -> Audio]
      BY <1>0, <3>1
    <3> QED BY <1>5, <2>1, <3>2 DEF Receive, TypeOK, Marked
  <2>3. CASE ~IsEnd(Head(textQueue))
    <3> DEFINE buffer == Append(audio[l].buffer, Head(textQueue))
    <3>1. buffer \in Seq(Texts)
      BY <1>0, <2>1, <2>3 DEF IsEnd, Marked
    <3>2. PICK n \in 0..Len(buffer) :
              audio' = [audio EXCEPT
                  ![l].segment = SubSeq(buffer, 1, n),
                  ![l].buffer = SubSeq(buffer, n + 1, Len(buffer)),
                  ![l].stage = IF n = 0 THEN "receiving" ELSE "speaking"]
      BY <1>5, <2>3 DEF Receive
    <3> HIDE DEF buffer
    <3>3. SubSeq(buffer, 1, n) \in Seq(Texts) /\ SubSeq(buffer, n + 1, Len(buffer)) \in Seq(Texts)
      BY <3>1, CutInTwo
    <3>4. (IF n = 0 THEN "receiving" ELSE "speaking") \in AudioStages
      BY DEF AudioStages
    <3>5. audio' \in [Listeners -> Audio]
      BY <1>0, <3>2, <3>3, <3>4
    <3> QED BY <1>5, <2>1, <3>5 DEF Receive, TypeOK, Marked
  <2> QED BY <2>2, <2>3
<1>6. ASSUME NEW l \in Listeners, Listen(l) \/ TimeOut(l) PROVE TypeOK'
  <2>1. audio' \in [Listeners -> Audio]
    BY <1>0, <1>6 DEF Listen, TimeOut
  <2> QED BY <1>6, <2>1 DEF Listen, TimeOut, TypeOK
<1>7. ASSUME NEW l \in Listeners, Speak(l) \/ SpeakLast(l) PROVE TypeOK'
  <2>1. audio[l] \in Audio /\ spoken[l] \in Seq(Texts) /\ <<>> \in Seq(Texts)
    BY <1>0
  <2>2. /\ spoken[l] \o audio[l].segment \in Seq(Texts)
        /\ spoken[l] \o audio[l].buffer \in Seq(Texts)
        /\ audio[l].ending \in AudioStages
    BY <2>1 DEF AudioStages
  <2>3. spoken' \in [Listeners -> Seq(Texts)]
    BY <1>0, <1>7, <2>2 DEF Speak, SpeakLast
  <2>4. audio' \in [Listeners -> Audio]
    <3>1. CASE Speak(l)
      BY <1>0, <3>1 DEF Speak
    <3>2. CASE SpeakLast(l)
      <4> DEFINE ending == audio[l].ending
      <4>1. audio' = [audio EXCEPT ![l].stage = ending, ![l].buffer = <<>>]
        BY <3>2 DEF SpeakLast
      <4>2. ending \in AudioStages
        BY <2>2
      <4> HIDE DEF ending
      <4> QED BY <1>0, <4>1, <4>2
    <3> QED BY <1>7, <3>1, <3>2
  <2>5. listed' \in BOOLEAN /\ UNCHANGED <<stream, turn, closed, textQueue, said>>
    BY <1>7 DEF Speak, SpeakLast, TypeOK
  <2> QED BY <2>3, <2>4, <2>5 DEF TypeOK
<1>8. ASSUME NEW l \in Listeners, CutOff(l) PROVE TypeOK'
  <2>1. audio' \in [Listeners -> Audio]
    BY <1>0, <1>8 DEF CutOff
  <2> QED BY <1>8, <2>1 DEF CutOff, TypeOK
<1>9. CASE UNCHANGED vars
  BY <1>9 DEF vars, TypeOK
<1> QED BY <1>1, <1>2, <1>4, <1>5, <1>6, <1>7, <1>8, <1>9 DEF Next, TurnStep, AudioStep

-----------------------------------------------------------------------------
(* Where a listener is, what it holds and how it ends go together. *)
StageInv ==
    \A l \in Listeners :
        /\ audio[l].stage # "speaking" => audio[l].segment = <<>>
        /\ audio[l].stage \in {"new", "refused"} => spoken[l] = <<>> /\ audio[l].buffer = <<>>
        /\ audio[l].stage = "heard" => audio[l].buffer = <<>> /\ audio[l].ending = "heard"
        /\ audio[l].stage \in {"new", "refused", "receiving", "speaking"} =>
              audio[l].ending = "timedOut"

(* The steps of a listener leave the others alone. *)
Others(l) == \A k \in Listeners \ {l} : audio'[k] = audio[k] /\ spoken'[k] = spoken[k]

LEMMA OneAtATime ==
    ASSUME TypeOK, NEW l \in Listeners, Listen(l) \/ AudioStep(l) \/ CutOff(l)
    PROVE  Others(l) /\ UNCHANGED <<stream, turn, closed, said>>
<1>1. CASE Listen(l)
  BY <1>1 DEF Listen, TypeOK, Others
<1>2. CASE Receive(l)
  <2>1. CASE IsEnd(Head(textQueue))
    BY <1>2, <2>1 DEF Receive, TypeOK, Others
  <2>2. CASE ~IsEnd(Head(textQueue))
    <3> DEFINE buffer == Append(audio[l].buffer, Head(textQueue))
    <3>1. PICK n \in 0..Len(buffer) :
              audio' = [audio EXCEPT
                  ![l].segment = SubSeq(buffer, 1, n),
                  ![l].buffer = SubSeq(buffer, n + 1, Len(buffer)),
                  ![l].stage = IF n = 0 THEN "receiving" ELSE "speaking"]
      BY <1>2, <2>2 DEF Receive
    <3> HIDE DEF buffer
    <3> QED BY <1>2, <3>1 DEF Receive, TypeOK, Others
  <2> QED BY <2>1, <2>2
<1>3. CASE TimeOut(l)
  BY <1>3 DEF TimeOut, TypeOK, Others
<1>4. CASE Speak(l)
  BY <1>4 DEF Speak, TypeOK, Others
<1>5. CASE SpeakLast(l)
  BY <1>5 DEF SpeakLast, TypeOK, Others
<1>6. CASE CutOff(l)
  BY <1>6 DEF CutOff, TypeOK, Others
<1> QED BY <1>1, <1>2, <1>3, <1>4, <1>5, <1>6 DEF AudioStep

(* What each step of a listener does to its own. *)
LEMMA ListenDoes ==
    ASSUME TypeOK, NEW l \in Listeners, Listen(l)
    PROVE  /\ audio[l].stage = "new" /\ audio'[l].stage \in {"receiving", "refused"}
           /\ audio'[l].ending = audio[l].ending
           /\ audio'[l].segment = audio[l].segment /\ audio'[l].buffer = audio[l].buffer
           /\ spoken'[l] = spoken[l] /\ textQueue' = textQueue
BY DEF Listen, Hears, TypeOK

LEMMA HearEndDoes ==
    ASSUME TypeOK, NEW l \in Listeners, Receive(l), Head(textQueue) = EndMark
    PROVE  /\ audio[l].stage = "receiving" /\ audio'[l].stage = "last"
           /\ audio'[l].ending = "heard"
           /\ audio'[l].segment = audio[l].segment /\ audio'[l].buffer = audio[l].buffer
           /\ spoken'[l] = spoken[l] /\ textQueue # <<>> /\ textQueue' = Tail(textQueue)
BY DEF Receive, IsEnd, Hears, TypeOK

LEMMA HearTextDoes ==
    ASSUME TypeOK, NEW l \in Listeners, Receive(l), Head(textQueue) # EndMark
    PROVE  /\ audio[l].stage = "receiving" /\ audio'[l].stage \in {"receiving", "speaking"}
           /\ audio'[l].ending = audio[l].ending
           /\ audio'[l].stage = "receiving" => audio'[l].segment = <<>>
           /\ audio'[l].segment \o audio'[l].buffer = Append(audio[l].buffer, Head(textQueue))
           /\ spoken'[l] = spoken[l] /\ textQueue # <<>> /\ textQueue' = Tail(textQueue)
<1> DEFINE buffer == Append(audio[l].buffer, Head(textQueue))
<1>1. PICK n \in 0..Len(buffer) :
          audio' = [audio EXCEPT
              ![l].segment = SubSeq(buffer, 1, n),
              ![l].buffer = SubSeq(buffer, n + 1, Len(buffer)),
              ![l].stage = IF n = 0 THEN "receiving" ELSE "speaking"]
  BY DEF Receive, IsEnd
<1>2. textQueue # <<>> /\ textQueue' = Tail(textQueue) /\ spoken'[l] = spoken[l]
      /\ audio[l].stage = "receiving"
  BY DEF Receive, Hears
<1>3. Head(textQueue) \in Texts
  <2>1. textQueue \in Seq(Marked)
    BY DEF TypeOK, Marked
  <2> QED BY <1>2, <2>1, HeadThenTail DEF Marked
<1>4. buffer \in Seq(Texts)
  BY <1>3 DEF TypeOK
<1> HIDE DEF buffer
<1>5. SubSeq(buffer, 1, n) \o SubSeq(buffer, n + 1, Len(buffer)) = buffer
  BY <1>1, <1>4, CutInTwo
<1>6. n = 0 => SubSeq(buffer, 1, n) = <<>>
  <2>1. n = 0 => n < 1 /\ n \in Int
    OBVIOUS
  <2> QED BY <2>1, SubSeqEmpty
<1>7. /\ audio'[l].segment = SubSeq(buffer, 1, n)
      /\ audio'[l].buffer = SubSeq(buffer, n + 1, Len(buffer))
      /\ audio'[l].stage = IF n = 0 THEN "receiving" ELSE "speaking"
      /\ audio'[l].ending = audio[l].ending
  BY <1>1 DEF TypeOK
<1> QED BY <1>2, <1>5, <1>6, <1>7 DEF buffer

LEMMA TimeOutDoes ==
    ASSUME TypeOK, NEW l \in Listeners, TimeOut(l)
    PROVE  /\ audio[l].stage = "receiving" /\ audio'[l].stage = "last"
           /\ audio'[l].ending = audio[l].ending
           /\ audio'[l].segment = audio[l].segment /\ audio'[l].buffer = audio[l].buffer
           /\ spoken'[l] = spoken[l] /\ textQueue' = textQueue
BY DEF TimeOut, Hears, TypeOK

LEMMA SpeakDoes ==
    ASSUME TypeOK, NEW l \in Listeners, Speak(l)
    PROVE  /\ audio[l].stage = "speaking" /\ audio'[l].stage = "receiving"
           /\ audio'[l].ending = audio[l].ending
           /\ audio'[l].segment = <<>> /\ audio'[l].buffer = audio[l].buffer
           /\ spoken'[l] = spoken[l] \o audio[l].segment /\ textQueue' = textQueue
BY DEF Speak, Hears, TypeOK

LEMMA SpeakLastDoes ==
    ASSUME TypeOK, NEW l \in Listeners, SpeakLast(l)
    PROVE  /\ audio[l].stage = "last" /\ audio'[l].stage = audio[l].ending
           /\ audio'[l].ending = audio[l].ending
           /\ audio'[l].segment = audio[l].segment /\ audio'[l].buffer = <<>>
           /\ spoken'[l] = spoken[l] \o audio[l].buffer /\ textQueue' = textQueue
BY DEF SpeakLast, Hears, TypeOK

LEMMA CutOffDoes ==
    ASSUME TypeOK, NEW l \in Listeners, CutOff(l)
    PROVE  /\ audio[l].stage \in {"speaking", "last"} /\ audio'[l].stage = "cut"
           /\ audio'[l].ending = audio[l].ending
           /\ audio'[l].segment = <<>> /\ audio'[l].buffer = <<>>
           /\ spoken'[l] = spoken[l] /\ textQueue' = textQueue
BY DEF CutOff, Hears, TypeOK

LEMMA StageInvInit == Init => StageInv
BY DEF Init, StageInv

LEMMA StageInvStep == TypeOK /\ StageInv /\ [Next]_vars => StageInv'
<1> SUFFICES ASSUME TypeOK, StageInv, [Next]_vars PROVE StageInv'
  OBVIOUS
<1>1. CASE UNCHANGED <<audio, spoken>>
  BY <1>1 DEF StageInv
<1>2. ASSUME NEW l \in Listeners, Listen(l) \/ AudioStep(l) \/ CutOff(l) PROVE StageInv'
  <2>1. Others(l)
    BY <1>2, OneAtATime
  <2>2. ASSUME NEW k \in Listeners \ {l}
        PROVE  audio'[k] = audio[k] /\ spoken'[k] = spoken[k]
    BY <2>1 DEF Others
  <2> DEFINE Holds(a, s) ==
          /\ a.stage # "speaking" => a.segment = <<>>
          /\ a.stage \in {"new", "refused"} => s = <<>> /\ a.buffer = <<>>
          /\ a.stage = "heard" => a.buffer = <<>> /\ a.ending = "heard"
          /\ a.stage \in {"new", "refused", "receiving", "speaking"} => a.ending = "timedOut"
  <2>3. \A k \in Listeners : Holds(audio[k], spoken[k])
    BY DEF StageInv
  <2>4. Holds(audio'[l], spoken'[l])
    <3>1. CASE Listen(l)
      BY <2>3, <3>1, ListenDoes
    <3>2. CASE Receive(l) /\ Head(textQueue) = EndMark
      BY <2>3, <3>2, HearEndDoes
    <3>3. CASE Receive(l) /\ Head(textQueue) # EndMark
      BY <2>3, <3>3, HearTextDoes
    <3>4. CASE TimeOut(l)
      BY <2>3, <3>4, TimeOutDoes
    <3>5. CASE Speak(l)
      BY <2>3, <3>5, SpeakDoes
    <3>6. CASE SpeakLast(l)
      <4>1. audio[l].ending \in {"heard", "timedOut"}
        BY DEF TypeOK
      <4> QED BY <2>3, <3>6, <4>1, SpeakLastDoes
    <3>7. CASE CutOff(l)
      BY <2>3, <3>7, CutOffDoes
    <3> QED BY <1>2, <3>1, <3>2, <3>3, <3>4, <3>5, <3>6, <3>7 DEF AudioStep
  <2>5. \A k \in Listeners : Holds(audio'[k], spoken'[k])
    BY <2>2, <2>3, <2>4
  <2> QED BY <2>5 DEF StageInv
<1> QED BY <1>1, <1>2 DEF Next, TurnStep, Open, Resume, Pull, Yield, EndOfStream, BreakOff,
                          Finish, vars

-----------------------------------------------------------------------------
(* How far the turn is. *)

(* No final event comes before this one. *)
Early(i) == \A j \in 1..i - 1 : stream[j] # "done"

(* The turn speaks this event: the final content only behind no delta. *)
Worth(i) ==
    \/ stream[i] = "delta"
    \/ stream[i] = "done" /\ \A j \in 1..i - 1 : stream[j] # "delta"

(* While the turn is on its way its session is closed exactly when a final *)
(* event has passed; what it has said is what was worth it so far.         *)
TurnInv ==
    /\ turn.stage \in {"new", "opened"} => turn.pos = 1
    /\ turn.stage \in {"complete", "broken"} /\ turn.pos > 1 => closed
    /\ turn.stage = "complete" => turn.pos > Len(stream)
    /\ turn.stage \notin {"complete", "broken"} => (closed <=> ~Early(turn.pos))
    /\ ~Early(turn.pos) => closed
    /\ turn.sawDelta <=> \E j \in 1..turn.pos - 1 : stream[j] = "delta"
    /\ said = {i \in 1..turn.pos - 1 : Worth(i)}

LEMMA TurnInvInit == StreamsAssumption /\ Init => TurnInv
<1> SUFFICES ASSUME Init PROVE TurnInv
  OBVIOUS
<1>1. turn.pos = 1 /\ turn.stage = "new" /\ turn.sawDelta = FALSE /\ closed = FALSE /\ said = {}
  BY DEF Init
<1>2. 1..turn.pos - 1 = {}
  BY <1>1
<1>3. Early(turn.pos)
  BY <1>2 DEF Early
<1> QED BY <1>1, <1>2, <1>3 DEF TurnInv

(* Pulling takes the next event into account. *)
LEMMA PullMoves ==
    ASSUME StreamsAssumption, TypeOK, TurnInv, Pull
    PROVE  /\ turn'.pos = turn.pos + 1 /\ turn'.stage = "yielding" /\ stream' = stream
           /\ turn.pos \in Nat \ {0} /\ turn.pos =< Len(stream)
           /\ Early(turn.pos + 1) <=> Early(turn.pos) /\ stream[turn.pos] # "done"
           /\ closed <=> ~Early(turn.pos)
           /\ Speaks(stream[turn.pos]) <=> Worth(turn.pos)
<1>1. /\ turn'.pos = turn.pos + 1 /\ turn'.stage = "yielding" /\ stream' = stream
      /\ turn.stage = "pulling"
      /\ turn.pos \in Nat \ {0} /\ turn.pos =< Len(stream)
  BY DEF Pull, TypeOK
<1>2. 1..(turn.pos + 1) - 1 = (1..turn.pos - 1) \cup {turn.pos}
  BY <1>1
<1>3. Early(turn.pos + 1) <=> Early(turn.pos) /\ stream[turn.pos] # "done"
  BY <1>2 DEF Early
<1>4. closed <=> ~Early(turn.pos)
  BY <1>1 DEF TurnInv
<1>5. Speaks(stream[turn.pos]) <=> Worth(turn.pos)
  BY DEF Speaks, Worth, TurnInv
<1> QED BY <1>1, <1>3, <1>4, <1>5

LEMMA TurnInvStep ==
    StreamsAssumption /\ TypeOK /\ TurnInv /\ [Next]_vars => TurnInv'
<1> SUFFICES ASSUME StreamsAssumption, TypeOK, TurnInv, [Next]_vars PROVE TurnInv'
  OBVIOUS
<1>1. CASE UNCHANGED <<stream, turn, closed, said>>
  BY <1>1 DEF TurnInv, Early, Worth
<1>2. CASE Open \/ Resume \/ Yield
  <2>1. /\ UNCHANGED <<stream, closed, said>>
        /\ turn'.pos = turn.pos /\ turn'.sawDelta = turn.sawDelta
        /\ turn.stage \in {"new", "opened", "yielding"}
        /\ turn'.stage \in {"opened", "pulling", "broken"}
        /\ turn'.stage \in {"opened", "broken"} => turn.stage \in {"new", "opened"}
    BY <1>2 DEF Open, Resume, Yield, TypeOK
  <2> QED BY <2>1 DEF TurnInv, Early, Worth
<1>3. CASE Pull
  <2>1. /\ turn'.pos = turn.pos + 1 /\ turn'.stage = "yielding" /\ stream' = stream
        /\ turn.pos \in Nat \ {0}
        /\ Early(turn.pos + 1) <=> Early(turn.pos) /\ stream[turn.pos] # "done"
        /\ closed <=> ~Early(turn.pos)
        /\ Speaks(stream[turn.pos]) <=> Worth(turn.pos)
    BY <1>3, PullMoves
  <2>2. closed' = (closed \/ stream[turn.pos] = "done") /\ said' = said \cup ToSet(Taken)
    BY <1>3, PullPuts
  <2>3. turn'.sawDelta = (turn.sawDelta \/ stream[turn.pos] = "delta")
    BY <1>3 DEF Pull
  <2>4. 1..turn'.pos - 1 = (1..turn.pos - 1) \cup {turn.pos}
    BY <2>1
  <2>5. ToSet(Taken) = {i \in {turn.pos} : Worth(i)}
    BY <2>1, SmallHolds DEF Taken
  <2>6. said' = {i \in 1..turn'.pos - 1 : Worth(i)}
    BY <2>2, <2>4, <2>5 DEF TurnInv
  <2>7. said' = {i \in 1..turn'.pos - 1 : Worth(i)'}
    BY <2>1, <2>6 DEF Worth
  <2>8. Early(turn.pos)' <=> Early(turn.pos + 1)
    BY <2>1 DEF Early
  <2>9. turn'.sawDelta <=> \E j \in 1..turn'.pos - 1 : stream'[j] = "delta"
    BY <2>1, <2>3, <2>4 DEF TurnInv
  <2> QED BY <2>1, <2>2, <2>7, <2>8, <2>9 DEF TurnInv
<1>4. ASSUME NEW stage \in {"complete", "broken"}, Finish(stage),
             stage = "complete" => turn.pos > Len(stream)
      PROVE  TurnInv'
  <2>1. closed' = TRUE
    BY <1>4, FinishPuts
  <2>2. /\ UNCHANGED <<stream, said>>
        /\ turn'.stage = stage /\ turn'.pos = turn.pos /\ turn'.sawDelta = turn.sawDelta
    BY <1>4 DEF Finish, TypeOK
  <2> QED BY <1>4, <2>1, <2>2 DEF TurnInv, Early, Worth
<1>5. CASE EndOfStream \/ BreakOff
  BY <1>4, <1>5 DEF EndOfStream, BreakOff
<1>6. ASSUME NEW l \in Listeners, Listen(l) \/ AudioStep(l) \/ CutOff(l) PROVE TurnInv'
  BY <1>1, <1>6, OneAtATime
<1> QED BY <1>1, <1>2, <1>3, <1>5, <1>6 DEF Next, TurnStep, vars

-----------------------------------------------------------------------------
(* The queue: one marker, with the texts up to the final event before it   *)
(* and those that come later behind it.                                    *)

OneMark(q) == \A i, j \in DOMAIN q : q[i] = EndMark /\ q[j] = EndMark => i = j

Splits(q) ==
    \A i, k \in DOMAIN q : q[k] = EndMark /\ q[i] # EndMark => (i < k <=> Early(q[i]))

LEMMA CatOneMark ==
    ASSUME NEW s \in Seq(Nat), NEW t \in Seq(Nat), OneMark(s), OneMark(t),
           EndMark \notin ToSet(s) \cap ToSet(t)
    PROVE  OneMark(s \o t)
<1> SUFFICES ASSUME NEW i \in DOMAIN (s \o t), NEW j \in DOMAIN (s \o t), i =< j,
                    (s \o t)[i] = EndMark, (s \o t)[j] = EndMark
             PROVE  i = j
  BY DEF OneMark
<1>1. CASE j =< Len(s)
  <2>1. i \in DOMAIN s /\ j \in DOMAIN s /\ (s \o t)[i] = s[i] /\ (s \o t)[j] = s[j]
    BY <1>1
  <2> QED BY <2>1 DEF OneMark
<1>2. CASE i > Len(s)
  <2>1. /\ i - Len(s) \in DOMAIN t /\ j - Len(s) \in DOMAIN t
        /\ (s \o t)[i] = t[i - Len(s)] /\ (s \o t)[j] = t[j - Len(s)]
    BY <1>2
  <2> QED BY <2>1 DEF OneMark
<1>3. CASE i =< Len(s) /\ j > Len(s)
  <2>1. /\ i \in DOMAIN s /\ j - Len(s) \in DOMAIN t
        /\ (s \o t)[i] = s[i] /\ (s \o t)[j] = t[j - Len(s)]
    BY <1>3
  <2> QED BY <2>1 DEF ToSet
<1> QED BY <1>1, <1>2, <1>3

LEMMA CatSplits ==
    ASSUME NEW s \in Seq(Nat), NEW t \in Seq(Nat), Splits(s), Splits(t),
           EndMark \in ToSet(s) => \A x \in ToSet(t) : x # EndMark => ~Early(x),
           EndMark \in ToSet(t) => \A x \in ToSet(s) : x # EndMark => Early(x)
    PROVE  Splits(s \o t)
<1> SUFFICES ASSUME NEW i \in DOMAIN (s \o t), NEW k \in DOMAIN (s \o t),
                    (s \o t)[k] = EndMark, (s \o t)[i] # EndMark
             PROVE  i < k <=> Early((s \o t)[i])
  BY DEF Splits
<1>1. CASE i =< Len(s) /\ k =< Len(s)
  <2>1. i \in DOMAIN s /\ k \in DOMAIN s /\ (s \o t)[i] = s[i] /\ (s \o t)[k] = s[k]
    BY <1>1
  <2> QED BY <2>1 DEF Splits
<1>2. CASE i > Len(s) /\ k > Len(s)
  <2>1. /\ i - Len(s) \in DOMAIN t /\ k - Len(s) \in DOMAIN t
        /\ (s \o t)[i] = t[i - Len(s)] /\ (s \o t)[k] = t[k - Len(s)]
        /\ i < k <=> i - Len(s) < k - Len(s)
    BY <1>2
  <2> QED BY <2>1 DEF Splits
<1>3. CASE i =< Len(s) /\ k > Len(s)
  <2>1. /\ i \in DOMAIN s /\ k - Len(s) \in DOMAIN t /\ i < k
        /\ (s \o t)[i] = s[i] /\ (s \o t)[k] = t[k - Len(s)]
    BY <1>3
  <2>2. s[i] \in ToSet(s) /\ EndMark \in ToSet(t)
    BY <2>1 DEF ToSet
  <2> QED BY <2>1, <2>2
<1>4. CASE i > Len(s) /\ k =< Len(s)
  <2>1. /\ k \in DOMAIN s /\ i - Len(s) \in DOMAIN t /\ ~(i < k)
        /\ (s \o t)[k] = s[k] /\ (s \o t)[i] = t[i - Len(s)]
    BY <1>4
  <2>2. t[i - Len(s)] \in ToSet(t) /\ EndMark \in ToSet(s)
    BY <2>1 DEF ToSet
  <2> QED BY <2>1, <2>2
<1> QED BY <1>1, <1>2, <1>3, <1>4

(* What a queue holds is its head and the rest; the rest stays as it was.  *)
LEMMA HeadTaken ==
    ASSUME TypeOK, textQueue # <<>>
    PROVE  /\ Head(textQueue) \in Marked /\ Tail(textQueue) \in Seq(Marked)
           /\ textQueue = <<Head(textQueue)>> \o Tail(textQueue)
           /\ ToSet(textQueue) = {Head(textQueue)} \cup ToSet(Tail(textQueue))
           /\ OneMark(textQueue) => OneMark(Tail(textQueue))
           /\ OneMark(textQueue) /\ Head(textQueue) = EndMark => EndMark \notin ToSet(Tail(textQueue))
           /\ Splits(textQueue) => Splits(Tail(textQueue))
           /\ Splits(textQueue) /\ Head(textQueue) = EndMark =>
                 \A x \in ToSet(Tail(textQueue)) : x # EndMark => ~Early(x)
           /\ Splits(textQueue) /\ Head(textQueue) # EndMark /\ EndMark \in ToSet(textQueue) =>
                 Early(Head(textQueue))
<1> DEFINE q == textQueue
           h == Head(textQueue)
           t == Tail(textQueue)
<1>1. q \in Seq(Marked)
  BY DEF TypeOK, Marked
<1>2. /\ h \in Marked /\ t \in Seq(Marked) /\ q = <<h>> \o t
      /\ Len(q) > 0 /\ h = q[1] /\ Len(t) = Len(q) - 1
      /\ \A i \in 1..Len(q) - 1 : t[i] = q[i + 1]
  BY <1>1, HeadThenTail
<1> HIDE DEF q, h, t
<1>3. ToSet(q) = {h} \cup ToSet(t)
  <2>1. <<h>> \in Seq(Marked)
    BY <1>2
  <2>2. ToSet(<<h>> \o t) = ToSet(<<h>>) \cup ToSet(t)
    BY <1>2, <2>1, CatHolds
  <2>3. ToSet(<<h>>) = {h}
    BY SmallHolds
  <2> QED BY <1>2, <2>2, <2>3
<1>4. /\ \A i \in DOMAIN t : i + 1 \in DOMAIN q /\ t[i] = q[i + 1]
      /\ 1 \in DOMAIN q
      /\ \A i \in DOMAIN q : i = 1 \/ (i - 1 \in DOMAIN t /\ t[i - 1] = q[i])
  BY <1>1, <1>2
<1>5. OneMark(q) => OneMark(t)
  <2>1. \A i, j \in DOMAIN t : i + 1 = j + 1 => i = j
    BY <1>2
  <2> QED BY <1>4, <2>1 DEF OneMark
<1>6. OneMark(q) /\ h = EndMark => EndMark \notin ToSet(t)
  <2>1. \A i \in DOMAIN t : i + 1 # 1
    BY <1>2
  <2> QED BY <1>2, <1>4, <2>1 DEF OneMark, ToSet
<1>7. Splits(q) => Splits(t)
  <2>1. \A i, j \in DOMAIN t : i + 1 < j + 1 <=> i < j
    BY <1>2
  <2> QED BY <1>4, <2>1 DEF Splits
<1>8. Splits(q) /\ h = EndMark => \A x \in ToSet(t) : x # EndMark => ~Early(x)
  <2> SUFFICES ASSUME Splits(q), h = EndMark, NEW i \in DOMAIN t, t[i] # EndMark
               PROVE  ~Early(t[i])
    BY DEF ToSet
  <2>1. i + 1 \in DOMAIN q /\ 1 \in DOMAIN q /\ ~(i + 1 < 1) /\ t[i] = q[i + 1] /\ q[1] = EndMark
    BY <1>2, <1>4
  <2> QED BY <2>1 DEF Splits
<1>9. Splits(q) /\ h # EndMark /\ EndMark \in ToSet(q) => Early(h)
  <2>1. \A i \in DOMAIN q : i # 1 => 1 < i
    BY <1>1
  <2> QED BY <1>2, <1>4, <2>1 DEF Splits, ToSet
<1> QED BY <1>2, <1>3, <1>5, <1>6, <1>7, <1>8, <1>9 DEF q, h, t

(* A step of the turn that touches the queue adds a text, a marker or both *)
(* to it.                                                                  *)
Puts(texts, mark) ==
    /\ texts \in {<<>>, <<turn.pos>>} /\ mark \in {<<>>, <<EndMark>>}
    /\ turn.pos \in Texts
    /\ textQueue' = textQueue \o (texts \o mark)
    /\ said' = said \cup ToSet(texts)
    /\ closed' = (closed \/ mark # <<>>)
    /\ mark # <<>> => ~closed
    /\ turn'.pos \in Nat
    /\ turn.pos =< turn'.pos
    /\ texts # <<>> => turn.pos < turn'.pos /\ (closed <=> ~Early(turn.pos))
    /\ UNCHANGED <<stream, audio, spoken>>

LEMMA TurnPuts ==
    ASSUME StreamsAssumption, TypeOK, TurnInv, Pull \/ EndOfStream \/ BreakOff
    PROVE  \E texts, mark : Puts(texts, mark)
<1>1. ASSUME Pull PROVE \E texts, mark : Puts(texts, mark)
  <2> DEFINE mark == IF stream[turn.pos] = "done" /\ ~closed THEN <<EndMark>> ELSE <<>>
  <2>1. /\ textQueue' = textQueue \o (Taken \o mark)
        /\ closed' = (closed \/ stream[turn.pos] = "done")
        /\ said' = said \cup ToSet(Taken)
    BY <1>1, PullPuts
  <2>2. /\ turn'.pos = turn.pos + 1
        /\ turn.pos \in Nat \ {0}
        /\ closed <=> ~Early(turn.pos)
    BY <1>1, PullMoves
  <2>3. UNCHANGED <<stream, audio, spoken>>
    BY <1>1 DEF Pull
  <2>4. Taken \in {<<>>, <<turn.pos>>}
    BY DEF Taken
  <2>5. /\ mark \in {<<>>, <<EndMark>>} /\ (mark # <<>> => ~closed)
        /\ closed' = (closed \/ mark # <<>>)
    BY <2>1
  <2>6. /\ turn.pos \in Texts /\ turn'.pos \in Nat
        /\ turn.pos =< turn'.pos /\ turn.pos < turn'.pos
    BY <2>2 DEF Texts
  <2> HIDE DEF mark, Taken
  <2>7. Puts(Taken, mark)
    BY <2>1, <2>2, <2>3, <2>4, <2>5, <2>6 DEF Puts
  <2> QED BY <2>7
<1>2. ASSUME NEW stage, Finish(stage) PROVE \E texts, mark : Puts(texts, mark)
  <2> DEFINE mark == IF closed THEN <<>> ELSE <<EndMark>>
  <2>1. textQueue' = textQueue \o mark /\ closed' = TRUE
    BY <1>2, FinishPuts
  <2>2. mark = <<>> \o mark
    BY DEF EndMark
  <2>3. /\ turn'.pos = turn.pos /\ turn.pos \in Nat \ {0}
        /\ UNCHANGED <<stream, audio, spoken, said>>
    BY <1>2 DEF Finish, TypeOK
  <2>4. /\ mark \in {<<>>, <<EndMark>>} /\ (mark # <<>> => ~closed)
        /\ closed' = (closed \/ mark # <<>>)
    BY <2>1
  <2>5. said' = said \cup ToSet(<<>>)
    BY <2>3, SmallHolds
  <2>6. turn.pos \in Texts /\ turn'.pos \in Nat /\ turn.pos =< turn'.pos
    BY <2>3 DEF Texts
  <2> HIDE DEF mark
  <2>7. Puts(<<>>, mark)
    BY <2>1, <2>2, <2>3, <2>4, <2>5, <2>6 DEF Puts
  <2> QED BY <2>7
<1> QED BY <1>1, <1>2 DEF EndOfStream, BreakOff

(* What is added, as a sequence of its own. *)
LEMMA AddedHolds ==
    ASSUME NEW texts, NEW mark, Puts(texts, mark)
    PROVE  /\ texts \in Seq(Texts) /\ mark \in Seq(Nat) /\ texts \o mark \in Seq(Nat)
           /\ ToSet(texts) \subseteq {turn.pos} /\ ToSet(mark) \subseteq {EndMark}
           /\ ToSet(texts) = {} <=> texts = <<>>
           /\ ToSet(mark) = {} <=> mark = <<>>
           /\ ToSet(texts \o mark) = ToSet(texts) \cup ToSet(mark)
           /\ OneMark(texts \o mark) /\ InOrder(texts \o mark)
           /\ closed \/ texts = <<>> \/ Early(turn.pos)
<1>0. /\ turn.pos \in Texts /\ turn.pos \in Nat /\ EndMark \in Nat
      /\ texts = <<>> \/ texts = <<turn.pos>>
      /\ mark = <<>> \/ mark = <<EndMark>>
  BY MarkedIsNat DEF Puts
<1>1. texts \in Seq(Texts) /\ texts \in Seq(Nat)
  BY <1>0, SmallSeqs
<1>7. mark \in Seq(Nat)
  BY <1>0, SmallSeqs
<1>2. /\ ToSet(texts) \subseteq {turn.pos} /\ ToSet(mark) \subseteq {EndMark}
      /\ ToSet(texts) = {} <=> texts = <<>>
      /\ ToSet(mark) = {} <=> mark = <<>>
  BY SmallHolds DEF Puts
<1>3. texts \o mark \in Seq(Nat) /\ ToSet(texts \o mark) = ToSet(texts) \cup ToSet(mark)
  BY <1>1, <1>7, CatHolds
<1>4. OneMark(texts) /\ OneMark(mark) /\ InOrder(texts) /\ InOrder(mark)
  BY DEF Puts, OneMark, InOrder
<1>5. EndMark \notin ToSet(texts) /\ Before(texts, mark)
  BY <1>2 DEF Before, Puts, Texts, EndMark
<1>6. OneMark(texts \o mark) /\ InOrder(texts \o mark)
  BY <1>1, <1>7, <1>4, <1>5, CatOneMark, CatInOrder
<1> QED BY <1>1, <1>2, <1>3, <1>6, <1>7 DEF Puts

-----------------------------------------------------------------------------
(* What the steps do to the texts under way: the turn puts some, a         *)
(* listener takes a text or the marker, shifts its own, or is cut off.     *)
Idles == UNCHANGED <<stream, closed, textQueue, audio, spoken, said>> /\ turn'.pos = turn.pos

Rests(l) ==
    /\ textQueue' = textQueue
    /\ Held(l)' = Held(l) /\ audio'[l].ending = audio[l].ending

Cuts(l) ==
    /\ textQueue' = textQueue
    /\ \E rest \in Seq(Texts) : Held(l) = Held(l)' \o rest
    /\ audio'[l].stage = "cut" /\ audio'[l].ending = audio[l].ending

HearsText(l) ==
    /\ textQueue # <<>> /\ Head(textQueue) # EndMark /\ textQueue' = Tail(textQueue)
    /\ Held(l)' = Held(l) \o <<Head(textQueue)>>
    /\ audio'[l].ending = audio[l].ending /\ audio[l].stage = "receiving"

HearsEnd(l) ==
    /\ textQueue # <<>> /\ Head(textQueue) = EndMark /\ textQueue' = Tail(textQueue)
    /\ Held(l)' = Held(l)
    /\ audio'[l].ending = "heard" /\ audio[l].stage = "receiving"

LEMMA HeldTypes ==
    ASSUME TypeOK, NEW l \in Listeners
    PROVE  /\ Held(l) \in Seq(Texts) /\ Held(l) \in Seq(Nat)
           /\ ToSet(Held(l)) \subseteq Texts /\ EndMark \notin ToSet(Held(l))
           /\ textQueue \in Seq(Nat)
<1>1. spoken[l] \in Seq(Texts) /\ audio[l].segment \in Seq(Texts) /\ audio[l].buffer \in Seq(Texts)
  BY DEF TypeOK
<1>2. Held(l) \in Seq(Texts)
  BY <1>1 DEF Held
<1>3. ToSet(Held(l)) \subseteq Texts
  BY <1>2 DEF ToSet
<1>4. textQueue \in Seq(Nat)
  BY MarkedIsNat DEF TypeOK, Marked
<1>5. Held(l) \in Seq(Nat)
  BY <1>2, MarkedIsNat, WiderSeq
<1> QED BY <1>2, <1>3, <1>4, <1>5, MarkedIsNat

LEMMA ListenerMoves ==
    ASSUME TypeOK, TypeOK', StageInv, NEW l \in Listeners, Listen(l) \/ AudioStep(l) \/ CutOff(l)
    PROVE  /\ Rests(l) \/ Cuts(l) \/ HearsText(l) \/ HearsEnd(l)
           /\ audio'[l].stage \in {"new", "refused"} => audio[l].stage \in {"new", "refused"}
           /\ audio[l].stage \notin {"refused", "cut", "heard", "timedOut"}
           /\ audio[l].stage = "new" => Rests(l)
<1> DEFINE s == spoken[l]
           g == audio[l].segment
           b == audio[l].buffer
<1>0. s \in Seq(Texts) /\ g \in Seq(Texts) /\ b \in Seq(Texts)
  BY DEF TypeOK
<1>1. /\ audio[l].stage # "speaking" => g = <<>>
      /\ audio[l].ending \in {"heard", "timedOut"}
  BY DEF StageInv, TypeOK
<1>2. Held(l) = (s \o g) \o b /\ Held(l)' = (spoken'[l] \o audio'[l].segment) \o audio'[l].buffer
  BY DEF Held
<1>3. CASE Listen(l)
  BY <1>2, <1>3, ListenDoes DEF Rests
<1>4. CASE Receive(l) /\ Head(textQueue) = EndMark
  BY <1>2, <1>4, HearEndDoes DEF HearsEnd
<1>5. CASE Receive(l) /\ Head(textQueue) # EndMark
  <2> DEFINE x == Head(textQueue)
             g1 == audio'[l].segment
             b1 == audio'[l].buffer
  <2>1. /\ audio[l].stage = "receiving" /\ audio'[l].stage \in {"receiving", "speaking"}
        /\ audio'[l].ending = audio[l].ending
        /\ g1 \o b1 = Append(b, x)
        /\ spoken'[l] = s /\ textQueue # <<>> /\ textQueue' = Tail(textQueue)
    BY <1>5, HearTextDoes
  <2>2. g1 \in Seq(Texts) /\ b1 \in Seq(Texts)
    BY DEF TypeOK
  <2>3. x \in Texts
    BY <1>5, <2>1, HeadTaken DEF Marked
  <2>4. g = <<>>
    BY <1>1, <2>1
  <2> HIDE DEF x, g1, b1, s, g, b
  <2>5. (s \o g1) \o b1 = s \o (g1 \o b1)
    BY <1>0, <2>2
  <2>6. s \o Append(b, x) = ((s \o <<>>) \o b) \o <<x>>
    BY <1>0, <2>3
  <2>7. Held(l)' = Held(l) \o <<x>>
    BY <1>2, <2>1, <2>4, <2>5, <2>6 DEF g1, b1, s
  <2> QED BY <1>5, <2>1, <2>7 DEF HearsText, x
<1>6. CASE TimeOut(l)
  BY <1>2, <1>6, TimeOutDoes DEF Rests
<1>7. CASE Speak(l)
  <2>1. /\ audio[l].stage = "speaking" /\ audio'[l].stage = "receiving"
        /\ audio'[l].ending = audio[l].ending
        /\ audio'[l].segment = <<>> /\ audio'[l].buffer = b
        /\ spoken'[l] = s \o g /\ textQueue' = textQueue
    BY <1>7, SpeakDoes
  <2> HIDE DEF s, g, b
  <2>2. ((s \o g) \o <<>>) \o b = (s \o g) \o b
    BY <1>0
  <2> QED BY <1>2, <2>1, <2>2 DEF Rests
<1>8. CASE SpeakLast(l)
  <2>1. /\ audio[l].stage = "last" /\ audio'[l].stage = audio[l].ending
        /\ audio'[l].ending = audio[l].ending
        /\ audio'[l].segment = g /\ audio'[l].buffer = <<>>
        /\ spoken'[l] = s \o b /\ textQueue' = textQueue
    BY <1>8, SpeakLastDoes
  <2>2. g = <<>>
    BY <1>1, <2>1
  <2> HIDE DEF s, g, b
  <2>3. ((s \o b) \o <<>>) \o <<>> = (s \o <<>>) \o b
    BY <1>0
  <2> QED BY <1>1, <1>2, <2>1, <2>2, <2>3 DEF Rests
<1>9. CASE CutOff(l)
  <2>1. /\ audio[l].stage \in {"speaking", "last"} /\ audio'[l].stage = "cut"
        /\ audio'[l].ending = audio[l].ending
        /\ audio'[l].segment = <<>> /\ audio'[l].buffer = <<>>
        /\ spoken'[l] = s /\ textQueue' = textQueue
    BY <1>9, CutOffDoes
  <2> HIDE DEF s, g, b
  <2>2. (s \o g) \o b = ((s \o <<>>) \o <<>>) \o (g \o b) /\ g \o b \in Seq(Texts)
    BY <1>0
  <2> QED BY <1>2, <2>1, <2>2 DEF Cuts
<1> QED BY <1>3, <1>4, <1>5, <1>6, <1>7, <1>8, <1>9 DEF AudioStep

(* The steps of the whole, told apart by what they do to the texts. *)
LEMMA Moves ==
    ASSUME StreamsAssumption, TypeOK, TypeOK', StageInv, TurnInv, [Next]_vars
    PROVE  \/ Idles
           \/ \E texts, mark : Puts(texts, mark)
           \/ \E l \in Listeners : /\ Others(l) /\ UNCHANGED <<stream, turn, closed, said>>
                                   /\ Rests(l) \/ Cuts(l) \/ HearsText(l) \/ HearsEnd(l)
                                   /\ audio[l].stage \in {"new", "refused"} => Rests(l)
<1>1. CASE Open \/ Resume \/ Yield
  BY <1>1 DEF Open, Resume, Yield, TypeOK, Idles
<1>2. CASE Pull \/ EndOfStream \/ BreakOff
  BY <1>2, TurnPuts
<1>3. ASSUME NEW l \in Listeners, Listen(l) \/ AudioStep(l) \/ CutOff(l)
      PROVE  \E k \in Listeners : /\ Others(k) /\ UNCHANGED <<stream, turn, closed, said>>
                                  /\ Rests(k) \/ Cuts(k) \/ HearsText(k) \/ HearsEnd(k)
                                  /\ audio[k].stage \in {"new", "refused"} => Rests(k)
  BY <1>3, OneAtATime, ListenerMoves
<1>4. CASE UNCHANGED vars
  BY <1>4 DEF vars, Idles
<1> QED BY <1>1, <1>2, <1>3, <1>4 DEF Next, TurnStep

(* Who is alone was alone; who was not cut off or refused is not now. *)
LEMMA AloneBefore ==
    ASSUME StreamsAssumption, TypeOK, TypeOK', StageInv, [Next]_vars, NEW l \in Listeners
    PROVE  /\ Alone(l)' => Alone(l)
           /\ audio'[l].stage \notin {"refused", "cut"} => audio[l].stage \notin {"refused", "cut"}
<1>1. CASE UNCHANGED audio
  BY <1>1 DEF Alone
<1>2. ASSUME NEW k \in Listeners, Listen(k) \/ AudioStep(k) \/ CutOff(k)
      PROVE  /\ Alone(l)' => Alone(l)
             /\ audio'[l].stage \notin {"refused", "cut"} => audio[l].stage \notin {"refused", "cut"}
  <2>1. /\ audio'[k].stage \in {"new", "refused"} => audio[k].stage \in {"new", "refused"}
        /\ audio[k].stage \notin {"refused", "cut", "heard", "timedOut"}
    BY <1>2, ListenerMoves
  <2>2. \A m \in Listeners \ {k} : audio'[m] = audio[m]
    BY <1>2, OneAtATime DEF Others
  <2>3. \A m \in Listeners : audio'[m].stage \in {"new", "refused"} => audio[m].stage \in {"new", "refused"}
    BY <2>1, <2>2
  <2>4. Alone(l)' => Alone(l)
    BY <2>3 DEF Alone
  <2> QED BY <2>1, <2>2, <2>4
<1> QED BY <1>1, <1>2 DEF Next, TurnStep, Open, Resume, Pull, Yield, EndOfStream, BreakOff,
                          Finish, vars

-----------------------------------------------------------------------------
(* The marker is on the queue once the session is closed, and only then,   *)
(* until a listener takes it.                                              *)
MarkInv ==
    /\ OneMark(textQueue)
    /\ EndMark \in ToSet(textQueue) => closed
    /\ \A l \in Listeners :
          audio[l].ending = "heard" => closed /\ EndMark \notin ToSet(textQueue)
    /\ closed =>
          EndMark \in ToSet(textQueue) \/ \E l \in Listeners : audio[l].ending = "heard"

LEMMA MarkInvInit == Init => MarkInv
BY SmallHolds DEF Init, MarkInv, OneMark

LEMMA MarkInvStep ==
    ASSUME StreamsAssumption, TypeOK, TypeOK', StageInv, TurnInv, MarkInv, [Next]_vars
    PROVE  MarkInv'
<1>1. CASE Idles
  BY <1>1 DEF Idles, MarkInv, OneMark, ToSet
<1>2. ASSUME NEW texts, NEW mark, Puts(texts, mark) PROVE MarkInv'
  <2> DEFINE added == texts \o mark
  <2>1. /\ added \in Seq(Nat)
        /\ ToSet(texts) \subseteq {turn.pos} /\ ToSet(mark) \subseteq {EndMark}
        /\ ToSet(mark) = {} <=> mark = <<>>
        /\ ToSet(added) = ToSet(texts) \cup ToSet(mark)
        /\ OneMark(added)
    BY <1>2, AddedHolds
  <2>2. /\ textQueue' = textQueue \o added
        /\ closed' = (closed \/ mark # <<>>)
        /\ mark # <<>> => ~closed
        /\ audio' = audio
        /\ turn.pos \in Texts
    BY <1>2 DEF Puts
  <2> HIDE DEF added
  <2>3. textQueue \in Seq(Nat)
    BY MarkedIsNat DEF TypeOK, Marked
  <2>4. ToSet(textQueue') = ToSet(textQueue) \cup ToSet(added)
    BY <2>1, <2>2, <2>3, CatHolds
  <2>5. EndMark \in ToSet(added) <=> mark # <<>>
    BY <2>1, <2>2, MarkedIsNat
  <2>6. EndMark \in ToSet(textQueue') <=> EndMark \in ToSet(textQueue) \/ mark # <<>>
    BY <2>4, <2>5
  <2>7. OneMark(textQueue')
    BY <2>1, <2>2, <2>3, <2>5, CatOneMark DEF MarkInv
  <2> QED BY <2>2, <2>6, <2>7 DEF MarkInv
<1>3. ASSUME NEW l \in Listeners, Others(l), UNCHANGED <<stream, turn, closed, said>>,
             Rests(l) \/ Cuts(l)
      PROVE  MarkInv'
  <2>1. \A k \in Listeners : audio'[k].ending = audio[k].ending
    BY <1>3 DEF Others, Rests, Cuts
  <2>2. textQueue' = textQueue /\ closed' = closed
    BY <1>3 DEF Rests, Cuts
  <2> QED BY <2>1, <2>2 DEF MarkInv, OneMark, ToSet
<1>4. ASSUME NEW l \in Listeners, Others(l), UNCHANGED <<stream, turn, closed, said>>,
             HearsText(l) \/ HearsEnd(l)
      PROVE  MarkInv'
  <2>1. textQueue # <<>> /\ textQueue' = Tail(textQueue) /\ audio[l].stage = "receiving"
    BY <1>4 DEF HearsText, HearsEnd
  <2>2. /\ ToSet(textQueue) = {Head(textQueue)} \cup ToSet(textQueue')
        /\ OneMark(textQueue')
        /\ Head(textQueue) = EndMark => EndMark \notin ToSet(textQueue')
    BY <2>1, HeadTaken DEF MarkInv
  <2>3. \A k \in Listeners \ {l} : audio'[k].ending = audio[k].ending
    BY <1>4 DEF Others
  <2>4. audio[l].ending = "timedOut"
    BY <2>1 DEF StageInv
  <2>5. OneMark(textQueue)' /\ closed' = closed
    BY <1>4, <2>2 DEF OneMark
  <2>6. CASE HearsText(l)
    <3>1. \A k \in Listeners : audio'[k].ending = audio[k].ending
      BY <2>3, <2>6 DEF HearsText
    <3>2. Head(textQueue) # EndMark
      BY <2>6 DEF HearsText
    <3>3. EndMark \in ToSet(textQueue') <=> EndMark \in ToSet(textQueue)
      BY <2>2, <3>2
    <3> QED BY <2>5, <3>1, <3>3 DEF MarkInv
  <2>7. CASE HearsEnd(l)
    <3>1. Head(textQueue) = EndMark /\ audio'[l].ending = "heard"
      BY <2>7 DEF HearsEnd
    <3>2. closed /\ EndMark \notin ToSet(textQueue')
      BY <2>2, <3>1 DEF MarkInv
    <3> QED BY <2>5, <3>1, <3>2 DEF MarkInv
  <2> QED BY <1>4, <2>6, <2>7
<1> QED BY <1>1, <1>2, <1>3, <1>4, Moves

-----------------------------------------------------------------------------
(* Texts are in order from those a listener has to those on the queue, and *)
(* no two listeners have the same.                                         *)
FlowInv ==
    /\ ToSet(textQueue) \subseteq 0..turn.pos - 1
    /\ \A l \in Listeners :
          InOrder(Way(l)) /\ ToSet(Held(l)) \subseteq 1..turn.pos - 1
    /\ \A l, k \in Listeners : l # k => ToSet(Held(l)) \cap ToSet(Held(k)) = {}

(* What a listener has and what is on the queue is not the same.           *)
LEMMA HeldIsGone ==
    ASSUME TypeOK, NEW l \in Listeners, InOrder(Way(l))
    PROVE  ToSet(Held(l)) \cap ToSet(textQueue) = {}
<1>1. Before(Held(l), textQueue)
  BY HeldTypes, CatInOrder DEF Way
<1>2. \A t \in ToSet(Held(l)) : t # EndMark /\ ~(t < t)
  <2>1. ToSet(Held(l)) \subseteq Nat /\ EndMark \notin ToSet(Held(l))
    BY HeldTypes, MarkedIsNat
  <2>2. \A t \in Nat : ~(t < t)
    OBVIOUS
  <2> QED BY <2>1, <2>2
<1> QED BY <1>1, <1>2 DEF Before

LEMMA FlowInvInit == Init => FlowInv
<1> SUFFICES ASSUME Init PROVE FlowInv
  OBVIOUS
<1>1. textQueue = <<>> /\ \A l \in Listeners : Held(l) = <<>> /\ Way(l) = <<>>
  <2>1. textQueue = <<>>
    BY DEF Init
  <2>2. \A l \in Listeners :
            spoken[l] = <<>> /\ audio[l].segment = <<>> /\ audio[l].buffer = <<>>
    BY DEF Init
  <2>3. <<>> \o <<>> = <<>>
    OBVIOUS
  <2> QED BY <2>1, <2>2, <2>3 DEF Held, Way
<1>2. InOrder(<<>>)
  BY DEF InOrder
<1> QED BY <1>1, <1>2, SmallHolds DEF FlowInv

LEMMA FlowInvStep ==
    ASSUME StreamsAssumption, TypeOK, TypeOK', StageInv, TurnInv, FlowInv, [Next]_vars
    PROVE  FlowInv'
<1>0. /\ turn.pos \in Nat /\ turn'.pos \in Nat
      /\ \A l \in Listeners : Held(l) \in Seq(Nat) /\ Held(l)' \in Seq(Nat)
      /\ textQueue \in Seq(Nat) /\ textQueue' \in Seq(Nat)
  <2>1. turn.pos \in Nat /\ turn'.pos \in Nat
    BY DEF TypeOK
  <2>2. \A l \in Listeners : Held(l) \in Seq(Nat)
    BY HeldTypes
  <2>3. \A l \in Listeners : Held(l)' \in Seq(Nat)
    <3> SUFFICES ASSUME NEW l \in Listeners PROVE Held(l)' \in Seq(Nat)
      OBVIOUS
    <3>1. spoken'[l] \in Seq(Texts) /\ audio'[l].segment \in Seq(Texts) /\ audio'[l].buffer \in Seq(Texts)
      BY DEF TypeOK
    <3>2. Held(l)' \in Seq(Texts)
      BY <3>1 DEF Held
    <3> QED BY <3>2, MarkedIsNat, WiderSeq
  <2>4. textQueue \in Seq(Nat) /\ textQueue' \in Seq(Nat)
    BY MarkedIsNat DEF TypeOK, Marked
  <2> QED BY <2>1, <2>2, <2>3, <2>4
<1>1. CASE Idles
  <2>1. \A l \in Listeners : Held(l)' = Held(l) /\ Way(l)' = Way(l)
    BY <1>1 DEF Idles, Held, Way
  <2> QED BY <1>1, <2>1 DEF Idles, FlowInv
<1>2. ASSUME NEW texts, NEW mark, Puts(texts, mark) PROVE FlowInv'
  <2> DEFINE added == texts \o mark
  <2>1. /\ added \in Seq(Nat)
        /\ ToSet(texts) \subseteq {turn.pos} /\ ToSet(mark) \subseteq {EndMark}
        /\ ToSet(texts) = {} <=> texts = <<>>
        /\ ToSet(added) = ToSet(texts) \cup ToSet(mark)
        /\ InOrder(added)
    BY <1>2, AddedHolds
  <2>2. /\ textQueue' = textQueue \o added
        /\ UNCHANGED <<audio, spoken>>
        /\ turn.pos \in Texts
        /\ turn.pos =< turn'.pos
        /\ texts # <<>> => turn.pos < turn'.pos
    BY <1>2 DEF Puts
  <2> HIDE DEF added
  <2>3. /\ ToSet(textQueue') = ToSet(textQueue) \cup ToSet(added)
        /\ \A l \in Listeners : Held(l)' = Held(l)
    BY <1>0, <2>1, <2>2, CatHolds DEF Held
  <2>4. ToSet(added) \subseteq {turn.pos, EndMark}
    BY <2>1
  <2>5. ToSet(textQueue') \subseteq 0..turn'.pos - 1
    <3>1. ToSet(texts) # {} => turn.pos < turn'.pos
      BY <2>1, <2>2
    <3>2. ToSet(texts) \subseteq 0..turn'.pos - 1
      BY <1>0, <2>1, <3>1
    <3>3. EndMark \in 0..turn'.pos - 1 /\ 0..turn.pos - 1 \subseteq 0..turn'.pos - 1
      BY <1>0, <2>2 DEF EndMark, Texts
    <3> QED BY <2>1, <2>3, <3>2, <3>3 DEF FlowInv
  <2>6. ASSUME NEW l \in Listeners PROVE InOrder(Way(l)')
    <3>1. Way(l) \in Seq(Nat) /\ Way(l)' = Way(l) \o added
      <4>1. Held(l) \o textQueue \in Seq(Nat)
        BY <1>0
      <4>2. (Held(l) \o textQueue) \o added = Held(l) \o (textQueue \o added)
        <5>1. Held(l) \in Seq(Nat) /\ textQueue \in Seq(Nat) /\ added \in Seq(Nat)
          BY <1>0, <2>1
        <5> QED BY <5>1, ConcatAssociative
      <4>3. Way(l)' = Held(l)' \o textQueue'
        BY DEF Way
      <4> QED BY <2>2, <2>3, <4>1, <4>2, <4>3 DEF Way
    <3>2. ToSet(Way(l)) = ToSet(Held(l)) \cup ToSet(textQueue)
      BY <1>0, CatHolds DEF Way
    <3>3. \A x \in ToSet(Way(l)) : x < turn.pos
      BY <1>0, <3>2 DEF FlowInv
    <3>4. Before(Way(l), added)
      BY <2>4, <3>3 DEF Before
    <3> QED BY <2>1, <3>1, <3>4, CatInOrder DEF FlowInv
  <2>7. \A l \in Listeners : ToSet(Held(l)') \subseteq 1..turn'.pos - 1
    BY <1>0, <2>2, <2>3 DEF FlowInv
  <2> QED BY <2>3, <2>5, <2>6, <2>7 DEF FlowInv
<1>3. ASSUME NEW l \in Listeners, Others(l), UNCHANGED <<stream, turn, closed, said>>,
             Rests(l) \/ Cuts(l) \/ HearsText(l) \/ HearsEnd(l)
      PROVE  FlowInv'
  <2>0. \A k \in Listeners \ {l} : Held(k)' = Held(k)
    BY <1>3 DEF Others, Held
  <2>1. /\ InOrder(Way(l))
        /\ Way(l) = Held(l) \o textQueue /\ Way(l)' = Held(l)' \o textQueue'
        /\ \A k \in Listeners : /\ InOrder(Held(k)) /\ InOrder(textQueue)
                                /\ Before(Held(k), textQueue)
    BY <1>0, CatInOrder DEF FlowInv, Way
  <2>2. ASSUME InOrder(Way(l)'), InOrder(textQueue'), ToSet(textQueue') \subseteq ToSet(textQueue),
               ToSet(Held(l)') \subseteq ToSet(Held(l)) \cup ToSet(textQueue)
        PROVE  FlowInv'
    <3>1. ASSUME NEW k \in Listeners PROVE InOrder(Way(k)')
      <4>1. CASE k # l
        <5>1. Held(k)' = Held(k)
          BY <2>0, <4>1
        <5>2. Before(Held(k), textQueue')
          BY <2>1, <2>2 DEF Before
        <5>3. InOrder(Held(k) \o textQueue')
          BY <1>0, <2>1, <2>2, <5>2, CatInOrder
        <5> QED BY <5>1, <5>3 DEF Way
      <4> QED BY <2>2, <4>1
    <3>2. ASSUME NEW k \in Listeners, k # l PROVE ToSet(Held(l)') \cap ToSet(Held(k)') = {}
      <4>1. Held(k)' = Held(k)
        BY <2>0, <3>2
      <4>2. ToSet(Held(k)) \cap ToSet(textQueue) = {}
        BY HeldIsGone DEF FlowInv
      <4> QED BY <2>2, <3>2, <4>1, <4>2 DEF FlowInv
    <3>3. \A k \in Listeners : ToSet(Held(k)') \subseteq 1..turn.pos - 1
      <4>1. ToSet(Held(l)') \subseteq 0..turn.pos - 1
        BY <1>0, <2>2 DEF FlowInv
      <4>2. EndMark \notin ToSet(Held(l)')
        <5>1. Held(l)' \in Seq(Texts)
          <6>1. spoken'[l] \in Seq(Texts) /\ audio'[l].segment \in Seq(Texts) /\ audio'[l].buffer \in Seq(Texts)
            BY DEF TypeOK
          <6> QED BY <6>1 DEF Held
        <5> QED BY <5>1, MarkedIsNat DEF ToSet
      <4>3. ToSet(Held(l)') \subseteq 1..turn.pos - 1
        BY <1>0, <4>1, <4>2 DEF EndMark
      <4> QED BY <2>0, <4>3 DEF FlowInv
    <3>4. turn'.pos = turn.pos
      BY <1>3
    <3>5. ToSet(textQueue') \subseteq 0..turn.pos - 1
      BY <2>2 DEF FlowInv
    <3>6. \A k, m \in Listeners : k # m => ToSet(Held(k)') \cap ToSet(Held(m)') = {}
      <4>1. ASSUME NEW k \in Listeners \ {l}, NEW m \in Listeners \ {l}, k # m
            PROVE  ToSet(Held(k)') \cap ToSet(Held(m)') = {}
        BY <2>0, <4>1 DEF FlowInv
      <4> QED BY <3>2, <4>1
    <3> QED BY <3>1, <3>3, <3>4, <3>5, <3>6 DEF FlowInv
  <2>3. CASE Rests(l)
    BY <2>1, <2>2, <2>3 DEF Rests
  <2>4. CASE Cuts(l)
    <3>1. PICK rest \in Seq(Texts) : Held(l) = Held(l)' \o rest
      BY <2>4 DEF Cuts
    <3>2. rest \in Seq(Nat)
      BY MarkedIsNat, WiderSeq
    <3>3. ToSet(Held(l)) = ToSet(Held(l)') \cup ToSet(rest)
      BY <1>0, <3>1, <3>2, CatHolds
    <3>4. textQueue' = textQueue
      BY <2>4 DEF Cuts
    <3>5. InOrder(Held(l)') /\ Before(Held(l)', textQueue)
      BY <1>0, <2>1, <3>1, <3>2, <3>3, CatInOrder DEF Before
    <3>6. InOrder(Way(l)')
      BY <1>0, <2>1, <3>4, <3>5, CatInOrder
    <3> QED BY <2>1, <2>2, <3>3, <3>4, <3>6
  <2>5. CASE HearsText(l) \/ HearsEnd(l)
    <3> DEFINE h == Head(textQueue)
               t == Tail(textQueue)
    <3>1. textQueue # <<>> /\ textQueue' = t
      BY <2>5 DEF HearsText, HearsEnd
    <3>2. /\ h \in Nat /\ t \in Seq(Nat) /\ textQueue = <<h>> \o t
          /\ ToSet(textQueue) = {h} \cup ToSet(t)
      BY <3>1, HeadTaken, MarkedIsNat
    <3> HIDE DEF h, t
    <3>3. <<h>> \in Seq(Nat) /\ ToSet(<<h>>) = {h}
      BY <3>2, SmallHolds
    <3>4. InOrder(t) /\ InOrder(<<h>>) /\ Before(<<h>>, t)
      BY <2>1, <3>2, <3>3, CatInOrder
    <3>5. Before(Held(l), t) /\ Before(Held(l), <<h>>)
      BY <2>1, <3>2, <3>3 DEF Before
    <3>6. CASE HearsEnd(l)
      <4>1. Held(l)' = Held(l)
        BY <3>6 DEF HearsEnd
      <4>2. InOrder(Held(l) \o t)
        BY <1>0, <2>1, <3>2, <3>4, <3>5, CatInOrder
      <4> QED BY <2>1, <2>2, <3>1, <3>2, <3>4, <4>1, <4>2
    <3>7. CASE HearsText(l)
      <4>1. Held(l)' = Held(l) \o <<h>>
        BY <3>7 DEF HearsText, h
      <4>5. InOrder(Held(l) \o <<h>>)
        BY <1>0, <2>1, <3>3, <3>4, <3>5, CatInOrder
      <4>6. ToSet(Held(l) \o <<h>>) = ToSet(Held(l)) \cup ToSet(<<h>>)
        <5>1. Held(l) \in Seq(Nat) /\ <<h>> \in Seq(Nat)
          BY <1>0, <3>3
        <5> QED BY <5>1, CatHolds
      <4>2. InOrder(Held(l)') /\ ToSet(Held(l)') = ToSet(Held(l)) \cup {h}
        BY <3>3, <4>1, <4>5, <4>6
      <4>3. Before(Held(l)', t)
        BY <3>3, <3>4, <3>5, <4>2 DEF Before
      <4>4. InOrder(Held(l)' \o t)
        BY <1>0, <3>2, <3>4, <4>2, <4>3, CatInOrder
      <4> QED BY <2>1, <2>2, <3>1, <3>2, <3>4, <4>2, <4>4
    <3> QED BY <2>5, <3>6, <3>7
  <2> QED BY <1>3, <2>3, <2>4, <2>5
<1> QED BY <1>1, <1>2, <1>3, Moves

-----------------------------------------------------------------------------
(* A lone listener and the queue have all the turn has said between them.  *)
KeptInv ==
    \A l \in Listeners :
        Alone(l) /\ audio[l].stage \notin {"refused", "cut"} =>
            (ToSet(Held(l)) \cup ToSet(textQueue)) \ {EndMark} = said

LEMMA KeptInvInit == Init => KeptInv
<1> SUFFICES ASSUME Init, NEW l \in Listeners
             PROVE  (ToSet(Held(l)) \cup ToSet(textQueue)) \ {EndMark} = said
  BY DEF KeptInv
<1>1. textQueue = <<>> /\ said = {}
  BY DEF Init
<1>2. spoken[l] = <<>> /\ audio[l].segment = <<>> /\ audio[l].buffer = <<>>
  BY DEF Init
<1>3. <<>> \o <<>> = <<>>
  OBVIOUS
<1>4. Held(l) = <<>>
  BY <1>2, <1>3 DEF Held
<1> QED BY <1>1, <1>4, SmallHolds

LEMMA KeptInvStep ==
    ASSUME StreamsAssumption, TypeOK, TypeOK', StageInv, TurnInv, KeptInv, [Next]_vars
    PROVE  KeptInv'
<1> SUFFICES ASSUME NEW l \in Listeners, Alone(l)', audio'[l].stage \notin {"refused", "cut"}
             PROVE  (ToSet(Held(l)') \cup ToSet(textQueue')) \ {EndMark} = said'
  BY DEF KeptInv
<1>0. /\ Alone(l)
      /\ (ToSet(Held(l)) \cup ToSet(textQueue)) \ {EndMark} = said
      /\ Held(l) \in Seq(Nat) /\ textQueue \in Seq(Nat)
      /\ EndMark \notin ToSet(Held(l))
  BY AloneBefore, HeldTypes DEF KeptInv
<1>1. CASE Idles
  BY <1>0, <1>1 DEF Idles, Held
<1>2. ASSUME NEW texts, NEW mark, Puts(texts, mark)
      PROVE  (ToSet(Held(l)') \cup ToSet(textQueue')) \ {EndMark} = said'
  <2> DEFINE added == texts \o mark
  <2>1. /\ added \in Seq(Nat)
        /\ ToSet(texts) \subseteq {turn.pos} /\ ToSet(mark) \subseteq {EndMark}
        /\ ToSet(added) = ToSet(texts) \cup ToSet(mark)
    BY <1>2, AddedHolds
  <2>2. /\ textQueue' = textQueue \o added
        /\ UNCHANGED <<audio, spoken>>
        /\ turn.pos # EndMark
        /\ said' = said \cup ToSet(texts)
    BY <1>2, MarkedIsNat DEF Puts
  <2> HIDE DEF added
  <2>3. ToSet(textQueue') = ToSet(textQueue) \cup ToSet(added)
    BY <1>0, <2>1, <2>2, CatHolds
  <2>4. Held(l)' = Held(l)
    BY <2>2 DEF Held
  <2> QED BY <1>0, <2>1, <2>2, <2>3, <2>4
<1>3. ASSUME NEW k \in Listeners, Others(k), UNCHANGED <<stream, turn, closed, said>>,
             Rests(k) \/ Cuts(k) \/ HearsText(k) \/ HearsEnd(k),
             audio[k].stage \in {"new", "refused"} => Rests(k)
      PROVE  (ToSet(Held(l)') \cup ToSet(textQueue')) \ {EndMark} = said'
  <2>1. CASE k # l
    <3>1. Rests(k)
      BY <1>0, <1>3, <2>1 DEF Alone
    <3>2. Held(l)' = Held(l)
      BY <1>3, <2>1 DEF Others, Held
    <3> QED BY <1>0, <1>3, <3>1, <3>2 DEF Rests
  <2>2. CASE k = l /\ Rests(l)
    BY <1>0, <1>3, <2>2 DEF Rests
  <2>3. CASE k = l /\ Cuts(l)
    BY <2>3 DEF Cuts
  <2>4. CASE k = l /\ HearsText(l)
    <3>1. /\ textQueue # <<>> /\ textQueue' = Tail(textQueue)
          /\ Held(l)' = Held(l) \o <<Head(textQueue)>>
      BY <2>4 DEF HearsText
    <3>2. /\ ToSet(textQueue) = {Head(textQueue)} \cup ToSet(Tail(textQueue))
          /\ Head(textQueue) \in Nat
      BY <3>1, HeadTaken, MarkedIsNat
    <3>3. <<Head(textQueue)>> \in Seq(Nat)
      BY <3>2
    <3>4. ToSet(Held(l) \o <<Head(textQueue)>>) = ToSet(Held(l)) \cup {Head(textQueue)}
      <4>1. Held(l) \in Seq(Nat)
        BY <1>0
      <4>2. ToSet(Held(l) \o <<Head(textQueue)>>) = ToSet(Held(l)) \cup ToSet(<<Head(textQueue)>>)
        BY <3>3, <4>1, CatHolds
      <4> QED BY <4>2, SmallHolds
    <3> QED BY <1>0, <1>3, <3>1, <3>2, <3>4
  <2>5. CASE k = l /\ HearsEnd(l)
    <3>1. /\ textQueue # <<>> /\ textQueue' = Tail(textQueue)
          /\ Held(l)' = Held(l) /\ Head(textQueue) = EndMark
      BY <2>5 DEF HearsEnd
    <3>2. ToSet(textQueue) = {Head(textQueue)} \cup ToSet(Tail(textQueue))
      BY <3>1, HeadTaken
    <3> QED BY <1>0, <1>3, <3>1, <3>2
  <2> QED BY <1>3, <2>1, <2>2, <2>3, <2>4, <2>5
<1> QED BY <1>1, <1>2, <1>3, Moves

-----------------------------------------------------------------------------
(* What is before the marker, and all that a lone listener has, comes from *)
(* events up to the first final one; what is behind it does not.           *)
EarlyInv ==
    /\ Splits(textQueue)
    /\ \A l \in Listeners : audio[l].ending = "heard" =>
          \A t \in ToSet(textQueue) : t # EndMark => ~Early(t)
    /\ \A l \in Listeners : Alone(l) => \A t \in ToSet(Held(l)) : Early(t)

LEMMA EarlyInvInit == Init => EarlyInv
<1> SUFFICES ASSUME Init PROVE EarlyInv
  OBVIOUS
<1>1. textQueue = <<>>
  BY DEF Init
<1>2. \A l \in Listeners : Held(l) = <<>>
  <2>1. \A l \in Listeners :
            spoken[l] = <<>> /\ audio[l].segment = <<>> /\ audio[l].buffer = <<>>
    BY DEF Init
  <2>2. <<>> \o <<>> = <<>>
    OBVIOUS
  <2> QED BY <2>1, <2>2 DEF Held
<1>3. Splits(<<>>)
  BY DEF Splits
<1> QED BY <1>1, <1>2, <1>3, SmallHolds DEF EarlyInv

(* Texts up to a position without a final event before it are early.       *)
LEMMA EarlierIsEarly ==
    ASSUME TypeOK, FlowInv, Early(turn.pos)
    PROVE  \A t \in ToSet(textQueue) : t # EndMark => Early(t)
<1> SUFFICES ASSUME NEW t \in ToSet(textQueue) PROVE Early(t)
  OBVIOUS
<1>1. t \in 0..turn.pos - 1 /\ turn.pos \in Nat
  BY DEF FlowInv, TypeOK
<1>2. 1..t - 1 \subseteq 1..turn.pos - 1
  BY <1>1
<1> QED BY <1>2 DEF Early

LEMMA EarlyInvStep ==
    ASSUME StreamsAssumption, TypeOK, TypeOK', StageInv, TurnInv, MarkInv, FlowInv, EarlyInv,
           [Next]_vars
    PROVE  EarlyInv'
<1>0. /\ textQueue \in Seq(Nat)
      /\ \A l \in Listeners : Held(l) \in Seq(Nat)
  <2>1. textQueue \in Seq(Nat)
    BY MarkedIsNat DEF TypeOK, Marked
  <2> QED BY <2>1, HeldTypes
<1>6. stream' = stream
  BY Moves DEF Idles, Puts
<1>7. \A t : Early(t)' <=> Early(t)
  BY <1>6 DEF Early
<1>5. ASSUME Splits(textQueue'),
             \A l \in Listeners : audio'[l].ending = "heard" =>
                 \A t \in ToSet(textQueue') : t # EndMark => ~Early(t),
             \A l \in Listeners : Alone(l)' => \A t \in ToSet(Held(l)') : Early(t)
      PROVE  EarlyInv'
  <2>1. Splits(textQueue)'
    BY <1>5, <1>6 DEF Splits, Early
  <2> QED BY <1>5, <1>7, <2>1 DEF EarlyInv
<1>8. \A l \in Listeners : Alone(l)' => Alone(l)
  BY AloneBefore
<1>1. CASE Idles
  <2>1. /\ textQueue' = textQueue /\ audio' = audio
        /\ \A l \in Listeners : Held(l)' = Held(l)
    BY <1>1 DEF Idles, Held
  <2> QED BY <1>5, <1>8, <2>1 DEF EarlyInv
<1>2. ASSUME NEW texts, NEW mark, Puts(texts, mark) PROVE EarlyInv'
  <2> DEFINE added == texts \o mark
  <2>1. /\ added \in Seq(Nat) /\ texts \in Seq(Nat) /\ mark \in Seq(Nat)
        /\ ToSet(texts) \subseteq {turn.pos} /\ ToSet(mark) \subseteq {EndMark}
        /\ ToSet(texts) = {} <=> texts = <<>>
        /\ ToSet(mark) = {} <=> mark = <<>>
        /\ ToSet(added) = ToSet(texts) \cup ToSet(mark)
        /\ closed \/ texts = <<>> \/ Early(turn.pos)
    BY <1>2, AddedHolds, MarkedIsNat, WiderSeq
  <2>2. /\ textQueue' = textQueue \o added
        /\ UNCHANGED <<audio, spoken>>
        /\ turn.pos # EndMark
        /\ texts = <<>> \/ texts = <<turn.pos>>
        /\ mark = <<>> \/ mark = <<EndMark>>
        /\ mark # <<>> => ~closed
        /\ texts # <<>> => (closed <=> ~Early(turn.pos))
    BY <1>2, MarkedIsNat DEF Puts
  <2>3. ~closed => Early(turn.pos) /\ \A t \in ToSet(textQueue) : t # EndMark => Early(t)
    BY EarlierIsEarly DEF TurnInv
  <2>4. Splits(added)
    <3>1. Splits(texts) /\ Splits(mark)
      BY <2>2 DEF Splits
    <3>2. EndMark \notin ToSet(texts)
      BY <2>1, <2>2
    <3>3. EndMark \in ToSet(mark) => \A x \in ToSet(texts) : x # EndMark => Early(x)
      BY <2>1, <2>2, <2>3
    <3> QED BY <2>1, <3>1, <3>2, <3>3, CatSplits
  <2> HIDE DEF added
  <2>5. ToSet(textQueue') = ToSet(textQueue) \cup ToSet(added)
    BY <1>0, <2>1, <2>2, CatHolds
  <2>6. closed => \A x \in ToSet(added) : x # EndMark => ~Early(x)
    BY <2>1, <2>2
  <2>7. EndMark \in ToSet(added) => ~closed
    BY <2>1, <2>2
  <2>8. Splits(textQueue')
    <3>1. EndMark \in ToSet(textQueue) => \A x \in ToSet(added) : x # EndMark => ~Early(x)
      BY <2>6 DEF MarkInv
    <3>2. EndMark \in ToSet(added) => \A x \in ToSet(textQueue) : x # EndMark => Early(x)
      BY <2>3, <2>7
    <3> QED BY <1>0, <2>1, <2>2, <2>4, <3>1, <3>2, CatSplits DEF EarlyInv
  <2>9. ASSUME NEW l \in Listeners, audio'[l].ending = "heard"
        PROVE  \A t \in ToSet(textQueue') : t # EndMark => ~Early(t)
    <3>1. closed /\ \A t \in ToSet(textQueue) : t # EndMark => ~Early(t)
      BY <2>2, <2>9 DEF MarkInv, EarlyInv
    <3> QED BY <2>5, <2>6, <3>1
  <2>10. \A l \in Listeners : Held(l)' = Held(l)
    BY <2>2 DEF Held
  <2> QED BY <1>5, <1>8, <2>8, <2>9, <2>10 DEF EarlyInv
<1>3. ASSUME NEW l \in Listeners, Others(l), UNCHANGED <<stream, turn, closed, said>>,
             Rests(l) \/ Cuts(l)
      PROVE  EarlyInv'
  <2>1. /\ textQueue' = textQueue
        /\ \A k \in Listeners : audio'[k].ending = audio[k].ending
        /\ \A k \in Listeners \ {l} : Held(k)' = Held(k)
    BY <1>3 DEF Rests, Cuts, Others, Held
  <2>2. ToSet(Held(l)') \subseteq ToSet(Held(l))
    <3>1. CASE Rests(l)
      BY <3>1 DEF Rests
    <3>2. CASE Cuts(l)
      <4>1. PICK rest \in Seq(Texts) : Held(l) = Held(l)' \o rest
        BY <3>2 DEF Cuts
      <4>2. Held(l)' \in Seq(Texts)
        <5>1. spoken'[l] \in Seq(Texts) /\ audio'[l].segment \in Seq(Texts) /\ audio'[l].buffer \in Seq(Texts)
          BY DEF TypeOK
        <5> QED BY <5>1 DEF Held
      <4> QED BY <4>1, <4>2, CatHolds
    <3> QED BY <1>3, <3>1, <3>2
  <2>3. \A k \in Listeners : ToSet(Held(k)') \subseteq ToSet(Held(k))
    BY <2>1, <2>2
  <2> QED BY <1>5, <1>8, <2>1, <2>3 DEF EarlyInv
<1>4. ASSUME NEW l \in Listeners, Others(l), UNCHANGED <<stream, turn, closed, said>>,
             HearsText(l) \/ HearsEnd(l)
      PROVE  EarlyInv'
  <2> DEFINE h == Head(textQueue)
  <2>1. textQueue # <<>> /\ textQueue' = Tail(textQueue) /\ audio[l].stage = "receiving"
    BY <1>4 DEF HearsText, HearsEnd
  <2>2. /\ Splits(textQueue')
        /\ ToSet(textQueue) = {h} \cup ToSet(textQueue')
        /\ h = EndMark => \A x \in ToSet(textQueue') : x # EndMark => ~Early(x)
        /\ h # EndMark /\ EndMark \in ToSet(textQueue) => Early(h)
        /\ h \in Nat
    BY <2>1, HeadTaken, MarkedIsNat DEF EarlyInv
  <2>3. \A k \in Listeners \ {l} : audio'[k].ending = audio[k].ending /\ Held(k)' = Held(k)
    BY <1>4 DEF Others, Held
  <2>4. audio[l].ending = "timedOut"
    BY <2>1 DEF StageInv
  <2>5. CASE HearsEnd(l)
    <3>1. Held(l)' = Held(l) /\ h = EndMark
      BY <2>5 DEF HearsEnd
    <3>2. \A x \in ToSet(textQueue') : x # EndMark => ~Early(x)
      BY <2>2, <3>1
    <3>3. \A k \in Listeners : Held(k)' = Held(k)
      BY <2>3, <3>1
    <3> QED BY <1>5, <1>8, <2>2, <3>2, <3>3 DEF EarlyInv
  <2>6. CASE HearsText(l)
    <3>1. Held(l)' = Held(l) \o <<h>> /\ h # EndMark /\ audio'[l].ending = "timedOut"
      BY <2>4, <2>6 DEF HearsText
    <3> HIDE DEF h
    <3>2. Alone(l) => Early(h)
      <4>1. CASE EndMark \in ToSet(textQueue)
        BY <2>2, <3>1, <4>1
      <4>2. CASE ~closed
        <5>1. Early(turn.pos)
          BY <4>2 DEF TurnInv
        <5> QED BY <2>2, <3>1, <5>1, EarlierIsEarly
      <4>3. CASE closed /\ EndMark \notin ToSet(textQueue)
        <5>1. PICK k \in Listeners : audio[k].ending = "heard"
          BY <4>3 DEF MarkInv
        <5>2. k # l /\ audio[k].stage \notin {"new", "refused"}
          BY <2>4, <5>1 DEF StageInv
        <5> QED BY <5>2 DEF Alone
      <4> QED BY <4>1, <4>2, <4>3
    <3>3. ToSet(Held(l)') = ToSet(Held(l)) \cup {h}
      <4>1. Held(l) \in Seq(Nat) /\ <<h>> \in Seq(Nat)
        BY <1>0, <2>2
      <4>2. ToSet(Held(l) \o <<h>>) = ToSet(Held(l)) \cup ToSet(<<h>>)
        BY <4>1, CatHolds
      <4> QED BY <3>1, <4>2, SmallHolds
    <3>4. \A k \in Listeners : Alone(k)' => \A t \in ToSet(Held(k)') : Early(t)
      BY <1>8, <2>3, <3>2, <3>3 DEF EarlyInv
    <3>5. \A k \in Listeners : audio'[k].ending = "heard" =>
              \A t \in ToSet(textQueue') : t # EndMark => ~Early(t)
      BY <2>2, <2>3, <3>1 DEF EarlyInv
    <3> QED BY <1>5, <2>2, <3>4, <3>5
  <2> QED BY <1>4, <2>5, <2>6
<1> QED BY <1>1, <1>2, <1>3, <1>4, Moves

-----------------------------------------------------------------------------
(* The inductive invariant of the bridge.  NothingLostOnTheWay and         *)
(* HeardInFull are not inductive: that no text is lost says nothing of the *)
(* marker's place, and what a listener heard is only known by it.          *)
BridgeInv ==
    /\ TypeOK /\ StageInv /\ TurnInv /\ MarkInv
    /\ FlowInv /\ KeptInv /\ EarlyInv

LEMMA BridgeInvInit == StreamsAssumption /\ Init => BridgeInv
BY TypesInit, StageInvInit, TurnInvInit, MarkInvInit, FlowInvInit, KeptInvInit, EarlyInvInit
   DEF BridgeInv

LEMMA BridgeInvStep == StreamsAssumption /\ BridgeInv /\ [Next]_vars => BridgeInv'
<1> SUFFICES ASSUME StreamsAssumption, BridgeInv, [Next]_vars PROVE BridgeInv'
  OBVIOUS
<1>1. TypeOK /\ StageInv /\ TurnInv /\ MarkInv /\ FlowInv /\ KeptInv /\ EarlyInv
  BY DEF BridgeInv
<1>2. TypeOK'
  BY <1>1, TypesStep
<1>3. StageInv'
  BY <1>1, StageInvStep
<1>4. TurnInv'
  BY <1>1, TurnInvStep
<1>5. MarkInv'
  BY <1>1, <1>2, MarkInvStep
<1>6. FlowInv'
  BY <1>1, <1>2, FlowInvStep
<1>7. KeptInv'
  BY <1>1, <1>2, KeptInvStep
<1>8. EarlyInv'
  BY <1>1, <1>2, EarlyInvStep
<1> QED BY <1>2, <1>3, <1>4, <1>5, <1>6, <1>7, <1>8 DEF BridgeInv

LEMMA BridgeInvariance == Spec => []BridgeInv
<1>1. StreamsAssumption
  BY StreamsAssumption
<1> QED BY <1>1, BridgeInvInit, BridgeInvStep, PTL DEF Spec

(* Every session, stream and listener stays within its type. *)
THEOREM BridgeTypeCorrect == Spec => []TypeOK
<1>1. BridgeInv => TypeOK
  BY DEF BridgeInv
<1> QED BY <1>1, BridgeInvariance, PTL

(* The end marker is left behind by every turn that got to its events: in  *)
(* the queue, or taken by a listener.                                      *)
THEOREM EndsAreMarked == Spec => []EndIsMarked
<1>1. BridgeInv => EndIsMarked
  BY DEF BridgeInv, TurnInv, MarkInv, EndIsMarked
<1> QED BY <1>1, BridgeInvariance, PTL

(* What a lone listener was told, holds and has still to take from the     *)
(* queue is what the turn has put, in its order.                           *)
THEOREM NothingIsLost == Spec => []NothingLostOnTheWay
<1>1. BridgeInv => NothingLostOnTheWay
  <2> SUFFICES ASSUME BridgeInv, NEW l \in Listeners, Alone(l),
                      audio[l].stage \notin {"refused", "cut"}
               PROVE  InOrder(Way(l)) /\ ToSet(Way(l)) \ {EndMark} = said
    BY DEF NothingLostOnTheWay
  <2>1. Held(l) \in Seq(Nat) /\ textQueue \in Seq(Nat)
    BY HeldTypes DEF BridgeInv
  <2>2. ToSet(Way(l)) = ToSet(Held(l)) \cup ToSet(textQueue)
    BY <2>1, CatHolds DEF Way
  <2> QED BY <2>2 DEF BridgeInv, FlowInv, KeptInv
<1> QED BY <1>1, BridgeInvariance, PTL

(* Any number of listeners of one session share its text: no text is       *)
(* spoken to two of them, and none hears it out of order.                  *)
THEOREM TextIsShared == Spec => []SharedInOrder
<1>1. BridgeInv => SharedInOrder
  <2> SUFFICES ASSUME BridgeInv PROVE SharedInOrder
    OBVIOUS
  <2>1. ASSUME NEW l \in Listeners
        PROVE  InOrder(spoken[l]) /\ ToSet(spoken[l]) \subseteq ToSet(Held(l))
    <3> DEFINE rest == audio[l].segment \o audio[l].buffer
    <3>1. /\ spoken[l] \in Seq(Texts) /\ audio[l].segment \in Seq(Texts)
          /\ audio[l].buffer \in Seq(Texts)
      BY <2>1 DEF BridgeInv, TypeOK
    <3>2. spoken[l] \in Seq(Nat) /\ rest \in Seq(Nat)
      <4>1. rest \in Seq(Texts)
        BY <3>1
      <4> QED BY <3>1, <4>1, MarkedIsNat, WiderSeq
    <3>3. Held(l) = spoken[l] \o rest
      <4> DEFINE s == spoken[l]
                 g == audio[l].segment
                 b == audio[l].buffer
      <4>1. Held(l) = (s \o g) \o b /\ rest = g \o b
        BY DEF Held
      <4>2. s \in Seq(Texts) /\ g \in Seq(Texts) /\ b \in Seq(Texts)
        BY <3>1
      <4> HIDE DEF rest, s, g, b
      <4>3. (s \o g) \o b = s \o (g \o b)
        BY <4>2
      <4> QED BY <4>1, <4>3 DEF s
    <3> HIDE DEF rest
    <3>4. Held(l) \in Seq(Nat) /\ textQueue \in Seq(Nat)
      BY HeldTypes DEF BridgeInv
    <3>5. InOrder(Held(l))
      BY <3>4, CatInOrder DEF BridgeInv, FlowInv, Way
    <3>6. InOrder(spoken[l])
      BY <3>2, <3>3, <3>5, CatInOrder
    <3>7. ToSet(spoken[l]) \subseteq ToSet(Held(l))
      BY <3>2, <3>3, CatHolds
    <3> QED BY <3>6, <3>7
  <2>2. \A l, k \in Listeners : l # k => ToSet(Held(l)) \cap ToSet(Held(k)) = {}
    BY DEF BridgeInv, FlowInv
  <2> QED BY <2>1, <2>2 DEF SharedInOrder
<1> QED BY <1>1, BridgeInvariance, PTL

(* What is worth it and comes up to the first final event is what there is *)
(* to say.                                                                 *)
LEMMA WorthIsSaid ==
    ASSUME stream \in Seq(Events)
    PROVE  {i \in DOMAIN stream : Worth(i) /\ Early(i)} = ToSay(stream)
<1> DEFINE upToFinal == {i \in DOMAIN stream : Early(i)}
           deltas == {i \in upToFinal : stream[i] = "delta"}
<1>1. ToSay(stream) = IF deltas # {} THEN deltas ELSE {i \in upToFinal : stream[i] = "done"}
  BY DEF ToSay, Early
<1>2. \A i \in DOMAIN stream : i \in Nat \ {0} /\ 1..i - 1 \subseteq DOMAIN stream
  OBVIOUS
<1>3. CASE deltas # {}
  <2>1. PICK d \in deltas : TRUE
    BY <1>3
  <2>2. ASSUME NEW i \in DOMAIN stream, Worth(i), Early(i) PROVE stream[i] = "delta"
    <3> SUFFICES ASSUME stream[i] = "done", \A j \in 1..i - 1 : stream[j] # "delta" PROVE FALSE
      BY <2>2 DEF Worth
    <3>1. d # i /\ d \notin 1..i - 1 /\ d \in Nat \ {0} /\ i \in Nat \ {0}
      BY <1>2, <2>1
    <3>2. i \in 1..d - 1
      BY <3>1
    <3> QED BY <2>1, <3>2 DEF Early
  <2>3. \A i \in deltas : Worth(i)
    BY DEF Worth
  <2>4. {i \in DOMAIN stream : Worth(i) /\ Early(i)} = deltas
    BY <2>2, <2>3
  <2> QED BY <1>1, <1>3, <2>4
<1>4. CASE deltas = {}
  <2>1. ASSUME NEW i \in DOMAIN stream, Early(i)
        PROVE  Worth(i) <=> stream[i] = "done"
    <3>1. \A j \in 1..i - 1 : stream[j] # "delta"
      <4> SUFFICES ASSUME NEW j \in 1..i - 1, stream[j] = "delta" PROVE FALSE
        OBVIOUS
      <4>1. j \in DOMAIN stream /\ 1..j - 1 \subseteq 1..i - 1
        BY <1>2
      <4>2. Early(j)
        BY <2>1, <4>1 DEF Early
      <4> QED BY <1>4, <4>1, <4>2
    <3>2. stream[i] # "delta"
      BY <1>4, <2>1
    <3> QED BY <3>1, <3>2 DEF Worth
  <2>2. {i \in DOMAIN stream : Worth(i) /\ Early(i)} = {i \in upToFinal : stream[i] = "done"}
    BY <2>1
  <2> QED BY <1>1, <1>4, <2>2
<1> QED BY <1>3, <1>4

(* A lone listener who heard the end of a complete turn heard its deltas,  *)
(* or its final content when there were none, and nothing else.            *)
THEOREM AllIsHeard == Spec => []HeardInFull
<1>1. BridgeInv /\ StreamsAssumption => HeardInFull
  <2> SUFFICES ASSUME BridgeInv, StreamsAssumption, NEW l \in Listeners, Alone(l),
                      audio[l].stage = "heard", turn.stage = "complete"
               PROVE  ToSet(spoken[l]) = ToSay(stream)
    BY DEF HeardInFull, Hears
  <2>1. stream \in Seq(Events)
    BY DEF BridgeInv, TypeOK, StreamsAssumption
  <2>2. said = {i \in DOMAIN stream : Worth(i)}
    <3>1. turn.pos - 1 = Len(stream)
      BY <2>1 DEF BridgeInv, TypeOK, TurnInv
    <3> QED BY <2>1, <3>1 DEF BridgeInv, TurnInv
  <2>3. Held(l) = spoken[l]
    <3>1. audio[l].segment = <<>> /\ audio[l].buffer = <<>> /\ spoken[l] \in Seq(Texts)
      BY DEF BridgeInv, StageInv, TypeOK
    <3>2. (spoken[l] \o <<>>) \o <<>> = spoken[l]
      BY <3>1
    <3> QED BY <3>1, <3>2 DEF Held
  <2>4. /\ (ToSet(spoken[l]) \cup ToSet(textQueue)) \ {EndMark} = said
        /\ EndMark \notin ToSet(spoken[l])
    BY <2>3, HeldTypes DEF BridgeInv, KeptInv
  <2>5. /\ \A t \in ToSet(spoken[l]) : Early(t)
        /\ \A t \in ToSet(textQueue) : t # EndMark => ~Early(t)
    BY <2>3 DEF BridgeInv, EarlyInv, StageInv
  <2>6. ToSet(spoken[l]) = {i \in said : Early(i)}
    BY <2>4, <2>5
  <2>7. {i \in said : Early(i)} = {i \in DOMAIN stream : Worth(i) /\ Early(i)}
    BY <2>2
  <2> QED BY <2>1, <2>6, <2>7, WorthIsSaid
<1>2. StreamsAssumption
  BY StreamsAssumption
<1> QED BY <1>1, <1>2, BridgeInvariance, PTL
===============================================================================
