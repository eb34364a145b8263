-------------------------------- MODULE LiveTts --------------------------------
(***************************************************************************)
(* The live speech bridge of router.py: a conversation turn puts the text  *)
(* of its stream on a session's queue, and an audio request takes it off,  *)
(* cuts it into segments and has each synthesised.  The two are threads of *)
(* their own; the queue ends with a marker, and a receive has a timeout.   *)
(* A session is in a table from its creation until an audio request ends.  *)
(***************************************************************************)
EXTENDS Naturals, Sequences, SequencesExt

CONSTANTS Listeners,  \* audio requests that may come for the session
          Streams     \* the event streams a turn may produce

(* "delta": text to speak; "ack": the acknowledgement that is never        *)
(* spoken; "done": the final event, whose content repeats the text;        *)
(* "other": the rest.                                                      *)
Events == {"delta", "ack", "done", "other"}

ASSUME StreamsAssumption == Streams \subseteq Seq(Events)

VARIABLES
    stream,     \* the events of the turn
    turn,       \* the turn thread: [stage, pos, sawDelta]
    listed,     \* session_id in _LIVE_TTS_SESSIONS
    closed,     \* session.closed
    textQueue,  \* session.text_queue
    audio,      \* listener |-> [stage, segment, buffer]
    spoken,     \* history: the texts synthesised for each listener
    said        \* history: the set of texts the turn has put on the queue

vars == <<stream, turn, listed, closed, textQueue, audio, spoken, said>>

(* A text is the position in the stream of the event it came from. *)
Texts == Nat \ {0}
EndMark == 0

TurnStages == {"new", "opened", "pulling", "yielding", "complete", "broken"}
AudioStages == {"new", "refused", "receiving", "speaking", "last", "heard", "timedOut", "cut"}

TypeOK ==
    /\ stream \in Streams
    /\ turn \in [stage : TurnStages, pos : 1..Len(stream) + 1, sawDelta : BOOLEAN]
    /\ {listed, closed} \subseteq BOOLEAN
    /\ textQueue \in Seq(Texts \cup {EndMark})
    /\ audio \in [Listeners -> [stage : AudioStages, ending : {"heard", "timedOut"},
                                segment : Seq(Texts), buffer : Seq(Texts)]]
    /\ spoken \in [Listeners -> Seq(Texts)]
    /\ said \subseteq Texts

Init ==
    /\ stream \in Streams
    /\ turn = [stage |-> "new", pos |-> 1, sawDelta |-> FALSE]
    /\ listed = FALSE
    /\ closed = FALSE
    /\ textQueue = <<>>
    /\ audio = [l \in Listeners |-> [stage |-> "new", ending |-> "timedOut",
                                     segment |-> <<>>, buffer |-> <<>>]]
    /\ spoken = [l \in Listeners |-> <<>>]
    /\ said = {}

-----------------------------------------------------------------------------
(* _finish_live_tts_session, after `texts' have been put. *)
PutAndFinish(texts) ==
    /\ textQueue' = IF closed THEN textQueue \o texts
                    ELSE Append(textQueue \o texts, EndMark)
    /\ closed' = TRUE

(* The queue is not marked when the turn breaks off. *)
FinishOnDoneOnly(stage) ==
    /\ turn' = [turn EXCEPT !.stage = stage]
    /\ IF stage = "complete" THEN PutAndFinish(<<>>) ELSE UNCHANGED <<textQueue, closed>>
    /\ UNCHANGED <<stream, listed, audio, spoken, said>>

(* The finally clause. *)
Finish(stage) ==
    /\ turn' = [turn EXCEPT !.stage = stage]
    /\ PutAndFinish(<<>>)
    /\ UNCHANGED <<stream, listed, audio, spoken, said>>

Open ==
    /\ turn.stage = "new"
    /\ turn' = [turn EXCEPT !.stage = "opened"]
    /\ listed' = TRUE
    /\ UNCHANGED <<stream, closed, textQueue, audio, spoken, said>>

(* The turn goes on after the tts_session event; or its client has gone,   *)
(* and the try block with the finally clause is never entered.             *)
Resume ==
    /\ turn.stage = "opened"
    /\ \E stage \in {"pulling", "broken"} : turn' = [turn EXCEPT !.stage = stage]
    /\ UNCHANGED <<stream, listed, closed, textQueue, audio, spoken, said>>

(* The final content is spoken though the deltas were. *)
SpeaksAlways(event) == event \in {"delta", "done"}

(* What the bridge takes from an event: the final content only if there    *)
(* was no delta to speak.                                                  *)
Speaks(event) == event = "delta" \/ (event = "done" /\ ~turn.sawDelta)

Pull ==
    LET event == stream[turn.pos]
        texts == IF Speaks(event) THEN <<turn.pos>> ELSE <<>>
    IN /\ turn.stage = "pulling"
       /\ turn.pos =< Len(stream)
       /\ turn' = [stage |-> "yielding", pos |-> turn.pos + 1,
                   sawDelta |-> turn.sawDelta \/ event = "delta"]
       /\ said' = said \cup ToSet(texts)
       /\ IF event = "done" THEN PutAndFinish(texts)
          ELSE textQueue' = textQueue \o texts /\ UNCHANGED closed
       /\ UNCHANGED <<stream, listed, audio, spoken>>

Yield ==
    /\ turn.stage = "yielding"
    /\ turn' = [turn EXCEPT !.stage = "pulling"]
    /\ UNCHANGED <<stream, listed, closed, textQueue, audio, spoken, said>>

EndOfStream ==
    /\ turn.stage = "pulling"
    /\ turn.pos > Len(stream)
    /\ Finish("complete")

(* The inner stream raises, or the turn is cancelled or left at a yield. *)
BreakOff ==
    /\ turn.stage \in {"pulling", "yielding"}
    /\ Finish("broken")

-----------------------------------------------------------------------------
Hears(l, stage) == audio[l].stage = stage

(* GET /audio/speech/live/{session_id}; 404 if the session is not listed. *)
Listen(l) ==
    /\ Hears(l, "new")
    /\ turn.stage # "new"
    /\ audio' = [audio EXCEPT ![l].stage = IF listed THEN "receiving" ELSE "refused"]
    /\ UNCHANGED <<stream, turn, listed, closed, textQueue, spoken, said>>

(* The marker is taken for text. *)
IsNeverEnd(text) == text \notin Texts \cup {EndMark}
IsEnd(text) == text = EndMark

(* _split_live_tts_segments: the whole segments of the buffer so far, or   *)
(* none; the rest stays in the buffer.                                     *)
Receive(l) ==
    /\ Hears(l, "receiving")
    /\ textQueue # <<>>
    /\ textQueue' = Tail(textQueue)
    /\ IF IsEnd(Head(textQueue))
       THEN audio' = [audio EXCEPT ![l].stage = "last", ![l].ending = "heard"]
       ELSE LET buffer == Append(audio[l].buffer, Head(textQueue))
            IN \E n \in 0..Len(buffer) :
                  audio' = [audio EXCEPT
                      ![l].segment = SubSeq(buffer, 1, n),
                      ![l].buffer = SubSeq(buffer, n + 1, Len(buffer)),
                      ![l].stage = IF n = 0 THEN "receiving" ELSE "speaking"]
    /\ UNCHANGED <<stream, turn, listed, closed, spoken, said>>

(* queue.get without a timeout. *)
TimeOutNever(l) ==
    /\ Hears(l, "nobody")
    /\ UNCHANGED vars

(* queue.Empty: nothing for _LIVE_TTS_WAIT_SECONDS. *)
TimeOut(l) ==
    /\ Hears(l, "receiving")
    /\ textQueue = <<>>
    /\ audio' = [audio EXCEPT ![l].stage = "last"]
    /\ UNCHANGED <<stream, turn, listed, closed, textQueue, spoken, said>>

Speak(l) ==
    /\ Hears(l, "speaking")
    /\ spoken' = [spoken EXCEPT ![l] = @ \o audio[l].segment]
    /\ audio' = [audio EXCEPT ![l].stage = "receiving", ![l].segment = <<>>]
    /\ UNCHANGED <<stream, turn, listed, closed, textQueue, said>>

(* What is left in the buffer is dropped at the end. *)
EndWithoutRest(l) ==
    /\ Hears(l, "last")
    /\ audio' = [audio EXCEPT ![l].stage = audio[l].ending, ![l].buffer = <<>>]
    /\ listed' = FALSE
    /\ UNCHANGED <<stream, turn, closed, textQueue, spoken, said>>

(* The rest of the buffer is spoken and the session leaves the table. *)
SpeakLast(l) ==
    /\ Hears(l, "last")
    /\ spoken' = [spoken EXCEPT ![l] = @ \o audio[l].buffer]
    /\ audio' = [audio EXCEPT ![l].stage = audio[l].ending, ![l].buffer = <<>>]
    /\ listed' = FALSE
    /\ UNCHANGED <<stream, turn, closed, textQueue, said>>

(* The text of a failed synthesis goes back on the queue. *)
CutOffRequeues(l) ==
    /\ Hears(l, "speaking") \/ Hears(l, "last")
    /\ audio' = [audio EXCEPT ![l].stage = "cut", ![l].segment = <<>>, ![l].buffer = <<>>]
    /\ listed' = FALSE
    /\ textQueue' = textQueue \o audio[l].segment
    /\ UNCHANGED <<stream, turn, closed, spoken, said>>

(* A synthesis fails, or the listener goes away during one. *)
CutOff(l) ==
    /\ Hears(l, "speaking") \/ Hears(l, "last")
    /\ audio' = [audio EXCEPT ![l].stage = "cut", ![l].segment = <<>>, ![l].buffer = <<>>]
    /\ listed' = FALSE
    /\ UNCHANGED <<stream, turn, closed, textQueue, spoken, said>>

-----------------------------------------------------------------------------
TurnStep == Open \/ Resume \/ Pull \/ Yield \/ EndOfStream
AudioStep(l) == Receive(l) \/ TimeOut(l) \/ Speak(l) \/ SpeakLast(l)

Next ==
    \/ TurnStep
    \/ BreakOff
    \/ \E l \in Listeners : Listen(l) \/ AudioStep(l) \/ CutOff(l)

(* Audio threads run on, and a receive ends with its timeout.  A turn may  *)
(* wait for its core or its runtime as long as it likes.                   *)
Fairness == \A l \in Listeners : WF_vars(AudioStep(l))

Spec == Init /\ [][Next]_vars /\ Fairness

-----------------------------------------------------------------------------
Ended(l) == audio[l].stage \in {"refused", "heard", "timedOut", "cut"}
Alone(l) == \A other \in Listeners \ {l} : audio[other].stage \in {"new", "refused"}

(* What a listener of this stream is to hear: its deltas, or the final      *)
(* content when there are none, up to the first final event.  The answer   *)
(* of an action decided on late comes behind that event and its marker:    *)
(* who heard the marker does not hear it.                                  *)
ToSay(events) ==
    LET upToFinal == {i \in DOMAIN events : \A j \in 1..i - 1 : events[j] # "done"}
        deltas == {i \in upToFinal : events[i] = "delta"}
    IN IF deltas # {} THEN deltas ELSE {i \in upToFinal : events[i] = "done"}

(* What a listener has, the oldest first, and what has been put since.     *)
Held(l) == spoken[l] \o audio[l].segment \o audio[l].buffer
Way(l) == Held(l) \o textQueue

InOrder(s) == \A i, j \in DOMAIN s : i < j /\ EndMark \notin {s[i], s[j]} => s[i] < s[j]

(* A lone listener loses nothing on the way: what was spoken, is being     *)
(* spoken, waits in the buffer or waits in the queue is, in this order,    *)
(* what the turn has put (_stream_live_tts_pcm).                           *)
NothingLostOnTheWay ==
    \A l \in Listeners :
        Alone(l) /\ audio[l].stage \notin {"refused", "cut"} =>
            InOrder(Way(l)) /\ ToSet(Way(l)) \ {EndMark} = said

(* Listeners of one session share its text: none is spoken to two of them, *)
(* and each hears its part in order.                                       *)
SharedInOrder ==
    /\ \A l \in Listeners : InOrder(spoken[l])
    /\ \A l, k \in Listeners :
          l # k => ToSet(spoken[l]) \cap ToSet(spoken[k]) = {}

(* A listener who heard the end of a complete turn, alone, heard all there *)
(* was to say and nothing else: deltas and final content are never both    *)
(* spoken.                                                                 *)
HeardInFull ==
    \A l \in Listeners :
        Alone(l) /\ Hears(l, "heard") /\ turn.stage = "complete" =>
            ToSet(spoken[l]) = ToSay(stream)

(* A turn that got as far as its events leaves the end marker behind, in   *)
(* the queue or with a listener: the wait of a lone listener is cut short  *)
(* however the turn ended (_stream_with_live_tts' finally clause).         *)
EndIsMarked ==
    turn.stage \in {"complete", "broken"} /\ turn.pos > 1 =>
        \/ EndMark \in ToSet(textQueue)
        \/ \E l \in Listeners : audio[l].ending = "heard"

(* Every audio request ends, whatever its turn does. *)
AudioEnds == \A l \in Listeners : audio[l].stage # "new" ~> Ended(l)
===============================================================================
