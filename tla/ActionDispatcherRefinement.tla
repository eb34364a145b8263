---------------------- MODULE ActionDispatcherRefinement ----------------------
(***************************************************************************)
(* ActionDispatcher implements ActionHandoff, for every value of the       *)
(* constants, and its results are final but for the runtime's own posts.   *)
(* Both rest on the inductive invariant of ActionDispatcherProofs.         *)
(***************************************************************************)
EXTENDS ActionDispatcherProofs

(* A step that leaves records, queues and replies alone is a stutter. *)
LEMMA AbstractStutter ==
    ASSUME IInv, UNCHANGED <<records, queues, handed>>,
           DOMAIN calls \subseteq DOMAIN calls',
           \A a \in DOMAIN calls : calls'[a].reply = calls[a].reply,
           \A a \in DOMAIN calls' \ DOMAIN calls : calls'[a].reply = NoResult
    PROVE  UNCHANGED Handoff!vars
  <1>1. Open' = Open /\ AnswerOf' = AnswerOf
    BY DEF Open, AnswerOf, Unanswered, Known
  <1>2. ToldOf' = ToldOf
    BY DEF ToldOf
  <1> QED BY <1>1, <1>2 DEF Handoff!vars

LEMMA EnqueueCallRefines ==
    ASSUME IInv, NEW u \in Users, NEW r \in Requests, NEW a \in ActionIds,
           EnqueueCall(u, r, a)
    PROVE  UNCHANGED Handoff!vars
  BY AbstractStutter DEF EnqueueCall

LEMMA EnqueueRecordRefines ==
    ASSUME IInv, NEW a \in ActionIds, NEW result \in ServerStatuses \cup {NoResult},
           EnqueueRecord(a, result)
    PROVE  Handoff!Next
  <1> DEFINE owner == calls[a].user
  <1>1. /\ a \in DOMAIN calls /\ calls[a].stage = "handler"
        /\ ~Known(a) /\ owner \in Users
    BY DEF EnqueueRecord, IInv, TypeOK, CallsMatchRecords, Call
  <1>2. Handoff!Fresh(a)
    BY <1>1 DEF Handoff!Fresh, AnswerOf, Open, IInv, HandedOnce
  <1>3. /\ DOMAIN records' = DOMAIN records \cup {a}
        /\ records'[a].result = result
        /\ \A b \in DOMAIN records : b # a /\ records'[b] = records[b]
        /\ handed' = handed
    BY <1>1 DEF EnqueueRecord, Known
  <1>4. ToldOf' = ToldOf
    <2>1. /\ DOMAIN calls' = DOMAIN calls
          /\ \A b \in DOMAIN calls : calls'[b].reply = calls[b].reply
      BY <1>1, NotifiedTyped, NotifiedEffect DEF EnqueueRecord, IInv, Call
    <2> QED BY <2>1 DEF ToldOf
  <1>5. AnswerOf' = [AnswerOf EXCEPT ![a] = result]
    BY <1>3 DEF AnswerOf, Known
  <1>6. \A v \in Users : \A b \in queues[v] : b # a /\ Known(b)
    BY <1>1 DEF IInv, HandedOnce
  <1>7. CASE result = NoResult
    <2>1. queues' = [queues EXCEPT ![owner] = @ \cup {a}]
      BY <1>7 DEF EnqueueRecord
    <2>2. Open' = [Open EXCEPT ![owner] = @ \cup {a}]
      BY <1>1, <1>3, <1>6, <1>7, <2>1 DEF Open, Unanswered, Known, IInv, TypeOK
    <2>3. AnswerOf' = AnswerOf
      BY <1>1, <1>5, <1>7 DEF AnswerOf
    <2>4. Handoff!Offer(owner, a)
      BY <1>2, <1>3, <1>4, <2>2, <2>3 DEF Handoff!Offer
    <2> QED BY <1>1, <2>4 DEF Handoff!Next
  <1>8. CASE result # NoResult
    <2>1. queues' = queues
      BY <1>8 DEF EnqueueRecord
    <2>2. Open' = Open
      BY <1>3, <1>6, <2>1 DEF Open, Unanswered, Known
    <2>3. Handoff!Serve(a, result)
      BY <1>2, <1>3, <1>4, <1>5, <2>2 DEF Handoff!Serve
    <2> QED BY <1>8, <2>3 DEF Handoff!Next
  <1> QED BY <1>7, <1>8

LEMMA PendingRefines ==
    ASSUME IInv, NEW u \in Users, NEW limit \in PollLimits, Pending(u, limit)
    PROVE  Handoff!Next
  <1>1. PICK P \in SUBSET queues[u] :
            /\ queues' = [queues EXCEPT ![u] = @ \ P]
            /\ handed' = [handed EXCEPT ![u] = @ \cup Envelopes(P)]
            /\ UNCHANGED <<records, recorded, calls>>
    BY DEF Pending
  <1>2. Envelopes(P) \subseteq Open[u]
    BY DEF Envelopes, Open
  <1>3. Open' = [Open EXCEPT ![u] = @ \ Envelopes(P)]
    BY <1>1 DEF Open, Envelopes, Unanswered, Known, IInv, TypeOK
  <1>4. AnswerOf' = AnswerOf /\ ToldOf' = ToldOf
    BY <1>1 DEF AnswerOf, ToldOf, Known
  <1>5. Handoff!Give(u, Envelopes(P))
    BY <1>1, <1>2, <1>3, <1>4 DEF Handoff!Give
  <1> QED BY <1>2, <1>5 DEF Handoff!Next

(* An action on record is not fresh: it is answered, queued or handed out. *)
LEMMA KnownIsNotFresh ==
    ASSUME IInv, NEW a \in ActionIds, Known(a)
    PROVE  ~Handoff!Fresh(a)
  <1>1. CASE Unanswered(a)
    BY <1>1 DEF Handoff!Fresh, Open, IInv, NothingLost, TypeOK, Record, Known
  <1>2. CASE ~Unanswered(a)
    BY <1>2 DEF Handoff!Fresh, AnswerOf, Unanswered
  <1> QED BY <1>1, <1>2

LEMMA CompleteRefines ==
    ASSUME IInv, NEW u \in Users, NEW a \in ActionIds, NEW s \in ClientStatuses,
           Complete(u, a, s)
    PROVE  Handoff!Next
  <1>1. /\ Known(a) /\ s # NoResult
        /\ DOMAIN records' = DOMAIN records
        /\ records'[a].result = s
        /\ \A b \in DOMAIN records : b # a => records'[b] = records[b]
        /\ UNCHANGED <<queues, handed>>
    BY StatusesAreResults DEF Complete, IInv, TypeOK, Record, Known
  <1>2. ToldOf' = ToldOf
    BY NotifiedTyped, NotifiedEffect DEF Complete, IInv, ToldOf
  <1>3. AnswerOf' = [AnswerOf EXCEPT ![a] = s]
    BY <1>1 DEF AnswerOf, Known
  <1>4. Handoff!Close({a})
    BY <1>1 DEF Handoff!Close, Open, Unanswered, Known
  <1>5. Handoff!Answer(a, s)
    BY <1>1, <1>2, <1>3, <1>4, KnownIsNotFresh DEF Handoff!Answer
  <1> QED BY <1>5 DEF Handoff!Next

LEMMA CancelRequestRefines ==
    ASSUME IInv, NEW u \in Users, NEW r \in Requests, CancelRequest(u, r)
    PROVE  Handoff!Next
  <1> DEFINE gone == Rejected(u, r)
  <1>1. /\ DOMAIN records' = DOMAIN records
        /\ \A b \in gone : records'[b].result = "rejected"
        /\ \A b \in DOMAIN records \ gone : records'[b] = records[b]
        /\ handed' = handed
    BY DEF CancelRequest, Rejected, RejectedStatus, IInv, TypeOK, Record
  <1>2. gone \subseteq ActionIds
    BY DEF Rejected, IInv, TypeOK
  <1>3. ToldOf' = ToldOf
    BY NotifiedTyped, NotifiedEffect DEF CancelRequest, IInv, ToldOf
  <1>4. AnswerOf' = [a \in ActionIds |-> IF a \in gone THEN "rejected" ELSE AnswerOf[a]]
    BY <1>1 DEF AnswerOf, Known, Rejected
  <1>5. \A a \in gone : AnswerOf[a] = NoResult /\ ~Handoff!Fresh(a)
    BY <1>2, KnownIsNotFresh DEF AnswerOf, Rejected, Unanswered
  <1>6. Handoff!Close(gone)
    <2>1. \A v \in Users : \A b \in queues[v] :
              b \notin queues'[v] => b \in gone \/ ~Unanswered(b)
      BY DEF CancelRequest, OfRequest, Rejected, IInv, TypeOK, HandedOnce, Known
    <2>2. \A v \in Users : queues'[v] \subseteq queues[v]
      BY DEF CancelRequest, OfRequest, IInv, TypeOK
    <2>3. \A b : Unanswered(b)' <=> Unanswered(b) /\ b \notin gone
      BY <1>1 DEF Unanswered, Known, NoResult, Rejected
    <2> QED BY <2>1, <2>2, <2>3 DEF Handoff!Close, Open
  <1>7. Handoff!Withdraw(gone)
    BY <1>1, <1>3, <1>4, <1>5, <1>6 DEF Handoff!Withdraw
  <1> QED BY <1>2, <1>7 DEF Handoff!Next

LEMMA TimeOutRefines ==
    ASSUME IInv, NEW a \in ActionIds, TimeOut(a)
    PROVE  Handoff!Next
  <1>1. /\ a \in DOMAIN calls /\ calls[a].stage = "checking" /\ calls[a].reply = NoResult
        /\ Unanswered(a) /\ Known(a)
        /\ DOMAIN records' = DOMAIN records
        /\ records'[a].result = "timeout"
        /\ \A b \in DOMAIN records : b # a => records'[b] = records[b]
        /\ UNCHANGED <<queues, handed>>
    BY DEF TimeOut, InStage, Unanswered, Known, IInv, TypeOK, Record, CallsMatchRecords
  <1>2. /\ DOMAIN calls' = DOMAIN calls
        /\ calls'[a].reply = "timeout"
        /\ \A b \in DOMAIN calls \ {a} : calls'[b] = calls[b]
    BY <1>1, ReturnWithTyped, StatusesAreResults DEF TimeOut, IInv
  <1>3. ToldOf' = [ToldOf EXCEPT ![a] = "timeout"]
    BY <1>1, <1>2 DEF ToldOf
  <1>4. AnswerOf' = [AnswerOf EXCEPT ![a] = "timeout"]
    BY <1>1 DEF AnswerOf, Known
  <1>5. Handoff!Close({a})
    BY <1>1 DEF Handoff!Close, Open, Unanswered, Known, NoResult
  <1>6. AnswerOf[a] = NoResult /\ ToldOf[a] = NoResult
    BY <1>1 DEF AnswerOf, ToldOf, Unanswered
  <1>7. Handoff!GiveUp(a)
    BY <1>1, <1>3, <1>4, <1>5, <1>6, KnownIsNotFresh DEF Handoff!GiveUp
  <1> QED BY <1>7 DEF Handoff!Next

LEMMA ThreadOnlyRefines ==
    ASSUME IInv, NEW a \in ActionIds, ThreadOnly(a)
    PROVE  Handoff!Next \/ UNCHANGED Handoff!vars
  <1>1. /\ a \in DOMAIN calls /\ calls[a].stage # "handler"
        /\ DOMAIN calls' = DOMAIN calls
        /\ \A b \in DOMAIN calls \ {a} : calls'[b] = calls[b]
        /\ UNCHANGED <<records, recorded, queues, handed>>
    BY ThreadOnlyEffect DEF IInv
  <1>2. CASE ProbeReady(a) \/ ReturnAnswer(a)
    <2>1. /\ calls' = ReturnWith(calls, a, records[a].result)
          /\ records[a].result # NoResult
          /\ calls[a].reply = NoResult /\ Known(a)
      BY <1>1, <1>2 DEF ProbeReady, ReturnAnswer, InStage, IInv, CallsMatchRecords
    <2>2. records[a].result \in Results
      BY <2>1 DEF IInv, TypeOK, Record, Known
    <2>3. calls'[a].reply = records[a].result
      BY <1>1, <2>1, <2>2, ReturnWithTyped DEF IInv
    <2>4. ToldOf' = [ToldOf EXCEPT ![a] = AnswerOf[a]]
      BY <1>1, <2>1, <2>3 DEF ToldOf, AnswerOf
    <2>5. Open' = Open /\ AnswerOf' = AnswerOf
      BY <1>1 DEF Open, AnswerOf, Unanswered, Known
    <2>6. ToldOf[a] = NoResult /\ AnswerOf[a] # NoResult
      BY <1>1, <2>1 DEF ToldOf, AnswerOf
    <2>7. Handoff!Tell(a)
      BY <1>1, <2>4, <2>5, <2>6 DEF Handoff!Tell
    <2> QED BY <2>7 DEF Handoff!Next
  <1>3. CASE ~(ProbeReady(a) \/ ReturnAnswer(a))
    <2>1. calls'[a].reply = calls[a].reply
      <3>1. CASE DeadlinePasses(a)
        BY <1>1, <3>1 DEF DeadlinePasses, IInv, TypeOK, Call
      <3>2. CASE ~DeadlinePasses(a)
        <4>1. PICK stage \in Stages : calls' = MoveTo(a, stage)
          BY <1>3, <3>2
             DEF ThreadOnly, ProbeNotReady, Abandon, StartWait, FallAsleep, WakeOnTimeout,
                 Stages
        <4> QED BY <1>1, <4>1, MoveToTyped DEF IInv
      <3> QED BY <3>1, <3>2
    <2> QED BY <1>1, <2>1, AbstractStutter
  <1> QED BY <1>2, <1>3

LEMMA StepRefines == IInv /\ [Next]_vars => [Handoff!Next]_(Handoff!vars)
  <1> SUFFICES ASSUME IInv, [Next]_vars PROVE Handoff!Next \/ UNCHANGED Handoff!vars
    OBVIOUS
  <1>1. CASE \E u \in Users, r \in Requests, a \in ActionIds : EnqueueCall(u, r, a)
    BY <1>1, EnqueueCallRefines
  <1>2. CASE \E u \in Users, limit \in PollLimits : Pending(u, limit)
    BY <1>2, PendingRefines
  <1>3. CASE \E u \in Users, a \in ActionIds, s \in ClientStatuses : Complete(u, a, s)
    BY <1>3, CompleteRefines
  <1>4. CASE \E u \in Users, r \in Requests : CancelRequest(u, r)
    BY <1>4, CancelRequestRefines
  <1>5. CASE \E a \in ActionIds : DeadlinePasses(a) \/ ThreadStep(a)
    <2>1. PICK a \in ActionIds : DeadlinePasses(a) \/ ThreadStep(a)
      BY <1>5
    <2>2. CASE \E result \in ServerStatuses \cup {NoResult} : EnqueueRecord(a, result)
      BY <2>2, EnqueueRecordRefines
    <2>3. CASE TimeOut(a)
      BY <2>3, TimeOutRefines
    <2>4. CASE ThreadOnly(a)
      BY <2>4, ThreadOnlyRefines
    <2> QED BY <2>1, <2>2, <2>3, <2>4 DEF ThreadStep, ThreadOnly
  <1>6. CASE UNCHANGED vars
    BY <1>6, AbstractStutter DEF vars
  <1> QED BY <1>1, <1>2, <1>3, <1>4, <1>5, <1>6 DEF Next

LEMMA InitRefines == Init => Handoff!Init
  BY DEF Init, Handoff!Init, Open, AnswerOf, ToldOf, Known

(* The dispatcher implements the abstract hand-off. *)
THEOREM Refinement == Spec => HandoffSpec
  <1>1. Init => Handoff!Init
    BY InitRefines
  <1>2. IInv /\ [Next]_vars => [Handoff!Next]_(Handoff!vars)
    BY StepRefines
  <1> QED BY <1>1, <1>2, Invariance, PTL DEF Spec, HandoffSpec, Handoff!Spec

-----------------------------------------------------------------------------
(* Only complete changes a result that is there, and it leaves the threads *)
(* that went on with the old one alone.                                    *)
LEMMA StepRevises == IInv /\ Next => RevisedByRuntime
  <1> SUFFICES ASSUME IInv, Next,
                      NEW a \in DOMAIN records, ~Unanswered(a),
                      records'[a].result # records[a].result
               PROVE  /\ \E u \in Users, s \in ClientStatuses : Complete(u, a, s)
                      /\ \A b \in DOMAIN calls :
                             calls[b].stage = "returned" => calls'[b] = calls[b]
    BY DEF RevisedByRuntime
  <1>1. ASSUME NEW u \in Users, NEW b \in ActionIds, NEW s \in ClientStatuses,
               Complete(u, b, s)
        PROVE  /\ a = b
               /\ \A c \in DOMAIN calls : calls[c].stage = "returned" => calls'[c] = calls[c]
    BY <1>1 DEF Complete, Notified, IInv, TypeOK, Record
  <1>2. ASSUME NEW u \in Users, NEW r \in Requests, CancelRequest(u, r)
        PROVE  FALSE
    BY <1>2 DEF CancelRequest, Rejected
  <1>3. ASSUME NEW b \in ActionIds, NEW result \in ServerStatuses \cup {NoResult},
               EnqueueRecord(b, result)
        PROVE  FALSE
    BY <1>3 DEF EnqueueRecord, IInv, CallsMatchRecords, Known
  <1>4. ASSUME NEW b \in ActionIds, TimeOut(b)
        PROVE  FALSE
    BY <1>4 DEF TimeOut, IInv, TypeOK, Record
  <1>5. ASSUME NEW b \in ActionIds, ThreadOnly(b)
        PROVE  FALSE
    BY <1>5, ThreadOnlyEffect DEF IInv
  <1>6. ASSUME NEW u \in Users, NEW limit \in PollLimits, Pending(u, limit)
        PROVE  FALSE
    BY <1>6 DEF Pending
  <1>7. ASSUME NEW u \in Users, NEW r \in Requests, NEW b \in ActionIds,
               EnqueueCall(u, r, b)
        PROVE  FALSE
    BY <1>7 DEF EnqueueCall
  <1> QED
    BY <1>1, <1>2, <1>3, <1>4, <1>5, <1>6, <1>7 DEF Next, ThreadStep, ThreadOnly

(* A result on record is replaced by the runtime's own post and by nothing *)
(* else: neither a timeout nor a cancellation overwrites an answer.        *)
THEOREM ResultsFinalButForRuntime == Spec => OnlyRuntimeRevises
  <1>1. IInv /\ [Next]_vars => [RevisedByRuntime]_vars
    BY StepRevises
  <1> QED BY <1>1, Invariance, PTL DEF Spec, OnlyRuntimeRevises
===============================================================================
