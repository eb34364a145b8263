------------------------ MODULE ActionDispatcherProofs ------------------------
(***************************************************************************)
(* Theorems about ActionDispatcher for every set of users, requests and    *)
(* action ids: its state stays well typed, no action is lost, handed out   *)
(* twice, to the wrong runtime or out of order, and no waiter sleeps on an *)
(* answered action.                                                        *)
(***************************************************************************)
EXTENDS ActionDispatcher, TLAPS

(* ServerStatuses and ClientStatuses are results. *)
LEMMA StatusesAreResults ==
    /\ ServerStatuses \cup {NoResult} \subseteq Results
    /\ ClientStatuses \subseteq Results
    /\ {"rejected", "timeout"} \subseteq Results
    /\ \A s \in ClientStatuses \cup ServerStatuses : s # NoResult
  BY DispatcherAssumption DEF Results, Statuses, NoResult

-----------------------------------------------------------------------------
(* Typing: one lemma per kind of step. *)

(* Moving every sleeper to its loop keeps the threads well typed. *)
LEMMA NotifiedTyped ==
    ASSUME TypeOK
    PROVE  /\ DOMAIN Notified(calls) = DOMAIN calls
           /\ Notified(calls) \in [DOMAIN calls -> Call]
  BY DEF TypeOK, Notified, Call, Stages

LEMMA InitTyped == Init => TypeOK
  BY DEF Init, TypeOK

LEMMA EnqueueCallTyped ==
    ASSUME TypeOK, NEW u \in Users, NEW r \in Requests, NEW a \in ActionIds,
           EnqueueCall(u, r, a)
    PROVE  TypeOK'
  <1>1. DOMAIN calls' = DOMAIN calls \cup {a}
    BY DEF EnqueueCall
  <1>2. calls' \in [DOMAIN calls' -> Call]
    BY <1>1 DEF EnqueueCall, TypeOK, Call, Stages, Results
  <1> QED BY <1>1, <1>2 DEF EnqueueCall, TypeOK

LEMMA EnqueueRecordTyped ==
    ASSUME TypeOK, NEW a \in ActionIds, NEW result \in ServerStatuses \cup {NoResult},
           EnqueueRecord(a, result)
    PROVE  TypeOK'
  <1>1. calls[a] \in Call
    BY DEF EnqueueRecord, TypeOK
  <1>2. result \in Results
    BY StatusesAreResults
  <1>3. DOMAIN records' = DOMAIN records \cup {a}
    BY DEF EnqueueRecord
  <1>4. records' \in [DOMAIN records' -> Record]
    BY <1>1, <1>2, <1>3 DEF EnqueueRecord, TypeOK, Record, Call
  <1>5. /\ DOMAIN calls' = DOMAIN calls
        /\ calls' \in [DOMAIN calls -> Call]
    BY NotifiedTyped DEF EnqueueRecord, Call, Stages
  <1>6. queues' \in [Users -> SUBSET ActionIds]
    BY <1>1 DEF EnqueueRecord, TypeOK, Call
  <1> QED BY <1>3, <1>4, <1>5, <1>6 DEF EnqueueRecord, TypeOK

LEMMA PendingTyped ==
    ASSUME TypeOK, NEW u \in Users, NEW limit \in PollLimits, Pending(u, limit)
    PROVE  TypeOK'
  BY DEF Pending, TypeOK, Envelopes

LEMMA CompleteTyped ==
    ASSUME TypeOK, NEW u \in Users, NEW a \in ActionIds, NEW s \in ClientStatuses,
           Complete(u, a, s)
    PROVE  TypeOK'
  <1>1. s \in Results
    BY StatusesAreResults
  <1>2. /\ DOMAIN records' = DOMAIN records
        /\ records' \in [DOMAIN records -> Record]
    BY <1>1 DEF Complete, TypeOK, Record, Known
  <1> QED BY <1>2, NotifiedTyped DEF Complete, TypeOK

LEMMA CancelRequestTyped ==
    ASSUME TypeOK, NEW u \in Users, NEW r \in Requests, CancelRequest(u, r)
    PROVE  TypeOK'
  <1>1. /\ DOMAIN records' = DOMAIN records
        /\ records' \in [DOMAIN records -> Record]
    BY StatusesAreResults DEF CancelRequest, TypeOK, Record, RejectedStatus
  <1>2. queues' \in [Users -> SUBSET ActionIds]
    BY DEF CancelRequest, OfRequest, TypeOK
  <1>3. /\ DOMAIN calls' = DOMAIN calls
        /\ calls' \in [DOMAIN calls -> Call]
    BY NotifiedTyped DEF CancelRequest, TypeOK
  <1> QED BY <1>1, <1>2, <1>3 DEF CancelRequest, TypeOK

(* The steps of a thread after enqueue's lock that touch only its own call. *)
ThreadOnly(a) ==
    \/ ProbeReady(a)
    \/ ProbeNotReady(a)
    \/ Abandon(a)
    \/ StartWait(a)
    \/ DeadlinePasses(a)
    \/ ReturnAnswer(a)
    \/ FallAsleep(a)
    \/ WakeOnTimeout(a)

LEMMA MoveToTyped ==
    ASSUME TypeOK, NEW a \in DOMAIN calls, NEW stage \in Stages
    PROVE  /\ DOMAIN MoveTo(a, stage) = DOMAIN calls
           /\ MoveTo(a, stage) \in [DOMAIN calls -> Call]
           /\ \A b \in DOMAIN calls \ {a} : MoveTo(a, stage)[b] = calls[b]
           /\ MoveTo(a, stage)[a].stage = stage
           /\ MoveTo(a, stage)[a].reply = calls[a].reply
  BY DEF TypeOK, MoveTo, Call

LEMMA ReturnWithTyped ==
    ASSUME TypeOK, NEW a \in DOMAIN calls, NEW result \in Results
    PROVE  /\ DOMAIN ReturnWith(calls, a, result) = DOMAIN calls
           /\ ReturnWith(calls, a, result) \in [DOMAIN calls -> Call]
           /\ \A b \in DOMAIN calls \ {a} : ReturnWith(calls, a, result)[b] = calls[b]
           /\ ReturnWith(calls, a, result)[a].stage = "returned"
           /\ ReturnWith(calls, a, result)[a].reply = result
  BY DEF TypeOK, ReturnWith, Call, Stages

(* What such a step does, whichever it is. *)
LEMMA ThreadOnlyEffect ==
    ASSUME TypeOK, CallsMatchRecords, NoStrandedWaiter,
           NEW a \in ActionIds, ThreadOnly(a)
    PROVE  /\ a \in DOMAIN calls
           /\ calls[a].stage # "handler"
           /\ DOMAIN calls' = DOMAIN calls
           /\ calls' \in [DOMAIN calls -> Call]
           /\ \A b \in DOMAIN calls \ {a} : calls'[b] = calls[b]
           /\ calls'[a].stage # "handler"
           /\ calls'[a].stage # "returned" => calls'[a].reply = NoResult
           /\ calls'[a].stage = "asleep" => Unanswered(a)
           /\ UNCHANGED <<records, recorded, queues, handed>>
  <1>1. /\ a \in DOMAIN calls
        /\ calls[a].stage \in {"recorded", "announced", "checking", "asleep"}
        /\ UNCHANGED <<records, recorded, queues, handed>>
    BY DEF ThreadOnly, ProbeReady, ProbeNotReady, Abandon, StartWait, DeadlinePasses,
           ReturnAnswer, FallAsleep, WakeOnTimeout, InStage
  <1>2. calls[a].reply = NoResult /\ Known(a)
    BY <1>1 DEF CallsMatchRecords
  <1>3. CASE ProbeReady(a) \/ ReturnAnswer(a)
    <2>1. records[a].result \in Results
      BY <1>2 DEF TypeOK, Record, Known
    <2>2. calls' = ReturnWith(calls, a, records[a].result)
      BY <1>3 DEF ProbeReady, ReturnAnswer
    <2> QED BY <1>1, <2>1, <2>2, ReturnWithTyped
  <1>4. CASE DeadlinePasses(a)
    <2>1. calls' = [calls EXCEPT ![a].expired = TRUE]
      BY <1>4 DEF DeadlinePasses
    <2>2. calls' \in [DOMAIN calls -> Call]
      BY <1>1, <2>1 DEF TypeOK, Call
    <2>3. calls'[a].stage = calls[a].stage /\ calls'[a].reply = calls[a].reply
      BY <1>1, <2>1 DEF TypeOK, Call
    <2>4. calls[a].stage = "asleep" => Unanswered(a)
      BY <1>1 DEF NoStrandedWaiter
    <2> QED BY <1>1, <1>2, <2>1, <2>2, <2>3, <2>4
  <1>5. CASE FallAsleep(a)
    <2>1. calls' = MoveTo(a, "asleep") /\ Unanswered(a)
      BY <1>5 DEF FallAsleep
    <2> QED BY <1>1, <1>2, <2>1, MoveToTyped DEF Stages
  <1>6. CASE ProbeNotReady(a) \/ Abandon(a) \/ StartWait(a) \/ WakeOnTimeout(a)
    <2>1. PICK stage \in {"announced", "abandoned", "checking"} : calls' = MoveTo(a, stage)
      BY <1>6 DEF ProbeNotReady, Abandon, StartWait, WakeOnTimeout
    <2> QED BY <1>1, <1>2, <2>1, MoveToTyped DEF Stages
  <1> QED BY <1>3, <1>4, <1>5, <1>6 DEF ThreadOnly

LEMMA ThreadOnlyTyped ==
    ASSUME TypeOK, CallsMatchRecords, NoStrandedWaiter,
           NEW a \in ActionIds, ThreadOnly(a)
    PROVE  TypeOK'
  BY ThreadOnlyEffect DEF TypeOK

LEMMA TimeOutTyped ==
    ASSUME TypeOK, NEW a \in ActionIds, TimeOut(a)
    PROVE  TypeOK'
  <1>1. a \in DOMAIN calls /\ calls[a] \in Call
    BY DEF TimeOut, InStage, TypeOK
  <1>2. /\ DOMAIN calls' = DOMAIN calls
        /\ calls' \in [DOMAIN calls -> Call]
    BY <1>1, StatusesAreResults DEF TimeOut, ReturnWith, TypeOK, Call, Stages
  <1>3. /\ DOMAIN records' = DOMAIN records
        /\ records' \in [DOMAIN records -> Record]
    BY StatusesAreResults DEF TimeOut, Unanswered, Known, TypeOK, Record
  <1> QED BY <1>2, <1>3 DEF TimeOut, TypeOK

-----------------------------------------------------------------------------
(* One lemma per kind of step: it preserves the rest of IInv. *)

(* NotifiedTyped, and what else a notify keeps. *)
LEMMA NotifiedEffect ==
    ASSUME TypeOK
    PROVE  \A a \in DOMAIN calls :
               /\ Notified(calls)[a].reply = calls[a].reply
               /\ Notified(calls)[a].stage # "asleep"
               /\ Notified(calls)[a].stage = "handler" <=> calls[a].stage = "handler"
               /\ Notified(calls)[a].stage = "returned" <=> calls[a].stage = "returned"
  BY DEF TypeOK, Notified, Call

LEMMA EnqueueCallKeeps ==
    ASSUME IInv, NEW u \in Users, NEW r \in Requests, NEW a \in ActionIds,
           EnqueueCall(u, r, a)
    PROVE  IInv'
  <1>1. TypeOK'
    BY EnqueueCallTyped DEF IInv
  <1>2. /\ a \notin DOMAIN calls
        /\ DOMAIN calls' = DOMAIN calls \cup {a}
        /\ calls'[a].stage = "handler" /\ calls'[a].reply = NoResult
        /\ \A b \in DOMAIN calls : calls'[b] = calls[b]
        /\ UNCHANGED <<records, recorded, queues, handed>>
    BY DEF EnqueueCall
  <1>3. CallsMatchRecords'
    BY <1>2 DEF IInv, CallsMatchRecords, Known
  <1>4. NoStrandedWaiter'
    BY <1>2 DEF IInv, NoStrandedWaiter, Unanswered, Known
  <1> QED
    BY <1>1, <1>2, <1>3, <1>4
       DEF IInv, ArrivalsBelowCount, NothingLost, HandedOnce, HandedInOrder,
           Unanswered, Known, Before

LEMMA EnqueueRecordKeeps ==
    ASSUME IInv, NEW a \in ActionIds, NEW result \in ServerStatuses \cup {NoResult},
           EnqueueRecord(a, result)
    PROVE  IInv'
  <1>0. TypeOK'
    BY EnqueueRecordTyped DEF IInv
  <1>1. /\ a \in DOMAIN calls /\ calls[a].stage = "handler"
        /\ calls[a] \in Call /\ ~Known(a)
    BY DEF EnqueueRecord, IInv, TypeOK, CallsMatchRecords
  <1>2. /\ DOMAIN records' = DOMAIN records \cup {a}
        /\ records'[a] = [user |-> calls[a].user, request |-> calls[a].request,
                          result |-> result, arrival |-> recorded]
        /\ \A b \in DOMAIN records : b # a /\ records'[b] = records[b]
        /\ recorded' = recorded + 1
        /\ handed' = handed
    BY <1>1 DEF EnqueueRecord, Known
  <1>3. /\ \A u \in Users : queues'[u] \subseteq queues[u] \cup {a}
        /\ \A u \in Users : queues[u] \subseteq queues'[u]
        /\ \A u \in Users : a \in queues'[u] /\ a \notin queues[u] => u = calls[a].user
        /\ result = NoResult => a \in queues'[calls[a].user]
    BY <1>1 DEF EnqueueRecord, IInv, TypeOK, Call
  <1>4. \A u \in Users : a \notin queues[u] \cup handed[u]
    BY <1>1 DEF IInv, HandedOnce
  <1>5. /\ DOMAIN calls' = DOMAIN calls
        /\ calls'[a].stage = "recorded" /\ calls'[a].reply = calls[a].reply
        /\ \A b \in DOMAIN calls : b # a => calls'[b] = Notified(calls)[b]
    <2>1. calls' = [Notified(calls) EXCEPT ![a].stage = "recorded"]
      BY DEF EnqueueRecord
    <2>2. calls'[a].stage = "recorded" /\ calls'[a].reply = Notified(calls)[a].reply
      BY <1>1, <2>1, NotifiedTyped DEF IInv, Call
    <2> QED BY <1>1, <2>1, <2>2, NotifiedTyped, NotifiedEffect DEF IInv
  <1>6. CallsMatchRecords'
    BY <1>1, <1>2, <1>5, NotifiedEffect DEF IInv, CallsMatchRecords, Known
  <1>7. ArrivalsBelowCount'
    BY <1>2 DEF IInv, TypeOK, ArrivalsBelowCount, Record
  <1>8. NothingLost'
    BY <1>1, <1>2, <1>3 DEF IInv, TypeOK, NothingLost, Unanswered, Known, Record
  <1>9. HandedOnce'
    BY <1>2, <1>3, <1>4 DEF IInv, HandedOnce, Known
  <1>10. HandedInOrder'
    <2> SUFFICES ASSUME NEW u \in Users, NEW x \in handed[u], NEW y \in queues'[u]
                 PROVE  records'[x].arrival < records'[y].arrival
      BY <1>2 DEF HandedInOrder, Before
    <2>1. x \in DOMAIN records
      BY DEF IInv, HandedOnce, Known
    <2>2. CASE y = a
      BY <1>2, <2>1, <2>2 DEF IInv, ArrivalsBelowCount
    <2>3. CASE y # a
      BY <1>2, <1>3, <2>1, <2>3 DEF IInv, HandedInOrder, HandedOnce, Before, Known
    <2> QED BY <2>2, <2>3
  <1>11. NoStrandedWaiter'
    BY <1>5, NotifiedEffect DEF IInv, NoStrandedWaiter
  <1> QED BY <1>0, <1>6, <1>7, <1>8, <1>9, <1>10, <1>11 DEF IInv

LEMMA PendingKeeps ==
    ASSUME IInv, NEW u \in Users, NEW limit \in PollLimits, Pending(u, limit)
    PROVE  IInv'
  <1>0. TypeOK'
    BY PendingTyped DEF IInv
  <1>1. PICK P \in SUBSET queues[u] :
            /\ Popped(u, limit, P)
            /\ queues' = [queues EXCEPT ![u] = @ \ P]
            /\ handed' = [handed EXCEPT ![u] = @ \cup Envelopes(P)]
            /\ UNCHANGED <<records, recorded, calls>>
    BY DEF Pending
  <1>2. /\ queues'[u] = queues[u] \ P
        /\ handed'[u] = handed[u] \cup Envelopes(P)
        /\ \A v \in Users \ {u} : queues'[v] = queues[v] /\ handed'[v] = handed[v]
    BY <1>1 DEF IInv, TypeOK
  <1>3. /\ Envelopes(P) \subseteq P
        /\ \A a \in P : Unanswered(a) => a \in Envelopes(P)
    BY DEF Envelopes
  <1>4. NothingLost'
    BY <1>1, <1>2, <1>3 DEF IInv, NothingLost, TypeOK, Record, Unanswered, Known
  <1>5. HandedOnce'
    BY <1>1, <1>2, <1>3 DEF IInv, HandedOnce, Known
  <1>6. HandedInOrder'
    BY <1>1, <1>2, <1>3 DEF IInv, HandedInOrder, Popped, Before
  <1> QED
    BY <1>0, <1>1, <1>4, <1>5, <1>6
       DEF IInv, CallsMatchRecords, ArrivalsBelowCount, NoStrandedWaiter, Unanswered, Known

LEMMA CompleteKeeps ==
    ASSUME IInv, NEW u \in Users, NEW a \in ActionIds, NEW s \in ClientStatuses,
           Complete(u, a, s)
    PROVE  IInv'
  <1>0. TypeOK'
    BY CompleteTyped DEF IInv
  <1>1. /\ DOMAIN records' = DOMAIN records
        /\ records'[a].result = s /\ s # NoResult
        /\ \A b \in DOMAIN records :
              /\ b # a => records'[b] = records[b]
              /\ records'[b].user = records[b].user
              /\ records'[b].arrival = records[b].arrival
        /\ UNCHANGED <<recorded, queues, handed>>
        /\ calls' = Notified(calls)
    BY StatusesAreResults DEF Complete, IInv, TypeOK, Record, Known
  <1>2. CallsMatchRecords'
    BY <1>1, NotifiedTyped, NotifiedEffect DEF IInv, CallsMatchRecords, Known
  <1>3. NothingLost'
    BY <1>1 DEF IInv, NothingLost, Unanswered, Known
  <1>4. NoStrandedWaiter'
    BY <1>1, NotifiedTyped, NotifiedEffect DEF IInv, NoStrandedWaiter
  <1> QED
    BY <1>0, <1>1, <1>2, <1>3, <1>4
       DEF IInv, ArrivalsBelowCount, HandedOnce, HandedInOrder, Before, Known

LEMMA CancelRequestKeeps ==
    ASSUME IInv, NEW u \in Users, NEW r \in Requests, CancelRequest(u, r)
    PROVE  IInv'
  <1> DEFINE gone == Rejected(u, r)
  <1>0. TypeOK'
    BY CancelRequestTyped DEF IInv
  <1>1. /\ DOMAIN records' = DOMAIN records
        /\ \A b \in gone : records'[b].result = "rejected"
        /\ \A b \in DOMAIN records :
              /\ b \notin gone => records'[b] = records[b]
              /\ records'[b].user = records[b].user
              /\ records'[b].request = records[b].request
              /\ records'[b].arrival = records[b].arrival
        /\ UNCHANGED <<recorded, handed>>
    BY DEF CancelRequest, Rejected, RejectedStatus, IInv, TypeOK, Record
  <1>2. /\ \A v \in Users : queues'[v] \subseteq queues[v]
        /\ \A v \in Users : \A b \in queues[v] :
              b \notin queues'[v] => v = u /\ records[b].request = r /\ Known(b)
    BY DEF CancelRequest, OfRequest, IInv, TypeOK
  <1>3. CallsMatchRecords'
    BY <1>1, NotifiedTyped, NotifiedEffect DEF CancelRequest, IInv, CallsMatchRecords, Known
  <1>4. NothingLost'
    <2> SUFFICES ASSUME NEW b \in DOMAIN records, Unanswered(b)'
                 PROVE  b \in queues'[records[b].user] \cup handed[records[b].user]
      BY <1>1 DEF NothingLost
    <2>1. Unanswered(b) /\ b \notin gone
      BY <1>1 DEF Unanswered, Known, NoResult, Rejected
    <2>2. ~(records[b].user = u /\ records[b].request = r)
      BY <2>1 DEF Rejected
    <2> QED BY <1>2, <2>1, <2>2 DEF IInv, TypeOK, NothingLost, Record
  <1>5. HandedOnce'
    BY <1>1, <1>2 DEF IInv, HandedOnce, Known
  <1>6. HandedInOrder'
    BY <1>1, <1>2 DEF IInv, HandedInOrder, HandedOnce, Before, Known
  <1>7. NoStrandedWaiter'
    <2>1. CASE gone = {}
      BY <1>1, <2>1 DEF CancelRequest, IInv, NoStrandedWaiter, Unanswered, Known
    <2>2. CASE gone # {}
      BY <2>2, NotifiedTyped, NotifiedEffect DEF CancelRequest, IInv, NoStrandedWaiter
    <2> QED BY <2>1, <2>2
  <1> QED
    BY <1>0, <1>1, <1>3, <1>4, <1>5, <1>6, <1>7 DEF IInv, ArrivalsBelowCount

LEMMA ThreadOnlyKeeps ==
    ASSUME IInv, NEW a \in ActionIds, ThreadOnly(a)
    PROVE  IInv'
  <1>1. TypeOK'
    BY ThreadOnlyTyped DEF IInv
  <1>2. CallsMatchRecords'
    BY ThreadOnlyEffect DEF IInv, CallsMatchRecords, Known
  <1>3. NoStrandedWaiter'
    BY ThreadOnlyEffect DEF IInv, NoStrandedWaiter, Unanswered, Known
  <1> QED
    BY <1>1, <1>2, <1>3, ThreadOnlyEffect
       DEF IInv, ArrivalsBelowCount, NothingLost, HandedOnce, HandedInOrder,
           Unanswered, Known, Before

LEMMA TimeOutKeeps ==
    ASSUME IInv, NEW a \in ActionIds, TimeOut(a)
    PROVE  IInv'
  <1>0. TypeOK'
    BY TimeOutTyped DEF IInv
  <1>1. a \in DOMAIN calls /\ calls[a].stage = "checking" /\ Known(a)
    BY DEF TimeOut, InStage, Unanswered
  <1>2. /\ DOMAIN records' = DOMAIN records
        /\ records'[a].result = "timeout"
        /\ \A b \in DOMAIN records :
              /\ b # a => records'[b] = records[b]
              /\ records'[b].user = records[b].user
              /\ records'[b].arrival = records[b].arrival
        /\ UNCHANGED <<recorded, queues, handed>>
    BY <1>1 DEF TimeOut, IInv, TypeOK, Record, Known
  <1>3. /\ DOMAIN calls' = DOMAIN calls
        /\ calls'[a].stage = "returned"
        /\ \A b \in DOMAIN calls \ {a} : calls'[b] = calls[b]
    BY <1>1, ReturnWithTyped, StatusesAreResults DEF TimeOut, IInv
  <1>4. CallsMatchRecords'
    BY <1>1, <1>2, <1>3 DEF IInv, CallsMatchRecords, Known
  <1>5. NothingLost'
    BY <1>2 DEF IInv, NothingLost, Unanswered, Known, NoResult
  <1>6. NoStrandedWaiter'
    BY <1>2, <1>3 DEF IInv, NoStrandedWaiter, Unanswered, Known
  <1> QED
    BY <1>0, <1>2, <1>4, <1>5, <1>6
       DEF IInv, ArrivalsBelowCount, HandedOnce, HandedInOrder, Before, Known

-----------------------------------------------------------------------------
LEMMA InitIInv == Init => IInv
  BY InitTyped
     DEF Init, IInv, CallsMatchRecords, ArrivalsBelowCount, NothingLost, HandedOnce,
         HandedInOrder, NoStrandedWaiter, Known

LEMMA StutterKeeps == IInv /\ UNCHANGED vars => IInv'
  BY DEF vars, IInv, TypeOK, CallsMatchRecords, ArrivalsBelowCount, NothingLost, HandedOnce,
         HandedInOrder, NoStrandedWaiter, Unanswered, Known, Before

LEMMA NextKeeps == IInv /\ [Next]_vars => IInv'
  <1> SUFFICES ASSUME IInv, [Next]_vars PROVE IInv'
    OBVIOUS
  <1>1. CASE \E u \in Users, r \in Requests, a \in ActionIds : EnqueueCall(u, r, a)
    BY <1>1, EnqueueCallKeeps
  <1>2. CASE \E u \in Users, limit \in PollLimits : Pending(u, limit)
    BY <1>2, PendingKeeps
  <1>3. CASE \E u \in Users, a \in ActionIds, s \in ClientStatuses : Complete(u, a, s)
    BY <1>3, CompleteKeeps
  <1>4. CASE \E u \in Users, r \in Requests : CancelRequest(u, r)
    BY <1>4, CancelRequestKeeps
  <1>5. CASE \E a \in ActionIds : DeadlinePasses(a) \/ ThreadStep(a)
    <2>1. PICK a \in ActionIds : DeadlinePasses(a) \/ ThreadStep(a)
      BY <1>5
    <2>2. CASE \E result \in ServerStatuses \cup {NoResult} : EnqueueRecord(a, result)
      BY <2>2, EnqueueRecordKeeps
    <2>3. CASE TimeOut(a)
      BY <2>3, TimeOutKeeps
    <2>4. CASE ThreadOnly(a)
      BY <2>4, ThreadOnlyKeeps
    <2> QED BY <2>1, <2>2, <2>3, <2>4 DEF ThreadStep, ThreadOnly
  <1>6. CASE UNCHANGED vars
    BY <1>6, StutterKeeps
  <1> QED BY <1>1, <1>2, <1>3, <1>4, <1>5, <1>6 DEF Next

(* The inductive invariant holds in every reachable state. *)
THEOREM Invariance == Spec => []IInv
  <1>1. Init => IInv
    BY InitIInv
  <1>2. IInv /\ [Next]_vars => IInv'
    BY NextKeeps
  <1> QED BY <1>1, <1>2, PTL DEF Spec

(* The dispatcher's state is well typed. *)
THEOREM TypeCorrect == Spec => []TypeOK
  <1>1. IInv => TypeOK
    BY DEF IInv
  <1> QED BY <1>1, Invariance, PTL

(* No unanswered action is in neither its owner's queue nor its runtime. *)
THEOREM NothingIsLost == Spec => []NothingLost
  <1>1. IInv => NothingLost
    BY DEF IInv
  <1> QED BY <1>1, Invariance, PTL

(* An action is queued for or with its owner only, and never both. *)
THEOREM HandedOutOnce == Spec => []HandedOnce
  <1>1. IInv => HandedOnce
    BY DEF IInv
  <1> QED BY <1>1, Invariance, PTL

(* Polls drain a queue in the order in which its actions were enqueued. *)
THEOREM FirstInFirstOut == Spec => []HandedInOrder
  <1>1. IInv => HandedInOrder
    BY DEF IInv
  <1> QED BY <1>1, Invariance, PTL

(* No thread sleeps on the Condition once its action is answered. *)
THEOREM NobodyStranded == Spec => []NoStrandedWaiter
  <1>1. IInv => NoStrandedWaiter
    BY DEF IInv
  <1> QED BY <1>1, Invariance, PTL
===============================================================================
