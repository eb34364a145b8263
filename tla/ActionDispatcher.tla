--------------------------- MODULE ActionDispatcher ---------------------------
(***************************************************************************)
(* planner/action_dispatcher.py: the in-memory queue of client actions and *)
(* the hand-off of their results.  Turn threads enqueue an action and wait *)
(* for its result on one Condition; the user's runtime polls its queue and *)
(* posts results; a cancelled turn rejects what is still unanswered.       *)
(*                                                                         *)
(* Every method body runs under the Condition's lock, so a method is one   *)
(* action here.  What is outside the lock is a step of its own: the server *)
(* action handler that enqueue runs first, and the generator's yields      *)
(* between enqueueing an action and waiting for it.                        *)
(***************************************************************************)
EXTENDS Naturals, FiniteSets

CONSTANTS Users,           \* principals; each has one queue
          Requests,        \* request ids of turns
          ActionIds,       \* the ids enqueue can draw; each is drawn once
          ClientStatuses,  \* what a runtime may post as a result
          ServerStatuses,  \* what a server action handler may answer
          PollLimits       \* the limits a runtime polls with (1..100 in router.py)

NoResult == "none"
Statuses == {"completed", "failed", "rejected", "timeout"}

ASSUME DispatcherAssumption ==
    /\ ClientStatuses \subseteq Statuses
    /\ ServerStatuses \subseteq Statuses
    /\ PollLimits \subseteq Nat \ {0}

VARIABLES
    records,   \* _records: action id |-> [user, request, result, arrival]
    recorded,  \* len(_records): records are never removed
    queues,    \* _queues: the ids in each user's deque
    handed,    \* history: the ids pending() returned to each user
    calls      \* the dispatching threads: action id |-> where its thread stands

(***************************************************************************)
(* A deque is appended to only when a record is inserted, popped only at   *)
(* its head, and filtered by a cancellation.  Its order is therefore the   *)
(* records' order of insertion, `arrival', and the deque is a set of ids.  *)
(***************************************************************************)
vars == <<records, recorded, queues, handed, calls>>

Results == Statuses \cup {NoResult}

Record == [user : Users, request : Requests, result : Results, arrival : Nat]

(***************************************************************************)
(* A dispatching thread: "handler" runs the server action handler,         *)
(* "recorded" has left enqueue, "announced" has sent action_dispatch to    *)
(* the SSE client, "checking" is in wait_for_result's loop, "asleep" in    *)
(* Condition.wait.  `reply' is the result it came back with.               *)
(***************************************************************************)
Stages == {"handler", "recorded", "announced", "checking", "asleep",
           "returned", "abandoned"}

Call == [user : Users, request : Requests, stage : Stages,
         expired : BOOLEAN, reply : Results]

TypeOK ==
    /\ DOMAIN records \subseteq ActionIds
    /\ records \in [DOMAIN records -> Record]
    /\ recorded \in Nat
    /\ queues \in [Users -> SUBSET ActionIds]
    /\ handed \in [Users -> SUBSET ActionIds]
    /\ DOMAIN calls \subseteq ActionIds
    /\ calls \in [DOMAIN calls -> Call]

Init ==
    /\ records = [a \in {} |-> NoResult]
    /\ recorded = 0
    /\ queues = [u \in Users |-> {}]
    /\ handed = [u \in Users |-> {}]
    /\ calls = [a \in {} |-> NoResult]

-----------------------------------------------------------------------------
Known(a) == a \in DOMAIN records
Unanswered(a) == Known(a) /\ records[a].result = NoResult
Before(a, b) == records[a].arrival < records[b].arrival

(* notify_all: every thread asleep on the Condition runs its loop again. *)
Notified(c) ==
    [a \in DOMAIN c |->
        IF c[a].stage = "asleep" THEN [c[a] EXCEPT !.stage = "checking"] ELSE c[a]]

MoveTo(a, stage) == [calls EXCEPT ![a].stage = stage]
ReturnWith(c, a, result) ==
    [c EXCEPT ![a].stage = "returned", ![a].reply = result]

-----------------------------------------------------------------------------
(* enqueue, up to the lock: an id is drawn and the server handler starts. *)
EnqueueCall(u, r, a) ==
    /\ a \notin DOMAIN calls
    /\ calls' = [c \in DOMAIN calls \cup {a} |->
                    IF c = a
                    THEN [user |-> u, request |-> r, stage |-> "handler",
                          expired |-> FALSE, reply |-> NoResult]
                    ELSE calls[c]]
    /\ UNCHANGED <<records, recorded, queues, handed>>

(* enqueue, under the lock: the record goes in with the handler's result;  *)
(* only an action the handler left alone is queued for the runtime.        *)
EnqueueRecord(a, result) ==
    /\ a \in DOMAIN calls
    /\ calls[a].stage = "handler"
    /\ records' = [x \in DOMAIN records \cup {a} |->
                      IF x = a
                      THEN [user |-> calls[a].user, request |-> calls[a].request,
                            result |-> result, arrival |-> recorded]
                      ELSE records[x]]
    /\ recorded' = recorded + 1
    /\ queues' = IF result = NoResult
                 THEN [queues EXCEPT ![calls[a].user] = @ \cup {a}]
                 ELSE queues
    /\ calls' = [Notified(calls) EXCEPT ![a].stage = "recorded"]
    /\ UNCHANGED handed

-----------------------------------------------------------------------------
IsLast(a, S) == \A b \in S : b = a \/ Before(b, a)

(* deque.pop() in place of popleft(): the newest ids leave first. *)
PoppedNewestFirst(u, limit, P) ==
    LET got == {a \in P : Unanswered(a)}
    IN /\ \A a \in P, b \in queues[u] \ P : Before(b, a)
       /\ \/ Cardinality(got) < limit /\ P = queues[u]
          \/ Cardinality(got) = limit

(* pending's loop pops heads until it holds `limit' unanswered envelopes   *)
(* or the deque is empty; P is what it pops.                               *)
Popped(u, limit, P) ==
    LET got == {a \in P : Unanswered(a)}
    IN /\ \A a \in P, b \in queues[u] \ P : Before(a, b)
       /\ \/ Cardinality(got) < limit /\ P = queues[u]
          \/ Cardinality(got) = limit /\ \E a \in got : IsLast(a, P)

(* pending without its test of record.result. *)
EnvelopesAnyResult(P) == {a \in P : Known(a)}

(* The envelopes of what was popped: an answered action is dropped. *)
Envelopes(P) == {a \in P : Unanswered(a)}

(* The head is read and stays in the deque. *)
PendingPeek(u, limit) ==
    \E P \in SUBSET queues[u] :
        /\ Popped(u, limit, P)
        /\ handed' = [handed EXCEPT ![u] = @ \cup Envelopes(P)]
        /\ UNCHANGED <<records, recorded, queues, calls>>

(* GET /client/actions/pending: what is popped is never handed out again. *)
Pending(u, limit) ==
    \E P \in SUBSET queues[u] :
        /\ Popped(u, limit, P)
        /\ queues' = [queues EXCEPT ![u] = @ \ P]
        /\ handed' = [handed EXCEPT ![u] = @ \cup Envelopes(P)]
        /\ UNCHANGED <<records, recorded, calls>>

-----------------------------------------------------------------------------
(* complete without notify_all. *)
CompleteSilently(u, a, status) ==
    /\ Known(a)
    /\ records[a].user = u
    /\ records' = [records EXCEPT ![a].result = status]
    /\ UNCHANGED <<recorded, queues, handed, calls>>

(* POST /client/actions/{id}/result: the owner's post always replaces the *)
(* record's result; anyone else, or an unknown id, gets a 404.             *)
Complete(u, a, status) ==
    /\ Known(a)
    /\ records[a].user = u
    /\ records' = [records EXCEPT ![a].result = status]
    /\ calls' = Notified(calls)
    /\ UNCHANGED <<recorded, queues, handed>>

(* A status the result contract does not have. *)
CancelledStatus == "cancelled"
RejectedStatus == "rejected"

(* What cancel_request rejects. *)
Rejected(u, r) ==
    {a \in DOMAIN records :
        records[a].user = u /\ records[a].request = r /\ Unanswered(a)}

(* The deque is filtered by user only. *)
OfAnyRequest(a, r) == Known(a) /\ r \in Requests
OfRequest(a, r) == Known(a) /\ records[a].request = r

(* cancel_request: reject what has no result; if there was any, take the   *)
(* request's ids out of the deque and wake the waiters.                    *)
CancelRequest(u, r) ==
    LET gone == Rejected(u, r)
    IN /\ records' = [a \in DOMAIN records |->
                         IF a \in gone
                         THEN [records[a] EXCEPT !.result = RejectedStatus]
                         ELSE records[a]]
       /\ queues' = IF gone = {} THEN queues
                    ELSE [queues EXCEPT ![u] =
                             {a \in @ : ~OfRequest(a, r)}]
       /\ calls' = IF gone = {} THEN calls ELSE Notified(calls)
       /\ UNCHANGED <<recorded, handed>>

-----------------------------------------------------------------------------
InStage(a, stages) == a \in DOMAIN calls /\ calls[a].stage \in stages

(* result_if_ready found a result: the stream sends no action_dispatch. *)
ProbeReady(a) ==
    /\ InStage(a, {"recorded"})
    /\ records[a].result # NoResult
    /\ calls' = ReturnWith(calls, a, records[a].result)
    /\ UNCHANGED <<records, recorded, queues, handed>>

(* result_if_ready found none: action_dispatch goes to the SSE client. *)
ProbeNotReady(a) ==
    /\ InStage(a, {"recorded"})
    /\ Unanswered(a)
    /\ calls' = MoveTo(a, "announced")
    /\ UNCHANGED <<records, recorded, queues, handed>>

(* The SSE client disconnects at a yield: the generator is closed and the  *)
(* record stays behind.                                                    *)
Abandon(a) ==
    /\ InStage(a, {"announced"})
    /\ calls' = MoveTo(a, "abandoned")
    /\ UNCHANGED <<records, recorded, queues, handed>>

(* wait_for_result is entered: from the stream after its events, or right  *)
(* after enqueue in dispatch_and_wait.                                     *)
StartWait(a) ==
    /\ InStage(a, {"recorded", "announced"})
    /\ calls' = MoveTo(a, "checking")
    /\ UNCHANGED <<records, recorded, queues, handed>>

(* The deadline passes while the thread is in wait_for_result. *)
DeadlinePasses(a) ==
    /\ InStage(a, {"checking", "asleep"})
    /\ ~calls[a].expired
    /\ calls' = [calls EXCEPT ![a].expired = TRUE]
    /\ UNCHANGED <<records, recorded, queues, handed>>

ReturnAnswer(a) ==
    /\ InStage(a, {"checking"})
    /\ records[a].result # NoResult
    /\ calls' = ReturnWith(calls, a, records[a].result)
    /\ UNCHANGED <<records, recorded, queues, handed>>

(* The deadline is tested before the record: a late answer loses. *)
TimeOutFirst(a) ==
    /\ InStage(a, {"checking"})
    /\ calls[a].expired
    /\ records' = [records EXCEPT ![a].result = "timeout"]
    /\ calls' = ReturnWith(calls, a, "timeout")
    /\ UNCHANGED <<recorded, queues, handed>>

(* remaining <= 0 and still no result: the thread records the timeout. *)
TimeOut(a) ==
    /\ InStage(a, {"checking"})
    /\ Unanswered(a)
    /\ calls[a].expired
    /\ records' = [records EXCEPT ![a].result = "timeout"]
    /\ calls' = ReturnWith(calls, a, "timeout")
    /\ UNCHANGED <<recorded, queues, handed>>

FallAsleep(a) ==
    /\ InStage(a, {"checking"})
    /\ Unanswered(a)
    /\ ~calls[a].expired
    /\ calls' = MoveTo(a, "asleep")
    /\ UNCHANGED <<records, recorded, queues, handed>>

(* Condition.wait() without its timeout: only a notify ends it. *)
WakeNever(a) ==
    /\ InStage(a, {})
    /\ UNCHANGED vars

(* Condition.wait(timeout=remaining) returns by itself. *)
WakeOnTimeout(a) ==
    /\ InStage(a, {"asleep"})
    /\ calls[a].expired
    /\ calls' = MoveTo(a, "checking")
    /\ UNCHANGED <<records, recorded, queues, handed>>

-----------------------------------------------------------------------------
(* One step of the thread that dispatches a. *)
ThreadStep(a) ==
    \/ \E result \in ServerStatuses \cup {NoResult} : EnqueueRecord(a, result)
    \/ ProbeReady(a)
    \/ ProbeNotReady(a)
    \/ Abandon(a)
    \/ StartWait(a)
    \/ ReturnAnswer(a)
    \/ TimeOut(a)
    \/ FallAsleep(a)
    \/ WakeOnTimeout(a)

Next ==
    \/ \E u \in Users, r \in Requests, a \in ActionIds : EnqueueCall(u, r, a)
    \/ \E u \in Users, limit \in PollLimits : Pending(u, limit)
    \/ \E u \in Users, a \in ActionIds, s \in ClientStatuses : Complete(u, a, s)
    \/ \E u \in Users, r \in Requests : CancelRequest(u, r)
    \/ \E a \in ActionIds : DeadlinePasses(a) \/ ThreadStep(a)

(***************************************************************************)
(* A thread keeps running and clocks advance; nothing makes a runtime poll *)
(* or post, a turn enqueue, or anyone cancel.                              *)
(***************************************************************************)
Fairness ==
    \A a \in ActionIds : WF_vars(ThreadStep(a)) /\ WF_vars(DeadlinePasses(a))

Spec == Init /\ [][Next]_vars /\ Fairness

-----------------------------------------------------------------------------
(* An action nobody has answered is in its owner's queue or has been given *)
(* to its owner's runtime: no interleaving of enqueue, pending and cancel  *)
(* loses one (enqueue, pending, cancel_request).                           *)
NothingLost ==
    \A a \in DOMAIN records :
        Unanswered(a) => a \in queues[records[a].user] \cup handed[records[a].user]

(* An action is in nobody's queue or runtime but its owner's, and once the *)
(* runtime has it the queue does not: the contract lets a runtime execute  *)
(* what it is given, so a second hand-out would be a second execution      *)
(* (enqueue, pending, cancel_request).                                     *)
HandedOnce ==
    \A u \in Users :
        /\ \A a \in queues[u] \cup handed[u] : Known(a) /\ records[a].user = u
        /\ queues[u] \cap handed[u] = {}

(* What the runtime has was enqueued before everything still queued for    *)
(* it, through partial polls and cancellations (pending).                  *)
HandedInOrder ==
    \A u \in Users : \A a \in handed[u], b \in queues[u] : Before(a, b)

(* No thread sleeps on an answered action: whoever answers it wakes the    *)
(* Condition (complete, cancel_request, enqueue; wait_for_result).         *)
NoStrandedWaiter == \A a \in DOMAIN calls : calls[a].stage = "asleep" => Unanswered(a)

(* A result is final but for the runtime's own post: a timeout racing a    *)
(* late answer, or a cancellation racing either, never replaces it         *)
(* (complete, cancel_request, wait_for_result).                            *)
RevisedByRuntime ==
    \A a \in DOMAIN records :
        ~Unanswered(a) /\ records'[a].result # records[a].result
            => /\ \E u \in Users, s \in ClientStatuses : Complete(u, a, s)
               /\ \A b \in DOMAIN calls :
                      calls[b].stage = "returned" => calls'[b] = calls[b]
OnlyRuntimeRevises == [][RevisedByRuntime]_vars

(* Every dispatch returns or is abandoned by its client, whatever the      *)
(* runtime does: the timeout is the last resort (wait_for_result).         *)
DispatchReturns ==
    \A a \in ActionIds :
        a \in DOMAIN calls ~> InStage(a, {"returned", "abandoned"})

(* The abstract state: a queued id whose record is answered is no longer   *)
(* open, though it stays in the deque until a poll drops it.               *)
Open == [u \in Users |-> {a \in queues[u] : Unanswered(a)}]
AnswerOf == [a \in ActionIds |-> IF Known(a) THEN records[a].result ELSE NoResult]
ToldOf == [a \in ActionIds |-> IF a \in DOMAIN calls THEN calls[a].reply ELSE NoResult]

Handoff == INSTANCE ActionHandoff WITH
    NoAnswer <- NoResult, open <- Open, given <- handed, answer <- AnswerOf, told <- ToldOf

(* The dispatcher keeps the promise of ActionHandoff: at-most-once         *)
(* hand-out of unanswered actions to their owner, one consistent answer to *)
(* the turn (all of action_dispatcher.py).                                 *)
HandoffSpec == Handoff!Spec

-----------------------------------------------------------------------------
(* What the safety invariants need to be inductive. *)

(* A thread past enqueue's lock, and no other, has its action on record,   *)
(* and has no reply until it returns.                                      *)
CallsMatchRecords ==
    /\ DOMAIN records \subseteq DOMAIN calls
    /\ \A a \in DOMAIN calls :
          /\ Known(a) <=> calls[a].stage # "handler"
          /\ calls[a].stage # "returned" => calls[a].reply = NoResult

(* Records are numbered in the order of their insertion. *)
ArrivalsBelowCount == \A a \in DOMAIN records : records[a].arrival < recorded

IInv ==
    /\ TypeOK
    /\ CallsMatchRecords
    /\ ArrivalsBelowCount
    /\ NothingLost
    /\ HandedOnce
    /\ HandedInOrder
    /\ NoStrandedWaiter
===============================================================================
