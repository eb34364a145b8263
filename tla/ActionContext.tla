---------------------------- MODULE ActionContext ----------------------------
(***************************************************************************)
(* ActionContextStore of planner/action_context.py, for one user: what the *)
(* user's machine did last, told to the compiler of the next turn.         *)
(*                                                                         *)
(* The result of one action is reported by the runtime's post, under the   *)
(* lock of the dispatcher, and by the turn that waited, under none.  The   *)
(* store has no lock either, so a report is a sequence of steps.  Names of *)
(* applications and addresses are the actions that brought them up.        *)
(***************************************************************************)
EXTENDS UserRequests, Sequences, SequencesExt

CONSTANTS
  Actions,
  KindOf,       \* what each action is: "app", "type", "open" or "other"
  NoAction,
  SeenLimit,    \* SEEN_ACTION_ID_LIMIT
  RecentLimit   \* RECENT_ACTION_LIMIT

ASSUME ContextAssumption ==
  /\ KindOf \in [Actions -> {"app", "type", "open", "other"}] /\ NoAction \notin Actions
  /\ SeenLimit \in Nat \ {0} /\ RecentLimit \in Nat \ {0}

VARIABLES
  seen,       \* _seen_action_ids
  latest,     \* latest_result
  recent,     \* recent_actions, the last one first
  working,    \* the rest of the working context
  reporting,  \* where each thread's report is
  kept,       \* the recent actions without its own that it has gone through
  marked,     \* history: the reports that were taken, with the number taken when they looked
  asOf        \* history: that number, of a report on its way

contextVars == <<seen, latest, recent, working, reporting, kept, marked, asOf>>

Nowhere == [surface |-> "none", app |-> NoAction, browser |-> NoAction, typed |-> NoAction]

ContextInit ==
  /\ seen = <<>> /\ latest = NoAction /\ recent = <<>> /\ working = Nowhere
  /\ reporting = [r \in Requests |-> "idle"] /\ kept = [r \in Requests |-> <<>>]
  /\ marked = <<>> /\ asOf = [r \in Requests |-> 0]

-----------------------------------------------------------------------------

\* _mark_seen looks the action up.
LookSeen(r, a) ==
  /\ reporting[r] = "idle"
  /\ reporting' = [reporting EXCEPT ![r] = IF Contains(seen, a) THEN "done" ELSE "marking"]
  /\ asOf' = [asOf EXCEPT ![r] = Len(marked)]
  /\ UNCHANGED <<seen, latest, recent, working, kept, marked>>

TakenInto(r, a, ids) ==
  /\ reporting[r] = "marking"
  /\ seen' = ids
  /\ marked' = Append(marked, [action |-> a, asOf |-> asOf[r]])
  /\ reporting' = [reporting EXCEPT ![r] = "noting"]
  /\ UNCHANGED <<latest, recent, working, kept, asOf>>

\* The list of ids is cut at its new end.
MarkAndCutNewest(r, a) == TakenInto(r, a, SubSeq(Append(seen, a), 1, SeenLimit))

\* The list of ids is never cut.
MarkAndCutNothing(r, a) == TakenInto(r, a, Append(seen, a))

Mark(r, a) ==
  LET ids == Append(seen, a) IN TakenInto(r, a, IF Len(ids) > SeenLimit THEN Tail(ids) ELSE ids)

\* The list without an action.
Without(list, a) ==
  LET upTo[i \in 0 .. Len(list)] ==
        IF i = 0 THEN <<>>
        ELSE IF list[i] = a THEN upTo[i - 1] ELSE Append(upTo[i - 1], list[i])
  IN upTo[Len(list)]

\* The latest result is replaced, and the recent actions are gone through.
Note(r, a) ==
  /\ reporting[r] = "noting"
  /\ latest' = a
  /\ kept' = [kept EXCEPT ![r] = Without(recent, a)]
  /\ reporting' = [reporting EXCEPT ![r] = "replacing"]
  /\ UNCHANGED <<seen, recent, working, marked, asOf>>

\* What another report has put into the list since is lost.
ReplaceRecent(r) ==
  /\ reporting[r] = "replacing"
  /\ recent' = kept[r]
  /\ reporting' = [reporting EXCEPT ![r] = "inserting"]
  /\ UNCHANGED <<seen, latest, working, kept, marked, asOf>>

\* _record_completed_context
Completed(w, a) ==
  CASE KindOf[a] = "app" -> [w EXCEPT !.surface = "app", !.app = a]
    [] KindOf[a] = "type" ->
         [w EXCEPT !.surface = IF @ = "none" THEN "app" ELSE @,
                   !.typed = IF w.app # NoAction THEN w.app ELSE w.browser]
    [] KindOf[a] = "open" -> [w EXCEPT !.surface = "browser", !.browser = a]
    [] OTHER -> w

Insert(r, a) ==
  /\ reporting[r] = "inserting"
  /\ recent' = SubSeq(<<a>> \o recent, 1,
                      IF Len(recent) < RecentLimit THEN Len(recent) + 1 ELSE RecentLimit)
  /\ working' \in {working, Completed(working, a)}
  /\ reporting' = [reporting EXCEPT ![r] = "done"]
  /\ UNCHANGED <<seen, latest, kept, marked, asOf>>

\* _fresh: nothing was reported for ttl_seconds, and the next look finds nothing.
Expire ==
  /\ latest # NoAction
  /\ \A r \in Requests : reporting[r] \in {"idle", "done"}
  /\ latest' = NoAction /\ recent' = <<>> /\ working' = Nowhere
  /\ UNCHANGED <<seen, reporting, kept, marked, asOf>>

Report(r, a) ==
  LookSeen(r, a) \/ Mark(r, a) \/ Note(r, a) \/ ReplaceRecent(r) \/ Insert(r, a)

-----------------------------------------------------------------------------

ContextType ==
  /\ seen \in Seq(Actions) /\ Len(seen) =< SeenLimit
  /\ latest \in Actions \cup {NoAction}
  /\ recent \in Seq(Actions) /\ Len(recent) =< RecentLimit
  /\ working \in [ surface : {"none", "app", "browser"}, app : Actions \cup {NoAction},
                   browser : Actions \cup {NoAction}, typed : Actions \cup {NoAction} ]
  /\ reporting \in
       [Requests -> {"idle", "marking", "noting", "replacing", "inserting", "done"}]

\* The first report of an action stands.  A second one is taken only if it looked before the first
\* was marked, which nothing prevents when the waiting turn gives up as the runtime posts, or if
\* as many others as the store remembers had been marked in between.
FirstReportStands ==
  \A i, j \in DOMAIN marked :
    i < j /\ marked[i].action = marked[j].action =>
      marked[j].asOf < i \/ marked[j].asOf >= i + SeenLimit
=============================================================================
