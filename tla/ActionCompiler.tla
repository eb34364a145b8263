-------------------------- MODULE ActionCompiler --------------------------
(***************************************************************************)
(* How a message becomes a decision to act, to answer, or to do nothing:   *)
(* _client_action_decision of router/router.py, and under it               *)
(* ActionCompiler.compile_decision of planner/action_compiler.py.          *)
(*                                                                         *)
(* Between the first question to the intent model and the decision there   *)
(* may be several calls of a plan model.  Model calls are the only places  *)
(* where time passes and the only inputs that nothing here controls, so a  *)
(* step is one call together with all that the code does with its answer.  *)
(* asking says why the next call is made.                                  *)
(***************************************************************************)
EXTENDS ActionPlanParser

CONSTANTS
  Messages,     \* what messages may say
  Contexts,     \* what a turn may know of its runtime
  Gates,        \* what the intent model may answer
  Answers,      \* what the plan model may answer
  Settings,     \* values of the JARVIS_ACTION_* switches
  MaxRetries    \* max_retries

ASSUME CompilerAssumption ==
  /\ Messages \subseteq Utterance /\ Contexts \subseteq TurnContext
  /\ Gates \subseteq IntentGate /\ Answers \subseteq ModelAnswer
  /\ Settings \subseteq [ enabled : BOOLEAN, repair : BOOLEAN, core : BOOLEAN,
                          unavailable : BOOLEAN, lowConfidence : BOOLEAN, timeout : BOOLEAN ]
  /\ MaxRetries \in Nat

VARIABLES
  message, context, setting,
  via,          \* "turn", or "embedded": an action block was seen in the model's chat
  hinted,       \* did the embedded block leave validation errors to pass on
  gate,         \* the answer of the intent model: None if it could not be had
  asking,       \* "start", "gate", a reason to call the plan model, "core" or "done"
  retries,      \* what is left of max_retries
  calls,        \* model calls after the intent gate's, for the bound on them
  decision      \* None, or the decision of the turn

vars == <<message, context, setting, via, hinted, gate, asking, retries, calls, decision>>

inputs == <<message, context, setting, via, hinted>>

PlanCalls == {"plan", "repair", "contradiction", "followup", "copied", "incomplete",
              "lost_target", "invalid"}

\* A correction of errors uses up nothing.
CountedForContent == {"contradiction", "followup", "incomplete", "lost_target"}

\* The calls that use up a retry.
CountedCalls == {"contradiction", "followup", "incomplete", "lost_target", "invalid"}

-----------------------------------------------------------------------------
(* Decisions.  steps are the names of the actions of the plan it carries.   *)

Answer == [act |-> FALSE, mode |-> "no_action", actions |-> <<>>, errors |-> {}, steps |-> <<>>]

\* act stays set when the gate saw an action but nothing can be built of it.
Invalid(act, errors) == [Answer EXCEPT !.act = act, !.mode = "invalid", !.errors = errors]

Direct(actions) ==
  [Answer EXCEPT !.act = TRUE, !.actions = actions,
                 !.mode = IF Len(actions) > 1 THEN "direct_sequence" ELSE "direct"]

\* _decision_from_plan
DecisionFromPlan(plan) ==
  LET issues == AdaptIssues(plan, context)
      steps == [i \in DOMAIN plan.actions |-> plan.actions[i].name]
  IN CASE plan.mode = "no_action" -> Answer
       [] plan.mode # "no_action" /\ issues # {} -> [Invalid(FALSE, issues) EXCEPT !.steps = steps]
       [] OTHER -> [act |-> plan.actions # <<>>, mode |-> plan.mode,
                    actions |-> AdaptedActions(plan), errors |-> {}, steps |-> steps]

Decided(plan) == IF plan.some THEN Some(DecisionFromPlan(plan.of)) ELSE None

SearchDecision == Decided(BrowserSearch(message, context))

-----------------------------------------------------------------------------
(* What is asked of a gate g.                                               *)

Sure(g) == g.some /\ g.of.sure

SureToAct(g) == Sure(g) /\ g.of.act

\* _has_working_context_followup_state
Followup == context.surface /\ context.recent

\* Any gate with a template.
GroundedByKey(g) == g.keyed /\ TemplateKey(g) # "browser_open"

\* _gate_template_is_grounded: an application must be one the message names, or the active one.
Grounded(g) ==
  /\ g.keyed
  /\ TemplateKey(g) # "browser_open"
  /\ TemplateKey(g) \in {"app_open", "app_open_type"} =>
       IF "app_name" \in g.slots THEN g.app = message.app
       ELSE context.active # NoApp /\ Followup

UngroundedApp(g) == TemplateKey(g) \in {"app_open", "app_open_type"} /\ ~Grounded(g)

\* _decision_from_gate_template; a missing query may still be in the message, if it is given.
TemplateDecision(g, withMessage) ==
  LET missing == MissingSlots(g, context)
  IN FirstOf(<< Decided(GateTemplate(g, context)),
                IF withMessage /\ missing = {"query"} THEN SearchDecision ELSE None,
                IF missing # {} THEN Some(Invalid(FALSE, {"missing_template_slot"})) ELSE None >>)

\* _gate_template_reuses_working_text_issue
GateCopies(g) ==
  TemplateKey(g) = "app_open_type" /\ context.typed /\ "text" \in g.slots /\ g.copied

\* _plan_reuses_working_text_issue
PlanCopies(plan) ==
  /\ context.typed /\ plan.mode # "no_action"
  /\ \E a \in ToSet(plan.actions) : a.name = "keyboard.type" /\ a.copied

\* _missing_ordered_action_names is empty: the steps occur among the names, in their order.
InOrder(steps, names) ==
  \E at \in [DOMAIN steps -> DOMAIN names] :
    /\ \A i \in DOMAIN steps : names[at[i]] = steps[i]
    /\ \A i, j \in DOMAIN steps : i < j => at[i] < at[j]

\* _intent_template_completeness_issue
Incomplete(g, plan) ==
  /\ SureToAct(g) /\ plan.mode # "no_action"
  /\ Len(Steps(TemplateKey(g.of))) >= 2
  /\ ~InOrder(Steps(TemplateKey(g.of)), [i \in DOMAIN plan.actions |-> plan.actions[i].name])

\* _browser_open_target_metadata_issue: the gate's slots or reason speak of a page.
LostTarget(g, plan) ==
  /\ g.some /\ g.of.act /\ TemplateKey(g.of) = "browser_open" /\ g.of.page
  /\ plan.mode # "no_action" /\ Len(plan.actions) = 1
  /\ plan.actions[1].name = "browser.open"
  /\ Places(plan.actions[1]) \cap {"url", "query", "target"} = {}

-----------------------------------------------------------------------------
(* Where the code goes next: to a decision, or to a model.                  *)

\* A turn whose compiler came to no decision asks the core's model.
Decide(d) ==
  [asking |-> IF ~d.some /\ via = "turn" /\ setting.core THEN "core" ELSE "done", decision |-> d]

Ask(why, d) == [asking |-> why, decision |-> d]

\* A template is written for a sure gate that saw an action.
TemplateOf(g) == IF SureToAct(g) THEN TemplateDecision(g.of, FALSE) ELSE None

Unrepaired(g) ==
  Decide(FirstOf(<<IF UngroundedApp(g) THEN SearchDecision ELSE None, Some(Invalid(TRUE, {}))>>))

\* A gate that saw an action.
AfterActGate(g) ==
  LET preference == Decided(AppPreference(g, context))
      trusted == IF Grounded(g) THEN TemplateDecision(g, TRUE) ELSE None
  IN CASE preference.some \/ trusted.some -> Decide(FirstOf(<<preference, trusted>>))
       [] ~preference.some /\ ~trusted.some /\ (UngroundedApp(g) \/ TemplateKey(g) = "none") ->
            IF setting.repair THEN Ask("repair", None) ELSE Unrepaired(g)
       [] OTHER -> IF ~g.sure /\ SearchDecision.some THEN Decide(SearchDecision) ELSE Ask("plan", None)

\* A gate that saw no action, and was not sure of it.
AfterUnsureGate(g) ==
  LET named == FirstOf(<<Decided(AppOpenForText(message, context)),
                         Decided(FollowupSearch(message, context))>>)
      retried == (g.timeout /\ setting.timeout) \/ setting.lowConfidence
  IN CASE named.some -> Decide(named)
       [] ~named.some /\ retried /\ SearchDecision.some -> Decide(SearchDecision)
       [] ~named.some /\ ~retried /\ ~Followup /\ ~hinted -> Decide(Some(Answer))
       [] OTHER -> Ask("plan", None)

AfterGate(g) ==
  LET explicit == Decided(ExplicitAppOpen(message, context))
  IN CASE explicit.some -> Decide(explicit)
       [] ~explicit.some /\ Sure(g) /\ ~g.of.act ->
            Decide(FirstOf(<<SearchDecision, Decided(AppOpenForText(message, context)),
                             Decided(FollowupSearch(message, context)), Some(Answer)>>))
       [] ~explicit.some /\ g.some /\ g.of.act -> AfterActGate(g.of)
       [] ~explicit.some /\ g.some /\ ~g.of.act /\ ~g.of.sure -> AfterUnsureGate(g.of)
       [] OTHER -> CASE SearchDecision.some -> Decide(SearchDecision)
                     [] ~SearchDecision.some /\ (setting.unavailable \/ Followup \/ hinted) ->
                          Ask("plan", None)
                     [] OTHER -> Decide(None)

\* One retry too many.
FinalOnceMore(plan, left) ==
  LET d == DecisionFromPlan(plan)
  IN IF d.errors # {} /\ left >= 0 THEN Ask("invalid", Some(d)) ELSE Decide(Some(d))

\* The last part: the decision, and another attempt while it has errors.
Final(plan, left) ==
  LET d == DecisionFromPlan(plan)
  IN IF d.errors # {} /\ left > 0 THEN Ask("invalid", Some(d)) ELSE Decide(Some(d))

\* What is still incomplete is sent.
SettledAsIs(g, plan, left) == Final(plan, left)

\* After the retries for an incomplete plan: its template instead, if there is one.
Settled(g, plan, left) ==
  IF Incomplete(g, plan) /\ TemplateOf(g).some THEN Decide(TemplateOf(g)) ELSE Final(plan, left)

CheckTarget(g, plan, left) ==
  IF LostTarget(g, plan) /\ left > 0 THEN Ask("lost_target", None) ELSE Settled(g, plan, left)

CheckComplete(g, plan, left) ==
  IF Incomplete(g, plan) /\ left > 0 THEN Ask("incomplete", None) ELSE CheckTarget(g, plan, left)

Denies(g, plan) == SureToAct(g) /\ plan.mode = "no_action"

\* A plan to do nothing, from a gate that was sure of an action.
CheckDenied(g, plan, left) ==
  CASE Denies(g, plan) /\ GateCopies(g.of) -> Ask("copied", None)
    [] Denies(g, plan) /\ ~GateCopies(g.of) /\ TemplateOf(g).some -> Decide(TemplateOf(g))
    [] OTHER -> CheckComplete(g, plan, left)

\* The first plan denied the action: what was done lately lets its template be written at once.
AfterDenial(g) ==
  LET template == IF Followup THEN TemplateOf(g) ELSE None
  IN CASE Followup /\ GateCopies(g.of) ->
            Decide(Some(Invalid(FALSE, {"working_context_text_reused"})))
       [] ~(Followup /\ GateCopies(g.of)) /\ template.some /\ template.of.act -> Decide(template)
       [] OTHER -> Ask("contradiction", None)

\* What the first plan leads to.
CheckFirst(g, plan, left) ==
  CASE Denies(g, plan) /\ left > 0 -> AfterDenial(g)
    [] ~g.some /\ plan.mode = "no_action" /\ left > 0 /\ Followup -> Ask("followup", None)
    [] OTHER -> CheckDenied(g, plan, left)

\* What a call that brought no plan leads to.
AfterNoPlan(why) ==
  CASE why = "repair" -> Unrepaired(gate.of)
    [] why = "invalid" -> Decide(decision)
    [] why = "plan" /\ gate.some /\ gate.of.act -> Decide(SearchDecision)
    [] OTHER -> Decide(None)

\* What a plan leads to, given what the call was made for.
AfterPlan(why, plan, left) ==
  CASE why = "repair" ->
         IF plan.mode = "no_action" \/ plan.actions = <<>> THEN Unrepaired(gate.of)
         ELSE Decide(Some(DecisionFromPlan(plan)))
    [] why = "plan" -> CheckFirst(gate, plan, left)
    [] why \in {"contradiction", "followup"} -> CheckDenied(gate, plan, left)
    [] why = "copied" ->
         IF PlanCopies(plan) \/ plan.mode = "no_action"
         THEN Decide(Some(Invalid(FALSE, {"working_context_text_reused"})))
         ELSE CheckComplete(gate, plan, left)
    [] why = "incomplete" ->
         IF Denies(gate, plan) /\ TemplateOf(gate).some THEN Decide(TemplateOf(gate))
         ELSE CheckTarget(gate, plan, left)
    [] why \in {"lost_target", "invalid"} -> Final(plan, left)

-----------------------------------------------------------------------------
(* The turn.                                                                *)

Init ==
  /\ message \in Messages /\ context \in Contexts /\ setting \in Settings
  /\ via \in {"turn", "embedded"} /\ hinted \in BOOLEAN /\ (via = "turn" => ~hinted)
  /\ gate = None /\ asking = "start" /\ retries = MaxRetries /\ calls = 0 /\ decision = None

GoTo(next) == asking' = next.asking /\ decision' = next.decision

\* A turn tries its own templates first, and asks the models only when its words look like it.
Start ==
  /\ asking = "start"
  /\ LET written == LocalDecision(message, context)
     IN CASE via = "embedded" -> GoTo(Ask("gate", None))
          [] via = "turn" /\ written.some -> GoTo(Decide(Some(Direct(written.of))))
          [] OTHER -> IF LooksLikeAction(message, context) THEN GoTo(Ask("gate", None))
                      ELSE asking' = "done" /\ UNCHANGED decision
  /\ UNCHANGED <<inputs, gate, retries, calls>>

\* compile_intent_gate; without the models there is no gate.
AskGate ==
  /\ asking = "gate"
  /\ \E g \in {Some(x) : x \in Gates} \cup {None} :
       /\ g.some => setting.enabled
       /\ gate' = g
       /\ GoTo(AfterGate(g))
  /\ UNCHANGED <<inputs, retries, calls>>

\* compile_plan
AskPlan ==
  /\ asking \in PlanCalls
  /\ \E answer \in Answers :
       LET plan == IF setting.enabled THEN ParsePlan(answer) ELSE None
           left == IF asking \in CountedCalls THEN retries - 1 ELSE retries
       IN IF plan.some THEN GoTo(AfterPlan(asking, plan.of, left)) /\ retries' = left
          ELSE GoTo(AfterNoPlan(asking)) /\ UNCHANGED retries
  /\ calls' = IF setting.enabled THEN calls + 1 ELSE calls
  /\ UNCHANGED <<inputs, gate>>

\* _client_action_decision_via_core_model
AskCore ==
  /\ asking = "core"
  /\ \E answer \in Answers : decision' = Decided(ParsePlan(answer))
  /\ asking' = "done" /\ calls' = calls + 1
  /\ UNCHANGED <<inputs, gate, retries>>

Next == Start \/ AskGate \/ AskPlan \/ AskCore

Spec == Init /\ [][Next]_vars

-----------------------------------------------------------------------------
(* Properties.                                                              *)

(* The state of a compilation is well formed; retries are never overdrawn.  *)
TypeOK ==
  /\ gate.some => gate.of \in Gates
  /\ asking \in {"start", "gate", "core", "done"} \cup PlanCalls
  /\ retries \in 0..MaxRetries /\ calls \in Nat
  /\ decision.some =>
       /\ decision.of.act \in BOOLEAN
       /\ decision.of.mode \in {"no_action", "direct", "direct_sequence", "needs_plan", "invalid"}
       /\ \A a \in ToSet(decision.of.actions) : a.target \in Targets /\ a.confirm \in BOOLEAN
       /\ (asking = "invalid" => decision.of.errors # {})

Actions == IF decision.some THEN ToSet(decision.of.actions) ELSE {}

RiskyV1 ==
  {<<"terminal", "execute">>, <<"file_write", "none">>, <<"mouse_click", "none">>, <<"mouse_drag", "none">>,
   <<"clipboard", "paste">>} \cup {<<"calendar_control", command>> :
                                   command \in {"create_event", "update_event", "delete_event"}}

(* Whichever way a decision comes about - a template of the router, of a    *)
(* gate, a plan of either model, a legacy answer - an action that can do    *)
(* damage asks for a confirmation (RISKY_V2_ACTIONS, _adapt_action).  Of    *)
(* the actions deepthink_execute returns, a plan's or a loop's, it says     *)
(* nothing: no decision of the compiler stands before them.                 *)
RiskyAsksFirst ==
  \A a \in Actions : <<a.type, a.command>> \in RiskyV1 => a.confirm

(* Before a plan model is asked, an application is opened only if the       *)
(* message names it, if it is the active one of a working context, or if    *)
(* nothing is known yet and the gate's query names it                       *)
(* (_gate_template_is_grounded, the materialize functions).                             *)
OnlyMentionedAppsOpened ==
  calls = 0 =>
    \A a \in Actions : a.type = "app_control" /\ a.command = "open" =>
      \/ a.target = message.app
      \/ Followup /\ a.target = context.active
      \/ context.fresh /\ gate.some /\ "query" \in gate.of.slots /\ a.target = gate.of.app

(* All retries of a compilation, whatever each is for, draw on one budget:  *)
(* a turn calls the plan model once, max_retries times, and then the core   *)
(* model (compile_decision, _client_action_decision).                       *)
PlanCallsBounded == calls =< 1 + MaxRetries + (IF via = "turn" /\ setting.core THEN 1 ELSE 0)

(* What was asked for in two steps is not answered by one of them: when the *)
(* gate was sure, a decision made of an uncorrected plan has all steps of   *)
(* its template in order, or is the template (compile_decision,             *)
(* _intent_template_completeness_issue).  A plan that had to be corrected   *)
(* for its errors is not compared again.                                    *)
StepsKept ==
  [][ (/\ asking \in {"plan", "contradiction", "incomplete"} /\ asking' = "done"
       /\ SureToAct(gate) /\ Len(Steps(TemplateKey(gate.of))) >= 2
       /\ decision' # SearchDecision /\ decision'.some /\ decision'.of.act)
        => InOrder(Steps(TemplateKey(gate.of)), decision'.of.steps) ]_vars

(* A plan leaves only if the runtime declared every action of it: on first  *)
(* sight, from a template, and after a retry that was to correct it         *)
(* (adapt_plan, _capability_enabled).                                       *)
DeclaredOnly ==
  decision.some /\ decision.of.act =>
    \A name \in ToSet(decision.of.steps) : CapabilityEnabled(name, context)
=============================================================================
