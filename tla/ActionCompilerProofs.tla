------------------------ MODULE ActionCompilerProofs ------------------------
(***************************************************************************)
(* Theorems about ActionCompiler for all messages, runtimes, model answers *)
(* and settings: what a decision may hold, and how often models are asked. *)
(***************************************************************************)
EXTENDS ActionCompiler, SequenceTheorems, WellFoundedInduction, TLAPS

-----------------------------------------------------------------------------
(* Optional values.                                                         *)

LEMMA LeastExists ==
    ASSUME NEW S \in SUBSET Nat, S # {}
    PROVE  Min(S) \in S
  <1> DEFINE less == {pair \in Nat \X Nat : pair[1] < pair[2]}
  <1>1. IsWellFoundedOn(less, Nat)
    BY NatLessThanWellFounded DEF OpToRel
  <1>2. \A k, m \in Nat : k < m => <<k, m>> \in less
    OBVIOUS
  <1> HIDE DEF less
  <1>3. PICK m \in S : \A k \in S : ~(<<k, m>> \in less)
    BY <1>1, WFMin
  <1>4. ASSUME NEW k \in S PROVE m =< k
    <2>1. k \in Nat /\ m \in Nat
      OBVIOUS
    <2>2. ~(k < m)
      BY <1>2, <1>3, <2>1
    <2> QED BY <2>1, <2>2
  <1> QED BY <1>4 DEF Min

LEMMA Options ==
  /\ \A x : Some(x).some = TRUE /\ Some(x).of = x
  /\ None.some = FALSE
  BY DEF Some, None

(* The first option is one of those that are there.                         *)
LEMMA FirstOfIs ==
    ASSUME NEW options, DOMAIN options \subseteq Nat
    PROVE  \/ FirstOf(options) = None /\ \A i \in DOMAIN options : ~options[i].some
           \/ \E i \in DOMAIN options : options[i].some /\ FirstOf(options) = options[i]
  <1> DEFINE there == {i \in DOMAIN options : options[i].some}
  <1>1. CASE there = {}
    BY <1>1 DEF FirstOf
  <1>2. CASE there # {}
    <2>1. Min(there) \in there
      BY <1>2, LeastExists
    <2>2. FirstOf(options) = options[Min(there)]
      BY <1>2 DEF FirstOf
    <2> QED BY <2>1, <2>2
  <1> QED BY <1>1, <1>2

-----------------------------------------------------------------------------
(* Actions.                                                                 *)

LEMMA RegistryFields ==
  /\ Registry.browser = {"browser.open", "browser.search", "browser.navigate", "browser.extract_dom",
                         "browser.click", "browser.type", "browser.select_result"}
  /\ Registry.open_url = {"open_url"}
  /\ Registry.web_search = {"web_search"}
  /\ Registry.todo = {"todo.create", "todo.list", "todo.update", "todo.delete"}
  /\ Registry.calendar = {"calendar.open", "calendar.create", "calendar.update", "calendar.delete"}
  /\ Registry.clipboard = {"clipboard.copy", "clipboard.paste"}
  /\ Registry.terminal = {"terminal.run"}
  /\ Registry.notification = {"notification.show"}
  BY DEF Registry

Safe(action) == <<action.type, action.command>> \in RiskyV1 => action.confirm

Opens(action) == action.type = "app_control" /\ action.command = "open"

RiskyNames == RISKY_V2_ACTIONS \cup {"file.write", "terminal.run"}

LEMMA RiskyList ==
    ASSUME NEW type, NEW command
    PROVE  <<type, command>> \in RiskyV1 <=>
             \/ type = "terminal" /\ command = "execute"
             \/ type \in {"file_write", "mouse_click", "mouse_drag"} /\ command = "none"
             \/ type = "clipboard" /\ command = "paste"
             \/ type = "calendar_control" /\ command \in {"create_event", "update_event", "delete_event"}
  BY DEF RiskyV1

(* A command that can do damage comes from a name that the validator or the *)
(* adapter has confirmed, and an application is opened by app.open only.    *)
Faithful(command, name) ==
  /\ <<command[1], command[2]>> \in RiskyV1 => name \in RiskyNames
  /\ command[1] = "app_control" /\ command[2] = "open" => name = "app.open"

LEMMA BrowserCommands ==
    ASSUME NEW a, a.name \in Registry.browser \cup Registry.open_url
    PROVE  Faithful(BrowserCommand(a), a.name)
  <1> DEFINE command == BrowserCommand(a)
  <1>1. a.name \in {"browser.open", "browser.search", "browser.navigate", "browser.extract_dom",
                   "browser.click", "browser.type", "browser.select_result", "open_url"}
    BY RegistryFields
  <1>2. \/ command = <<"open_url", "none">>
        \/ command = <<"browser", "open">>
        \/ command = <<"browser_control", "extract_dom">>
        \/ command = <<"browser_control", "click_element">>
        \/ command = <<"browser_control", "type_element">>
        \/ command = <<"browser_control", "select_result">>
    BY <1>1 DEF BrowserCommand
  <1> HIDE DEF command
  <1>3. command[1] \in {"open_url", "browser", "browser_control"}
    BY <1>2
  <1>5. <<command[1], command[2]>> \notin RiskyV1
    BY <1>3, RiskyList
  <1> QED BY <1>3, <1>5 DEF Faithful, command

LEMMA ServerCommands ==
    ASSUME NEW a, a.name \in ServerNames
    PROVE  Faithful(ServerCommand(a), a.name)
  <1> DEFINE command == ServerCommand(a)
  <1>1. a.name \in {"web_search", "todo.create", "todo.list", "todo.update", "todo.delete",
                   "calendar.open", "calendar.create", "calendar.update", "calendar.delete"}
    BY RegistryFields DEF ServerNames
  <1>2. \/ /\ a.name \in RISKY_V2_ACTIONS
           /\ \/ command = <<"calendar_control", "create_event">>
              \/ command = <<"calendar_control", "update_event">>
              \/ command = <<"calendar_control", "delete_event">>
        \/ command = <<"web_search", "none">>
        \/ command = <<"todo", "create">>
        \/ command = <<"todo", "list">>
        \/ command = <<"todo", "update">>
        \/ command = <<"todo", "delete">>
        \/ command = <<"calendar_control", "open">>
    BY <1>1 DEF ServerCommand, RISKY_V2_ACTIONS
  <1> HIDE DEF command
  <1>3. command[1] \in {"calendar_control", "web_search", "todo"}
    BY <1>2
  <1>5. ASSUME <<command[1], command[2]>> \in RiskyV1 PROVE a.name \in RiskyNames
    <2>1. command[2] \in {"create_event", "update_event", "delete_event"}
      BY <1>3, <1>5, RiskyList
    <2>2. a.name \in RISKY_V2_ACTIONS
      BY <1>2, <2>1
    <2> QED BY <2>2 DEF RiskyNames
  <1> QED BY <1>3, <1>5 DEF Faithful, command

LocalNames ==
  AppNames \cup {"clipboard.copy", "clipboard.paste", "terminal.run", "notification.show",
                 "file.read", "file.write", "keyboard.type", "keyboard.hotkey", "mouse.click",
                 "mouse.drag", "screen.screenshot"}

LEMMA LocalCommands ==
    ASSUME NEW a, a.name \in LocalNames
    PROVE  Faithful(LocalCommand(a), a.name)
  <1> DEFINE command == LocalCommand(a)
  <1>1. a.name \in {"app.open", "app.focus", "app.close", "clipboard.copy", "clipboard.paste",
                   "terminal.run", "notification.show", "file.read", "file.write", "keyboard.type",
                   "keyboard.hotkey", "mouse.click", "mouse.drag", "screen.screenshot"}
    BY DEF LocalNames, AppNames
  <1>2. \/ a.name = "app.open" /\ command = <<"app_control", "open">>
        \/ a.name = "clipboard.paste" /\ command = <<"clipboard", "paste">>
        \/ a.name = "terminal.run" /\ command = <<"terminal", "execute">>
        \/ a.name = "file.write" /\ command = <<"file_write", "none">>
        \/ a.name = "mouse.click" /\ command = <<"mouse_click", "none">>
        \/ a.name = "mouse.drag" /\ command = <<"mouse_drag", "none">>
        \/ command = <<"app_control", "focus">>
        \/ command = <<"app_control", "close">>
        \/ command = <<"clipboard", "copy">>
        \/ command = <<"notify", "none">>
        \/ command = <<"file_read", "none">>
        \/ command = <<"keyboard_type", "none">>
        \/ command = <<"hotkey", "none">>
        \/ command = <<"screenshot", "none">>
    BY <1>1 DEF LocalCommand
  <1> HIDE DEF command
  <1>3. command[1] \in {"app_control", "clipboard", "terminal", "file_write", "mouse_click", "mouse_drag",
                        "notify", "file_read", "keyboard_type", "hotkey", "screenshot"}
    BY <1>2
  <1>5. ASSUME <<command[1], command[2]>> \in RiskyV1 PROVE a.name \in RiskyNames
    <2>1. /\ command[1] \in {"terminal", "file_write", "mouse_click", "mouse_drag", "clipboard",
                              "calendar_control"}
          /\ command[1] = "clipboard" => command[2] = "paste"
      BY <1>5, RiskyList
    <2>2. a.name \in {"clipboard.paste", "terminal.run", "file.write", "mouse.click", "mouse.drag"}
      BY <1>2, <2>1
    <2> QED BY <2>2 DEF RiskyNames, RISKY_V2_ACTIONS
  <1>6. ASSUME command[1] = "app_control", command[2] = "open" PROVE a.name = "app.open"
    BY <1>2, <1>6
  <1> QED BY <1>5, <1>6 DEF Faithful, command

(* What an action of a plan is, but for what its name, places and copied    *)
(* are: a name is any string.                                               *)
IsAction(a) ==
  /\ a = [name |-> a.name, target |-> a.target, places |-> a.places, copied |-> a.copied,
          confirm |-> a.confirm]
  /\ a.target \in Targets /\ a.confirm \in BOOLEAN

(* What every action of a decision is.                                      *)
Sound(action) == action.target \in Targets /\ action.confirm \in BOOLEAN /\ Safe(action)

LEMMA AdaptedSafely ==
    ASSUME NEW a, IsAction(a), Adaptable(a)
    PROVE  /\ Sound(Adapted(Normalized(a)))
           /\ Opens(Adapted(Normalized(a))) =>
                 a.name = "app.open" /\ Adapted(Normalized(a)).target = a.target
  <1> DEFINE b == Normalized(a)
  <1>1. /\ b.name = a.name /\ b.target = a.target /\ b.confirm \in BOOLEAN
        /\ a.name \in RISKY_V2_ACTIONS => b.confirm
    BY DEF Normalized, IsAction
  <1>2. b.target \in Targets /\ Adaptable(b)
    BY <1>1 DEF Adaptable, IsAction
  <1> HIDE DEF b
  <1> DEFINE command == IF b.name \in Registry.browser \cup Registry.open_url THEN BrowserCommand(b)
                        ELSE IF b.name \in ServerNames THEN ServerCommand(b)
                        ELSE LocalCommand(b)
             v1 == Adapted(b)
  <1>3. b.name \notin Registry.browser \cup Registry.open_url /\ b.name \notin ServerNames
          => b.name \in LocalNames
    BY <1>2, RegistryFields DEF Adaptable, LocalNames
  <1>4. Faithful(command, b.name)
    BY <1>3, BrowserCommands, ServerCommands, LocalCommands
  <1>5. v1 = [type |-> command[1], command |-> command[2],
              target |-> IF b.name \in AppNames THEN b.target ELSE NoApp,
              confirm |-> b.confirm \/ b.name \in {"file.write", "terminal.run"}]
    BY DEF Adapted
  <1> HIDE DEF command, v1
  <1>6. /\ v1.type = command[1] /\ v1.command = command[2]
        /\ v1.target = (IF b.name \in AppNames THEN b.target ELSE NoApp)
        /\ v1.confirm = (b.confirm \/ b.name \in {"file.write", "terminal.run"})
    BY <1>5
  <1>7. v1.target \in Targets /\ v1.confirm \in BOOLEAN
    BY <1>1, <1>2, <1>6 DEF Targets
  <1>8. Safe(v1)
    <2> SUFFICES ASSUME <<command[1], command[2]>> \in RiskyV1
                 PROVE  v1.confirm
      BY <1>6 DEF Safe
    <2>1. b.name \in RISKY_V2_ACTIONS \/ b.name \in {"file.write", "terminal.run"}
      BY <1>4 DEF RiskyNames, Faithful
    <2>2. CASE b.name \in RISKY_V2_ACTIONS
      BY <1>1, <1>6, <2>2
    <2>3. CASE b.name \in {"file.write", "terminal.run"}
      BY <1>6, <2>3
    <2> QED BY <2>1, <2>2, <2>3
  <1>9. Opens(v1) => a.name = "app.open" /\ v1.target = a.target
    BY <1>1, <1>4, <1>6 DEF AppNames, Faithful, Opens
  <1> QED BY <1>7, <1>8, <1>9 DEF v1, b, Sound

-----------------------------------------------------------------------------
(* Plans.                                                                   *)

IsPlan(plan) ==
  /\ plan.mode \in {"no_action", "direct", "direct_sequence", "needs_plan"}
  /\ \A i \in DOMAIN plan.actions : IsAction(plan.actions[i])

Modes == {"no_action", "direct", "direct_sequence", "needs_plan", "invalid"}

(* A decision of sound actions that, when it acts, has declared steps.      *)
WellMade(d) ==
  /\ d.act \in BOOLEAN /\ d.mode \in Modes
  /\ \A i \in DOMAIN d.actions : Sound(d.actions[i])
  /\ d.act => \A i \in DOMAIN d.steps : CapabilityEnabled(d.steps[i], context)

LEMMA AnswersAreWellMade == WellMade(Answer) /\ Answer.act = FALSE /\ DOMAIN Answer.actions = {}
  BY DEF WellMade, Answer, Modes

LEMMA InvalidsAreWellMade ==
    ASSUME NEW act \in BOOLEAN, NEW errors
    PROVE  /\ WellMade(Invalid(act, errors)) /\ Invalid(act, errors).act = act
           /\ DOMAIN Invalid(act, errors).actions = {}
  <1>1. /\ Invalid(act, errors).act = act /\ Invalid(act, errors).mode = "invalid"
        /\ Invalid(act, errors).actions = <<>> /\ Invalid(act, errors).steps = <<>>
    BY DEF Invalid, Answer
  <1> QED BY <1>1 DEF WellMade, Modes

(* Nothing is found wrong with a plan that acts only if the runtime declared *)
(* all of it and the adapter knows all of it.                               *)
LEMMA NothingWrong ==
    ASSUME NEW plan, IsPlan(plan), plan.mode # "no_action", AdaptIssues(plan, context) = {},
           NEW i \in DOMAIN plan.actions
    PROVE  CapabilityEnabled(plan.actions[i].name, context) /\ Adaptable(plan.actions[i])
  <1> DEFINE a == plan.actions[i]
  <1>1. a \in ToSet(plan.actions)
    BY DEF ToSet
  <1>2. PlanIssues(plan, context) = {} /\ Adaptable(a)
    BY <1>1 DEF AdaptIssues
  <1>3. plan.actions # <<>>
    OBVIOUS
  <1>4. PlanIssues(plan, context) = UNION {ActionIssues(x, context) : x \in ToSet(plan.actions)}
    BY <1>3 DEF PlanIssues
  <1>5. ActionIssues(a, context) = {}
    BY <1>1, <1>2, <1>4
  <1>6. CapabilityEnabled(a.name, context)
    <2>1. a.name \in Names
      BY <1>5 DEF ActionIssues
    <2>2. CapabilityEnabled(a.name, context) \/ "disabled_capability" \in ActionIssues(a, context)
      BY <2>1 DEF ActionIssues
    <2> QED BY <1>5, <2>2
  <1> QED BY <1>2, <1>6

LEMMA PlansMakeDecisions ==
    ASSUME NEW plan, IsPlan(plan)
    PROVE  /\ WellMade(DecisionFromPlan(plan))
           /\ DecisionFromPlan(plan).act =>
                /\ plan.mode # "no_action"
                /\ DecisionFromPlan(plan).steps = [i \in DOMAIN plan.actions |-> plan.actions[i].name]
           /\ \A i \in DOMAIN DecisionFromPlan(plan).actions :
                Opens(DecisionFromPlan(plan).actions[i]) =>
                  /\ i \in DOMAIN plan.actions /\ plan.actions[i].name = "app.open"
                  /\ DecisionFromPlan(plan).actions[i].target = plan.actions[i].target
  <1> DEFINE issues == AdaptIssues(plan, context)
             steps == [i \in DOMAIN plan.actions |-> plan.actions[i].name]
             d == DecisionFromPlan(plan)
  <1>1. CASE plan.mode = "no_action"
    <2>1. d = Answer
      BY <1>1 DEF DecisionFromPlan
    <2> QED BY <2>1, AnswersAreWellMade
  <1>2. CASE plan.mode # "no_action" /\ issues # {}
    <2>1. d = [act |-> FALSE, mode |-> "invalid", actions |-> <<>>, errors |-> issues, steps |-> steps]
      BY <1>2 DEF DecisionFromPlan, Invalid, Answer
    <2> QED BY <2>1 DEF WellMade, Modes
  <1>3. CASE plan.mode # "no_action" /\ issues = {}
    <2>1. d = [act |-> plan.actions # <<>>, mode |-> plan.mode, actions |-> AdaptedActions(plan),
               errors |-> {}, steps |-> steps]
      BY <1>3 DEF DecisionFromPlan
    <2>2. /\ DOMAIN d.actions = DOMAIN plan.actions
          /\ \A i \in DOMAIN plan.actions : d.actions[i] = Adapted(Normalized(plan.actions[i]))
      BY <2>1 DEF AdaptedActions
    <2>3. /\ d.steps = [i \in DOMAIN plan.actions |-> plan.actions[i].name]
          /\ \A i \in DOMAIN plan.actions : d.steps[i] = plan.actions[i].name
      BY <2>1
    <2>4. d.act \in BOOLEAN /\ d.mode \in Modes
      BY <2>1 DEF IsPlan, Modes
    <2> HIDE DEF d
    <2>5. ASSUME NEW i \in DOMAIN plan.actions
          PROVE  /\ Sound(d.actions[i]) /\ CapabilityEnabled(d.steps[i], context)
                 /\ Opens(d.actions[i]) => /\ plan.actions[i].name = "app.open"
                                           /\ d.actions[i].target = plan.actions[i].target
      BY <1>3, <2>2, <2>3, AdaptedSafely, NothingWrong DEF IsPlan
    <2> QED BY <1>3, <2>2, <2>3, <2>4, <2>5 DEF WellMade, d
  <1> QED BY <1>1, <1>2, <1>3

-----------------------------------------------------------------------------
(* Where plans come from.                                                   *)

LEMMA OpeningTemplates ==
    ASSUME NEW key, NEW i \in DOMAIN Steps(key), Steps(key)[i] = "app.open"
    PROVE  key \in {"app_open", "app_open_type"}
  BY DEF Steps

LEMMA WrittenPlansArePlans ==
    ASSUME NEW key, NEW app \in Targets, NEW copied
    PROVE  /\ IsPlan(Plan(key, app, copied))
           /\ Plan(key, app, copied).mode # "no_action"
           /\ DOMAIN Plan(key, app, copied).actions = DOMAIN Steps(key)
           /\ \A i \in DOMAIN Plan(key, app, copied).actions :
                LET a == Plan(key, app, copied).actions[i]
                IN  a.name = Steps(key)[i] /\ (a.name = "app.open" => a.target = app)
  <1> DEFINE action(i) ==
        [ name |-> Steps(key)[i],
          target |-> IF Steps(key)[i] \in AppNames THEN app ELSE NoApp,
          places |-> (RequiredSlots(key) \ {"app_name"})
                       \cup (IF key = "browser_search_open_first" THEN {"index"} ELSE {}),
          copied |-> copied /\ Steps(key)[i] = "keyboard.type",
          confirm |-> key \in ConfirmedTemplates ]
  <1>1. /\ Plan(key, app, copied).mode \in {"direct", "direct_sequence"}
        /\ Plan(key, app, copied).actions = [i \in DOMAIN Steps(key) |-> action(i)]
    BY DEF Plan
  <1>2. ASSUME NEW i \in DOMAIN Steps(key)
        PROVE  /\ IsAction(action(i)) /\ action(i).name = Steps(key)[i]
               /\ action(i).name = "app.open" => action(i).target = app
    BY DEF IsAction, Targets, AppNames
  <1> HIDE DEF action
  <1> QED BY <1>1, <1>2 DEF IsPlan

LEMMA OpeningPlans ==
    ASSUME NEW key, NEW app \in Targets, NEW copied,
           NEW i \in DOMAIN Plan(key, app, copied).actions,
           Plan(key, app, copied).actions[i].name = "app.open"
    PROVE  key \in {"app_open", "app_open_type"} /\ Plan(key, app, copied).actions[i].target = app
  <1>1. /\ i \in DOMAIN Steps(key) /\ Steps(key)[i] = "app.open"
        /\ Plan(key, app, copied).actions[i].target = app
    BY WrittenPlansArePlans
  <1>2. key \in {"app_open", "app_open_type"}
    BY <1>1, OpeningTemplates
  <1> QED BY <1>1, <1>2

LEMMA RewrittenIsAction ==
    ASSUME NEW item \in OldItem, NEW name, NEW places
    PROVE  IsAction(Rewritten(item, name, places))
  BY DEF OldItem, Rewritten, IsAction, Targets

LEMMA LegacyActionsAreActions ==
    ASSUME NEW item \in OldItem, LegacyToV2(item).some
    PROVE  IsAction(LegacyToV2(item).of)
  <1>1. /\ IsAction(Search(item)) /\ IsAction(Navigate(item)) /\ IsAction(SelectResult(item))
        /\ IsAction(LegacyApp(item))
    BY RewrittenIsAction DEF Search, Navigate, SelectResult, LegacyApp
  <1>2. ASSUME LegacyBrowser(item).some PROVE IsAction(LegacyBrowser(item).of)
    BY <1>1, <1>2, RewrittenIsAction, Options DEF LegacyBrowser
  <1>3. CASE item.type = "browser_control"
    BY <1>2, <1>3 DEF LegacyToV2
  <1>4. CASE item.type # "browser_control"
    BY <1>1, <1>4, RewrittenIsAction, Options DEF LegacyToV2
  <1> QED BY <1>3, <1>4

LEMMA ReadPlansArePlans ==
    ASSUME NEW answer \in ModelAnswer, ParsePlan(answer).some
    PROVE  IsPlan(ParsePlan(answer).of)
  <1> DEFINE items == answer.items
             legacy == [i \in DOMAIN items |-> LegacyToV2(items[i])]
             read == [i \in DOMAIN items |-> NormalizedV2(items[i])]
             mode == IF Len(items) > 1 THEN "direct_sequence" ELSE "direct"
  <1>1. answer.mode \in {"no_action", "direct", "direct_sequence", "needs_plan"}
    BY DEF ModelAnswer
  <1>2. CASE answer.form \in {"plan", "list"}
    <2>1. items \in Seq(NewItem)
      BY <1>2 DEF ModelAnswer
    <2>2. ASSUME NEW i \in DOMAIN items PROVE IsAction(NormalizedV2(items[i]))
      <3>1. items[i] \in NewItem
        BY <2>1
      <3> QED BY <3>1 DEF NewItem, NormalizedV2, IsAction
    <2>3. \/ ParsePlan(answer) = Some([mode |-> answer.mode, actions |-> read])
          \/ ParsePlan(answer) = Some([mode |-> mode, actions |-> read])
      BY <1>2 DEF ParsePlan
    <2> QED BY <1>1, <2>2, <2>3, Options DEF IsPlan
  <1>3. CASE answer.form = "legacy" /\ answer.mode = "no_action"
    <2>1. ParsePlan(answer) = Some([mode |-> "no_action", actions |-> <<>>])
      BY <1>3 DEF ParsePlan
    <2> QED BY <2>1, Options DEF IsPlan
  <1>4. CASE answer.form = "legacy" /\ answer.mode # "no_action"
    <2>1. items \in Seq(OldItem)
      BY <1>4 DEF ModelAnswer
    <2>2. \/ /\ \A i \in DOMAIN legacy : legacy[i].some
             /\ ParsePlan(answer) = Some([mode |-> answer.mode,
                                          actions |-> [i \in DOMAIN legacy |-> legacy[i].of]])
          \/ ParsePlan(answer) = None
      BY <1>4 DEF ParsePlan
    <2>3. \A i \in DOMAIN legacy : legacy[i].some
      BY <2>2, Options
    <2>4. ASSUME NEW i \in DOMAIN items PROVE IsAction(legacy[i].of)
      <3>1. items[i] \in OldItem
        BY <2>1
      <3> QED BY <2>3, <3>1, LegacyActionsAreActions
    <2>5. DOMAIN legacy = DOMAIN items
      OBVIOUS
    <2> HIDE DEF legacy
    <2>6. ParsePlan(answer) = Some([mode |-> answer.mode,
                                    actions |-> [i \in DOMAIN legacy |-> legacy[i].of]])
      BY <2>2, Options
    <2> QED BY <1>1, <2>4, <2>5, <2>6, Options DEF IsPlan
  <1>5. CASE answer.form \notin {"plan", "list", "legacy"}
    <2>1. ParsePlan(answer) = None
      BY <1>5 DEF ParsePlan
    <2> QED BY <2>1, Options
  <1> QED BY <1>2, <1>3, <1>4, <1>5

-----------------------------------------------------------------------------
(* Decisions that need no plan of a model.  apps are the applications that  *)
(* they may open.                                                           *)

OpensOnly(d, apps) == \A i \in DOMAIN d.actions : Opens(d.actions[i]) => d.actions[i].target \in apps

Fit(option, apps) == option.some => WellMade(option.of) /\ OpensOnly(option.of, apps)

LEMMA FirstFits ==
    ASSUME NEW options, DOMAIN options \subseteq Nat, NEW apps,
           \A i \in DOMAIN options : Fit(options[i], apps)
    PROVE  Fit(FirstOf(options), apps)
  BY FirstOfIs, Options DEF Fit

LEMMA AnswersFit == ASSUME NEW apps PROVE Fit(Some(Answer), apps) /\ Fit(None, apps)
  BY AnswersAreWellMade, Options DEF Fit, OpensOnly

LEMMA InvalidsFit ==
    ASSUME NEW act \in BOOLEAN, NEW errors, NEW apps
    PROVE  Fit(Some(Invalid(act, errors)), apps)
  BY InvalidsAreWellMade, Options DEF Fit, OpensOnly

LEMMA PlansFit ==
    ASSUME NEW plan, IsPlan(plan), NEW apps,
           \A i \in DOMAIN plan.actions :
             plan.actions[i].name = "app.open" => plan.actions[i].target \in apps
    PROVE  Fit(Some(DecisionFromPlan(plan)), apps)
  <1>1. OpensOnly(DecisionFromPlan(plan), apps)
    BY PlansMakeDecisions DEF OpensOnly
  <1> QED BY <1>1, PlansMakeDecisions, Options DEF Fit

LEMMA WrittenPlansFit ==
    ASSUME NEW key, NEW app \in Targets, NEW copied, NEW apps,
           key \in {"app_open", "app_open_type"} => app \in apps
    PROVE  Fit(Decided(Some(Plan(key, app, copied))), apps)
  <1> DEFINE plan == Plan(key, app, copied)
  <1>1. IsPlan(plan)
    BY WrittenPlansArePlans
  <1>2. ASSUME NEW i \in DOMAIN plan.actions, plan.actions[i].name = "app.open"
        PROVE  plan.actions[i].target \in apps
    BY <1>2, OpeningPlans
  <1>3. Decided(Some(plan)) = Some(DecisionFromPlan(plan))
    BY Options DEF Decided
  <1> HIDE DEF plan
  <1> QED BY <1>1, <1>2, <1>3, PlansFit DEF plan

LEMMA NothingFits == ASSUME NEW apps PROVE Fit(Decided(None), apps)
  BY Options DEF Decided, Fit

(* The searches open no application.                                        *)
LEMMA SearchesFit ==
    ASSUME NEW apps
    PROVE  Fit(SearchDecision, apps) /\ Fit(Decided(FollowupSearch(message, context)), apps)
  <1>1. SearchKey(message, context) \notin {"app_open", "app_open_type"}
    BY DEF SearchKey
  <1>2. NoApp \in Targets
    BY DEF Targets
  <1>3. Fit(Decided(Some(Plan(SearchKey(message, context), NoApp, FALSE))), apps)
    BY <1>1, <1>2, WrittenPlansFit
  <1> QED BY <1>3, NothingFits DEF SearchDecision, BrowserSearch, FollowupSearch

LEMMA MatchingApps ==
    ASSUME context \in TurnContext, NEW text
    PROVE  /\ MatchingApp(text, context) \in Targets
           /\ MatchingApp(text, context) # NoApp => MatchingApp(text, context) = text.app
  BY DEF TurnContext, MatchingApp, Targets

LEMMA OpeningsFit ==
    ASSUME context \in TurnContext, NEW text, NEW apps, text.app \in apps
    PROVE  /\ Fit(Decided(AppOpenForText(text, context)), apps)
           /\ Fit(Decided(ExplicitAppOpen(text, context)), apps)
  <1>1. MatchingApp(text, context) # NoApp =>
          Fit(Decided(AppOpen(MatchingApp(text, context))), apps)
    BY MatchingApps, WrittenPlansFit DEF AppOpen
  <1>2. ExplicitTarget(text, context) # NoApp =>
          Fit(Decided(AppOpen(ExplicitTarget(text, context))), apps)
    BY <1>1 DEF ExplicitTarget
  <1> QED BY <1>1, <1>2, NothingFits DEF AppOpenForText, ExplicitAppOpen

LEMMA TemplatesFit ==
    ASSUME context \in TurnContext, NEW g \in IntentGate, NEW withMessage, NEW apps,
           TemplateKey(g) \in {"app_open", "app_open_type"} => GateApp(g, context) \in apps
    PROVE  Fit(TemplateDecision(g, withMessage), apps)
  <1> DEFINE missing == MissingSlots(g, context)
             options == << Decided(GateTemplate(g, context)),
                IF withMessage /\ missing = {"query"} THEN SearchDecision ELSE None,
                IF missing # {} THEN Some(Invalid(FALSE, {"missing_template_slot"})) ELSE None >>
  <1>1. GateApp(g, context) \in Targets
    BY DEF GateApp, IntentGate, TurnContext, Targets
  <1>2. Fit(options[1], apps)
    BY <1>1, WrittenPlansFit, NothingFits DEF GateTemplate
  <1>3. Fit(options[2], apps)
    BY SearchesFit, AnswersFit
  <1>4. Fit(options[3], apps)
    BY InvalidsFit, AnswersFit
  <1>5. DOMAIN options = 1..3
    OBVIOUS
  <1>6. TemplateDecision(g, withMessage) = FirstOf(options)
    BY DEF TemplateDecision
  <1> HIDE DEF options
  <1>7. \A i \in DOMAIN options : Fit(options[i], apps)
    BY <1>2, <1>3, <1>4, <1>5
  <1> QED BY <1>5, <1>6, <1>7, FirstFits

-----------------------------------------------------------------------------
(* The decisions a turn writes itself.                                      *)

FitActions(actions, apps) ==
  \A i \in DOMAIN actions : Sound(actions[i]) /\ (Opens(actions[i]) => actions[i].target \in apps)

Local(option, apps) == option.some => FitActions(option.of, apps)

LEMMA NoLocal == ASSUME NEW apps PROVE Local(None, apps)
  BY Options DEF Local

LEMMA FirstLocal ==
    ASSUME NEW options, DOMAIN options \subseteq Nat, NEW apps,
           \A i \in DOMAIN options : Local(options[i], apps)
    PROVE  Local(FirstOf(options), apps)
  BY FirstOfIs, Options DEF Local

LEMMA OneLocal ==
    ASSUME NEW apps, NEW condition, NEW type, NEW command,
           type \in {"browser_control", "browser", "open_url", "terminal", "todo", "file_read"}
    PROVE  Local(When(condition, type, command), apps)
  <1> DEFINE a == LocalAction(type, command)
  <1>1. a.type = type /\ a.command = command /\ a.target = NoApp /\ a.confirm = (type = "terminal")
    BY DEF LocalAction
  <1>2. Sound(a) /\ ~Opens(a)
    BY <1>1, RiskyList DEF Sound, Safe, Opens, Targets
  <1>3. When(condition, type, command) \in {Some(<<a>>), None}
    BY DEF When
  <1> HIDE DEF a
  <1>4. FitActions(<<a>>, apps)
    BY <1>2 DEF FitActions
  <1> QED BY <1>3, <1>4, Options DEF Local

LEMMA AdaptedLocal ==
    ASSUME context \in TurnContext, NEW app \in Targets, NEW apps, app \in apps
    PROVE  Local(AdaptedPlan(AppOpen(app), context), apps)
  <1> DEFINE copied == FALSE
             plan == Plan("app_open", app, copied)
             actions == AdaptedActions(plan)
  <1>1. AppOpen(app) = Some(plan)
    BY DEF AppOpen
  <1> HIDE DEF copied
  <1>2. IsPlan(plan) /\ plan.mode # "no_action"
    BY WrittenPlansArePlans
  <1>3. ASSUME NEW i \in DOMAIN plan.actions, plan.actions[i].name = "app.open"
        PROVE  plan.actions[i].target = app
    BY <1>3, OpeningPlans
  <1> HIDE DEF plan
  <1>4. /\ DOMAIN actions = DOMAIN plan.actions
        /\ \A i \in DOMAIN plan.actions : actions[i] = Adapted(Normalized(plan.actions[i]))
    BY DEF AdaptedActions
  <1>5. CASE AdaptIssues(plan, context) = {}
    <2>1. ASSUME NEW i \in DOMAIN plan.actions
          PROVE  Sound(actions[i]) /\ (Opens(actions[i]) => actions[i].target = app)
      <3>1. IsAction(plan.actions[i]) /\ Adaptable(plan.actions[i])
        BY <1>2, <1>5, NothingWrong DEF IsPlan
      <3> QED BY <1>3, <1>4, <3>1, AdaptedSafely
    <2>2. AdaptedPlan(AppOpen(app), context) = Some(actions)
      BY <1>1, <1>5, Options DEF AdaptedPlan
    <2> HIDE DEF actions
    <2> QED BY <1>4, <2>1, <2>2, Options DEF Local, FitActions
  <1>6. CASE AdaptIssues(plan, context) # {}
    BY <1>1, <1>6, NoLocal, Options DEF AdaptedPlan
  <1> QED BY <1>5, <1>6

LEMMA OpeningLocal ==
    ASSUME context \in TurnContext, NEW apps, message.app \in apps
    PROVE  /\ Local(LocalAppOpen(message, context), apps)
           /\ Local(LocalAppOpenType(message, context), apps)
  <1> DEFINE app == MatchingApp(message, context)
             options == << AdaptedPlan(ExplicitAppOpen(message, context), context),
                           AdaptedPlan(AppOpenForText(message, context), context) >>
             typing == << OpenAction(app), LocalAction("keyboard_type", "none") >>
  <1>1. app \in Targets /\ (app # NoApp => app = message.app)
    BY MatchingApps
  <1>2. app # NoApp => Local(AdaptedPlan(AppOpen(app), context), apps)
    BY <1>1, AdaptedLocal
  <1>3. Local(AdaptedPlan(None, context), apps)
    BY NoLocal, Options DEF AdaptedPlan
  <1>4. /\ AppOpenForText(message, context) \in {AppOpen(app), None}
        /\ ExplicitAppOpen(message, context) \in {AppOpen(app), None}
        /\ AppOpenForText(message, context).some => app # NoApp
        /\ ExplicitAppOpen(message, context).some => app # NoApp
    BY Options DEF AppOpenForText, ExplicitAppOpen, ExplicitTarget
  <1>5. AppOpen(app).some
    BY Options DEF AppOpen
  <1> HIDE DEF app
  <1>6. Local(options[1], apps) /\ Local(options[2], apps) /\ DOMAIN options = 1..2
    BY <1>2, <1>3, <1>4, <1>5
  <1>7. LocalAppOpen(message, context) \in {FirstOf(options), None}
    BY DEF LocalAppOpen
  <1> HIDE DEF options
  <1>8. Local(LocalAppOpen(message, context), apps)
    <2>1. \A i \in DOMAIN options : Local(options[i], apps)
      BY <1>6
    <2> QED BY <1>6, <1>7, <2>1, FirstLocal, NoLocal
  <1>9. LocalAppOpenType(message, context) \in {Some(typing), None}
        /\ (LocalAppOpenType(message, context) # None => app # NoApp)
    BY <1>4 DEF LocalAppOpenType, app
  <1>10. ASSUME app # NoApp PROVE FitActions(typing, apps)
    <2>1. /\ OpenAction(app).type = "app_control" /\ OpenAction(app).target = app
          /\ OpenAction(app).confirm = FALSE /\ OpenAction(app).command = "open"
      BY DEF OpenAction, LocalAction
    <2>2. Sound(OpenAction(app)) /\ OpenAction(app).target \in apps
      BY <1>1, <1>10, <2>1, RiskyList DEF Sound, Safe
    <2>3. Sound(LocalAction("keyboard_type", "none")) /\ ~Opens(LocalAction("keyboard_type", "none"))
      BY RiskyList DEF LocalAction, Sound, Safe, Opens, Targets
    <2> QED BY <2>2, <2>3 DEF FitActions
  <1> QED BY <1>8, <1>9, <1>10, NoLocal, Options DEF Local

LEMMA WrittenDecisionsFit ==
    ASSUME context \in TurnContext, NEW apps, message.app \in apps,
           LocalDecision(message, context).some
    PROVE  Fit(Some(Direct(LocalDecision(message, context).of)), apps)
  <1> DEFINE m == message
             ctx == context
             written == LocalDecision(message, context)
             selects == /\ AsksForResult(m)
                        /\ LocalSupports(ctx, {"browser.select_result", "browser_control", "browser"})
             searches == /\ HasSearchQuery(m, ctx)
                         /\ LocalSupports(ctx, {"open_url", "browser.search", "browser.navigate",
                                                "browser"})
             options == <<
    LocalAppOpenType(m, ctx),
    LocalAppOpen(m, ctx),
    When(selects, "browser_control", "select_result"),
    When(AsksForBrowserOnly(m) /\ LocalSupports(ctx, {"browser.open", "browser"}), "browser", "open"),
    When(AsksToCloseTab(m) /\ LocalSupports(ctx, {"browser.close_tab", "browser_control", "browser"}),
         "browser_control", "close_tab"),
    When(AsksForUrl(m) /\ LocalSupports(ctx, {"open_url", "browser.navigate"}), "open_url", "none"),
    When(searches, "open_url", "none"),
    When(HasTerminalCommand(m, ctx) /\ ctx.terminal, "terminal", "execute"),
    When(AsksToDeleteTodo(m), "todo", "delete"),
    When(AsksToCreateTodo(m), "todo", "create"),
    When(AsksToListTodos(m), "todo", "list"),
    When(AsksForBrowser(m) /\ LocalSupports(ctx, {"browser.open", "browser"}), "browser", "open"),
    When(AsksForDownloads(m) /\ LocalSupports(ctx, {"file.read", "file_read"}), "file_read", "none") >>
  <1>1. written \in {FirstOf(options), None}
    BY DEF LocalDecision
  <1> HIDE DEF selects, searches
  <1>2. DOMAIN options = 1..13
    OBVIOUS
  <1>3. /\ Local(options[1], apps) /\ Local(options[2], apps)
    BY OpeningLocal
  <1>4. Local(options[3], apps)
    BY OneLocal
  <1>5. Local(options[4], apps)
    BY OneLocal
  <1>6. Local(options[5], apps)
    BY OneLocal
  <1>7. Local(options[6], apps)
    BY OneLocal
  <1>8. Local(options[7], apps)
    BY OneLocal
  <1>9. Local(options[8], apps)
    BY OneLocal
  <1>10. Local(options[9], apps)
    BY OneLocal
  <1>11. Local(options[10], apps)
    BY OneLocal
  <1>12. Local(options[11], apps)
    BY OneLocal
  <1>13. Local(options[12], apps)
    BY OneLocal
  <1>14. Local(options[13], apps)
    BY OneLocal
  <1> HIDE DEF options
  <1>15. \A i \in 1..13 : i \in {1, 2, 3, 4, 5, 6, 7, 8, 9, 10, 11, 12, 13}
    OBVIOUS
  <1>16. \A i \in DOMAIN options : Local(options[i], apps)
    BY <1>2, <1>3, <1>4, <1>5, <1>6, <1>7, <1>8, <1>9, <1>10, <1>11, <1>12, <1>13, <1>14, <1>15
  <1>17. Local(written, apps)
    BY <1>1, <1>2, <1>16, FirstLocal, NoLocal
  <1> HIDE DEF written
  <1>18. FitActions(written.of, apps)
    BY <1>17 DEF Local, written
  <1> DEFINE d == Direct(written.of)
  <1>19. /\ d.act = TRUE /\ d.mode \in {"direct", "direct_sequence"} /\ d.actions = written.of
        /\ d.steps = <<>>
    BY DEF Direct, Answer
  <1> HIDE DEF d
  <1>20. WellMade(d)
    <2>1. \A i \in DOMAIN d.actions : Sound(d.actions[i])
      BY <1>18, <1>19 DEF FitActions
    <2>2. d.mode \in Modes /\ d.act \in BOOLEAN
      BY <1>19 DEF Modes
    <2>3. DOMAIN d.steps = {}
      BY <1>19
    <2> QED BY <2>1, <2>2, <2>3 DEF WellMade
  <1>21. OpensOnly(d, apps)
    BY <1>18, <1>19 DEF OpensOnly, FitActions
  <1> QED BY <1>20, <1>21, Options DEF Fit, written, d

-----------------------------------------------------------------------------
(* What a gate leads to.                                                    *)

(* The applications that may be opened before a plan is asked for.          *)
Allowed(g) ==
  {app \in Targets :
     \/ app = message.app
     \/ Followup /\ app = context.active
     \/ context.fresh /\ g.some /\ "query" \in g.of.slots /\ app = g.of.app}

InputsOK == message \in Utterance /\ context \in TurnContext

GateOK(g) == g = None \/ (g.some /\ g.of \in IntentGate)

(* A plan is asked for only when no application is to be opened by a        *)
(* template: those of a grounded gate are written, the others are repaired. *)
NotAnOpening(g) == g.some /\ g.of.act => TemplateKey(g.of) \notin {"app_open", "app_open_type"}

LEMMA Decides ==
    ASSUME NEW d
    PROVE  /\ Decide(d).decision = d /\ Decide(d).asking \in {"core", "done"}
           /\ Decide(d).asking = "core" => via = "turn" /\ setting.core
  BY DEF Decide

LEMMA Asks == ASSUME NEW why, NEW d PROVE Ask(why, d).asking = why /\ Ask(why, d).decision = d
  BY DEF Ask

LEMMA FirstOfTwo ==
    ASSUME NEW a, NEW b, NEW apps, Fit(a, apps), Fit(b, apps)
    PROVE  Fit(FirstOf(<<a, b>>), apps)
  <1>1. DOMAIN <<a, b>> = 1..2 /\ \A i \in 1..2 : Fit(<<a, b>>[i], apps)
    OBVIOUS
  <1> QED BY <1>1, FirstFits

LEMMA FirstOfFour ==
    ASSUME NEW a, NEW b, NEW c, NEW d, NEW apps,
           Fit(a, apps), Fit(b, apps), Fit(c, apps), Fit(d, apps)
    PROVE  Fit(FirstOf(<<a, b, c, d>>), apps)
  <1>1. DOMAIN <<a, b, c, d>> = 1..4 /\ \A i \in 1..4 : Fit(<<a, b, c, d>>[i], apps)
    OBVIOUS
  <1> QED BY <1>1, FirstFits

(* A gate that names a template is always answered by it or by what is      *)
(* missing from it.                                                         *)
LEMMA TemplatesAnswer ==
    ASSUME NEW g, TemplateKey(g) # "none", NEW withMessage
    PROVE  TemplateDecision(g, withMessage).some
  <1> DEFINE missing == MissingSlots(g, context)
             options == << Decided(GateTemplate(g, context)),
                IF withMessage /\ missing = {"query"} THEN SearchDecision ELSE None,
                IF missing # {} THEN Some(Invalid(FALSE, {"missing_template_slot"})) ELSE None >>
  <1>1. TemplateDecision(g, withMessage) = FirstOf(options) /\ DOMAIN options = 1..3
    BY DEF TemplateDecision
  <1>2. CASE missing = {}
    <2>1. options[1].some
      BY <1>2, Options DEF GateTemplate, Decided
    <2> HIDE DEF options
    <2> QED BY <1>1, <2>1, FirstOfIs
  <1>3. CASE missing # {}
    <2>1. options[3].some
      BY <1>3, Options
    <2> HIDE DEF options
    <2> QED BY <1>1, <2>1, FirstOfIs
  <1> QED BY <1>2, <1>3

LEMMA MessageAllowed == ASSUME InputsOK, NEW g PROVE message.app \in Allowed(g)
  BY DEF InputsOK, Utterance, Allowed, Targets

LEMMA PreferencesFit ==
    ASSUME InputsOK, NEW g, GateOK(g), g.some
    PROVE  Fit(Decided(AppPreference(g.of, context)), Allowed(g))
  <1> DEFINE text == [app |-> g.of.app, words |-> {}]
  <1>1. CASE AppPreference(g.of, context) = None
    BY <1>1, NothingFits
  <1>2. CASE AppPreference(g.of, context) # None
    <2>1. /\ context.fresh /\ "query" \in g.of.slots
          /\ AppPreference(g.of, context) = AppOpenForText(text, context)
      BY <1>2 DEF AppPreference
    <2>2. g.of.app \in Targets
      BY Options DEF GateOK, IntentGate, Targets
    <2>3. text.app = g.of.app /\ g.of.app \in Allowed(g)
      BY <2>1, <2>2 DEF Allowed
    <2> HIDE DEF text
    <2> QED BY <2>1, <2>3, OpeningsFit DEF InputsOK
  <1> QED BY <1>1, <1>2

LEMMA GroundedFit ==
    ASSUME InputsOK, NEW g, GateOK(g), g.some, Grounded(g.of), NEW withMessage
    PROVE  Fit(TemplateDecision(g.of, withMessage), Allowed(g))
  <1>1. g.of \in IntentGate
    BY Options DEF GateOK
  <1>2. GateApp(g.of, context) \in Targets
    BY <1>1 DEF InputsOK, GateApp, IntentGate, TurnContext, Targets
  <1>3. ASSUME TemplateKey(g.of) \in {"app_open", "app_open_type"}
        PROVE  GateApp(g.of, context) \in Allowed(g)
    BY <1>2, <1>3 DEF Grounded, GateApp, Allowed
  <1> QED BY <1>1, <1>3, TemplatesFit DEF InputsOK

LEMMA UnrepairedFit ==
    ASSUME NEW g, NEW apps
    PROVE  /\ Fit(Unrepaired(g).decision, apps) /\ Unrepaired(g).asking \in {"core", "done"}
           /\ Unrepaired(g).asking = "core" => via = "turn" /\ setting.core
  <1> DEFINE first == IF UngroundedApp(g) THEN SearchDecision ELSE None
             d == FirstOf(<<first, Some(Invalid(TRUE, {}))>>)
  <1>1. Fit(first, apps)
    BY SearchesFit, AnswersFit
  <1>2. Fit(Some(Invalid(TRUE, {})), apps)
    BY InvalidsFit
  <1> HIDE DEF first
  <1>3. Fit(d, apps)
    BY <1>1, <1>2, FirstOfTwo
  <1>4. Unrepaired(g) = Decide(d)
    BY DEF Unrepaired, first
  <1> HIDE DEF d
  <1> QED BY <1>3, <1>4, Decides

(* What next leads to, when only apps may be opened.                        *)
Leads(next, g, apps) ==
  /\ Fit(next.decision, apps)
  /\ next.asking \in {"plan", "repair", "core", "done"}
  /\ next.asking = "core" => via = "turn" /\ setting.core
  /\ next.asking = "plan" => NotAnOpening(g)
  /\ next.asking = "repair" => g.some

LEMMA DecisionsLead ==
    ASSUME NEW d, NEW g, NEW apps, Fit(d, apps)
    PROVE  Leads(Decide(d), g, apps)
  BY Decides DEF Leads

LEMMA PlansLead ==
    ASSUME NEW g, NEW apps, NotAnOpening(g)
    PROVE  Leads(Ask("plan", None), g, apps)
  BY Asks, AnswersFit DEF Leads

LEMMA ActGatesLead ==
    ASSUME InputsOK, NEW g, GateOK(g), g.some
    PROVE  Leads(AfterActGate(g.of), g, Allowed(g))
  <1> DEFINE preference == Decided(AppPreference(g.of, context))
             trusted == IF Grounded(g.of) THEN TemplateDecision(g.of, TRUE) ELSE None
             apps == Allowed(g)
  <1>1. Fit(preference, apps)
    BY PreferencesFit
  <1>2. Fit(trusted, apps)
    BY GroundedFit, AnswersFit
  <1>3. Fit(FirstOf(<<preference, trusted>>), apps)
    BY <1>1, <1>2, FirstOfTwo
  <1>4. ASSUME ~trusted.some, ~UngroundedApp(g.of) PROVE NotAnOpening(g)
    <2>1. ASSUME TemplateKey(g.of) \in {"app_open", "app_open_type"} PROVE FALSE
      <3>1. Grounded(g.of)
        BY <1>4, <2>1 DEF UngroundedApp
      <3> QED BY <1>4, <2>1, <3>1, TemplatesAnswer
    <2> QED BY <2>1 DEF NotAnOpening
  <1>5. \/ AfterActGate(g.of) = Decide(FirstOf(<<preference, trusted>>))
        \/ AfterActGate(g.of) = Ask("repair", None)
        \/ AfterActGate(g.of) = Unrepaired(g.of)
        \/ AfterActGate(g.of) = Decide(SearchDecision)
        \/ /\ ~trusted.some /\ ~UngroundedApp(g.of)
           /\ AfterActGate(g.of) = Ask("plan", None)
    BY DEF AfterActGate
  <1> HIDE DEF preference, trusted, apps
  <1>6. Leads(Ask("repair", None), g, apps)
    BY Asks, AnswersFit DEF Leads
  <1>7. Leads(Unrepaired(g.of), g, apps)
    BY UnrepairedFit DEF Leads
  <1>8. Leads(Decide(SearchDecision), g, apps)
    BY SearchesFit, DecisionsLead
  <1>9. Leads(Decide(FirstOf(<<preference, trusted>>)), g, apps)
    BY <1>3, DecisionsLead
  <1>10. ~trusted.some /\ ~UngroundedApp(g.of) => Leads(Ask("plan", None), g, apps)
    BY <1>4, PlansLead
  <1> QED BY <1>5, <1>6, <1>7, <1>8, <1>9, <1>10 DEF apps

LEMMA UnsureGatesLead ==
    ASSUME InputsOK, NEW g, GateOK(g), g.some, ~g.of.act
    PROVE  Leads(AfterUnsureGate(g.of), g, Allowed(g))
  <1> DEFINE opening == Decided(AppOpenForText(message, context))
             search == Decided(FollowupSearch(message, context))
             named == FirstOf(<<opening, search>>)
             apps == Allowed(g)
  <1>1. Fit(opening, apps)
    BY MessageAllowed, OpeningsFit DEF InputsOK
  <1>2. Fit(search, apps)
    BY SearchesFit
  <1>3. Fit(named, apps)
    BY <1>1, <1>2, FirstOfTwo
  <1>4. AfterUnsureGate(g.of) \in {Decide(named), Decide(SearchDecision), Decide(Some(Answer)),
                                  Ask("plan", None)}
    BY DEF AfterUnsureGate
  <1> HIDE DEF named, apps
  <1>5. Leads(Decide(named), g, apps)
    BY <1>3, DecisionsLead
  <1>6. Leads(Decide(SearchDecision), g, apps)
    BY SearchesFit, DecisionsLead
  <1>7. Leads(Decide(Some(Answer)), g, apps)
    BY AnswersFit, DecisionsLead
  <1>8. Leads(Ask("plan", None), g, apps)
    BY PlansLead DEF NotAnOpening
  <1> QED BY <1>4, <1>5, <1>6, <1>7, <1>8 DEF apps

LEMMA GatesLead ==
    ASSUME InputsOK, NEW g, GateOK(g)
    PROVE  Leads(AfterGate(g), g, Allowed(g))
  <1> DEFINE explicit == Decided(ExplicitAppOpen(message, context))
             opening == Decided(AppOpenForText(message, context))
             search == Decided(FollowupSearch(message, context))
             first == FirstOf(<<SearchDecision, opening, search, Some(Answer)>>)
             apps == Allowed(g)
  <1>1. Fit(explicit, apps) /\ Fit(opening, apps)
    BY MessageAllowed, OpeningsFit DEF InputsOK
  <1>2. Fit(search, apps) /\ Fit(SearchDecision, apps)
    BY SearchesFit
  <1>3. Fit(Some(Answer), apps) /\ Fit(None, apps)
    BY AnswersFit
  <1>4. Fit(first, apps)
    BY <1>1, <1>2, <1>3, FirstOfFour
  <1>5. \/ AfterGate(g) \in {Decide(explicit), Decide(first), Decide(SearchDecision), Decide(None)}
        \/ g.some /\ AfterGate(g) = AfterActGate(g.of)
        \/ g.some /\ ~g.of.act /\ AfterGate(g) = AfterUnsureGate(g.of)
        \/ ~(g.some /\ g.of.act) /\ AfterGate(g) = Ask("plan", None)
    BY DEF AfterGate
  <1> HIDE DEF explicit, first, apps
  <1>6. /\ Leads(Decide(explicit), g, apps) /\ Leads(Decide(first), g, apps)
        /\ Leads(Decide(SearchDecision), g, apps) /\ Leads(Decide(None), g, apps)
    BY <1>1, <1>2, <1>3, <1>4, DecisionsLead
  <1>7. g.some => Leads(AfterActGate(g.of), g, apps)
    BY ActGatesLead DEF apps
  <1>8. g.some /\ ~g.of.act => Leads(AfterUnsureGate(g.of), g, apps)
    BY UnsureGatesLead DEF apps
  <1>9. ~(g.some /\ g.of.act) => Leads(Ask("plan", None), g, apps)
    BY PlansLead DEF NotAnOpening
  <1> QED BY <1>5, <1>6, <1>7, <1>8, <1>9 DEF apps

-----------------------------------------------------------------------------
(* What a plan leads to.                                                    *)

LEMMA InOrderItself ==
    ASSUME NEW steps, DOMAIN steps \subseteq Nat,
           NEW names, DOMAIN names = DOMAIN steps, \A i \in DOMAIN steps : names[i] = steps[i]
    PROVE  InOrder(steps, names)
  <1> DEFINE at == [i \in DOMAIN steps |-> i]
  <1>1. at \in [DOMAIN steps -> DOMAIN names]
    OBVIOUS
  <1>2. \A i \in DOMAIN steps : names[at[i]] = steps[i]
    OBVIOUS
  <1>3. \A i, j \in DOMAIN steps : i < j => at[i] < at[j]
    OBVIOUS
  <1> HIDE DEF at
  <1> QED BY <1>1, <1>2, <1>3 DEF InOrder

LEMMA StepsAreTuples ==
    ASSUME NEW key
    PROVE  DOMAIN Steps(key) \subseteq Nat /\ (key = "none" => Len(Steps(key)) = 0)
  BY DEF Steps

LEMMA GateTemplatesFit ==
    ASSUME InputsOK, NEW g, GateOK(g)
    PROVE  Fit(TemplateOf(g), Targets)
  <1>1. CASE SureToAct(g)
    <2>1. g.of \in IntentGate
      BY <1>1, Options DEF SureToAct, Sure, GateOK
    <2>2. GateApp(g.of, context) \in Targets
      BY <2>1 DEF InputsOK, GateApp, IntentGate, TurnContext, Targets
    <2>3. Fit(TemplateDecision(g.of, FALSE), Targets)
      BY <2>1, <2>2, TemplatesFit DEF InputsOK
    <2> QED BY <1>1, <2>3 DEF TemplateOf
  <1>2. CASE ~SureToAct(g)
    BY <1>2, AnswersFit DEF TemplateOf
  <1> QED BY <1>1, <1>2

Sequel(g) == SureToAct(g) /\ Len(Steps(TemplateKey(g.of))) >= 2

(* A template of several steps is there when it is asked for, and has them. *)
LEMMA GateTemplatesKept ==
    ASSUME InputsOK, NEW g, GateOK(g), Sequel(g)
    PROVE  /\ TemplateOf(g).some
           /\ TemplateOf(g).of.act => InOrder(Steps(TemplateKey(g.of)), TemplateOf(g).of.steps)
  <1> DEFINE key == TemplateKey(g.of)
             app == GateApp(g.of, context)
             copied == g.of.copied
             plan == Plan(key, app, copied)
             missing == MissingSlots(g.of, context)
             options == << Decided(GateTemplate(g.of, context)),
                IF FALSE /\ missing = {"query"} THEN SearchDecision ELSE None,
                IF missing # {} THEN Some(Invalid(FALSE, {"missing_template_slot"})) ELSE None >>
  <1>1. g.of \in IntentGate /\ app \in Targets
    BY Options DEF Sequel, SureToAct, Sure, GateOK, InputsOK, GateApp, IntentGate, TurnContext, Targets
  <1>2. key # "none"
    BY StepsAreTuples DEF Sequel
  <1>3. TemplateOf(g) = TemplateDecision(g.of, FALSE) /\ TemplateOf(g).some
    BY <1>2, TemplatesAnswer DEF TemplateOf, Sequel
  <1>4. TemplateOf(g) = FirstOf(options) /\ DOMAIN options = 1..3
    BY <1>3 DEF TemplateDecision
  <1>5. options[1] \in {Decided(Some(plan)), Decided(None)}
    BY DEF GateTemplate
  <1>6. options[2] = None /\ options[3] \in {Some(Invalid(FALSE, {"missing_template_slot"})), None}
    OBVIOUS
  <1> HIDE DEF options
  <1>7. ASSUME TemplateOf(g).of.act PROVE InOrder(Steps(key), TemplateOf(g).of.steps)
    <2> DEFINE invalid == Invalid(FALSE, {"missing_template_slot"})
    <2>1. PICK i \in DOMAIN options : options[i].some /\ FirstOf(options) = options[i]
      <3>1. DOMAIN options \subseteq Nat
        BY <1>4
      <3>2. FirstOf(options) # None
        BY <1>3, <1>4, Options
      <3> QED BY <3>1, <3>2, FirstOfIs
    <2>2. i # 2
      BY <1>6, <2>1, Options
    <2>3. i # 3
      <3>1. ~invalid.act
        BY DEF Invalid, Answer
      <3>2. options[3] \in {Some(invalid), None}
        BY <1>6
      <3> HIDE DEF invalid
      <3> QED BY <1>4, <1>7, <2>1, <3>1, <3>2, Options
    <2>4. TemplateOf(g) = Decided(Some(plan))
      BY <1>4, <1>5, <2>1, <2>2, <2>3, Options DEF Decided
    <2>5. TemplateOf(g).of = DecisionFromPlan(plan)
      BY <2>4, Options DEF Decided
    <2>6. IsPlan(plan) /\ DOMAIN plan.actions = DOMAIN Steps(key)
      BY <1>1, WrittenPlansArePlans
    <2>7. \A i_1 \in DOMAIN plan.actions : plan.actions[i_1].name = Steps(key)[i_1]
      BY <1>1, WrittenPlansArePlans
    <2> HIDE DEF plan
    <2>8. TemplateOf(g).of.steps = [k \in DOMAIN plan.actions |-> plan.actions[k].name]
      BY <1>7, <2>5, <2>6, PlansMakeDecisions
    <2> QED BY <2>6, <2>7, <2>8, StepsAreTuples, InOrderItself
  <1> QED BY <1>3, <1>7

(* What next, with left retries, leads to.                                  *)
Answered(next, left) ==
  /\ Fit(next.decision, Targets)
  /\ next.asking \in {"core", "done"} \cup CountedCalls
  /\ next.asking = "core" => via = "turn" /\ setting.core
  /\ next.asking \in CountedCalls => left > 0
  /\ next.asking = "invalid" => next.decision.some /\ next.decision.of.errors # {}

(* All steps a sure gate asked for are in a decision that acts.             *)
Kept(next, g) ==
  /\ next.asking = "done" /\ Sequel(g) /\ next.decision # SearchDecision
  /\ next.decision.some /\ next.decision.of.act
  => InOrder(Steps(TemplateKey(g.of)), next.decision.of.steps)

LEMMA DecisionsAnswer ==
    ASSUME NEW d, Fit(d, Targets), NEW left
    PROVE  Answered(Decide(d), left)
  BY Decides DEF Answered, CountedCalls

LEMMA QuestionsAnswer ==
    ASSUME NEW why \in CountedCalls \ {"invalid"}, NEW left \in Nat, left > 0, NEW g
    PROVE  Answered(Ask(why, None), left) /\ Kept(Ask(why, None), g)
  BY Asks, AnswersFit, Options DEF Answered, Kept, CountedCalls

LEMMA TemplatesKept ==
    ASSUME InputsOK, NEW g, GateOK(g), NEW left
    PROVE  Answered(Decide(TemplateOf(g)), left) /\ Kept(Decide(TemplateOf(g)), g)
  BY DecisionsAnswer, GateTemplatesFit, GateTemplatesKept, Decides DEF Kept

LEMMA FinalAnswers ==
    ASSUME NEW plan, IsPlan(plan), NEW left \in Nat
    PROVE  Answered(Final(plan, left), left)
  <1> DEFINE d == DecisionFromPlan(plan)
  <1>1. Fit(Some(d), Targets)
    BY PlansFit DEF IsPlan, IsAction
  <1>2. \/ Final(plan, left) = Decide(Some(d))
        \/ d.errors # {} /\ left > 0 /\ Final(plan, left) = Ask("invalid", Some(d))
    BY DEF Final
  <1> HIDE DEF d
  <1>3. Answered(Decide(Some(d)), left)
    BY <1>1, DecisionsAnswer
  <1>4. d.errors # {} /\ left > 0 => Answered(Ask("invalid", Some(d)), left)
    BY <1>1, Asks, Options DEF Answered, CountedCalls
  <1> QED BY <1>2, <1>3, <1>4

LEMMA SettledAnswers ==
    ASSUME InputsOK, NEW g, GateOK(g), NEW plan, IsPlan(plan), NEW left \in Nat
    PROVE  Answered(Settled(g, plan, left), left) /\ Kept(Settled(g, plan, left), g)
  <1>1. CASE Incomplete(g, plan) /\ TemplateOf(g).some
    BY <1>1, TemplatesKept DEF Settled
  <1>2. CASE ~(Incomplete(g, plan) /\ TemplateOf(g).some)
    <2> DEFINE d == DecisionFromPlan(plan)
    <2>1. Settled(g, plan, left) = Final(plan, left)
      BY <1>2 DEF Settled
    <2>2. ASSUME Sequel(g), d.act PROVE InOrder(Steps(TemplateKey(g.of)), d.steps)
      <3>1. ~Incomplete(g, plan)
        BY <1>2, <2>2, GateTemplatesKept
      <3>2. plan.mode # "no_action" /\ d.steps = [i \in DOMAIN plan.actions |-> plan.actions[i].name]
        BY <2>2, PlansMakeDecisions
      <3> QED BY <2>2, <3>1, <3>2 DEF Incomplete, Sequel
    <2>3. Final(plan, left) \in {Decide(Some(d)), Ask("invalid", Some(d))}
      BY DEF Final
    <2> HIDE DEF d
    <2>4. Kept(Final(plan, left), g)
      BY <2>2, <2>3, Decides, Asks, Options DEF Kept
    <2> QED BY <2>1, <2>4, FinalAnswers
  <1> QED BY <1>1, <1>2

LEMMA CompleteAnswers ==
    ASSUME InputsOK, NEW g, GateOK(g), NEW plan, IsPlan(plan), NEW left \in Nat
    PROVE  /\ Answered(CheckTarget(g, plan, left), left) /\ Kept(CheckTarget(g, plan, left), g)
           /\ Answered(CheckComplete(g, plan, left), left) /\ Kept(CheckComplete(g, plan, left), g)
  <1>1. "lost_target" \in CountedCalls \ {"invalid"} /\ "incomplete" \in CountedCalls \ {"invalid"}
    BY DEF CountedCalls
  <1>2. Answered(CheckTarget(g, plan, left), left) /\ Kept(CheckTarget(g, plan, left), g)
    BY <1>1, SettledAnswers, QuestionsAnswer DEF CheckTarget
  <1>3. Answered(CheckComplete(g, plan, left), left) /\ Kept(CheckComplete(g, plan, left), g)
    BY <1>1, <1>2, QuestionsAnswer DEF CheckComplete
  <1> QED BY <1>2, <1>3

(* A gate whose text is a copy of what was typed last never gets this far.  *)
LEMMA NothingCopied ==
    ASSUME NEW g, NotAnOpening(g), NEW plan, Denies(g, plan)
    PROVE  ~GateCopies(g.of)
  BY DEF Denies, SureToAct, Sure, NotAnOpening, GateCopies

LEMMA DeniedAnswers ==
    ASSUME InputsOK, NEW g, GateOK(g), NotAnOpening(g), NEW plan, IsPlan(plan), NEW left \in Nat
    PROVE  Answered(CheckDenied(g, plan, left), left) /\ Kept(CheckDenied(g, plan, left), g)
  <1>1. \/ CheckDenied(g, plan, left) = Decide(TemplateOf(g))
        \/ CheckDenied(g, plan, left) = CheckComplete(g, plan, left)
    BY NothingCopied DEF CheckDenied
  <1> QED BY <1>1, TemplatesKept, CompleteAnswers

LEMMA FirstAnswers ==
    ASSUME InputsOK, NEW g, GateOK(g), NotAnOpening(g), NEW plan, IsPlan(plan), NEW left \in Nat
    PROVE  Answered(CheckFirst(g, plan, left), left) /\ Kept(CheckFirst(g, plan, left), g)
  <1> DEFINE template == IF Followup THEN TemplateOf(g) ELSE None
             first == CheckFirst(g, plan, left)
  <1>1. template \in {TemplateOf(g), None}
    OBVIOUS
  <1>2. CASE Denies(g, plan) /\ left > 0
    <2>1. ~GateCopies(g.of)
      BY <1>2, NothingCopied
    <2>2. first = AfterDenial(g)
      BY <1>2 DEF CheckFirst, Denies, SureToAct, Sure
    <2>3. AfterDenial(g) \in {Decide(template), Ask("contradiction", None)}
      BY <2>1 DEF AfterDenial
    <2>4. Answered(Decide(None), left) /\ Kept(Decide(None), g)
      <3>1. Answered(Decide(None), left)
        BY AnswersFit, DecisionsAnswer
      <3>2. Kept(Decide(None), g)
        BY Decides, Options DEF Kept
      <3> QED BY <3>1, <3>2
    <2> HIDE DEF template, first
    <2>5. Answered(Decide(template), left) /\ Kept(Decide(template), g)
      BY <1>1, <2>4, TemplatesKept
    <2>6. "contradiction" \in CountedCalls \ {"invalid"}
      BY DEF CountedCalls
    <2>7. Answered(Ask("contradiction", None), left) /\ Kept(Ask("contradiction", None), g)
      BY <1>2, <2>6, QuestionsAnswer
    <2> QED BY <2>2, <2>3, <2>5, <2>7 DEF first
  <1>3. CASE ~(Denies(g, plan) /\ left > 0)
    <2>1. \/ left > 0 /\ first = Ask("followup", None)
          \/ first = CheckDenied(g, plan, left)
      BY <1>3 DEF CheckFirst
    <2>2. "followup" \in CountedCalls \ {"invalid"}
      BY DEF CountedCalls
    <2> QED BY <2>1, <2>2, DeniedAnswers, QuestionsAnswer
  <1> QED BY <1>2, <1>3

LEMMA PlansAnswer ==
    ASSUME InputsOK, GateOK(gate), NEW plan, IsPlan(plan), NEW left \in Nat,
           NEW why \in PlanCalls \ {"copied"}, why # "repair" => NotAnOpening(gate)
    PROVE  /\ Answered(AfterPlan(why, plan, left), left)
           /\ why \in {"plan", "contradiction", "incomplete"} => Kept(AfterPlan(why, plan, left), gate)
  <1>1. CASE why = "repair"
    <2>1. AfterPlan(why, plan, left) \in {Unrepaired(gate.of), Decide(Some(DecisionFromPlan(plan)))}
      BY <1>1 DEF AfterPlan
    <2>2. Answered(Unrepaired(gate.of), left)
      BY UnrepairedFit DEF Answered, CountedCalls
    <2>3. Fit(Some(DecisionFromPlan(plan)), Targets)
      BY PlansFit DEF IsPlan, IsAction
    <2>4. Answered(Decide(Some(DecisionFromPlan(plan))), left)
      BY <2>3, DecisionsAnswer
    <2> QED BY <1>1, <2>1, <2>2, <2>4
  <1>2. CASE why = "plan"
    <2>1. AfterPlan(why, plan, left) = CheckFirst(gate, plan, left)
      BY <1>2 DEF AfterPlan
    <2> QED BY <1>2, <2>1, FirstAnswers
  <1>3. CASE why \in {"contradiction", "followup"}
    <2>1. AfterPlan(why, plan, left) = CheckDenied(gate, plan, left)
      BY <1>3 DEF AfterPlan
    <2> QED BY <1>3, <2>1, DeniedAnswers
  <1>4. CASE why = "incomplete"
    <2>1. AfterPlan(why, plan, left) \in {Decide(TemplateOf(gate)), CheckTarget(gate, plan, left)}
      BY <1>4 DEF AfterPlan
    <2> QED BY <2>1, TemplatesKept, CompleteAnswers
  <1>5. CASE why \in {"lost_target", "invalid"}
    <2>1. AfterPlan(why, plan, left) = Final(plan, left)
      BY <1>5 DEF AfterPlan
    <2> QED BY <1>5, <2>1, FinalAnswers
  <1> QED BY <1>1, <1>2, <1>3, <1>4, <1>5 DEF PlanCalls

LEMMA NoPlansAnswer ==
    ASSUME NEW why \in PlanCalls, NEW apps, Fit(decision, apps)
    PROVE  /\ Fit(AfterNoPlan(why).decision, apps)
           /\ AfterNoPlan(why).asking \in {"core", "done"}
           /\ AfterNoPlan(why).asking = "core" => via = "turn" /\ setting.core
           /\ why \in {"plan", "contradiction", "incomplete"} => Kept(AfterNoPlan(why), gate)
  <1>1. \/ why = "repair" /\ AfterNoPlan(why) = Unrepaired(gate.of)
        \/ why = "invalid" /\ AfterNoPlan(why) = Decide(decision)
        \/ AfterNoPlan(why) \in {Decide(SearchDecision), Decide(None)}
    BY DEF AfterNoPlan
  <1>2. Kept(Decide(SearchDecision), gate) /\ Kept(Decide(None), gate)
    BY Decides, Options DEF Kept
  <1> QED BY <1>1, <1>2, UnrepairedFit, Decides, SearchesFit, AnswersFit

-----------------------------------------------------------------------------
(* The inductive invariant.                                                 *)

(* What is known of the gate and the decision, whatever is asked next.      *)
MadeInv ==
  /\ InputsOK
  /\ gate = None \/ (gate.some /\ gate.of \in Gates)
  /\ Fit(decision, Targets)
  /\ asking = "invalid" => decision.some /\ decision.of.errors # {}

(* How far the budget is drawn on at each question; the one about a copied  *)
(* text is never asked.                                                     *)
CallsInv ==
  /\ asking \in {"start", "gate", "core", "done"} \cup (PlanCalls \ {"copied"})
  /\ retries \in 0..MaxRetries /\ calls \in Nat
  /\ asking \in {"start", "gate", "plan", "repair"} => calls = 0 /\ retries = MaxRetries
  /\ asking \in CountedCalls => retries > 0 /\ calls =< 1 + MaxRetries - retries
  /\ asking = "core" => via = "turn" /\ setting.core /\ calls =< 1 + MaxRetries
  /\ asking = "done" => PlanCallsBounded
  /\ asking \in CountedCalls \cup {"plan"} => NotAnOpening(gate)

(* Until a plan was asked for, only what is allowed is opened.              *)
MentionInv == calls = 0 => Fit(decision, Allowed(gate))

CompilerInv == MadeInv /\ CallsInv /\ MentionInv

LEMMA GatesAreOK == ASSUME MadeInv PROVE GateOK(gate)
  BY CompilerAssumption DEF MadeInv, GateOK

LEMMA InitMakes == Init => CompilerInv
  <1> SUFFICES ASSUME Init PROVE CompilerInv
    OBVIOUS
  <1>1. MadeInv
    BY CompilerAssumption, AnswersFit DEF Init, MadeInv, InputsOK
  <1>2. CallsInv
    BY CompilerAssumption DEF Init, CallsInv, CountedCalls
  <1>3. MentionInv
    BY AnswersFit DEF Init, MentionInv
  <1> QED BY <1>1, <1>2, <1>3 DEF CompilerInv

(* A step that leaves the inputs alone and whose next decision fits.        *)
LEMMA FitsNext ==
    ASSUME UNCHANGED inputs, NEW apps, Fit(decision', apps)
    PROVE  Fit(decision, apps)'
  BY DEF inputs, Fit, WellMade, OpensOnly

LEMMA AllowedNext ==
    ASSUME UNCHANGED inputs
    PROVE  Allowed(gate)' = Allowed(gate')
  BY DEF inputs, Allowed, Followup

LEMMA FitsTargets == ASSUME NEW d, NEW g, Fit(d, Allowed(g)) PROVE Fit(d, Targets)
  BY DEF Fit, OpensOnly, Allowed

LEMMA StartMakes ==
    ASSUME CompilerInv, Start
    PROVE  CompilerInv'
  <1> DEFINE written == LocalDecision(message, context)
             direct == Some(Direct(written.of))
  <1>1. UNCHANGED inputs /\ gate' = gate /\ retries' = retries /\ calls' = calls
    BY DEF Start
  <1>2. /\ InputsOK /\ retries \in 0..MaxRetries /\ calls = 0 /\ retries = MaxRetries
        /\ Fit(decision, Allowed(gate))
    BY DEF CompilerInv, MadeInv, CallsInv, MentionInv, Start
  <1>3. written.some => Fit(direct, Allowed(gate))
    BY <1>2, MessageAllowed, WrittenDecisionsFit DEF InputsOK
  <1>4. \/ asking' = "gate" /\ decision' = None
        \/ written.some /\ asking' = Decide(direct).asking /\ decision' = Decide(direct).decision
        \/ asking' = "done" /\ decision' = decision
    BY Asks DEF Start, GoTo
  <1> HIDE DEF written, direct
  <1>5. Fit(decision', Allowed(gate)) /\ asking' \in {"gate", "core", "done"}
        /\ (asking' = "core" => via = "turn" /\ setting.core)
    BY <1>2, <1>3, <1>4, Decides, AnswersFit
  <1>6. MentionInv'
    BY <1>1, <1>5, FitsNext, AllowedNext DEF MentionInv
  <1>7. MadeInv'
    <2>1. InputsOK'
      BY <1>1, <1>2 DEF inputs, InputsOK
    <2>2. Fit(decision, Targets)'
      BY <1>1, <1>5, FitsTargets, FitsNext DEF Targets
    <2> QED BY <1>1, <1>5, <2>1, <2>2 DEF CompilerInv, MadeInv
  <1>8. CallsInv'
    BY <1>1, <1>2, <1>5, CompilerAssumption DEF CallsInv, CountedCalls, PlanCallsBounded, inputs
  <1> QED BY <1>6, <1>7, <1>8 DEF CompilerInv

LEMMA AskGateMakes ==
    ASSUME CompilerInv, AskGate
    PROVE  CompilerInv'
  <1>1. UNCHANGED inputs /\ retries' = retries /\ calls' = calls
    BY DEF AskGate
  <1>2. InputsOK /\ retries \in 0..MaxRetries /\ calls = 0 /\ retries = MaxRetries
    BY DEF CompilerInv, MadeInv, CallsInv, AskGate
  <1>3. /\ gate' = None \/ (gate'.some /\ gate'.of \in Gates)
        /\ asking' = AfterGate(gate').asking /\ decision' = AfterGate(gate').decision
    BY Options DEF AskGate, GoTo
  <1>4. GateOK(gate')
    BY <1>3, CompilerAssumption DEF GateOK
  <1>5. Leads(AfterGate(gate'), gate', Allowed(gate'))
    BY <1>2, <1>4, GatesLead
  <1>6. /\ Fit(decision', Allowed(gate')) /\ asking' \in {"plan", "repair", "core", "done"}
        /\ asking' = "core" => via = "turn" /\ setting.core
        /\ asking' = "plan" => NotAnOpening(gate')
    BY <1>3, <1>5 DEF Leads
  <1>7. MentionInv'
    BY <1>1, <1>6, FitsNext, AllowedNext DEF MentionInv
  <1>8. MadeInv'
    <2>1. InputsOK'
      BY <1>1, <1>2 DEF inputs, InputsOK
    <2>2. Fit(decision, Targets)'
      BY <1>1, <1>6, FitsTargets, FitsNext DEF Targets
    <2> QED BY <1>3, <1>6, <2>1, <2>2 DEF MadeInv
  <1>9. NotAnOpening(gate)' <=> NotAnOpening(gate')
    BY DEF NotAnOpening
  <1>10. CallsInv'
    BY <1>1, <1>2, <1>6, <1>9, CompilerAssumption
    DEF CallsInv, CountedCalls, PlanCalls, PlanCallsBounded, inputs
  <1> QED BY <1>7, <1>8, <1>10 DEF CompilerInv

(* What a call of the plan model changes: with a plan, and without.         *)
LEMMA AskPlanCases ==
    ASSUME CompilerInv, AskPlan
    PROVE  LET left == IF asking \in CountedCalls THEN retries - 1 ELSE retries
           IN  \/ /\ asking' = AfterNoPlan(asking).asking /\ decision' = AfterNoPlan(asking).decision
                  /\ retries' = retries /\ calls' \in {calls, calls + 1}
               \/ \E plan :
                    /\ IsPlan(plan) /\ retries' = left /\ calls' = calls + 1
                    /\ asking' = AfterPlan(asking, plan, left).asking
                    /\ decision' = AfterPlan(asking, plan, left).decision
  <1> DEFINE left == IF asking \in CountedCalls THEN retries - 1 ELSE retries
  <1>1. PICK answer \in Answers :
          LET plan == IF setting.enabled THEN ParsePlan(answer) ELSE None
          IN IF plan.some THEN GoTo(AfterPlan(asking, plan.of, left)) /\ retries' = left
             ELSE GoTo(AfterNoPlan(asking)) /\ UNCHANGED retries
    BY DEF AskPlan
  <1>2. calls' = IF setting.enabled THEN calls + 1 ELSE calls
    BY DEF AskPlan
  <1>3. answer \in ModelAnswer
    BY CompilerAssumption
  <1> HIDE DEF left
  <1>4. CASE setting.enabled /\ ParsePlan(answer).some
    <2>1. IsPlan(ParsePlan(answer).of)
      BY <1>3, <1>4, ReadPlansArePlans
    <2> QED BY <1>1, <1>2, <1>4, <2>1 DEF GoTo, left
  <1>5. CASE ~(setting.enabled /\ ParsePlan(answer).some)
    <2>1. GoTo(AfterNoPlan(asking)) /\ retries' = retries
      BY <1>1, <1>5, Options
    <2> QED BY <1>2, <2>1 DEF GoTo
  <1> QED BY <1>4, <1>5

LEMMA AskPlanMakes ==
    ASSUME CompilerInv, AskPlan
    PROVE  CompilerInv'
  <1> DEFINE left == IF asking \in CountedCalls THEN retries - 1 ELSE retries
  <1>1. UNCHANGED inputs /\ gate' = gate /\ asking \in PlanCalls \ {"copied"}
    BY DEF AskPlan, CompilerInv, CallsInv, PlanCalls
  <1>2. InputsOK /\ GateOK(gate)
    BY GatesAreOK DEF CompilerInv, MadeInv
  <1>3. /\ left \in 0..MaxRetries /\ left \in Nat
        /\ calls \in Nat /\ calls + 1 =< 1 + MaxRetries - left /\ calls + 1 =< 1 + MaxRetries
    BY <1>1, CompilerAssumption DEF CompilerInv, CallsInv, CountedCalls, PlanCalls
  <1>4. asking # "repair" => NotAnOpening(gate)
    BY <1>1 DEF CompilerInv, CallsInv, CountedCalls, PlanCalls
  <1>5. InputsOK' /\ (gate' = None \/ (gate'.some /\ gate'.of \in Gates))
    BY <1>1, <1>2 DEF inputs, InputsOK, CompilerInv, MadeInv
  <1>6. NotAnOpening(gate)' <=> NotAnOpening(gate)
    BY <1>1 DEF NotAnOpening
  <1> HIDE DEF left
  <1>7. CASE /\ asking' = AfterNoPlan(asking).asking /\ decision' = AfterNoPlan(asking).decision
             /\ retries' = retries /\ calls' \in {calls, calls + 1}
    <2>1. asking' \in {"core", "done"} /\ (asking' = "core" => via = "turn" /\ setting.core)
      BY <1>1, <1>7, NoPlansAnswer DEF CompilerInv, MadeInv
    <2>2. Fit(decision', Targets)
      BY <1>1, <1>7, NoPlansAnswer DEF CompilerInv, MadeInv
    <2>3. calls' \in Nat /\ calls' =< 1 + MaxRetries /\ retries' \in 0..MaxRetries
      BY <1>3, <1>7, CompilerAssumption DEF CompilerInv, CallsInv
    <2>4. CallsInv'
      <3>1. CASE asking' = "core"
        BY <1>1, <2>1, <2>3, <3>1 DEF CallsInv, CountedCalls, inputs
      <3>2. CASE asking' = "done"
        <4>1. PlanCallsBounded'
          BY <2>3, CompilerAssumption DEF PlanCallsBounded
        <4> QED BY <2>3, <3>2, <4>1 DEF CallsInv, CountedCalls
      <3> QED BY <2>1, <3>1, <3>2
    <2>5. MentionInv'
      <3> SUFFICES ASSUME calls' = 0 PROVE Fit(decision', Allowed(gate'))
        BY <1>1, FitsNext, AllowedNext DEF MentionInv
      <3>1. Fit(decision, Allowed(gate))
        BY <1>3, <1>7 DEF CompilerInv, MentionInv
      <3> QED BY <1>1, <1>7, <3>1, NoPlansAnswer
    <2>6. MadeInv'
      BY <1>1, <1>5, <2>1, <2>2, FitsNext DEF MadeInv, Targets
    <2> QED BY <2>4, <2>5, <2>6 DEF CompilerInv
  <1>8. ASSUME NEW plan, IsPlan(plan), retries' = left, calls' = calls + 1,
               asking' = AfterPlan(asking, plan, left).asking,
               decision' = AfterPlan(asking, plan, left).decision
        PROVE  CompilerInv'
    <2>1. Answered(AfterPlan(asking, plan, left), left)
      BY <1>1, <1>2, <1>3, <1>4, <1>8, PlansAnswer
    <2>2. /\ Fit(decision', Targets)
          /\ asking' \in {"core", "done"} \cup CountedCalls
          /\ asking' = "core" => via = "turn" /\ setting.core
          /\ asking' \in CountedCalls => left > 0
          /\ asking' = "invalid" => decision'.some /\ decision'.of.errors # {}
      BY <1>8, <2>1 DEF Answered
    <2>3. asking' \in CountedCalls => NotAnOpening(gate)
      <3>1. asking = "repair" => asking' \notin CountedCalls
        <4> SUFFICES ASSUME asking = "repair"
                     PROVE  asking' \in {"core", "done"}
          BY DEF CountedCalls
        <4> QED BY <1>8, UnrepairedFit, Decides DEF AfterPlan
      <3> QED BY <1>4, <3>1
    <2>4. CallsInv'
      BY <1>1, <1>3, <1>6, <1>8, <2>2, <2>3, CompilerAssumption
      DEF CallsInv, CountedCalls, PlanCalls, PlanCallsBounded, inputs
    <2>5. MentionInv'
      BY <1>3, <1>8 DEF MentionInv
    <2>6. MadeInv'
      BY <1>1, <1>5, <2>2, FitsNext DEF MadeInv, Targets
    <2> QED BY <2>4, <2>5, <2>6 DEF CompilerInv
  <1> QED BY <1>7, <1>8, AskPlanCases DEF left

LEMMA AskCoreMakes ==
    ASSUME CompilerInv, AskCore
    PROVE  CompilerInv'
  <1>1. UNCHANGED inputs /\ gate' = gate /\ retries' = retries /\ calls' = calls + 1 /\ asking' = "done"
    BY DEF AskCore
  <1>2. PICK answer \in Answers : decision' = Decided(ParsePlan(answer))
    BY DEF AskCore
  <1>3. Fit(decision', Targets)
    <2>1. answer \in ModelAnswer
      BY CompilerAssumption
    <2>2. CASE ParsePlan(answer).some
      <3>1. IsPlan(ParsePlan(answer).of)
        BY <2>1, <2>2, ReadPlansArePlans
      <3>2. decision' = Some(DecisionFromPlan(ParsePlan(answer).of))
        BY <1>2, <2>2 DEF Decided
      <3> QED BY <3>1, <3>2, PlansFit DEF IsPlan, IsAction
    <2>3. CASE ~ParsePlan(answer).some
      BY <1>2, <2>3, AnswersFit DEF Decided
    <2> QED BY <2>2, <2>3
  <1>4. via = "turn" /\ setting.core /\ calls \in Nat /\ calls =< 1 + MaxRetries /\ retries \in 0..MaxRetries
    BY DEF AskCore, CompilerInv, CallsInv
  <1>5. CallsInv'
    BY <1>1, <1>4, CompilerAssumption DEF CallsInv, CountedCalls, PlanCallsBounded, inputs
  <1>6. MadeInv'
    BY <1>1, <1>3, FitsNext DEF CompilerInv, MadeInv, InputsOK, inputs, Targets
  <1>7. MentionInv'
    BY <1>1, <1>4 DEF MentionInv
  <1> QED BY <1>5, <1>6, <1>7 DEF CompilerInv

LEMMA StutterMakes ==
    ASSUME CompilerInv, UNCHANGED vars
    PROVE  CompilerInv'
  BY DEF vars, CompilerInv, MadeInv, CallsInv, MentionInv, InputsOK, Fit, WellMade, OpensOnly, Allowed,
     Followup, NotAnOpening, PlanCallsBounded

LEMMA NextMakes == CompilerInv /\ [Next]_vars => CompilerInv'
  BY StartMakes, AskGateMakes, AskPlanMakes, AskCoreMakes, StutterMakes DEF Next

LEMMA CompilerInvHolds == Spec => []CompilerInv
  BY InitMakes, NextMakes, PTL DEF Spec

-----------------------------------------------------------------------------
(* The theorems.                                                            *)

(* A compilation is well formed at every moment.                            *)
THEOREM CompilerTypeCorrect == Spec => []TypeOK
  <1>1. CompilerInv => TypeOK
    <2> SUFFICES ASSUME CompilerInv PROVE TypeOK
      OBVIOUS
    <2>1. gate.some => gate.of \in Gates
      BY Options DEF CompilerInv, MadeInv
    <2>2. /\ asking \in {"start", "gate", "core", "done"} \cup PlanCalls
          /\ retries \in 0..MaxRetries /\ calls \in Nat
      BY DEF CompilerInv, CallsInv
    <2>3. ASSUME decision.some
          PROVE  /\ decision.of.act \in BOOLEAN
                 /\ decision.of.mode \in {"no_action", "direct", "direct_sequence", "needs_plan",
                                          "invalid"}
                 /\ \A a \in ToSet(decision.of.actions) : a.target \in Targets /\ a.confirm \in BOOLEAN
                 /\ (asking = "invalid" => decision.of.errors # {})
      BY <2>3 DEF CompilerInv, MadeInv, Fit, WellMade, Modes, Sound, ToSet
    <2> QED BY <2>1, <2>2, <2>3 DEF TypeOK
  <1> QED BY <1>1, CompilerInvHolds, PTL

(* However a decision came about, an action that can do damage asks first.  *)
THEOREM RiskIsConfirmed == Spec => []RiskyAsksFirst
  <1>1. CompilerInv => RiskyAsksFirst
    <2> SUFFICES ASSUME CompilerInv, decision.some, NEW a \in ToSet(decision.of.actions),
                        <<a.type, a.command>> \in RiskyV1
                 PROVE  a.confirm
      BY DEF RiskyAsksFirst, Actions
    <2>1. PICK i \in DOMAIN decision.of.actions : a = decision.of.actions[i]
      BY DEF ToSet
    <2> QED BY <2>1 DEF CompilerInv, MadeInv, Fit, WellMade, Sound, Safe
  <1> QED BY <1>1, CompilerInvHolds, PTL

(* No application is opened unasked before a plan model has spoken.         *)
THEOREM OpeningsAreMentioned == Spec => []OnlyMentionedAppsOpened
  <1>1. CompilerInv => OnlyMentionedAppsOpened
    <2> SUFFICES ASSUME CompilerInv, calls = 0, decision.some, NEW a \in ToSet(decision.of.actions),
                        a.type = "app_control", a.command = "open"
                 PROVE  a.target \in Allowed(gate)
      BY DEF OnlyMentionedAppsOpened, Actions, Allowed
    <2>1. PICK i \in DOMAIN decision.of.actions : a = decision.of.actions[i]
      BY DEF ToSet
    <2> QED BY <2>1 DEF CompilerInv, MentionInv, Fit, OpensOnly, Opens
  <1> QED BY <1>1, CompilerInvHolds, PTL

(* All reasons to ask a plan model again share max_retries.                 *)
THEOREM PlanCallsAreBounded == Spec => []PlanCallsBounded
  <1>1. CompilerInv => PlanCallsBounded
    BY CompilerAssumption DEF CompilerInv, CallsInv, PlanCallsBounded, CountedCalls, PlanCalls
  <1> QED BY <1>1, CompilerInvHolds, PTL

(* What acts is made of steps that the runtime declared.                    *)
THEOREM StepsAreDeclared == Spec => []DeclaredOnly
  <1>1. CompilerInv => DeclaredOnly
    BY DEF CompilerInv, MadeInv, Fit, WellMade, DeclaredOnly, ToSet
  <1> QED BY <1>1, CompilerInvHolds, PTL

(* An uncorrected plan leaves with all the steps its sure gate asked for.   *)
THEOREM StepsAreKept == Spec => StepsKept
  <1> DEFINE A == (/\ asking \in {"plan", "contradiction", "incomplete"} /\ asking' = "done"
                   /\ SureToAct(gate) /\ Len(Steps(TemplateKey(gate.of))) >= 2
                   /\ decision' # SearchDecision /\ decision'.some /\ decision'.of.act)
                  => InOrder(Steps(TemplateKey(gate.of)), decision'.of.steps)
  <1>1. CompilerInv /\ [Next]_vars => [A]_vars
    <2> SUFFICES ASSUME CompilerInv, Next,
                        asking \in {"plan", "contradiction", "incomplete"}, asking' = "done",
                        Sequel(gate), decision' # SearchDecision, decision'.some, decision'.of.act
                 PROVE  InOrder(Steps(TemplateKey(gate.of)), decision'.of.steps)
      BY DEF Sequel
    <2> DEFINE left == IF asking \in CountedCalls THEN retries - 1 ELSE retries
    <2>1. AskPlan
      BY DEF Next, Start, AskGate, AskCore
    <2>2. /\ asking \in PlanCalls \ {"copied"} /\ InputsOK /\ GateOK(gate) /\ NotAnOpening(gate)
          /\ left \in Nat
      BY GatesAreOK, CompilerAssumption DEF CompilerInv, MadeInv, CallsInv, CountedCalls, PlanCalls
    <2> HIDE DEF left
    <2>3. CASE asking' = AfterNoPlan(asking).asking /\ decision' = AfterNoPlan(asking).decision
      <3>1. Kept(AfterNoPlan(asking), gate)
        BY <2>2, NoPlansAnswer DEF CompilerInv, MadeInv
      <3> QED BY <2>3, <3>1 DEF Kept
    <2>4. ASSUME NEW plan, IsPlan(plan), asking' = AfterPlan(asking, plan, left).asking,
                 decision' = AfterPlan(asking, plan, left).decision
          PROVE  InOrder(Steps(TemplateKey(gate.of)), decision'.of.steps)
      <3>1. Kept(AfterPlan(asking, plan, left), gate)
        BY <2>2, <2>4, PlansAnswer
      <3> QED BY <2>4, <3>1 DEF Kept
    <2> QED BY <2>1, <2>3, <2>4, AskPlanCases DEF left
  <1> QED BY <1>1, CompilerInvHolds, PTL DEF Spec, StepsKept
=============================================================================
