--------------------------- MODULE ActionContract ---------------------------
(***************************************************************************)
(* The contract of a client action: planner/action_validator.py, which     *)
(* decides whether a v2 plan may leave the controller, and                 *)
(* planner/action_adapter.py, which turns it into the v1 actions a runtime *)
(* understands.                                                            *)
(*                                                                         *)
(* A v2 action is a record: its name, its target, the places (arguments or *)
(* payload) that hold a usable value, whether its text is a copy of the    *)
(* text typed last, and whether it asks for a confirmation.  What a usable *)
(* value is (a non-empty string, an integer from 1) is decided here once   *)
(* for every place.  A context is what a turn knows of the runtime.        *)
(***************************************************************************)
EXTENDS Naturals, Sequences, SequencesExt

CONSTANTS
  Apps,         \* names of applications
  NoApp         \* no application is named

ASSUME ContractAssumption == NoApp \notin Apps

\* ACTION_V2_CAPABILITIES, by namespace: the capabilities the source names.
Registry ==
  [ browser |-> {"browser.open", "browser.search", "browser.navigate", "browser.extract_dom",
                 "browser.click", "browser.type", "browser.select_result"},
    open_url |-> {"open_url"},
    app |-> {"app.open", "app.focus", "app.close", "app.active"},
    file |-> {"file.read", "file.write", "file.list", "file.mkdir", "file.search", "file.move",
              "file.delete"},
    terminal |-> {"terminal.run"},
    keyboard |-> {"keyboard.type", "keyboard.hotkey", "keyboard.press"},
    mouse |-> {"mouse.click", "mouse.drag", "mouse.move", "mouse.scroll", "mouse.position"},
    screen |-> {"screen.screenshot", "screen.pixel", "screen.size"},
    clipboard |-> {"clipboard.copy", "clipboard.paste"},
    notification |-> {"notification.show"},
    web_search |-> {"web_search"},
    todo |-> {"todo.create", "todo.list", "todo.update", "todo.delete"},
    calendar |-> {"calendar.open", "calendar.create", "calendar.update", "calendar.delete"},
    system |-> {"system.info"},
    process |-> {"process.list"},
    application |-> {"application.list"} ]

Names == UNION {Registry[space] : space \in DOMAIN Registry}

Namespace(name) == CHOOSE space \in DOMAIN Registry : name \in Registry[space]

AppNames == {"app.open", "app.focus", "app.close"}

RISKY_V2_ACTIONS ==
  {"terminal.run", "file.write", "file.move", "file.delete", "mouse.click", "mouse.drag",
   "clipboard.paste", "calendar.create", "calendar.update", "calendar.delete"}

\* The targets of an action: none, an application, or one of ABSTRACT_APP_TARGETS.
Targets == Apps \cup {NoApp, "browser"}

V2Action == [name : STRING, target : Targets, places : SUBSET STRING,
             copied : BOOLEAN, confirm : BOOLEAN]

V2Plan == [mode : {"no_action", "direct", "direct_sequence", "needs_plan"}, actions : Seq(V2Action)]

\* What a turn knows of its runtime, and of what it did before: is there an application or a
\* browser it works with, did it do something lately, type something, say something.
TurnContext ==
  [ caps : [named : SUBSET STRING, on : SUBSET STRING], apps : SUBSET Apps,
    active : Apps \cup {NoApp}, fresh : BOOLEAN, surface : BOOLEAN, recent : BOOLEAN,
    typed : BOOLEAN, previous : BOOLEAN, terminal : BOOLEAN ]

-----------------------------------------------------------------------------
(* Capabilities.  caps.named are the names that a runtime declares, caps.on *)
(* those of them that are switched on; one that declares none has them all. *)

Undeclared == [named |-> {}, on |-> {}]

Legacy(space) ==
  CASE space = "browser" -> {"browser_control", "open_url"}
    [] space = "app" -> {"app_control"}
    [] space = "keyboard" -> {"keyboard_type", "hotkey", "key_press"}
    [] space = "mouse" -> {"mouse_click", "mouse_drag", "mouse_move", "mouse_scroll"}
    [] space = "screen" -> {"screenshot", "screen_stream"}
    [] space = "notification" -> {"notify"}
    [] space = "file" -> {"file_read", "file_write", "file_manage"}
    [] space = "calendar" -> {"calendar_control"}
    [] space = "system" -> {"system_info"}
    [] OTHER -> {}

CapabilityCandidates(name) ==
  {name, Namespace(name)} \cup Legacy(Namespace(name))

CapabilityEnabled(name, ctx) ==
  ctx.caps.named # {} => CapabilityCandidates(name) \cap ctx.caps.on # {}

KnownApplication(target, ctx) ==
  ctx.apps = {} \/ target \in ctx.apps

-----------------------------------------------------------------------------
(* Required fields: a name asks for a value in one place of each of these  *)
(* sets.                                                                    *)

Required(name) ==
  CASE name = "browser.navigate" -> {{"url"}}
    [] name = "open_url" -> {{"url", "target", "payload"}}
    [] name \in {"browser.search", "file.search"} -> {{"query"}}
    [] name = "browser.click" -> {{"ai_id"}}
    [] name = "browser.type" -> {{"ai_id"}, {"text", "payload"}}
    [] name = "browser.select_result" -> {{"index"}}
    [] name \in AppNames -> {{"target"}}
    [] name = "file.read" -> {{"path", "target", "payload"}}
    [] name = "file.write" -> {{"path", "target"}, {"text", "payload"}}
    [] name = "file.move" -> {{"destination"}}
    [] name = "keyboard.press" -> {{"key"}}
    [] name \in {"keyboard.type", "clipboard.copy"} -> {{"text", "payload"}}
    [] name = "keyboard.hotkey" -> {{"keys"}}
    [] name \in {"screen.pixel", "mouse.click", "mouse.move"} -> {{"x"}, {"y"}}
    [] name = "mouse.drag" -> {{"start_x"}, {"start_y"}, {"end_x"}, {"end_y"}}
    [] name = "mouse.scroll" -> {{"amount"}, {"direction"}}
    [] name = "terminal.run" -> {{"command", "payload"}}
    [] name = "web_search" -> {{"query", "target", "payload"}}
    [] name = "todo.create" -> {{"title", "target", "payload"}}
    [] name \in {"todo.update", "todo.delete"} -> {{"todo_id", "target", "payload"}}
    [] name = "calendar.create" -> {{"title"}, {"start"}, {"end"}}
    [] name \in {"calendar.update", "calendar.delete"} -> {{"event_id"}}
    [] OTHER -> {}

Places(a) == a.places \cup (IF a.target = NoApp THEN {} ELSE {"target"})

MissingFields(a) == {field \in Required(a.name) : field \cap Places(a) = {}}

-----------------------------------------------------------------------------
(* ActionValidator                                                          *)

\* Only what a name asks for is looked at.
FieldIssues(a, ctx) ==
  IF a.name \notin Names THEN {"unknown_action"}
  ELSE IF MissingFields(a) # {} THEN {"missing_required_field"} ELSE {}

\* The issues of one action.  An unknown name ends the check of its action.
ActionIssues(a, ctx) ==
  IF a.name \notin Names THEN {"unknown_action"}
  ELSE {code \in {"disabled_capability", "abstract_app_target", "unknown_application_target",
                  "missing_required_field"} :
          CASE code = "disabled_capability" -> ~CapabilityEnabled(a.name, ctx)
            [] code = "abstract_app_target" -> a.name \in AppNames /\ a.target = "browser"
            [] code = "unknown_application_target" ->
                 a.name \in AppNames /\ a.target # "browser" /\ ~KnownApplication(a.target, ctx)
            [] code = "missing_required_field" -> MissingFields(a) # {}}

\* The plan's word on confirmations is taken.
NormalizedAsIs(a) == a

\* A risky action leaves the validator asking for a confirmation.
Normalized(a) ==
  [a EXCEPT !.confirm = @ \/ a.name \in RISKY_V2_ACTIONS]

PlanIssues(plan, ctx) ==
  CASE plan.mode = "no_action" ->
         IF plan.actions = <<>> THEN {} ELSE {"no_action_has_actions"}
    [] plan.mode \in {"direct", "direct_sequence"} /\ plan.actions = <<>> -> {"missing_actions"}
    [] OTHER -> UNION {ActionIssues(a, ctx) : a \in ToSet(plan.actions)}

-----------------------------------------------------------------------------
(* V2ToV1ActionAdapter                                                      *)

\* "none" is the command of a type that has only one.
V1Action == [type : STRING, command : STRING, target : Targets, confirm : BOOLEAN]

\* The type and command of the v1 action, for the browser and then for the rest.
BrowserCommand(a) ==
  CASE a.name \in {"browser.search", "browser.navigate", "open_url"} -> <<"open_url", "none">>
    [] a.name = "browser.open" ->
         IF "url" \in a.places THEN <<"open_url", "none">> ELSE <<"browser", "open">>
    [] a.name = "browser.extract_dom" -> <<"browser_control", "extract_dom">>
    [] a.name = "browser.click" -> <<"browser_control", "click_element">>
    [] a.name = "browser.type" -> <<"browser_control", "type_element">>
    [] a.name = "browser.select_result" -> <<"browser_control", "select_result">>

LocalCommand(a) ==
  CASE a.name = "app.open" -> <<"app_control", "open">>
    [] a.name = "app.focus" -> <<"app_control", "focus">>
    [] a.name = "app.close" -> <<"app_control", "close">>
    [] a.name = "file.read" -> <<"file_read", "none">>
    [] a.name = "file.write" -> <<"file_write", "none">>
    [] a.name = "keyboard.type" -> <<"keyboard_type", "none">>
    [] a.name = "keyboard.hotkey" -> <<"hotkey", "none">>
    [] a.name = "mouse.click" -> <<"mouse_click", "none">>
    [] a.name = "mouse.drag" -> <<"mouse_drag", "none">>
    [] a.name = "screen.screenshot" -> <<"screenshot", "none">>
    [] a.name = "clipboard.copy" -> <<"clipboard", "copy">>
    [] a.name = "clipboard.paste" -> <<"clipboard", "paste">>
    [] a.name = "terminal.run" -> <<"terminal", "execute">>
    [] a.name = "notification.show" -> <<"notify", "none">>

ServerCommand(a) ==
  CASE a.name = "web_search" -> <<"web_search", "none">>
    [] a.name = "todo.create" -> <<"todo", "create">>
    [] a.name = "todo.list" -> <<"todo", "list">>
    [] a.name = "todo.update" -> <<"todo", "update">>
    [] a.name = "todo.delete" -> <<"todo", "delete">>
    [] a.name = "calendar.open" -> <<"calendar_control", "open">>
    [] a.name = "calendar.create" -> <<"calendar_control", "create_event">>
    [] a.name = "calendar.update" -> <<"calendar_control", "update_event">>
    [] a.name = "calendar.delete" -> <<"calendar_control", "delete_event">>

ServerNames == Registry.web_search \cup Registry.todo \cup Registry.calendar

\* The registry names actions no branch of the adapter takes.
Adaptable(a) ==
  \/ a.name \in Registry.browser \cup Registry.open_url \cup ServerNames
  \/ a.name \in AppNames \cup Registry.clipboard \cup Registry.terminal \cup Registry.notification
  \/ a.name \in {"file.read", "file.write", "keyboard.type", "keyboard.hotkey", "mouse.click",
                 "mouse.drag", "screen.screenshot"}

Adapted(a) ==
  LET command == IF a.name \in Registry.browser \cup Registry.open_url THEN BrowserCommand(a)
                 ELSE IF a.name \in ServerNames THEN ServerCommand(a)
                 ELSE LocalCommand(a)
  IN [type |-> command[1], command |-> command[2],
      target |-> IF a.name \in AppNames THEN a.target ELSE NoApp,
      confirm |-> a.confirm \/ a.name \in {"file.write", "terminal.run"}]

\* adapt_plan: the issues that keep a plan back, or every one of its actions in v1 form.
AdaptIssues(plan, ctx) ==
  LET found == PlanIssues(plan, ctx)
  IN IF found # {} \/ plan.mode = "no_action" THEN found
     ELSE IF \A a \in ToSet(plan.actions) : Adaptable(a) THEN {} ELSE {"unsupported_action"}

AdaptedActions(plan) ==
  [i \in DOMAIN plan.actions |-> Adapted(Normalized(plan.actions[i]))]
=============================================================================
