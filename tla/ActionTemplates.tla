-------------------------- MODULE ActionTemplates --------------------------
(***************************************************************************)
(* planner/action_templates.py: the plans the controller can write without *)
(* a model, from the slots of an intent gate or from what a message says.  *)
(*                                                                         *)
(* A message is the application it names and its words: the kinds of words *)
(* the functions here look for, "topic" being what is left to search for.  *)
(* A gate's key is already the template its alias stands for, a slot       *)
(* stands for all the names it may come under, and app is the application  *)
(* its app_name slot or its query names.                                   *)
(***************************************************************************)
EXTENDS ActionContract

Some(x) == [some |-> TRUE, of |-> x]
None == [some |-> FALSE]

\* The first of several optional values that is there.
FirstOf(options) ==
  LET there == {i \in DOMAIN options : options[i].some}
  IN IF there = {} THEN None ELSE options[Min(there)]

Utterance == [app : Apps \cup {NoApp}, words : SUBSET STRING]

IntentGate ==
  [ act : BOOLEAN, sure : BOOLEAN, timeout : BOOLEAN, keyed : BOOLEAN, key : STRING,
    slots : SUBSET STRING, app : Apps \cup {NoApp}, copied : BOOLEAN, page : BOOLEAN ]

\* fast_action_templates: the steps of a template.
Steps(key) ==
  CASE key = "browser_open" -> <<"browser.open">>
    [] key = "browser_search" -> <<"browser.search">>
    [] key = "browser_search_open_first" -> <<"browser.search", "browser.select_result">>
    [] key = "browser_select_result" -> <<"browser.select_result">>
    [] key = "open_url" -> <<"open_url">>
    [] key = "browser_navigate" -> <<"browser.navigate">>
    [] key = "browser_extract_dom" -> <<"browser.extract_dom">>
    [] key = "browser_click" -> <<"browser.click">>
    [] key = "browser_type" -> <<"browser.type">>
    [] key = "app_open" -> <<"app.open">>
    [] key = "app_open_type" -> <<"app.open", "keyboard.type">>
    [] key = "app_focus" -> <<"app.focus">>
    [] key = "app_close" -> <<"app.close">>
    [] key = "file_read" -> <<"file.read">>
    [] key = "file_write" -> <<"file.write">>
    [] key = "terminal_run" -> <<"terminal.run">>
    [] key = "screen_screenshot" -> <<"screen.screenshot">>
    [] key = "mouse_click" -> <<"mouse.click">>
    [] key = "mouse_drag" -> <<"mouse.drag">>
    [] key = "keyboard_type" -> <<"keyboard.type">>
    [] key = "keyboard_hotkey" -> <<"keyboard.hotkey">>
    [] key = "clipboard_copy" -> <<"clipboard.copy">>
    [] key = "clipboard_paste" -> <<"clipboard.paste">>
    [] key = "notification_show" -> <<"notification.show">>
    [] key = "web_search" -> <<"web_search">>
    [] OTHER -> <<>>

AppTemplates == {"app_open", "app_open_type", "app_focus", "app_close"}

\* The slots a template cannot do without; the index of open_first has a default.
RequiredSlots(key) ==
  CASE key \in {"browser_search", "browser_search_open_first", "web_search"} -> {"query"}
    [] key = "browser_select_result" -> {"index"}
    [] key \in {"open_url", "browser_navigate"} -> {"url"}
    [] key = "browser_click" -> {"ai_id"}
    [] key = "browser_type" -> {"ai_id", "text"}
    [] key \in {"app_open", "app_focus", "app_close"} -> {"app_name"}
    [] key = "app_open_type" -> {"app_name", "text"}
    [] key = "file_read" -> {"path"}
    [] key = "file_write" -> {"path", "text"}
    [] key = "terminal_run" -> {"command"}
    [] key = "mouse_click" -> {"x", "y"}
    [] key = "mouse_drag" -> {"start_x", "start_y", "end_x", "end_y"}
    [] key = "keyboard_hotkey" -> {"keys"}
    [] key \in {"keyboard_type", "clipboard_copy", "notification_show"} -> {"text"}
    [] OTHER -> {}

ConfirmedTemplates ==
  {"file_write", "terminal_run", "mouse_click", "mouse_drag", "clipboard_paste"}

\* template_key_for_gate: a browser_open or a search whose slots say more is another template.
TemplateKey(gate) ==
  CASE gate.key = "browser_open" /\ "url" \in gate.slots -> "open_url"
    [] gate.key = "browser_open" /\ "url" \notin gate.slots /\ "query" \in gate.slots ->
         "browser_search_open_first"
    [] gate.key = "browser_search" /\ "index" \in gate.slots -> "browser_search_open_first"
    [] OTHER -> gate.key

\* A plan of a template's steps.  The places are filled from the slots.
Plan(key, app, copied) ==
  [ mode |-> IF Len(Steps(key)) > 1 THEN "direct_sequence" ELSE "direct",
    actions |->
      [i \in DOMAIN Steps(key) |->
         [ name |-> Steps(key)[i],
           target |-> IF Steps(key)[i] \in AppNames THEN app ELSE NoApp,
           places |-> (RequiredSlots(key) \ {"app_name"})
                        \cup (IF key = "browser_search_open_first" THEN {"index"} ELSE {}),
           copied |-> copied /\ Steps(key)[i] = "keyboard.type",
           confirm |-> key \in ConfirmedTemplates ]] ]

-----------------------------------------------------------------------------
(* What a message and a context say.                                        *)

\* A word stands for the list of terms a test looks for: any one of them will do.
Says(text, words) == text.words \cap words # {}

\* _looks_like_browser_search_request, _is_vague_search_query and
\* _looks_like_search_open_first_request
AsksToSearch(text) == Says(text, {"search", "find"})

IsVague(text) == ~Says(text, {"topic"})

AsksForFirst(text) == Says(text, {"open", "enter"})

\* _looks_like_application_open_request, or an open verb beside an application's name
AsksToOpen(text) == Says(text, {"open", "launch"}) \/ {"local", "program"} \subseteq text.words

\* _context_supports_action, for the browser and app names it is asked of.
Supports(ctx, name) == CapabilityEnabled(name, ctx)

\* _text_matches_active_application
NamesActiveApp(text, ctx) ==
  text.app # NoApp /\ text.app = ctx.active /\ text.app \in ctx.apps

\* _matching_application_for_text
MatchingApp(text, ctx) == IF text.app \in ctx.apps THEN text.app ELSE NoApp

\* _explicit_application_open_target_for_text
ExplicitTarget(text, ctx) == IF AsksToOpen(text) THEN MatchingApp(text, ctx) ELSE NoApp

AppOpen(app) == Some(Plan("app_open", app, FALSE))

SearchKey(text, ctx) ==
  IF AsksForFirst(text) /\ Supports(ctx, "browser.select_result")
  THEN "browser_search_open_first" ELSE "browser_search"

-----------------------------------------------------------------------------
(* The plans written from a message.                                        *)

\* materialize_fresh_context_app_open_for_text
AppOpenForText(text, ctx) ==
  IF /\ MatchingApp(text, ctx) # NoApp
     /\ ctx.fresh \/ ~NamesActiveApp(text, ctx)
  THEN AppOpen(MatchingApp(text, ctx)) ELSE None

\* materialize_explicit_app_open_for_text
ExplicitAppOpen(text, ctx) ==
  IF ExplicitTarget(text, ctx) # NoApp /\ Supports(ctx, "app.open")
  THEN AppOpen(ExplicitTarget(text, ctx)) ELSE None

\* materialize_contextual_app_followup_search_for_text
FollowupSearch(text, ctx) ==
  IF /\ Supports(ctx, "browser.search")
     /\ ExplicitTarget(text, ctx) = NoApp
     /\ NamesActiveApp(text, ctx)
  THEN Some(Plan(SearchKey(text, ctx), NoApp, FALSE)) ELSE None

\* materialize_browser_search_for_text: nothing is left of a vague request to search for.
BrowserSearch(text, ctx) ==
  IF Supports(ctx, "browser.search") /\ AsksToSearch(text) /\ ~IsVague(text)
  THEN Some(Plan(SearchKey(text, ctx), NoApp, FALSE)) ELSE None

-----------------------------------------------------------------------------
(* The plans written from a gate.                                           *)

\* materialize_fresh_context_app_preference: an application before a browser search.
AppPreference(gate, ctx) ==
  IF /\ TemplateKey(gate) \in {"browser_search", "browser_search_open_first"}
     /\ ctx.fresh
     /\ "query" \in gate.slots
  THEN AppOpenForText([app |-> gate.app, words |-> {}], ctx) ELSE None

\* The application of a gate: of its slot, or the active one.
GateApp(gate, ctx) == IF "app_name" \in gate.slots THEN gate.app ELSE ctx.active

MissingSlots(gate, ctx) ==
  {slot \in RequiredSlots(TemplateKey(gate)) :
     IF slot = "app_name" THEN GateApp(gate, ctx) = NoApp ELSE slot \notin gate.slots}

\* materialize_gate_template, when nothing it requires is missing.
GateTemplate(gate, ctx) ==
  IF TemplateKey(gate) # "none" /\ MissingSlots(gate, ctx) = {}
  THEN Some(Plan(TemplateKey(gate), GateApp(gate, ctx), gate.copied)) ELSE None
=============================================================================
