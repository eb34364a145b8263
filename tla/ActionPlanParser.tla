-------------------------- MODULE ActionPlanParser --------------------------
(***************************************************************************)
(* planner/action_plan_parser.py: what a model answered, read as a plan.   *)
(*                                                                         *)
(* An answer has a form: "plan" (an object with a mode), "list" (a bare    *)
(* list of v2 actions), "legacy" (an object with should_act and v1         *)
(* actions), or "junk", which no reading makes a plan of.  Its items are   *)
(* v2 actions, with the application an app_name argument may name instead  *)
(* of the target, or v1 actions, with the query their arguments may hold.  *)
(***************************************************************************)
EXTENDS LocalActions

NewItem == [name : STRING, target : Targets, appArg : Targets, places : SUBSET STRING,
            copied : BOOLEAN, confirm : BOOLEAN]

OldItem == [type : STRING, command : STRING, target : Targets, places : SUBSET STRING,
            confirm : BOOLEAN]

ModelAnswer ==
  [form : {"plan", "list", "junk"}, mode : {"no_action", "direct", "direct_sequence", "needs_plan"},
   items : Seq(NewItem)]
  \cup
  [form : {"legacy"}, mode : {"no_action", "direct", "direct_sequence", "needs_plan"},
   items : Seq(OldItem)]

\* _normalize_v2_action_payload
NormalizedV2(item) ==
  [ name |-> item.name,
    target |-> IF item.name \in {"app.open", "app.focus"} /\ item.target = NoApp
               THEN item.appArg ELSE item.target,
    places |-> item.places, copied |-> item.copied, confirm |-> item.confirm ]

\* A v2 action an old v1 action is read as: its name, and the places its values go to.
Rewritten(item, name, places) ==
  [ name |-> name, target |-> IF name \in AppNames THEN item.target ELSE NoApp,
    places |-> places, copied |-> FALSE, confirm |-> item.confirm ]

Search(item) == Rewritten(item, "browser.search", {"query"} \cap item.places)

Navigate(item) ==
  Rewritten(item, "browser.navigate",
            IF {"target", "payload"} \cap item.places # {} THEN {"url"} ELSE {})

\* The result a number in any of these places selects.
SelectResult(item) ==
  Rewritten(item, "browser.select_result",
            IF {"index", "target", "payload"} \cap item.places # {} THEN {"index"} ELSE {})

LegacyBrowser(item) ==
  CASE item.command = "search" -> Some(Search(item))
    [] item.command \in {"open", "open_url", "navigate"} -> Some(Navigate(item))
    [] item.command = "extract_dom" -> Some(Rewritten(item, "browser.extract_dom", {}))
    [] item.command = "click_element" ->
         Some(Rewritten(item, "browser.click", {"ai_id"} \cap item.places))
    [] item.command = "type_element" ->
         Some(Rewritten(item, "browser.type", {"ai_id", "text", "payload"} \cap item.places))
    [] item.command = "select_result" -> Some(SelectResult(item))
    [] OTHER -> None

\* An application is focused on request, searched for when it is the browser, and else opened.
LegacyApp(item) ==
  IF item.target = "browser" /\ "query" \in item.places THEN Search(item)
  ELSE Rewritten(item, IF item.command = "focus" THEN "app.focus" ELSE "app.open", {})

\* _legacy_action_payload_to_v2.  What it does not know it leaves as it is, and then no v2
\* action can be made of it.
LegacyToV2(item) ==
  CASE item.type = "open_url" -> Some(IF "query" \in item.places THEN Search(item) ELSE Navigate(item))
    [] item.type = "browser_control" -> LegacyBrowser(item)
    [] item.type = "web_search" ->
         Some(Rewritten(item, "browser.search",
                        IF {"query", "target", "payload"} \cap item.places # {} THEN {"query"} ELSE {}))
    [] item.type \in {"web_click", "web_select", "select_result"} -> Some(SelectResult(item))
    [] item.type = "app_control" -> Some(LegacyApp(item))
    [] item.type = "keyboard_type" ->
         Some(Rewritten(item, "keyboard.type", {"payload"} \cap item.places))
    [] item.type = "hotkey" -> Some(Rewritten(item, "keyboard.hotkey", {"keys"} \cap item.places))
    [] OTHER -> None

\* parse_plan: a plan, or none when any part of the answer is not what it should be.
ParsePlan(answer) ==
  LET legacy == [i \in DOMAIN answer.items |-> LegacyToV2(answer.items[i])]
  IN CASE answer.form = "plan" ->
            Some([mode |-> answer.mode,
                  actions |-> [i \in DOMAIN answer.items |-> NormalizedV2(answer.items[i])]])
       [] answer.form = "list" ->
            Some([mode |-> IF Len(answer.items) > 1 THEN "direct_sequence" ELSE "direct",
                  actions |-> [i \in DOMAIN answer.items |-> NormalizedV2(answer.items[i])]])
       [] answer.form = "legacy" /\ answer.mode = "no_action" ->
            Some([mode |-> "no_action", actions |-> <<>>])
       [] answer.form = "legacy" /\ answer.mode # "no_action"
            /\ \A i \in DOMAIN legacy : legacy[i].some ->
            Some([mode |-> answer.mode, actions |-> [i \in DOMAIN legacy |-> legacy[i].of]])
       [] OTHER -> None
=============================================================================
