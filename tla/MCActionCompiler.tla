-------------------------- MODULE MCActionCompiler --------------------------
(* Model-checking instance of ActionCompiler: two applications, a message of *)
(* every kind, and models that answer well, badly and not at all.            *)
EXTENDS ActionCompiler, TLC

CONSTANTS notes, mail

Message(app, words) == [app |-> app, words |-> words]

MCMessages ==
  { Message(NoApp, {"object", "verb"}), Message(notes, {"open"}), Message(notes, {"order"}),
    Message(notes, {"open", "type", "text"}), Message(NoApp, {"search", "topic", "order"}),
    Message(NoApp, {"search", "topic", "open", "browser"}), Message(NoApp, {"result", "ordinal"}),
    Message(NoApp, {"terminal", "run", "command"}), Message(NoApp, {"todo", "delete"}),
    Message(NoApp, {"analysis", "terminal", "run", "command"}) }

Context(caps, apps, active, fresh, working, typed) ==
  [ caps |-> caps, apps |-> apps, fresh |-> fresh, active |-> active, surface |-> working,
    recent |-> working, typed |-> typed, previous |-> FALSE, terminal |-> TRUE ]

Declared(names, on) == [named |-> names, on |-> on]

MCContexts ==
  { Context(Undeclared, {}, NoApp, TRUE, FALSE, FALSE),
    Context(Undeclared, {notes, mail}, NoApp, TRUE, FALSE, FALSE),
    Context(Undeclared, {notes, mail}, notes, FALSE, TRUE, TRUE),
    [Context(Undeclared, {notes, mail}, NoApp, FALSE, FALSE, TRUE) EXCEPT !.recent = TRUE],
    Context(Declared({"browser"}, {"browser"}), {notes}, NoApp, FALSE, FALSE, FALSE),
    Context(Declared({"app_control", "keyboard_type"}, {"app_control", "keyboard_type"}), {notes}, mail,
            FALSE, TRUE, TRUE),
    Context(Declared({"app_control", "browser"}, {"browser"}), {notes}, NoApp, TRUE, FALSE, FALSE) }

Gate(act, sure, key, slots, app, copied) ==
  [ act |-> act, sure |-> sure, timeout |-> FALSE, keyed |-> key # "none", key |-> key,
    slots |-> slots, app |-> app, copied |-> copied, page |-> FALSE ]

ActGates(sure) ==
  { Gate(TRUE, sure, "none", {}, NoApp, FALSE),
    Gate(TRUE, sure, "app_open", {"app_name"}, notes, FALSE),
    Gate(TRUE, sure, "app_open", {}, NoApp, FALSE),
    Gate(TRUE, sure, "app_open_type", {"app_name", "text"}, notes, TRUE),
    Gate(TRUE, sure, "terminal_run", {"command"}, NoApp, FALSE),
    Gate(TRUE, sure, "browser_search", {"query"}, mail, FALSE),
    Gate(TRUE, sure, "browser_search", {}, NoApp, FALSE),
    [Gate(TRUE, sure, "browser_open", {}, NoApp, FALSE) EXCEPT !.page = TRUE],
    [Gate(TRUE, sure, "browser_search_open_first", {"query"}, NoApp, FALSE) EXCEPT !.keyed = FALSE] }

NoGate == Gate(FALSE, FALSE, "none", {}, NoApp, FALSE)

MCGates ==
  ActGates(TRUE) \cup ActGates(FALSE)
    \cup {NoGate, [NoGate EXCEPT !.sure = TRUE], [NoGate EXCEPT !.timeout = TRUE]}

Item(name, target, places) ==
  [name |-> name, target |-> target, appArg |-> NoApp, places |-> places, copied |-> FALSE,
   confirm |-> FALSE]

V1Item(type, command, target, places) ==
  [type |-> type, command |-> command, target |-> target, places |-> places, confirm |-> FALSE]

PlanAnswer(form, items) ==
  [form |-> form, items |-> items, mode |-> IF Len(items) > 1 THEN "direct_sequence" ELSE "direct"]

MCAnswers ==
  { PlanAnswer("plan", <<Item("mouse.click", NoApp, {"x", "y"})>>),
    PlanAnswer("plan", <<Item("browser.search", NoApp, {"query"})>>),
    PlanAnswer("plan", <<Item("browser.search", NoApp, {"query"}),
                         Item("browser.select_result", NoApp, {"index"})>>),
    PlanAnswer("plan", <<Item("browser.open", NoApp, {})>>),
    PlanAnswer("list", <<[Item("app.open", NoApp, {}) EXCEPT !.appArg = notes],
                         [Item("keyboard.type", NoApp, {"text"}) EXCEPT !.copied = TRUE]>>),
    PlanAnswer("list", <<Item("calendar.create", NoApp, {"title", "start"})>>),
    PlanAnswer("plan", <<Item("file.mkdir", NoApp, {"path"})>>),
    PlanAnswer("legacy", <<V1Item("open_url", "none", NoApp, {"query"}),
                           V1Item("web_select", "none", NoApp, {"index"})>>),
    PlanAnswer("legacy", <<V1Item("app_control", "close", notes, {})>>),
    [PlanAnswer("plan", <<Item("todo.list", NoApp, {})>>) EXCEPT !.mode = "needs_plan"],
    [form |-> "plan", items |-> <<>>, mode |-> "no_action"],
    [form |-> "junk", items |-> <<>>, mode |-> "no_action"] }

Switches(enabled, repair, core, fallback) ==
  [ enabled |-> enabled, repair |-> repair, core |-> core, unavailable |-> fallback,
    lowConfidence |-> fallback, timeout |-> fallback ]

MCSettings ==
  { Switches(FALSE, FALSE, TRUE, FALSE), Switches(TRUE, FALSE, FALSE, FALSE),
    Switches(TRUE, TRUE, TRUE, TRUE),
    [Switches(TRUE, FALSE, FALSE, FALSE) EXCEPT !.timeout = TRUE] }
=============================================================================
