---------------------------- MODULE LocalActions ----------------------------
(***************************************************************************)
(* The client actions router/router.py and router/intent_todo.py write     *)
(* themselves when the words of a message say enough: no model is asked,   *)
(* and all but the opening of an application pass by the validator.        *)
(***************************************************************************)
EXTENDS ActionTemplates

\* _context_supports_any_action: one of the names is declared, be it switched on or off.
LocalSupports(ctx, names) == ctx.caps.named = {} \/ names \cap ctx.caps.named # {}

-----------------------------------------------------------------------------
(* What a message asks for.                                                 *)

\* _looks_like_meta_design_or_analysis_request
AsksForAnalysis(m) == Says(m, {"analysis"})

AsksForResult(m) == {"result", "ordinal"} \subseteq m.words

AsksForUrl(m) == Says(m, {"url"}) /\ Says(m, {"open", "enter"})

AsksForBrowser(m) == Says(m, {"browser"}) /\ Says(m, {"open", "launch"})

AsksForBrowserOnly(m) == AsksForBrowser(m) /\ ~Says(m, {"search", "find", "topic"})

AsksToCloseTab(m) == {"close", "tab"} \subseteq m.words /\ Says(m, {"current", "browser"})

\* _browser_search_query_from_message: is there something to search the browser for, in the
\* message or, when it only points at a browser, in the message before it?
HasSearchQuery(m, ctx) ==
  /\ ~AsksForResult(m) /\ ~AsksForBrowserOnly(m)
  /\ \/ Says(m, {"browser"}) /\ Says(m, {"search", "find", "open", "enter", "page"})
     \/ Says(m, {"search"})
  /\ AsksForBrowser(m) => Says(m, {"search", "find", "topic"})
  /\ Says(m, {"topic"}) \/ (Says(m, {"browser"}) /\ ctx.previous)

\* _terminal_command_from_message: a command in quotes, after the word, or of the allowed ones.
HasTerminalCommand(m, ctx) ==
  /\ ~AsksForAnalysis(m) /\ ~HasSearchQuery(m, ctx)
  /\ {"terminal", "run"} \subseteq m.words
  /\ Says(m, {"quoted", "command", "known"})

AsksToDeleteTodo(m) == Says(m, {"delete"}) /\ Says(m, {"todo", "day"})

\* _todo_create_requested; nothing is created without a title.
AsksToCreateTodo(m) == {"todo", "add", "topic"} \subseteq m.words

AsksToListTodos(m) ==
  \/ {"free", "check"} \subseteq m.words
  \/ Says(m, {"todo"}) /\ Says(m, {"list", "day"})

AsksForDownloads(m) == Says(m, {"downloads"}) /\ Says(m, {"folder", "list"})

-----------------------------------------------------------------------------
(* The actions.                                                             *)

LocalAction(type, command) ==
  [type |-> type, command |-> command, target |-> NoApp, confirm |-> type = "terminal"]

When(condition, type, command) ==
  IF condition THEN Some(<<LocalAction(type, command)>>) ELSE None

OpenAction(app) == [LocalAction("app_control", "open") EXCEPT !.target = app]

\* _action_decision_from_template_plan
AdaptedPlan(plan, ctx) ==
  IF plan.some /\ AdaptIssues(plan.of, ctx) = {} THEN Some(AdaptedActions(plan.of)) ELSE None

\* _template_app_open_decision_from_text
LocalAppOpen(m, ctx) ==
  IF LocalSupports(ctx, {"app.open", "app_control"})
  THEN FirstOf(<<AdaptedPlan(ExplicitAppOpen(m, ctx), ctx), AdaptedPlan(AppOpenForText(m, ctx), ctx)>>)
  ELSE None

\* _template_app_open_type_decision_from_text
LocalAppOpenType(m, ctx) ==
  IF /\ LocalSupports(ctx, {"app.open", "app_control"})
     /\ LocalSupports(ctx, {"keyboard.type", "keyboard_type"})
     /\ {"type", "text"} \subseteq m.words
     /\ AppOpenForText(m, ctx).some
  THEN Some(<<OpenAction(MatchingApp(m, ctx)), LocalAction("keyboard_type", "none")>>) ELSE None

\* _local_direct_action_decision
LocalDecision(m, ctx) ==
  IF AsksForAnalysis(m) THEN None
  ELSE FirstOf(<<
    LocalAppOpenType(m, ctx),
    LocalAppOpen(m, ctx),
    When(/\ AsksForResult(m)
         /\ LocalSupports(ctx, {"browser.select_result", "browser_control", "browser"}),
         "browser_control", "select_result"),
    When(AsksForBrowserOnly(m) /\ LocalSupports(ctx, {"browser.open", "browser"}), "browser", "open"),
    When(AsksToCloseTab(m) /\ LocalSupports(ctx, {"browser.close_tab", "browser_control", "browser"}),
         "browser_control", "close_tab"),
    When(AsksForUrl(m) /\ LocalSupports(ctx, {"open_url", "browser.navigate"}), "open_url", "none"),
    When(/\ HasSearchQuery(m, ctx)
         /\ LocalSupports(ctx, {"open_url", "browser.search", "browser.navigate", "browser"}),
         "open_url", "none"),
    When(HasTerminalCommand(m, ctx) /\ ctx.terminal, "terminal", "execute"),
    When(AsksToDeleteTodo(m), "todo", "delete"),
    When(AsksToCreateTodo(m), "todo", "create"),
    When(AsksToListTodos(m), "todo", "list"),
    When(AsksForBrowser(m) /\ LocalSupports(ctx, {"browser.open", "browser"}), "browser", "open"),
    When(AsksForDownloads(m) /\ LocalSupports(ctx, {"file.read", "file_read"}), "file_read", "none") >>)

\* _looks_like_direct_client_action_request: is it worth asking the intent model?
LooksLikeAction(m, ctx) ==
  /\ ~AsksForAnalysis(m)
  /\ \/ LocalAppOpen(m, ctx).some
     \/ AsksForUrl(m) \/ AsksForResult(m) \/ AsksForBrowserOnly(m) \/ AsksToCloseTab(m)
     \/ HasSearchQuery(m, ctx) \/ HasTerminalCommand(m, ctx)
     \/ Says(m, {"type"}) /\ Says(m, {"at"})
     \/ AsksToCreateTodo(m) \/ AsksToDeleteTodo(m) \/ AsksToListTodos(m)
     \/ {"object", "verb"} \subseteq m.words
     \/ AsksForDownloads(m)
     \/ Says(m, {"order"})
=============================================================================
