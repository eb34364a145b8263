------------------------ MODULE MCTurnOrchestration ------------------------
(* Model-checking instance of TurnOrchestration: every turn but those whose  *)
(* words the route does not look at.                                         *)
EXTENDS TurnOrchestration, TLC

MCTurns ==
  { t \in Turn : /\ t.via # "stream" => t.asks = "nothing"
                 /\ t.via = "stream" /\ t.override \in {"deep", "planning"} => t.asks = "nothing"
                 /\ t.via = "chat" => t.override \in {"none", "realtime"}
                 /\ t.via = "respond" => ~t.candidate }

MCActionLists == {<<"act">>, <<"look">>, <<"act", "act">>}
=============================================================================
