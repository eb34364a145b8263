------------------------- MODULE MCConversationTurns -------------------------
(* Model-checking instance of ConversationTurns: one user, two turns. *)
EXTENDS ConversationTurns, TLC

CONSTANTS u1, r1, r2, a1, a2, a3

MCUserOf == [r \in Requests |-> u1]

(* A turn of two actions, and one that may supersede it or be superseded. *)
MCScript == r1 :> <<a1, a2>> @@ r2 :> <<a3>>

(* One action each. *)
MCShortScript == r1 :> <<a1>> @@ r2 :> <<a2>>
===============================================================================
