---------------------------- MODULE MCUserState ----------------------------
(* Model-checking instance of UserState: an update, a read and a turn that   *)
(* share a token; and three reports, two of them of one action.              *)
EXTENDS UserState, TLC

CONSTANTS r1, r2, r3, a, b, token

Asks(kind, action) == [kind |-> kind, action |-> action]

MCAsked ==
  { (r1 :> Asks("upsert", a) @@ r2 :> Asks(k, a) @@ r3 :> Asks("turn", a)) :
      k \in {"upsert", "get"} }
  \cup
  { (r1 :> Asks("post", a) @@ r2 :> Asks("post", x) @@ r3 :> Asks(k, y)) :
      x \in {a, b}, y \in {a, b}, k \in {"turn", "post"} }

MCTokenOf == r1 :> token @@ r2 :> token @@ r3 :> token
MCKindOf == a :> "app" @@ b :> "type"
=============================================================================
