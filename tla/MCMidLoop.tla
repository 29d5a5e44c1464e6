----------------------------- MODULE MCMidLoop -----------------------------
(***************************************************************************)
(* A small instance of MidLoop.  Two ids, two dialects: `a` is a Vary of   *)
(* three options that another dialect duplicates inside a narrower,        *)
(* reversed Within; `b` is live under one dialect only and the policy      *)
(* does not name it.  Numbers are halves: 1 is one half.                   *)
(***************************************************************************)
EXTENDS MidLoop, TLC

CONSTANTS a, b, wide, narrow

MCIds == {a, b}
MCBindings == {wide, narrow}
MCOccurrences ==
    (wide   :> (a :> {<<0, 4>>} @@ b :> {<<0, 2>>})) @@
    (narrow :> (a :> {<<0, 4>>, <<2, 1>>} @@ b :> {}))
MCPolicyTargets == {a}
MCAllowed == a :> {0, 2, 4} @@ b :> {}
MCNumbers == {0, 1, 2, 4}
MCEmittedChoices == {[i \in MCIds |-> NoChoice], (a :> 4 @@ b :> NoChoice)}
=============================================================================
