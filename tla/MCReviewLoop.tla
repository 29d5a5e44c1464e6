---------------------------- MODULE MCReviewLoop ----------------------------
(* A fresh pull request, and one whose first head was reviewed: with two   *)
(* rounds, the next verdict of the second is at the bound.                 *)
EXTENDS ReviewLoop, TLC

Pushed(h) == [via |-> "push", head |-> h, arg |-> ""]
Reviewed(h) ==
    [via |-> "review", by |-> Codex, head |-> h, body |-> FindingsBody, badges |-> <<1>>]

MCOpenings ==
    {[head |-> 1, thread |-> <<Pushed(1)>>],
     [head |-> 2, thread |-> <<Pushed(1), Reviewed(1), Pushed(2)>>]}
=============================================================================
