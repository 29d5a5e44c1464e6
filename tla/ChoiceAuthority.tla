-------------------------- MODULE ChoiceAuthority --------------------------
(***************************************************************************)
(* What the deterministic mid-loop promises, without saying how: ADR-0024  *)
(* points 2 to 4 of docs/adr/0024-deterministic-operational-mid-loop.md,   *)
(* stated over the choice map alone.  An envelope carries one choice per   *)
(* variation id; whoever's turn it is moves choices, a delegate and the    *)
(* user alike only where authority was granted; an id the user moved is    *)
(* held against delegates until an envelope of a higher epoch is emitted,  *)
(* which happens in nobody's turn.  MidLoop implements it.                 *)
(***************************************************************************)
EXTENDS Integers

CONSTANTS
    Ids,             \* variation ids
    Choices,         \* the values a choice map may carry for an id
    Epochs,          \* the epochs an envelope may carry
    EmittedChoices,  \* the choice maps an emitted envelope may start from
    Granted          \* the <<id, choice>> pairs the policy and tree authorise

Actors == {"delegate", "user"}

VARIABLES
    epoch,           \* epoch of the envelope in force
    choice,          \* its choice map
    held,            \* ids the user holds against delegates
    turn             \* who may move choices now, or "none"

vars == <<epoch, choice, held, turn>>

Init ==
    /\ epoch \in Epochs
    /\ choice \in EmittedChoices
    /\ held = {}
    /\ turn = "none"

TakeTurn(who) ==
    /\ turn = "none"
    /\ turn' = who
    /\ UNCHANGED <<epoch, choice, held>>

PassTurn ==
    /\ turn' = "none"
    /\ UNCHANGED <<epoch, choice, held>>

Choose(i, c) ==
    /\ <<i, c>> \in Granted
    /\ choice' = [choice EXCEPT ![i] = c]
    /\ UNCHANGED <<epoch, turn>>

DelegateChooses(i, c) ==
    /\ turn = "delegate"
    /\ i \notin held
    /\ Choose(i, c)
    /\ UNCHANGED held

UserChooses(i, c) ==
    /\ turn = "user"
    /\ Choose(i, c)
    /\ held' = held \cup {i}

Emit ==
    /\ turn = "none"
    /\ epoch' \in Epochs
    /\ epoch' > epoch
    /\ choice' \in EmittedChoices
    /\ held' = {}
    /\ UNCHANGED turn

Next ==
    \/ \E who \in Actors : TakeTurn(who)
    \/ PassTurn
    \/ \E i \in Ids, c \in Choices : DelegateChooses(i, c) \/ UserChooses(i, c)
    \/ Emit

Spec == Init /\ [][Next]_vars
=============================================================================
