---------------------------- MODULE ReviewRounds ----------------------------
(***************************************************************************)
(* What the review belt promises the seats of one pull request, without    *)
(* saying how: a seat is told that a head is clean only of a CLEAN verdict *)
(* at that head, is sent back to fix it only of findings there and while   *)
(* the loop is below its bound, and is told that the loop has run out only *)
(* of findings, once as many heads have been reviewed as the bound allows. *)
(* A round is a reviewed head, whoever reviewed it and however often; a    *)
(* head that can no longer be told is one.  ReviewLoop implements it.      *)
(***************************************************************************)
EXTENDS Naturals, FiniteSets

CONSTANTS
    Heads,
    MaxRounds

VARIABLES
    found, cleared,          \* heads that verdicts of either kind were given at
    fixing, closed, stopped  \* heads a seat was sent to fix, was told are
                             \* clean, was told the loop has run out at

vars == <<found, cleared, fixing, closed, stopped>>

Init ==
    /\ found \in SUBSET Heads /\ cleared \in SUBSET Heads
    /\ fixing = {} /\ closed = {} /\ stopped = {}

Find ==
    /\ found' \in {found \cup {h} : h \in Heads \ found}
    /\ UNCHANGED <<cleared, fixing, closed, stopped>>

Clear ==
    /\ cleared' \in {cleared \cup {h} : h \in Heads \ cleared}
    /\ UNCHANGED <<found, fixing, closed, stopped>>

SendToFix ==
    /\ fixing' \in {fixing \cup {h} : h \in found \ fixing}
    /\ Cardinality(fixing') < MaxRounds
    /\ UNCHANGED <<found, cleared, closed, stopped>>

Close ==
    /\ closed' \in {closed \cup {h} : h \in cleared \ closed}
    /\ UNCHANGED <<found, cleared, fixing, stopped>>

Stop ==
    /\ stopped' \in {stopped \cup {h} : h \in found \ stopped}
    /\ Cardinality(found \cup cleared) >= MaxRounds
    /\ UNCHANGED <<found, cleared, fixing, closed>>

Next == Find \/ Clear \/ SendToFix \/ Close \/ Stop

Spec == Init /\ [][Next]_vars
=============================================================================
