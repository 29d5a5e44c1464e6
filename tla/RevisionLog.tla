---------------------------- MODULE RevisionLog ----------------------------
(***************************************************************************)
(* What the CMS store promises its readers (sections 3 and 5 of            *)
(* docs/superpowers/specs/2026-06-22-morphe-agent-native-cms-design.md):   *)
(* a revision's compiled tree is written once and never changes, and what  *)
(* a slug shows is a pointer that moves, one slug at a time, between       *)
(* revisions that have one.  Nothing is ever unpublished.                  *)
(***************************************************************************)
CONSTANTS
    Slugs,
    Revisions,
    Trees,           \* the compiled trees a gate lets through
    Nothing          \* no tree, or no pointer

VARIABLES
    tree,            \* [Slugs -> [Revisions -> Trees or Nothing]]
    pointer          \* [Slugs -> Revisions or Nothing]

vars == <<tree, pointer>>

Init ==
    /\ tree = [s \in Slugs |-> [r \in Revisions |-> Nothing]]
    /\ pointer = [s \in Slugs |-> Nothing]

Store(s, r, t) ==
    /\ tree[s][r] = Nothing
    /\ tree' = [tree EXCEPT ![s][r] = t]
    /\ UNCHANGED pointer

\* Publish and rollback: the pointer may move either way.
Point(s, r) ==
    /\ tree[s][r] # Nothing
    /\ pointer' = [pointer EXCEPT ![s] = r]
    /\ UNCHANGED tree

Next ==
    \E s \in Slugs, r \in Revisions :
        \/ \E t \in Trees : Store(s, r, t)
        \/ Point(s, r)

Spec == Init /\ [][Next]_vars
=============================================================================
