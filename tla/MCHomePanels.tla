---------------------------- MODULE MCHomePanels ----------------------------
(* Two panels, two variants of each, two page loads at a time.             *)
EXTENDS HomePanels

CONSTANTS p1, p2, q1, q2, v1, v2

MCLoads == {q1, q2}
MCRoster == <<p1, p2>>
MCVariants == {v1, v2}
=============================================================================
