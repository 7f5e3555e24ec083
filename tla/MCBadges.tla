------------------------------- MODULE MCBadges -------------------------------
(* Two workers, one of whom works at both events; levels at one and two. *)
EXTENDS Badges
CONSTANTS w1, w2, e1, e2
MCThresholds == [type \in Counted |-> IF type = "WORK_COUNT" THEN <<1, 2>> ELSE <<1>>]
MCRequests == {<<w1, w2>>, <<w2, w1, w1>>}
MCRoster == {<<w1, e1>>, <<w1, e2>>, <<w2, e1>>}
=============================================================================
