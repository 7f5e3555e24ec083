---------------------------- MODULE MCGamification ----------------------------
(* Two attendances, three looks at the clock on three days; the levels of the migration. *)
EXTENDS Gamification, TLC
CONSTANTS a1, a2
MCRequiredExp == <<0, 100, 300, 700, 1500, 3000, 5000>>
MCGrants == {-7}
Symmetry == Permutations({a1, a2})
=============================================================================
