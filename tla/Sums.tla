-------------------------------- MODULE Sums --------------------------------
(* Sums over the rows of a table: in the order in which they were written, *)
(* and over any set of them.                                               *)
EXTENDS Integers

\* The sum of f[1] .. f[n].
FirstSum(f, n) ==
    LET sum[i \in 0 .. n] == IF i = 0 THEN 0 ELSE sum[i - 1] + f[i] IN sum[n]

\* The sum of f[x] for the x in S, which is finite.
SumOver(S, f) ==
    LET sum[T \in SUBSET S] ==
          IF T = {} THEN 0
          ELSE LET x == CHOOSE x \in T : TRUE IN f[x] + sum[T \ {x}]
    IN  sum[S]
=============================================================================
