------------------------------ MODULE MCEarnings ------------------------------
(***************************************************************************)
(* One worker at two events and one at the first of them.  Of the two pays *)
(* the first makes the three ways to round differ.  Two works of an hour   *)
(* and a half in two months are three hours in all and one hour a month.   *)
(***************************************************************************)
EXTENDS Earnings
CONSTANTS w1, w2, e1, e2, m1, m2
MCRoster == {<<w1, e1>>, <<w1, e2>>, <<w2, e1>>}
\* Documents and statistics read the same rows and write apart.
MCBudgets ==
    {[papers |-> 2, stats |-> 0, roster |-> {<<w1, e1>>, <<w2, e1>>}],
     [papers |-> 0, stats |-> 2, roster |-> {<<w1, e1>>, <<w1, e2>>}],
     [papers |-> 0, stats |-> 1, roster |-> MCRoster]}
MCOffers == {[e \in Events |-> [pay |-> 150640, date |-> IF e = e1 THEN m1 ELSE m2]]}
=============================================================================
