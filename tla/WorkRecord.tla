----------------------------- MODULE WorkRecord -----------------------------
(***************************************************************************)
(* What the platform promises about one worker's record for one event,     *)
(* seen from outside: a worker applies, a confirmed worker holds a         *)
(* check-in code, finished work is anchored.  An unanchored record may be  *)
(* withdrawn or vanish with its event; an anchored record is permanent.    *)
(***************************************************************************)
CONSTANT Records

VARIABLE stage

Stages == {"new", "applied", "coded", "anchored", "gone"}

Init == stage = [r \in Records |-> "new"]

Move(r, from, to) ==
    /\ stage[r] = from
    /\ stage' = [stage EXCEPT ![r] = to]

Apply(r) == Move(r, "new", "applied")

IssueCode(r) == Move(r, "applied", "coded")

Anchor(r) == Move(r, "coded", "anchored")

Withdraw(r) == Move(r, "applied", "gone")

\* An event takes all its records with it, and only if none is anchored.
EraseEvent(S) ==
    /\ \A r \in S : stage[r] \in {"applied", "coded"}
    /\ stage' = [r \in Records |-> IF r \in S THEN "gone" ELSE stage[r]]

Next ==
    \/ \E r \in Records : Apply(r) \/ IssueCode(r) \/ Anchor(r) \/ Withdraw(r)
    \/ \E S \in SUBSET Records : EraseEvent(S)

Spec == Init /\ [][Next]_stage

TypeOK == stage \in [Records -> Stages]
=============================================================================
