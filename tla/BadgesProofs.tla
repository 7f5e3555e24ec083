----------------------------- MODULE BadgesProofs -----------------------------
(***************************************************************************)
(* For any workers, events, increasing thresholds and requests: a project  *)
(* badge stands for completed work at an event that cannot be deleted any  *)
(* more; badges, batches and the audit log describe the same badges; and   *)
(* nobody holds a level without those below it.                            *)
(***************************************************************************)
EXTENDS Badges, SumsProofs, SequenceTheorems

-----------------------------------------------------------------------------
(* The inductive invariant.  An issued badge is right because of the look  *)
(* at the attendance one transaction earlier; in between, the batch keeps  *)
(* the event and the event keeps the attendance.                           *)

TablesTyped ==
    /\ event \in [Events -> {"OPEN", "COMPLETED", "GONE"}]
    /\ work \in [Workers -> [Events -> Row]]
    /\ batches \in Seq(Batch)
    /\ DOMAIN run = {"pc", "worker", "event", "todo", "issued"}

\* No event of a batch has been deleted.
BatchesStand == \A i \in DOMAIN batches : event[batches[i].event] # "GONE"

\* What a loop that issues badges relies on.
Issuers == {"look", "issue", "audit"}
LoopFacts ==
    /\ At("batch") => run.event \in Events /\ run.todo \in Seq(Workers) /\ run.issued \in Nat
    /\ run.pc \in Issuers =>
          /\ run.todo \in Seq(Workers)
          /\ Len(batches) \in DOMAIN batches
          /\ batches[Len(batches)].event = run.event
          /\ run.issued \in Nat
    /\ run.pc \in {"issue", "audit"} => run.todo # << >>
    /\ At("issue") => work[Head(run.todo)][run.event].out

BadgesTyped ==
    \A b \in badges : Project(b) => b.worker \in Workers /\ b.event \in Events

BadgeInv ==
    /\ TablesTyped /\ BatchesStand /\ LoopFacts /\ BadgesTyped /\ IssuedWereEligible

LEMMA InitInv == Init => BadgeInv
  BY BadgesAssumption DEF Init, BadgeInv, TablesTyped, BatchesStand, LoopFacts, BadgesTyped,
     IssuedWereEligible, Idle, NoOne, Row, NoRow, At, Issuers

\* The types of what a loop that issues badges works on.
LEMMA BatchTyped ==
    ASSUME BadgeInv, NEW i \in DOMAIN batches
    PROVE  batches[i] \in Batch /\ batches[i].event \in Events /\ batches[i].total \in Nat
  <1>1. batches[i] \in Batch
    BY DEF BadgeInv, TablesTyped
  <1> QED BY <1>1 DEF Batch

LEMMA LoopTyped ==
    ASSUME BadgeInv, run.pc \in Issuers
    PROVE  /\ run.event \in Events /\ run.todo \in Seq(Workers)
           /\ run.todo # << >> => Head(run.todo) \in Workers /\ Tail(run.todo) \in Seq(Workers)
  <1>1. run.todo \in Seq(Workers)
    BY DEF BadgeInv, LoopFacts
  <1>2. run.event \in Events
    BY BatchTyped DEF BadgeInv, LoopFacts
  <1> QED BY <1>1, <1>2

-----------------------------------------------------------------------------
(* Steps of other handlers.                                                *)

\* A row keeps its check-out, and the events and the loop stay.
LEMMA RowStep ==
    ASSUME BadgeInv, NEW w \in Workers, NEW e \in Events, NEW row \in Row,
           SetRow(w, e, row), work[w][e].out => row.out,
           UNCHANGED <<event, badges, batches, run>>
    PROVE  BadgeInv'
  <1>1. /\ work' \in [Workers -> [Events -> Row]]
        /\ \A v \in Workers, f \in Events : work[v][f].out => work'[v][f].out
    BY DEF SetRow, BadgeInv, TablesTyped
  <1>2. TablesTyped' /\ BatchesStand' /\ BadgesTyped'
    BY <1>1 DEF BadgeInv, TablesTyped, BatchesStand, BadgesTyped, Project
  <1>3. LoopFacts'
    <2>1. At("issue") => Head(run.todo) \in Workers /\ run.event \in Events
      BY LoopTyped DEF BadgeInv, LoopFacts, At, Issuers
    <2> QED BY <2>1, <1>1 DEF BadgeInv, LoopFacts, At, Issuers
  <1>4. IssuedWereEligible'
    BY <1>1 DEF BadgeInv, IssuedWereEligible, BadgesTyped, Project
  <1> QED BY <1>2, <1>3, <1>4 DEF BadgeInv

LEMMA RowSteps ==
    ASSUME BadgeInv, NEW w \in Workers, NEW e \in Events,
           Confirm(w, e) \/ Reject(w, e) \/ CheckOut(w, e) \/ Anchor(w, e)
    PROVE  BadgeInv'
  <1>1. work[w][e] \in Row
    BY DEF BadgeInv, TablesTyped
  <1> DEFINE old == work[w][e]
  <1>2. /\ [old EXCEPT !.app = "CONFIRMED"] \in Row /\ [old EXCEPT !.app = "REJECTED"] \in Row
        /\ [old EXCEPT !.out = TRUE] \in Row /\ [old EXCEPT !.chain = TRUE] \in Row
        /\ [old EXCEPT !.app = "CONFIRMED"].out = old.out
        /\ [old EXCEPT !.app = "REJECTED"].out = old.out
        /\ [old EXCEPT !.out = TRUE].out
        /\ [old EXCEPT !.chain = TRUE].out = old.out
    BY <1>1 DEF Row
  <1>3. CASE Confirm(w, e)
    BY <1>2, <1>3, RowStep DEF Confirm
  <1>4. CASE Reject(w, e)
    BY <1>2, <1>4, RowStep DEF Reject
  <1>5. CASE CheckOut(w, e)
    BY <1>2, <1>5, RowStep DEF CheckOut
  <1>6. CASE Anchor(w, e)
    BY <1>2, <1>6, RowStep DEF Anchor
  <1> QED BY <1>3, <1>4, <1>5, <1>6

LEMMA CompleteStep ==
    ASSUME BadgeInv, NEW e \in Events, CompleteEvent(e)
    PROVE  BadgeInv'
  <1>1. /\ event' \in [Events -> {"OPEN", "COMPLETED", "GONE"}]
        /\ \A f \in Events : event[f] # "GONE" => event'[f] # "GONE"
    BY DEF CompleteEvent, BadgeInv, TablesTyped
  <1>2. UNCHANGED <<work, badges, batches, run>>
    BY DEF CompleteEvent
  <1>3. \A i \in DOMAIN batches : batches[i].event \in Events
    BY BatchTyped
  <1> QED
    BY <1>1, <1>2, <1>3 DEF BadgeInv, TablesTyped, BatchesStand, LoopFacts, BadgesTyped,
       IssuedWereEligible, At, Project

\* The foreign keys: neither a batch nor a badge is about the event.
LEMMA DeleteStep ==
    ASSUME BadgeInv, NEW e \in Events, DeleteEvent(e)
    PROVE  BadgeInv'
  <1>1. /\ event' \in [Events -> {"OPEN", "COMPLETED", "GONE"}]
        /\ \A f \in Events \ {e} : event'[f] = event[f]
    BY DEF DeleteEvent, BadgeInv, TablesTyped
  <1>2. /\ work' \in [Workers -> [Events -> Row]]
        /\ \A w \in Workers, f \in Events \ {e} : work'[w][f] = work[w][f]
    BY DEF DeleteEvent, BadgeInv, TablesTyped, Row, NoRow
  <1>3. UNCHANGED <<badges, batches, run>>
    BY DEF DeleteEvent
  <1>4. /\ \A i \in DOMAIN batches : batches[i].event \in Events \ {e}
        /\ \A b \in badges : b.event # e
    BY BatchTyped DEF DeleteEvent, Deletable
  <1>5. TablesTyped' /\ BatchesStand' /\ BadgesTyped'
    BY <1>1, <1>2, <1>3, <1>4 DEF BadgeInv, TablesTyped, BatchesStand, BadgesTyped, Project
  <1>6. LoopFacts'
    <2>1. At("issue") => Head(run.todo) \in Workers /\ run.event \in Events \ {e}
      BY <1>4, LoopTyped DEF BadgeInv, LoopFacts, At, Issuers
    <2> QED BY <2>1, <1>2, <1>3 DEF BadgeInv, LoopFacts, At, Issuers
  <1>7. IssuedWereEligible'
    BY <1>1, <1>2, <1>3, <1>4 DEF BadgeInv, IssuedWereEligible, BadgesTyped, Project
  <1> QED BY <1>5, <1>6, <1>7 DEF BadgeInv

LEMMA ElsewhereKeeps == BadgeInv /\ Elsewhere => BadgeInv'
  <1> SUFFICES ASSUME BadgeInv, Elsewhere PROVE BadgeInv'
    OBVIOUS
  <1>1. CASE \E w \in Workers, f \in Flags : EditProfile(w, f)
    BY <1>1 DEF EditProfile, BadgeInv, TablesTyped, BatchesStand, LoopFacts, BadgesTyped,
       IssuedWereEligible, At, Project
  <1> QED BY <1>1, RowSteps, CompleteStep, DeleteStep DEF Elsewhere

-----------------------------------------------------------------------------
(* The loops.                                                              *)

\* A step that leaves the tables alone, and the loop outside of issuing.
LEMMA LoopLeft ==
    ASSUME BadgeInv, UNCHANGED <<event, work, badges, batches>>,
           DOMAIN run' = {"pc", "worker", "event", "todo", "issued"},
           run'.pc \notin Issuers \cup {"batch"}
    PROVE  BadgeInv'
  BY DEF BadgeInv, TablesTyped, BatchesStand, LoopFacts, BadgesTyped,
     IssuedWereEligible, At, Project, Issuers

LEMMA IdleLoop ==
    DOMAIN Idle = {"pc", "worker", "event", "todo", "issued"} /\ Idle.pc = "idle"
  BY DEF Idle

LEMMA CheckingKeeps == BadgeInv /\ Checking => BadgeInv'
  <1> SUFFICES ASSUME BadgeInv, Checking PROVE BadgeInv'
    OBVIOUS
  <1>0. DOMAIN run = {"pc", "worker", "event", "todo", "issued"}
    BY DEF BadgeInv, TablesTyped
  <1>1. CASE \E w \in Workers : Check(w)
    <2>1. PICK w \in Workers : Check(w)
      BY <1>1
    <2>2. /\ DOMAIN run' = {"pc", "worker", "event", "todo", "issued"}
          /\ run'.pc = "stats"
      BY <2>1 DEF Check, Start, Idle
    <2> QED BY <2>1, <2>2, LoopLeft DEF Check, Issuers
  <1>2. CASE ReadStats
    <2>1. run'.pc = "worker" /\ DOMAIN run' = DOMAIN run
      BY <1>0, <1>2 DEF ReadStats
    <2> QED BY <1>0, <1>2, <2>1, LoopLeft DEF ReadStats, Issuers
  <1>3. CASE ReadWorker
    <2>1. run'.pc = "award" /\ DOMAIN run' = DOMAIN run
      BY <1>0, <1>3 DEF ReadWorker
    <2> QED BY <1>0, <1>3, <2>1, LoopLeft DEF ReadWorker, Issuers
  <1>4. CASE AwardBadge
    <2>1. run'.pc = "award" /\ DOMAIN run' = DOMAIN run
      BY <1>0, <1>4 DEF AwardBadge, At
    <2>2. \A b \in badges' : Project(b) => b \in badges
      BY <1>4 DEF AwardBadge, Project
    <2>3. UNCHANGED <<event, work, batches>>
      BY <1>4 DEF AwardBadge
    <2> QED
      BY <1>0, <2>1, <2>2, <2>3 DEF BadgeInv, TablesTyped, BatchesStand, LoopFacts,
         BadgesTyped, IssuedWereEligible, At, Project, Issuers
  <1>5. CASE CheckEnds
    BY <1>5, LoopLeft, IdleLoop DEF CheckEnds, Issuers
  <1> QED BY <1>1, <1>2, <1>3, <1>4, <1>5 DEF Checking

LEMMA IssueStep ==
    ASSUME BadgeInv, NEW e \in Events, NEW picked \in Requests, Issue(e, picked)
    PROVE  BadgeInv'
  <1>1. picked \in Seq(Workers)
    BY BadgesAssumption
  <1>2. /\ run'.pc = "batch" /\ run'.event = e /\ run'.todo = picked /\ run'.issued = 0
        /\ DOMAIN run' = {"pc", "worker", "event", "todo", "issued"}
    BY DEF Issue, Start, Idle
  <1>3. UNCHANGED <<event, work, badges, batches>>
    BY DEF Issue
  <1> QED
    BY <1>1, <1>2, <1>3 DEF BadgeInv, TablesTyped, BatchesStand, LoopFacts, BadgesTyped,
       IssuedWereEligible, At, Project, Issuers

LEMMA CreateBatchStep ==
    ASSUME BadgeInv, CreateBatch
    PROVE  BadgeInv'
  <1>1. CASE event[run.event] = "GONE"
    BY <1>1, LoopLeft, IdleLoop DEF CreateBatch, Issuers
  <1>2. CASE event[run.event] # "GONE"
    <2> DEFINE new == [event |-> run.event, total |-> 0]
    <2>1. /\ run.event \in Events /\ run.todo \in Seq(Workers) /\ run.issued \in Nat
          /\ new \in Batch
      BY DEF CreateBatch, BadgeInv, LoopFacts, Batch
    <2>2. batches' = Append(batches, new) /\ UNCHANGED <<event, work, badges>>
      BY <1>2 DEF CreateBatch
    <2> HIDE DEF new
    <2>3. /\ batches' \in Seq(Batch) /\ Len(batches') \in DOMAIN batches'
          /\ batches'[Len(batches')] = new
          /\ \A i \in DOMAIN batches' :
                \/ i \in DOMAIN batches /\ batches'[i] = batches[i]
                \/ batches'[i] = new
          /\ \A i \in DOMAIN batches : i \in DOMAIN batches' /\ batches'[i] = batches[i]
      BY <2>1, <2>2 DEF BadgeInv, TablesTyped
    <2>4. new.event = run.event
      BY DEF new
    <2>5. /\ run'.pc = "look" /\ run'.event = run.event /\ run'.todo = run.todo
          /\ run'.issued = run.issued /\ DOMAIN run' = {"pc", "worker", "event", "todo", "issued"}
      BY <1>2 DEF CreateBatch, BadgeInv, TablesTyped
    <2>6. TablesTyped' /\ BatchesStand'
      BY <1>2, <2>2, <2>3, <2>4, <2>5 DEF BadgeInv, TablesTyped, BatchesStand
    <2>7. LoopFacts'
      BY <2>1, <2>3, <2>4, <2>5 DEF LoopFacts, At, Issuers
    <2>8. BadgesTyped' /\ IssuedWereEligible'
      BY <2>2, <2>3 DEF BadgeInv, BadgesTyped, IssuedWereEligible, Project
    <2> QED BY <2>6, <2>7, <2>8 DEF BadgeInv
  <1> QED BY <1>1, <1>2

\* A loop goes on with the same event; the tables stay.
LEMMA LoopGoesOn ==
    ASSUME BadgeInv, UNCHANGED <<event, work, badges, batches>>,
           run.pc \in Issuers, run'.pc \in Issuers, run'.event = run.event,
           run'.issued = run.issued,
           DOMAIN run' = {"pc", "worker", "event", "todo", "issued"},
           run'.todo \in Seq(Workers), run'.pc = "look" \/ run'.todo # << >>,
           run'.pc = "issue" => work[Head(run'.todo)][run.event].out
    PROVE  BadgeInv'
  <1>1. LoopFacts'
    BY DEF BadgeInv, LoopFacts, At, Issuers
  <1> QED BY <1>1 DEF BadgeInv, TablesTyped, BatchesStand, BadgesTyped, IssuedWereEligible, Project

LEMMA LookStep ==
    ASSUME BadgeInv, LookAtWorker
    PROVE  BadgeInv'
  <1>1. run.pc = "look" /\ run.pc \in Issuers /\ run.todo \in Seq(Workers) /\ run.todo # << >>
    BY DEF LookAtWorker, BadgeInv, LoopFacts, At, Issuers
  <1>2. UNCHANGED <<event, work, badges, batches>>
    BY DEF LookAtWorker
  <1>3. DOMAIN run = {"pc", "worker", "event", "todo", "issued"}
    BY DEF BadgeInv, TablesTyped
  <1>4. CASE Eligible(Head(run.todo), run.event)
    <2>1. /\ run'.pc = "issue" /\ run'.event = run.event /\ run'.todo = run.todo
          /\ run'.issued = run.issued /\ DOMAIN run' = DOMAIN run
      BY <1>3, <1>4 DEF LookAtWorker
    <2> QED BY <1>1, <1>2, <1>3, <1>4, <2>1, LoopGoesOn DEF Eligible, Issuers
  <1>5. CASE ~Eligible(Head(run.todo), run.event)
    <2>1. /\ run'.pc = "look" /\ run'.event = run.event /\ run'.todo = Tail(run.todo)
          /\ run'.issued = run.issued /\ DOMAIN run' = DOMAIN run
      BY <1>1, <1>3, <1>5 DEF LookAtWorker
    <2>2. Tail(run.todo) \in Seq(Workers)
      BY <1>1
    <2> QED BY <1>1, <1>2, <1>3, <2>1, <2>2, LoopGoesOn DEF Issuers
  <1> QED BY <1>4, <1>5

LEMMA IssueBadgeStep ==
    ASSUME BadgeInv, IssueBadge
    PROVE  BadgeInv'
  <1> DEFINE w == Head(run.todo)
             new == [worker |-> w, type |-> "PROJECT", level |-> 1,
                     event |-> run.event, batch |-> Len(batches)]
             has == \E b \in badges : b.worker = w /\ b.type = "PROJECT" /\ b.event = run.event
  <1>1. run.pc = "issue" /\ run.pc \in Issuers /\ run.todo \in Seq(Workers) /\ run.todo # << >>
    BY DEF IssueBadge, BadgeInv, LoopFacts, At, Issuers
  <1>2. UNCHANGED <<event, work, batches>>
    BY DEF IssueBadge
  <1>3. DOMAIN run = {"pc", "worker", "event", "todo", "issued"}
    BY DEF BadgeInv, TablesTyped
  <1>4. CASE has
    <2>1. /\ run'.pc = "look" /\ run'.event = run.event /\ run'.todo = Tail(run.todo)
          /\ run'.issued = run.issued /\ DOMAIN run' = DOMAIN run /\ UNCHANGED badges
      BY <1>3, <1>4 DEF IssueBadge
    <2>2. Tail(run.todo) \in Seq(Workers)
      BY <1>1
    <2> QED BY <1>1, <1>2, <1>3, <2>1, <2>2, LoopGoesOn DEF Issuers
  <1>5. CASE ~has /\ Holds(w, "PROJECT", 1)
    <2>1. run' = Idle /\ UNCHANGED badges
      BY <1>5 DEF IssueBadge
    <2> QED BY <1>2, <2>1, LoopLeft, IdleLoop DEF Issuers
  <1>6. CASE ~has /\ ~Holds(w, "PROJECT", 1)
    <2>1. badges' = badges \cup {new}
      BY <1>6 DEF IssueBadge
    <2>2. /\ run'.pc = "audit" /\ run'.event = run.event /\ run'.todo = run.todo
          /\ run'.issued = run.issued + 1 /\ DOMAIN run' = DOMAIN run
      BY <1>3, <1>6 DEF IssueBadge
    <2>3. /\ Len(batches) \in DOMAIN batches /\ batches[Len(batches)].event = run.event
          /\ work[w][run.event].out
      BY <1>1 DEF BadgeInv, LoopFacts, At, Issuers
    <2>4. w \in Workers /\ run.event \in Events /\ event[run.event] # "GONE"
      BY <1>1, <2>3, LoopTyped DEF BadgeInv, BatchesStand
    <2>5. /\ new.worker = w /\ new.event = run.event /\ new.batch = Len(batches)
      OBVIOUS
    <2> HIDE DEF w, new, has
    <2>6. BadgesTyped'
      BY <2>1, <2>4, <2>5 DEF BadgeInv, BadgesTyped, Project
    <2>7. IssuedWereEligible'
      BY <1>2, <2>1, <2>3, <2>4, <2>5 DEF BadgeInv, IssuedWereEligible, Project
    <2>8. TablesTyped' /\ BatchesStand'
      BY <1>2, <1>3, <2>2 DEF BadgeInv, TablesTyped, BatchesStand
    <2>9. LoopFacts'
      BY <1>1, <1>2, <2>2, <2>3 DEF BadgeInv, LoopFacts, At, Issuers
    <2> QED BY <2>6, <2>7, <2>8, <2>9 DEF BadgeInv
  <1> QED BY <1>4, <1>5, <1>6

LEMMA AuditStep ==
    ASSUME BadgeInv, AuditBadge
    PROVE  BadgeInv'
  <1>1. run.pc \in Issuers /\ run.todo \in Seq(Workers) /\ run.todo # << >>
    BY DEF AuditBadge, BadgeInv, LoopFacts, At, Issuers
  <1>2. UNCHANGED <<event, work, badges, batches>>
    BY DEF AuditBadge
  <1>3. DOMAIN run = {"pc", "worker", "event", "todo", "issued"}
    BY DEF BadgeInv, TablesTyped
  <1>4. /\ run'.pc = "look" /\ run'.event = run.event /\ run'.todo = Tail(run.todo)
        /\ run'.issued = run.issued /\ DOMAIN run' = DOMAIN run
    BY <1>3 DEF AuditBadge
  <1>5. Tail(run.todo) \in Seq(Workers)
    BY <1>1
  <1> QED BY <1>1, <1>2, <1>3, <1>4, <1>5, LoopGoesOn DEF Issuers

LEMMA CountStep ==
    ASSUME BadgeInv, CountBatch
    PROVE  BadgeInv'
  <1> DEFINE n == Len(batches)
  <1>1. n \in DOMAIN batches /\ run.issued \in Nat
    BY DEF CountBatch, BadgeInv, LoopFacts, At, Issuers
  <1>2. /\ batches' = [batches EXCEPT ![n] = [batches[n] EXCEPT !.total = run.issued]]
        /\ run' = Idle /\ UNCHANGED <<event, work, badges>>
    BY DEF CountBatch
  <1> DEFINE counted == [batches[n] EXCEPT !.total = run.issued]
  <1>3. counted \in Batch /\ counted.event = batches[n].event
    BY <1>1, BatchTyped DEF Batch
  <1> HIDE DEF n, counted
  <1>4. batches' = [batches EXCEPT ![n] = counted]
    BY <1>2 DEF counted
  <1>5. batches \in Seq(Batch)
    BY DEF BadgeInv, TablesTyped
  <1>6. /\ batches' \in Seq(Batch) /\ DOMAIN batches' = DOMAIN batches
        /\ \A i \in DOMAIN batches : batches'[i].event = batches[i].event
    BY <1>1, <1>3, <1>4, <1>5
  <1>7. TablesTyped' /\ BatchesStand'
    BY <1>2, <1>6, IdleLoop DEF BadgeInv, TablesTyped, BatchesStand
  <1>8. LoopFacts'
    BY <1>2, IdleLoop DEF LoopFacts, At, Issuers
  <1>9. BadgesTyped' /\ IssuedWereEligible'
    BY <1>2, <1>6 DEF BadgeInv, BadgesTyped, IssuedWereEligible, Project
  <1> QED BY <1>7, <1>8, <1>9 DEF BadgeInv

LEMMA IssuingKeeps == BadgeInv /\ Issuing => BadgeInv'
  BY IssueStep, CreateBatchStep, LookStep, IssueBadgeStep, AuditStep, CountStep DEF Issuing

-----------------------------------------------------------------------------
(* The induction.                                                          *)

LEMMA StepInv == BadgeInv /\ [Next]_vars => BadgeInv'
  <1> SUFFICES ASSUME BadgeInv, [Next]_vars PROVE BadgeInv'
    OBVIOUS
  <1>1. CASE Crash
    BY <1>1, LoopLeft, IdleLoop DEF Crash, Issuers
  <1>2. CASE UNCHANGED vars
    BY <1>2 DEF vars, BadgeInv, TablesTyped, BatchesStand, LoopFacts, BadgesTyped,
       IssuedWereEligible, At, Project
  <1> QED BY <1>1, <1>2, ElsewhereKeeps, CheckingKeeps, IssuingKeeps DEF Next

\* A project badge stands for work that was done and can no longer be deleted
\* (award_project_badge and the foreign keys on events).
THEOREM IssuedHold == Spec => []IssuedWereEligible
  <1>1. BadgeInv => IssuedWereEligible
    BY DEF BadgeInv
  <1> QED BY <1>1, InitInv, StepInv, PTL DEF Spec

-----------------------------------------------------------------------------
(* What a check finds: the thresholds increase, so the levels that are     *)
(* reached are the first ones.                                             *)

Levels(type, m) == [l \in 1 .. m |-> <<type, l>>]

IsReached(s, type, n, m) ==
    s = [l \in 0 .. m |-> IF l = 0 THEN << >>
                          ELSE IF n >= Thresholds[type][l] THEN Append(s[l - 1], <<type, l>>)
                          ELSE s[l - 1]]

LEMMA ReachedExists ==
    ASSUME NEW type, NEW n, NEW m \in Nat
    PROVE  \E s : IsReached(s, type, n, m)
  <1> DEFINE T == {k \in Nat : \E s : IsReached(s, type, n, k)}
  <1>1. 0 \in T
    <2> DEFINE s == [i \in 0 .. 0 |-> << >>]
    <2>1. IsReached(s, type, n, 0)
      BY DEF IsReached
    <2> QED BY <2>1
  <1>2. ASSUME NEW k \in T PROVE k + 1 \in T
    <2>1. PICK s : IsReached(s, type, n, k)
      OBVIOUS
    <2> DEFINE last == IF n >= Thresholds[type][k + 1] THEN Append(s[k], <<type, k + 1>>)
                       ELSE s[k]
               t == [i \in 0 .. (k + 1) |-> IF i = k + 1 THEN last ELSE s[i]]
    <2>2. IsReached(t, type, n, k + 1)
      <3>1. \A i \in 0 .. (k + 1) :
                t[i] = IF i = 0 THEN << >>
                       ELSE IF n >= Thresholds[type][i] THEN Append(t[i - 1], <<type, i>>)
                       ELSE t[i - 1]
        <4> TAKE i \in 0 .. (k + 1)
        <4>1. CASE i = k + 1
          BY <4>1
        <4>2. CASE i \in 0 .. k
          <5>1. t[i] = s[i] /\ (i # 0 => t[i - 1] = s[i - 1])
            BY <4>2
          <5> HIDE DEF t
          <5> QED BY <2>1, <4>2, <5>1 DEF IsReached
        <4> QED BY <4>1, <4>2
      <3>2. t = [i \in 0 .. (k + 1) |-> t[i]]
        OBVIOUS
      <3> HIDE DEF t
      <3> QED BY <3>1, <3>2 DEF IsReached
    <2> QED BY <2>2
  <1>3. T = Nat
    <2>1. T \subseteq Nat
      OBVIOUS
    <2> HIDE DEF T
    <2> QED BY <1>1, <1>2, <2>1, Induction
  <1> QED BY <1>3

LEMMA LevelsReached ==
    ASSUME NEW type \in Counted, NEW n \in Nat
    PROVE  \E m \in 0 .. MaxLevel(type) : Reached(type, n) = Levels(type, m)
  <1> DEFINE top == MaxLevel(type)
             th == Thresholds[type]
  <1>1. /\ th \in Seq(Nat \ {0}) /\ top = Len(th)
        /\ \A k, l \in DOMAIN th : k < l => th[k] <= th[l]
    BY BadgesAssumption DEF MaxLevel
  <1>2. top \in Nat /\ DOMAIN th = 1 .. top /\ \A l \in 1 .. top : th[l] \in Nat
    BY <1>1, LenProperties, ElementOfSeq
  <1>3. PICK s : IsReached(s, type, n, top) /\ Reached(type, n) = s[top]
    <2> DEFINE c == CHOOSE s : IsReached(s, type, n, top)
    <2>1. IsReached(c, type, n, top)
      BY <1>2, ReachedExists
    <2>2. Reached(type, n) = c[top]
      BY DEF Reached, IsReached
    <2> QED BY <2>1, <2>2
  <1> HIDE DEF top
  <1> DEFINE First(l, m) == s[l] = Levels(type, m) /\ \A k \in 1 .. l : n >= th[k] <=> k <= m
             T == {l \in Nat : l <= top => \E m \in 0 .. l : First(l, m)}
  <1>4. 0 \in T
    <2>1. s[0] = << >>
      BY <1>2, <1>3 DEF IsReached
    <2>2. Levels(type, 0) = << >>
      BY DEF Levels
    <2> QED BY <2>1, <2>2
  <1>5. ASSUME NEW l \in T PROVE l + 1 \in T
    <2> SUFFICES ASSUME l + 1 <= top PROVE \E m \in 0 .. (l + 1) : First(l + 1, m)
      OBVIOUS
    <2>0. l \in Nat /\ l <= top /\ l + 1 \in 0 .. top /\ l + 1 # 0 /\ (l + 1) - 1 = l
      BY <1>2
    <2>1. PICK m \in 0 .. l : First(l, m)
      BY <2>0
    <2>2. s[l + 1] = IF n >= th[l + 1] THEN Append(s[l], <<type, l + 1>>) ELSE s[l]
      <3> DEFINE k == l + 1
      <3>1. k \in 0 .. top /\ k # 0 /\ k - 1 = l
        BY <2>0
      <3> HIDE DEF k
      <3>2. s[k] = IF n >= Thresholds[type][k] THEN Append(s[k - 1], <<type, k>>) ELSE s[k - 1]
        BY <1>3, <3>1 DEF IsReached
      <3> QED BY <3>1, <3>2 DEF k
    <2> HIDE DEF th
    <2>3. CASE n >= th[l + 1]
      <3>1. \A k \in 1 .. l : n >= th[k]
        <4> TAKE k \in 1 .. l
        <4>1. th[k] <= th[l + 1] /\ th[k] \in Nat /\ th[l + 1] \in Nat
          <5>1. k \in DOMAIN th /\ l + 1 \in DOMAIN th /\ k < l + 1
            BY <1>2, <2>0
          <5>2. th[k] <= th[l + 1]
            BY <1>1, <5>1
          <5> QED BY <1>2, <5>1, <5>2
        <4> QED BY <2>3, <4>1
      <3>2. m = l
        BY <2>1, <3>1
      <3>3. Append(Levels(type, l), <<type, l + 1>>) = Levels(type, l + 1)
        BY <2>0 DEF Levels
      <3>4. s[l + 1] = Levels(type, l + 1)
        BY <2>1, <2>2, <2>3, <3>2, <3>3
      <3>5. \A k \in 1 .. (l + 1) : n >= th[k]
        <4> TAKE k \in 1 .. (l + 1)
        <4>1. k \in 1 .. l \/ k = l + 1
          BY <2>0
        <4> QED BY <2>3, <3>1, <4>1
      <3>6. First(l + 1, l + 1)
        BY <3>4, <3>5
      <3> QED BY <2>0, <3>6
    <2>4. CASE ~(n >= th[l + 1])
      <3>1. First(l + 1, m)
        BY <2>1, <2>2, <2>4
      <3> QED BY <3>1
    <2> QED BY <2>3, <2>4
  <1>6. T = Nat
    <2>1. T \subseteq Nat
      OBVIOUS
    <2> HIDE DEF T
    <2> QED BY <1>4, <1>5, <2>1, Induction
  <1>7. \E m \in 0 .. top : First(top, m)
    BY <1>2, <1>6
  <1> QED BY <1>3, <1>7 DEF top

-----------------------------------------------------------------------------
(* The types, and what the loop of a check works on.                       *)

Found == (Counted \cup Flags) \X Nat
RunInv ==
    /\ run.pc \in {"stats", "worker", "award"} => run.worker \in Workers
    /\ run.pc \in {"worker", "award"} => run.todo \in Seq(Found)

Typed == BadgeInv /\ TypeOK /\ RunInv

\* The loop as a record.
LEMMA RunFields ==
    ASSUME NEW r, NEW pc \in Steps, NEW w \in Workers \cup {NoOne},
           NEW e \in Events \cup {NoOne}, NEW todo \in Seq(Found) \cup Seq(Workers), NEW n \in Nat,
           r = [pc |-> pc, worker |-> w, event |-> e, todo |-> todo, issued |-> n]
    PROVE  r \in Run
  BY DEF Run, Found

LEMMA RunIs ==
    ASSUME run \in Run
    PROVE  /\ run = [pc |-> run.pc, worker |-> run.worker, event |-> run.event,
                     todo |-> run.todo, issued |-> run.issued]
           /\ run.pc \in Steps /\ run.worker \in Workers \cup {NoOne}
           /\ run.event \in Events \cup {NoOne}
           /\ run.todo \in Seq(Found) \cup Seq(Workers) /\ run.issued \in Nat
  BY DEF Run, Found

LEMMA IdleRun == Idle \in Run /\ Idle.pc = "idle"
  BY DEF Idle, Run, Steps, NoOne

LEMMA InitTyped == Init => Typed
  <1> SUFFICES ASSUME Init PROVE Typed
    OBVIOUS
  <1>1. BadgeInv
    BY InitInv
  <1>2. TypeOK
    BY <1>1, IdleRun, BadgesAssumption DEF Init, TypeOK, BadgeInv, TablesTyped
  <1>3. RunInv
    BY IdleRun DEF Init, RunInv
  <1> QED BY <1>1, <1>2, <1>3 DEF Typed

\* A worker's counts are numbers.
LEMMA StatsTyped ==
    ASSUME Typed, NEW w \in Workers, NEW type \in Counted
    PROVE  Stats(w)[type] \in Nat
  <1> DEFINE done == {e \in Events : work[w][e].out}
             kept == {e \in done : work[w][e].app = "CONFIRMED"}
             chained == {e \in Events : work[w][e].chain}
  <1>1. IsFiniteSet(done) /\ IsFiniteSet(kept) /\ IsFiniteSet(chained)
    BY BadgesAssumption, FS_Subset
  <1>2. /\ Cardinality(done) \in Nat /\ Cardinality(kept) \in Nat
        /\ Cardinality(chained) \in Nat
    BY <1>1, FS_CardinalityType
  <1>3. /\ type = "WORK_COUNT" => Stats(w)[type] = Cardinality(done)
        /\ type = "TRUST" => Stats(w)[type] = Cardinality(kept)
        /\ type = "BLOCKCHAIN" => Stats(w)[type] = Cardinality(chained)
    BY DEF Stats, Counted
  <1> HIDE DEF done, kept, chained
  <1> QED BY <1>2, <1>3 DEF Counted

\* The loop keeps its type whatever it does.
LEMMA CheckTurns ==
    ASSUME Typed, Checking
    PROVE  run' \in Run /\ RunInv'
  <1>1. run \in Run
    BY DEF Typed, TypeOK
  <1>2. CASE \E w \in Workers : Check(w)
    <2>1. PICK w \in Workers : Check(w)
      BY <1>2
    <2>2. run' = [pc |-> "stats", worker |-> w, event |-> NoOne, todo |-> << >>, issued |-> 0]
      BY <2>1 DEF Check, Start, Idle
    <2>3. << >> \in Seq(Found)
      OBVIOUS
    <2>4. run' \in Run
      BY <2>2, <2>3, RunFields DEF Steps
    <2> QED BY <2>2, <2>4 DEF RunInv
  <1>3. CASE ReadStats
    <2> DEFINE s == Stats(run.worker)
               todo == Reached("WORK_COUNT", s["WORK_COUNT"]) \o Reached("TRUST", s["TRUST"])
                       \o Reached("BLOCKCHAIN", s["BLOCKCHAIN"])
    <2>1. run' = [run EXCEPT !.pc = "worker", !.todo = todo] /\ run.worker \in Workers
      BY <1>3 DEF ReadStats, Typed, RunInv, At
    <2>2. todo \in Seq(Found)
      <3>1. \A type \in Counted : Reached(type, s[type]) \in Seq(Found)
        <4> TAKE type \in Counted
        <4>1. s[type] \in Nat
          BY <2>1, StatsTyped
        <4>2. PICK m \in 0 .. MaxLevel(type) : Reached(type, s[type]) = Levels(type, m)
          BY <4>1, LevelsReached
        <4>3. m \in Nat
          BY BadgesAssumption, LenProperties DEF MaxLevel
        <4> HIDE DEF s
        <4> QED BY <4>2, <4>3 DEF Levels, Found
      <3> HIDE DEF s
      <3> QED BY <3>1, ConcatProperties DEF Counted
    <2> HIDE DEF todo
    <2>3. /\ run'.pc = "worker" /\ run'.worker = run.worker /\ run'.todo = todo
          /\ run' = [pc |-> "worker", worker |-> run.worker, event |-> run.event,
                     todo |-> todo, issued |-> run.issued]
      BY <1>1, <2>1 DEF Run
    <2>4. run' \in Run
      BY <1>1, <2>2, <2>3, RunFields, RunIs DEF Steps
    <2> QED BY <2>1, <2>2, <2>3, <2>4 DEF RunInv
  <1>4. CASE ReadWorker
    <2> DEFINE todo == run.todo \o Own("PROFILE") \o Own("PHOTO")
    <2>1. /\ run' = [run EXCEPT !.pc = "award", !.todo = todo] /\ run.worker \in Workers
          /\ run.todo \in Seq(Found)
      BY <1>4 DEF ReadWorker, Typed, RunInv, At
    <2>2. Own("PROFILE") \in Seq(Found) /\ Own("PHOTO") \in Seq(Found)
      <3>1. facts[run.worker] \subseteq Flags
        BY <2>1 DEF Typed, TypeOK
      <3> QED BY <3>1 DEF Own, Found
    <2>3. todo \in Seq(Found)
      BY <2>1, <2>2, ConcatProperties
    <2> HIDE DEF todo
    <2>4. /\ run'.pc = "award" /\ run'.worker = run.worker /\ run'.todo = todo
          /\ run' = [pc |-> "award", worker |-> run.worker, event |-> run.event,
                     todo |-> todo, issued |-> run.issued]
      BY <1>1, <2>1 DEF Run
    <2>5. run' \in Run
      BY <1>1, <2>3, <2>4, RunFields, RunIs DEF Steps
    <2> QED BY <2>1, <2>3, <2>4, <2>5 DEF RunInv
  <1>5. CASE AwardBadge
    <2> DEFINE todo == Tail(run.todo)
    <2>1. /\ run' = [run EXCEPT !.todo = todo] /\ run.worker \in Workers
          /\ run.todo \in Seq(Found) /\ run.todo # << >> /\ run.pc = "award"
      BY <1>5 DEF AwardBadge, Typed, RunInv, At
    <2>2. todo \in Seq(Found)
      BY <2>1
    <2> HIDE DEF todo
    <2>3. /\ run'.pc = "award" /\ run'.worker = run.worker /\ run'.todo = todo
          /\ run' = [pc |-> "award", worker |-> run.worker, event |-> run.event,
                     todo |-> todo, issued |-> run.issued]
      BY <1>1, <2>1 DEF Run
    <2>4. run' \in Run
      BY <1>1, <2>2, <2>3, RunFields, RunIs DEF Steps
    <2> QED BY <2>1, <2>2, <2>3, <2>4 DEF RunInv
  <1>6. CASE CheckEnds
    BY <1>6, IdleRun DEF CheckEnds, RunInv
  <1> QED BY <1>2, <1>3, <1>4, <1>5, <1>6 DEF Checking

\* Where each step of an issuing loop goes.
Goes(pc, todo, n) ==
    run' = [pc |-> pc, worker |-> run.worker, event |-> run.event, todo |-> todo, issued |-> n]

LEMMA IssueTurns ==
    ASSUME Typed
    PROVE  /\ CreateBatch => run' = Idle \/ Goes("look", run.todo, run.issued)
           /\ LookAtWorker =>
                 \/ Goes("issue", run.todo, run.issued)
                 \/ Goes("look", Tail(run.todo), run.issued)
           /\ IssueBadge =>
                 \/ run' = Idle /\ badges' = badges
                 \/ Goes("look", Tail(run.todo), run.issued) /\ badges' = badges
                 \/ /\ Goes("audit", run.todo, run.issued + 1)
                    /\ ~Holds(Head(run.todo), "PROJECT", 1)
                    /\ badges' = badges \cup
                          {[worker |-> Head(run.todo), type |-> "PROJECT", level |-> 1,
                            event |-> run.event, batch |-> Len(batches)]}
           /\ AuditBadge => Goes("look", Tail(run.todo), run.issued)
  <1> DEFINE n == run.issued + 1
             todo == Tail(run.todo)
  <1>1. run \in Run
    BY DEF Typed, TypeOK
  <1>2. CreateBatch => run' = Idle \/ run' = [run EXCEPT !.pc = "look"]
    BY DEF CreateBatch
  <1>3. LookAtWorker => \/ run' = [run EXCEPT !.pc = "issue"]
                        \/ run' = [run EXCEPT !.todo = todo] /\ run.pc = "look"
    BY DEF LookAtWorker, At
  <1>4. IssueBadge =>
           \/ run' = Idle /\ badges' = badges
           \/ run' = [run EXCEPT !.pc = "look", !.todo = todo] /\ badges' = badges
           \/ /\ run' = [run EXCEPT !.pc = "audit", !.issued = n]
              /\ ~Holds(Head(run.todo), "PROJECT", 1)
              /\ badges' = badges \cup
                    {[worker |-> Head(run.todo), type |-> "PROJECT", level |-> 1,
                      event |-> run.event, batch |-> Len(batches)]}
    BY DEF IssueBadge
  <1>5. AuditBadge => run' = [run EXCEPT !.pc = "look", !.todo = todo]
    BY DEF AuditBadge
  <1> HIDE DEF n, todo, Idle
  <1>6. /\ run' = [run EXCEPT !.pc = "look"] => Goes("look", run.todo, run.issued)
        /\ run' = [run EXCEPT !.pc = "issue"] => Goes("issue", run.todo, run.issued)
        /\ run' = [run EXCEPT !.todo = todo] /\ run.pc = "look" => Goes("look", todo, run.issued)
        /\ run' = [run EXCEPT !.pc = "look", !.todo = todo] => Goes("look", todo, run.issued)
        /\ run' = [run EXCEPT !.pc = "audit", !.issued = n] => Goes("audit", run.todo, n)
    BY <1>1 DEF Run, Goes
  <1>7. CreateBatch => run' = Idle \/ Goes("look", run.todo, run.issued)
    BY <1>2, <1>6
  <1>8. LookAtWorker => \/ Goes("issue", run.todo, run.issued)
                        \/ Goes("look", todo, run.issued)
    BY <1>3, <1>6
  <1>9. AuditBadge => Goes("look", todo, run.issued)
    BY <1>5, <1>6
  <1>10. IssueBadge =>
           \/ run' = Idle /\ badges' = badges
           \/ Goes("look", todo, run.issued) /\ badges' = badges
           \/ /\ Goes("audit", run.todo, n)
              /\ ~Holds(Head(run.todo), "PROJECT", 1)
              /\ badges' = badges \cup
                    {[worker |-> Head(run.todo), type |-> "PROJECT", level |-> 1,
                      event |-> run.event, batch |-> Len(batches)]}
    BY <1>4, <1>6
  <1> QED BY <1>7, <1>8, <1>9, <1>10 DEF n, todo

\* What an issuing loop knows.
LEMMA LoopKnows ==
    ASSUME Typed
    PROVE  /\ run.pc \in Issuers \cup {"batch"} =>
                 run.todo \in Seq(Workers) /\ run.event \in Events /\ run.issued \in Nat
           /\ run.pc \in Issuers => Len(batches) \in DOMAIN batches
           /\ run.todo # << >> /\ run.pc \in Issuers =>
                 Head(run.todo) \in Workers /\ Tail(run.todo) \in Seq(Workers)
           /\ run.pc \in {"issue", "audit"} => run.todo # << >>
           /\ run \in Run /\ batches \in Seq(Batch)
  BY LoopTyped DEF Typed, TypeOK, BadgeInv, LoopFacts, At, Issuers

LEMMA IssuingTurns ==
    ASSUME Typed, Issuing
    PROVE  run' \in Run /\ RunInv'
  <1>1. run \in Run
    BY DEF Typed, TypeOK
  <1>2. ASSUME NEW e \in Events, NEW picked \in Requests, Issue(e, picked)
        PROVE  run' \in Run /\ RunInv'
    <2>1. run' = [pc |-> "batch", worker |-> NoOne, event |-> e, todo |-> picked, issued |-> 0]
      BY <1>2 DEF Issue, Start, Idle
    <2>2. picked \in Seq(Workers)
      BY BadgesAssumption
    <2>3. run' \in Run
      BY <2>1, <2>2, RunFields DEF Steps
    <2> QED BY <2>1, <2>3 DEF RunInv
  <1>3. ASSUME NEW pc \in Issuers, NEW todo \in Seq(Workers), NEW n \in Nat, Goes(pc, todo, n)
        PROVE  run' \in Run /\ RunInv'
    <2>1. run' \in Run
      BY <1>1, <1>3, RunFields, RunIs DEF Goes, Steps, Issuers
    <2> QED BY <1>3, <2>1 DEF Goes, RunInv, Issuers
  <1>4. run' = Idle => run' \in Run /\ RunInv'
    BY IdleRun DEF RunInv
  <1>5. {"look", "issue", "audit"} = Issuers
    BY DEF Issuers
  <1>6. CASE CreateBatch
    <2>1. run.todo \in Seq(Workers) /\ run.issued \in Nat
      BY <1>6, LoopKnows DEF CreateBatch, At
    <2> QED BY <1>3, <1>4, <1>5, <1>6, <2>1, IssueTurns
  <1>7. CASE LookAtWorker
    <2>1. /\ run.todo \in Seq(Workers) /\ Tail(run.todo) \in Seq(Workers) /\ run.issued \in Nat
      BY <1>7, LoopKnows DEF LookAtWorker, At, Issuers
    <2> QED BY <1>3, <1>5, <1>7, <2>1, IssueTurns
  <1>8. CASE IssueBadge
    <2>1. /\ run.todo \in Seq(Workers) /\ Tail(run.todo) \in Seq(Workers)
          /\ run.issued \in Nat /\ run.issued + 1 \in Nat
      BY <1>8, LoopKnows DEF IssueBadge, At, Issuers
    <2> QED BY <1>3, <1>4, <1>5, <1>8, <2>1, IssueTurns
  <1>9. CASE AuditBadge
    <2>1. Tail(run.todo) \in Seq(Workers) /\ run.issued \in Nat
      BY <1>9, LoopKnows DEF AuditBadge, At, Issuers
    <2> QED BY <1>3, <1>5, <1>9, <2>1, IssueTurns
  <1>10. CASE CountBatch
    BY <1>4, <1>10 DEF CountBatch
  <1> QED BY <1>2, <1>6, <1>7, <1>8, <1>9, <1>10 DEF Issuing

-----------------------------------------------------------------------------
(* The badge table: one row per worker, type and level.                    *)

BadgesOK ==
    /\ badges \subseteq Badge
    /\ \A b \in badges : Project(b) <=> b.type = "PROJECT"
    /\ \A b, c \in badges :
          b.worker = c.worker /\ b.type = c.type /\ b.level = c.level => b = c
    /\ audits \subseteq badges

LEMMA InsertsBadge ==
    ASSUME BadgesOK, NEW b \in Badge, Project(b) <=> b.type = "PROJECT",
           ~Holds(b.worker, b.type, b.level),
           badges' = badges \cup {b}, audits' = audits
    PROVE  BadgesOK'
  BY DEF BadgesOK, Holds, Project

\* A check inserts the badge of the level it looks at, unless it is there.
LEMMA Awarding ==
    ASSUME Typed, AwardBadge
    PROVE  LET type == Head(run.todo)[1]  level == Head(run.todo)[2]
               b == [worker |-> run.worker, type |-> type, level |-> level,
                     event |-> NoOne, batch |-> 0] IN
           /\ run.pc = "award" /\ run.worker \in Workers /\ run.todo \in Seq(Found)
           /\ run.todo # << >> /\ Head(run.todo) \in Found
           /\ type \in Counted \cup Flags /\ level \in Nat /\ type # "PROJECT"
           /\ b \in Badge /\ ~Project(b)
           /\ badges' = IF Holds(run.worker, type, level) THEN badges ELSE badges \cup {b}
           /\ UNCHANGED <<event, work, facts, batches, audits, runs, crashes>>
           /\ run' = [pc |-> "award", worker |-> run.worker, event |-> run.event,
                      todo |-> Tail(run.todo), issued |-> run.issued]
  <1> DEFINE type == Head(run.todo)[1]
             level == Head(run.todo)[2]
             b == [worker |-> run.worker, type |-> type, level |-> level,
                   event |-> NoOne, batch |-> 0]
             todo == Tail(run.todo)
  <1>1. /\ run.pc = "award" /\ run.worker \in Workers /\ run.todo \in Seq(Found)
        /\ run.todo # << >> /\ run \in Run
    BY DEF AwardBadge, At, Typed, RunInv, TypeOK
  <1>2. Head(run.todo) \in Found
    BY <1>1
  <1>3. type \in Counted \cup Flags /\ level \in Nat
    BY <1>2 DEF Found
  <1>4. type # "PROJECT"
    BY <1>3, BadgesAssumption DEF Counted
  <1>5. b \in Badge /\ ~Project(b)
    BY <1>1, <1>3 DEF Badge, Project
  <1>6. /\ badges' = IF Holds(run.worker, type, level) THEN badges ELSE badges \cup {b}
        /\ UNCHANGED <<event, work, facts, batches, audits, runs, crashes>>
        /\ run' = [run EXCEPT !.todo = todo]
    BY DEF AwardBadge
  <1> HIDE DEF todo
  <1>7. run' = [pc |-> "award", worker |-> run.worker, event |-> run.event,
                todo |-> todo, issued |-> run.issued]
    BY <1>1, <1>6 DEF Run
  <1> QED BY <1>1, <1>2, <1>3, <1>4, <1>5, <1>6, <1>7 DEF todo

\* Elsewhere neither badges nor batches are written.
LEMMA ElsewhereLeaves ==
    ASSUME Elsewhere \/ UNCHANGED vars
    PROVE  UNCHANGED <<badges, batches, audits, run, runs, crashes>>
  BY DEF Elsewhere, vars, Confirm, Reject, CheckOut, Anchor, CompleteEvent, DeleteEvent, EditProfile

\* Who writes badges, and who writes the audit log.
LEMMA BadgesLeft ==
    ASSUME [Next]_vars, ~AwardBadge, ~IssueBadge
    PROVE  badges' = badges /\ (~AuditBadge => audits' = audits)
  BY ElsewhereLeaves DEF Next, Checking, Issuing, Check, ReadStats, ReadWorker, CheckEnds,
     Issue, CreateBatch, LookAtWorker, AuditBadge, CountBatch, Crash

\* The badge that a loop issues.
LEMMA Issued ==
    ASSUME Typed, IssueBadge
    PROVE  LET b == [worker |-> Head(run.todo), type |-> "PROJECT", level |-> 1,
                     event |-> run.event, batch |-> Len(batches)] IN
           /\ b \in Badge /\ Project(b)
           /\ b.worker = Head(run.todo) /\ b.type = "PROJECT" /\ b.level = 1
           /\ b.batch = Len(batches)
  <1> DEFINE b == [worker |-> Head(run.todo), type |-> "PROJECT", level |-> 1,
                   event |-> run.event, batch |-> Len(batches)]
  <1>1. run.pc = "issue" /\ run.pc \in Issuers /\ run.todo # << >>
    BY LoopKnows DEF IssueBadge, At, Issuers
  <1>2. Head(run.todo) \in Workers /\ run.event \in Events
    BY <1>1, LoopKnows
  <1>3. Len(batches) \in Nat \ {0}
    BY <1>1, LoopKnows, LenProperties
  <1>4. b \in Badge
    BY <1>2, <1>3 DEF Badge
  <1> QED BY <1>3, <1>4 DEF Project

LEMMA BadgesStep == Typed /\ [Next]_vars => BadgesOK'
  <1> SUFFICES ASSUME Typed, [Next]_vars PROVE BadgesOK'
    OBVIOUS
  <1>1. BadgesOK
    BY DEF Typed, TypeOK, BadgesOK
  <1>2. CASE AwardBadge
    <2> DEFINE b == [worker |-> run.worker, type |-> Head(run.todo)[1],
                     level |-> Head(run.todo)[2], event |-> NoOne, batch |-> 0]
    <2>1. /\ b \in Badge /\ ~Project(b) /\ b.type # "PROJECT" /\ audits' = audits
          /\ badges' = IF Holds(b.worker, b.type, b.level) THEN badges ELSE badges \cup {b}
      BY <1>2, Awarding
    <2> HIDE DEF b
    <2>2. CASE Holds(b.worker, b.type, b.level)
      BY <1>1, <2>1, <2>2 DEF BadgesOK
    <2>3. CASE ~Holds(b.worker, b.type, b.level)
      BY <1>1, <2>1, <2>3, InsertsBadge
    <2> QED BY <2>2, <2>3
  <1>3. CASE IssueBadge
    <2> DEFINE b == [worker |-> Head(run.todo), type |-> "PROJECT", level |-> 1,
                     event |-> run.event, batch |-> Len(batches)]
    <2>1. b \in Badge /\ Project(b) /\ b.type = "PROJECT"
      BY <1>3, Issued
    <2>2. \/ badges' = badges
          \/ ~Holds(b.worker, b.type, b.level) /\ badges' = badges \cup {b}
      BY <1>3, IssueTurns
    <2>3. audits' = audits
      BY <1>3 DEF IssueBadge
    <2> HIDE DEF b
    <2> QED BY <1>1, <2>1, <2>2, <2>3, InsertsBadge DEF BadgesOK
  <1>4. CASE AuditBadge
    <2>1. badges' = badges /\ audits' \subseteq audits \cup badges
      BY <1>4 DEF AuditBadge
    <2> QED BY <1>1, <2>1 DEF BadgesOK
  <1>5. CASE ~AwardBadge /\ ~IssueBadge /\ ~AuditBadge
    BY <1>1, <1>5, BadgesLeft DEF BadgesOK
  <1> QED BY <1>2, <1>3, <1>4, <1>5

LEMMA TypedStep == Typed /\ [Next]_vars => Typed'
  <1> SUFFICES ASSUME Typed, [Next]_vars PROVE Typed'
    OBVIOUS
  <1>1. BadgeInv'
    BY StepInv DEF Typed
  <1>2. run' \in Run /\ RunInv'
    <2>1. CASE Elsewhere \/ UNCHANGED vars
      BY <2>1, ElsewhereLeaves DEF Typed, TypeOK, RunInv
    <2>2. CASE Crash
      BY <2>2, IdleRun DEF Crash, RunInv
    <2> QED BY <2>1, <2>2, CheckTurns, IssuingTurns DEF Next
  <1>3. BadgesOK'
    BY BadgesStep
  <1>4. facts' \in [Workers -> SUBSET Flags]
    <2>1. facts \in [Workers -> SUBSET Flags]
      BY DEF Typed, TypeOK
    <2>2. CASE \E w \in Workers, f \in Flags : EditProfile(w, f)
      <3>1. PICK w \in Workers, f \in Flags : EditProfile(w, f)
        BY <2>2
      <3> DEFINE own == facts[w] \cup {f}
      <3>2. own \in SUBSET Flags /\ facts' = [facts EXCEPT ![w] = own]
        BY <2>1, <3>1 DEF EditProfile
      <3> HIDE DEF own
      <3> QED BY <2>1, <3>2
    <2>3. CASE ~\E w \in Workers, f \in Flags : EditProfile(w, f)
      <3>1. facts' = facts
        BY <2>3 DEF Next, Elsewhere, Checking, Issuing, vars, Confirm, Reject, CheckOut, Anchor,
           CompleteEvent, DeleteEvent, Check, ReadStats, ReadWorker, AwardBadge, CheckEnds,
           Issue, CreateBatch, LookAtWorker, IssueBadge, AuditBadge, CountBatch, Crash
      <3> QED BY <2>1, <3>1
    <2> QED BY <2>2, <2>3
  <1>5. runs' \in 0 .. MaxRuns /\ crashes' \in 0 .. MaxCrashes
    <2>1. /\ runs \in 0 .. MaxRuns /\ crashes \in 0 .. MaxCrashes /\ MaxRuns \in Nat
          /\ MaxCrashes \in Nat
      BY BadgesAssumption DEF Typed, TypeOK
    <2>2. /\ runs' = runs \/ (runs' = runs + 1 /\ runs < MaxRuns)
          /\ crashes' = crashes \/ (crashes' = crashes + 1 /\ crashes < MaxCrashes)
      <3>1. CASE Elsewhere \/ UNCHANGED vars
        BY <3>1, ElsewhereLeaves
      <3>2. CASE Checking \/ Issuing \/ Crash
        BY <3>2 DEF Checking, Issuing, Check, Start, ReadStats, ReadWorker, AwardBadge, CheckEnds,
           Issue, CreateBatch, LookAtWorker, IssueBadge, AuditBadge, CountBatch, Crash
      <3> QED BY <3>1, <3>2 DEF Next
    <2> QED BY <2>1, <2>2
  <1>6. TypeOK'
    BY <1>1, <1>2, <1>3, <1>4, <1>5 DEF BadgeInv, TablesTyped, BadgesOK, TypeOK
  <1> QED BY <1>1, <1>2, <1>6 DEF Typed

-----------------------------------------------------------------------------
(* The audit log.  The badge whose row is still to be written is the one   *)
(* that the loop has just issued.                                          *)

Unaudited == {b \in badges : Project(b) /\ b \notin audits}
Auditing == IF At("audit") THEN 1 ELSE 0

AuditInv ==
    /\ IsFiniteSet(badges)
    /\ Cardinality(Unaudited) <= crashes + Auditing
    /\ At("audit") => \E b \in Unaudited : b.worker = Head(run.todo) /\ b.type = "PROJECT"

LEMMA InitAudit == Init => AuditInv
  <1> SUFFICES ASSUME Init PROVE AuditInv
    OBVIOUS
  <1>1. badges = {} /\ Unaudited = {} /\ crashes = 0 /\ ~At("audit")
    BY IdleRun DEF Init, Unaudited, At
  <1>2. Auditing = 0
    BY <1>1 DEF Auditing
  <1> QED BY <1>1, <1>2, FS_EmptySet DEF AuditInv

LEMMA UnauditedFinite ==
    ASSUME AuditInv
    PROVE  IsFiniteSet(Unaudited) /\ Cardinality(Unaudited) \in Nat
  <1>1. Unaudited \subseteq badges
    BY DEF Unaudited
  <1> QED BY <1>1, FS_Subset, FS_CardinalityType DEF AuditInv

\* Only IssueBadge enters the audit, and AuditBadge and a crash leave it.
LEMMA AuditStays ==
    ASSUME Typed, [Next]_vars, ~IssueBadge, ~AuditBadge, ~Crash
    PROVE  /\ crashes' = crashes
           /\ At("audit")' <=> At("audit")
           /\ At("audit") => run' = run
  <1>1. CASE Elsewhere \/ UNCHANGED vars
    BY <1>1, ElsewhereLeaves DEF At
  <1>2. CASE \E w \in Workers : Check(w)
    BY <1>2 DEF Check, Start, At, Idle
  <1>3. CASE \E e \in Events, picked \in Requests : Issue(e, picked)
    BY <1>3 DEF Issue, Start, At, Idle
  <1>4. CASE Checking /\ ~\E w \in Workers : Check(w)
    <2>1. run \in Run
      BY DEF Typed, TypeOK
    <2>2. run'.pc # "audit" /\ run.pc # "audit" /\ crashes' = crashes
      <3>1. CASE AwardBadge
        BY <3>1, Awarding
      <3>2. CASE ReadStats \/ ReadWorker
        BY <2>1, <3>2 DEF ReadStats, ReadWorker, At, Run
      <3>3. CASE CheckEnds
        BY <3>3, IdleRun DEF CheckEnds, At
      <3> QED BY <1>4, <3>1, <3>2, <3>3 DEF Checking
    <2> QED BY <2>2 DEF At
  <1>5. CASE CreateBatch \/ LookAtWorker \/ CountBatch
    <2>1. run'.pc # "audit"
      BY <1>5, IssueTurns, IdleRun DEF CountBatch, Goes
    <2>2. run.pc # "audit" /\ crashes' = crashes
      BY <1>5 DEF CreateBatch, LookAtWorker, CountBatch, At
    <2> QED BY <2>1, <2>2 DEF At
  <1> QED BY <1>1, <1>2, <1>3, <1>4, <1>5 DEF Next, Issuing

LEMMA AuditKept == Typed /\ AuditInv /\ [Next]_vars => AuditInv'
  <1> SUFFICES ASSUME Typed, AuditInv, [Next]_vars PROVE AuditInv'
    OBVIOUS
  <1>1. /\ IsFiniteSet(Unaudited) /\ Cardinality(Unaudited) \in Nat /\ crashes \in Nat
        /\ Cardinality(Unaudited) <= crashes + Auditing /\ IsFiniteSet(badges)
    BY UnauditedFinite, BadgesAssumption DEF Typed, TypeOK, AuditInv
  <1>2. CASE AwardBadge
    <2> DEFINE b == [worker |-> run.worker, type |-> Head(run.todo)[1],
                     level |-> Head(run.todo)[2], event |-> NoOne, batch |-> 0]
    <2>1. /\ ~Project(b) /\ audits' = audits /\ crashes' = crashes
          /\ badges' = badges \/ badges' = badges \cup {b}
          /\ ~At("audit") /\ ~At("audit")'
      BY <1>2, Awarding DEF At
    <2> HIDE DEF b
    <2>2. Unaudited' = Unaudited
      BY <2>1 DEF Unaudited, Project
    <2>3. IsFiniteSet(badges')
      BY <1>1, <2>1, FS_AddElement
    <2>4. Auditing = 0 /\ Auditing' = 0
      BY <2>1 DEF Auditing
    <2> QED BY <1>1, <2>1, <2>2, <2>3, <2>4 DEF AuditInv
  <1>3. CASE IssueBadge
    <2> DEFINE b == [worker |-> Head(run.todo), type |-> "PROJECT", level |-> 1,
                     event |-> run.event, batch |-> Len(batches)]
    <2>1. ~At("audit") /\ Auditing = 0 /\ audits' = audits /\ crashes' = crashes
      <3>1. run.pc = "issue" /\ audits' = audits /\ crashes' = crashes
        BY <1>3 DEF IssueBadge, At
      <3> QED BY <3>1 DEF At, Auditing
    <2>2. CASE badges' = badges /\ run'.pc # "audit"
      <3>1. Unaudited' = Unaudited /\ ~At("audit")' /\ Auditing' = 0
        BY <2>1, <2>2 DEF Unaudited, At, Auditing
      <3> QED BY <1>1, <2>1, <2>2, <3>1 DEF AuditInv
    <2>3. CASE /\ Goes("audit", run.todo, run.issued + 1)
               /\ ~Holds(Head(run.todo), "PROJECT", 1)
               /\ badges' = badges \cup {b}
      <3>1. run'.pc = "audit" /\ run'.todo = run.todo /\ At("audit")' /\ Auditing' = 1
        BY <2>3 DEF Goes, At, Auditing
      <3>2. b.worker = Head(run.todo) /\ b.type = "PROJECT" /\ b.level = 1 /\ Project(b)
        BY <1>3, Issued
      <3>3. b \notin badges
        BY <2>3, <3>2 DEF Holds
      <3>4. b \notin audits
        BY <3>3 DEF Typed, TypeOK
      <3>5. badges' = badges \cup {b}
        BY <2>3
      <3> HIDE DEF b
      <3>6. Unaudited' = Unaudited \cup {b} /\ b \notin Unaudited
        BY <2>1, <3>2, <3>3, <3>4, <3>5 DEF Unaudited, Project
      <3>7. Cardinality(Unaudited') = Cardinality(Unaudited) + 1
        BY <1>1, <3>6, FS_AddElement
      <3>8. IsFiniteSet(badges')
        BY <1>1, <3>5, FS_AddElement
      <3>9. (Cardinality(Unaudited) <= crashes + Auditing)'
        BY <1>1, <2>1, <3>1, <3>7
      <3> QED BY <3>1, <3>2, <3>6, <3>8, <3>9 DEF AuditInv
    <2> QED BY <1>3, <2>2, <2>3, IssueTurns, IdleRun DEF Goes
  <1>4. CASE AuditBadge
    <2>1. /\ At("audit") /\ badges' = badges /\ crashes' = crashes
          /\ audits' = audits \cup {b \in badges : b.worker = Head(run.todo) /\ b.type = "PROJECT"}
      BY <1>4 DEF AuditBadge
    <2>2. PICK b \in Unaudited : b.worker = Head(run.todo) /\ b.type = "PROJECT"
      BY <2>1 DEF AuditInv
    <2>3. Unaudited' \subseteq Unaudited \ {b}
      BY <2>1, <2>2 DEF Unaudited, Project
    <2>4. Cardinality(Unaudited \ {b}) = Cardinality(Unaudited) - 1 /\ IsFiniteSet(Unaudited \ {b})
      BY <1>1, <2>2, FS_RemoveElement
    <2>5. Cardinality(Unaudited') <= Cardinality(Unaudited \ {b})
          /\ Cardinality(Unaudited') \in Nat
      BY <2>3, <2>4, FS_Subset, FS_CardinalityType
    <2>6. ~At("audit")' /\ Auditing = 1 /\ Auditing' = 0
      BY <1>4, <2>1, IssueTurns DEF Goes, At, Auditing
    <2>7. (Cardinality(Unaudited) <= crashes + Auditing)'
      BY <1>1, <2>1, <2>4, <2>5, <2>6
    <2> QED BY <1>1, <2>1, <2>6, <2>7 DEF AuditInv
  <1>5. CASE Crash
    <2>1. /\ badges' = badges /\ audits' = audits /\ crashes' = crashes + 1 /\ ~At("audit")'
      BY <1>5, IdleRun DEF Crash, At
    <2>2. Unaudited' = Unaudited /\ Auditing' = 0 /\ Auditing \in {0, 1}
      BY <2>1 DEF Unaudited, Auditing
    <2> QED BY <1>1, <2>1, <2>2 DEF AuditInv
  <1>6. CASE ~AwardBadge /\ ~IssueBadge /\ ~AuditBadge /\ ~Crash
    <2>1. badges' = badges /\ audits' = audits
      BY <1>6, BadgesLeft
    <2>2. /\ crashes' = crashes
          /\ At("audit")' <=> At("audit")
          /\ At("audit") => run' = run
      BY <1>6, AuditStays
    <2>3. Unaudited' = Unaudited /\ Auditing' = Auditing
      BY <2>1, <2>2 DEF Unaudited, Auditing
    <2> QED BY <1>1, <2>1, <2>2, <2>3 DEF AuditInv
  <1> QED BY <1>2, <1>3, <1>4, <1>5, <1>6

-----------------------------------------------------------------------------
(* The counts.  A loop has the last batch, whose count is still zero.      *)

OfBatch(i) == {b \in badges : Project(b) /\ b.batch = i}

CountInv ==
    /\ BatchCountSound
    /\ run.pc \in Issuers =>
          /\ batches[Len(batches)].total = 0
          /\ run.issued = Cardinality(OfBatch(Len(batches)))
    /\ At("batch") => run.issued = 0

LEMMA BatchFinite ==
    ASSUME AuditInv
    PROVE  \A i : IsFiniteSet(OfBatch(i)) /\ Cardinality(OfBatch(i)) \in Nat
  <1> TAKE i
  <1>1. OfBatch(i) \subseteq badges
    BY DEF OfBatch
  <1> QED BY <1>1, FS_Subset, FS_CardinalityType DEF AuditInv

LEMMA InitCount == Init => CountInv
  <1> SUFFICES ASSUME Init PROVE CountInv
    OBVIOUS
  <1>1. batches = << >> /\ run.pc = "idle"
    BY IdleRun DEF Init
  <1> QED BY <1>1 DEF CountInv, BatchCountSound, Issuers, At

\* The badges that are not of a project are in no batch's count.
LEMMA CountsStay ==
    ASSUME CountInv, batches' = batches, \A i \in DOMAIN batches : OfBatch(i)' = OfBatch(i),
           Len(batches) \in DOMAIN batches \/ run'.pc \notin Issuers,
           run'.pc \in Issuers => run.pc \in Issuers /\ run'.issued = run.issued,
           run'.pc = "batch" => run'.issued = 0
    PROVE  CountInv'
  <1>1. BatchCountSound'
    BY DEF CountInv, BatchCountSound, OfBatch
  <1>2. run'.pc \in Issuers =>
           /\ batches'[Len(batches')].total = 0
           /\ run'.issued = Cardinality(OfBatch(Len(batches)))'
    BY DEF CountInv
  <1> QED BY <1>1, <1>2 DEF CountInv, At

LEMMA CountKept == Typed /\ AuditInv /\ CountInv /\ [Next]_vars => CountInv'
  <1> SUFFICES ASSUME Typed, AuditInv, CountInv, [Next]_vars PROVE CountInv'
    OBVIOUS
  <1> DEFINE n == Len(batches)
  <1>1. /\ n \in Nat /\ DOMAIN batches = 1 .. n /\ batches \in Seq(Batch)
        /\ run.pc \in Issuers => n \in DOMAIN batches
    BY LoopKnows, LenProperties
  <1>2. CASE AwardBadge
    <2> DEFINE b == [worker |-> run.worker, type |-> Head(run.todo)[1],
                     level |-> Head(run.todo)[2], event |-> NoOne, batch |-> 0]
    <2>1. /\ ~Project(b) /\ batches' = batches
          /\ badges' = badges \/ badges' = badges \cup {b}
          /\ run'.pc = "award"
      BY <1>2, Awarding
    <2> HIDE DEF b
    <2>2. \A i : OfBatch(i)' = OfBatch(i)
      BY <2>1 DEF OfBatch, Project
    <2> QED BY <2>1, <2>2, CountsStay DEF Issuers
  <1>3. CASE IssueBadge
    <2> DEFINE b == [worker |-> Head(run.todo), type |-> "PROJECT", level |-> 1,
                     event |-> run.event, batch |-> n]
    <2>1. run.pc \in Issuers /\ batches' = batches /\ n \in DOMAIN batches
      BY <1>1, <1>3 DEF IssueBadge, At, Issuers
    <2>2. CASE badges' = badges /\ (run' = Idle \/ Goes("look", Tail(run.todo), run.issued))
      <3>1. \A i : OfBatch(i)' = OfBatch(i)
        BY <2>2 DEF OfBatch
      <3>2. /\ run'.pc \in Issuers => run'.issued = run.issued
            /\ run'.pc # "batch"
        BY <2>2, IdleRun DEF Goes, Issuers
      <3> QED BY <2>1, <3>1, <3>2, CountsStay
    <2>3. CASE /\ Goes("audit", run.todo, run.issued + 1)
               /\ ~Holds(Head(run.todo), "PROJECT", 1)
               /\ badges' = badges \cup {b}
      <3>1. run'.pc = "audit" /\ run'.issued = run.issued + 1
        BY <2>3 DEF Goes
      <3>2. b.worker = Head(run.todo) /\ b.type = "PROJECT" /\ b.level = 1 /\ Project(b) /\ b.batch = n
        BY <1>3, Issued
      <3>3. b \notin badges
        BY <2>3, <3>2 DEF Holds
      <3>4. badges' = badges \cup {b}
        BY <2>3
      <3> HIDE DEF b, n
      <3>5. \A i : i # n => OfBatch(i)' = OfBatch(i)
        BY <3>2, <3>4 DEF OfBatch, Project
      <3>6. OfBatch(n)' = OfBatch(n) \cup {b} /\ b \notin OfBatch(n)
        BY <2>1, <3>2, <3>3, <3>4 DEF OfBatch, Project, n
      <3>7. Cardinality(OfBatch(n)') = Cardinality(OfBatch(n)) + 1
        BY <3>6, BatchFinite, FS_AddElement
      <3>8. batches[n].total = 0 /\ run.issued = Cardinality(OfBatch(n))
        BY <2>1 DEF CountInv, n
      <3>9. run'.issued = Cardinality(OfBatch(n)')
        BY <3>1, <3>7, <3>8
      <3>10. n' = n
        BY <2>1 DEF n
      <3>11. BatchCountSound'
        <4> SUFFICES ASSUME NEW i \in DOMAIN batches
                     PROVE  batches[i].total \in {0, Cardinality(OfBatch(i)')}
          BY <2>1 DEF BatchCountSound, OfBatch
        <4>1. batches[i].total \in {0, Cardinality(OfBatch(i))}
          BY DEF CountInv, BatchCountSound, OfBatch
        <4> QED BY <3>5, <3>8, <4>1
      <3> QED BY <2>1, <3>8, <3>1, <3>9, <3>10, <3>11 DEF CountInv, n, At
    <2> QED BY <1>3, <2>2, <2>3, IssueTurns
  <1>4. CASE CreateBatch
    <2>1. badges' = badges /\ run.pc = "batch"
      BY <1>4 DEF CreateBatch, At
    <2>2. \A i : OfBatch(i)' = OfBatch(i)
      BY <2>1 DEF OfBatch
    <2>3. CASE run' = Idle /\ batches' = batches
      BY <2>2, <2>3, IdleRun, CountsStay DEF Issuers
    <2>4. CASE ~(run' = Idle /\ batches' = batches)
      <3> DEFINE new == [event |-> run.event, total |-> 0]
      <3>1. batches' = Append(batches, new) /\ Goes("look", run.todo, run.issued)
        <4>1. batches' = Append(batches, new) /\ run' = [run EXCEPT !.pc = "look"]
          <5>1. CASE event[run.event] = "GONE"
            BY <1>4, <2>4, <5>1 DEF CreateBatch
          <5>2. CASE event[run.event] # "GONE"
            BY <1>4, <5>2 DEF CreateBatch
          <5> QED BY <5>1, <5>2
        <4> QED BY <4>1, LoopKnows DEF Goes, Run
      <3>2. new \in Batch /\ new.total = 0
        BY <2>1, LoopKnows DEF Batch
      <3> HIDE DEF new
      <3>3. /\ Len(batches') = n + 1 /\ DOMAIN batches' = 1 .. (n + 1)
            /\ batches'[n + 1] = new
            /\ \A i \in 1 .. n : batches'[i] = batches[i]
        BY <1>1, <3>1, <3>2, AppendProperties, LenProperties
      <3>4. OfBatch(n + 1) = {}
        <4>1. \A b \in badges : Project(b) => b.batch \in 1 .. n
          BY <1>1 DEF Typed, BadgeInv, IssuedWereEligible
        <4>2. n + 1 \notin 1 .. n
          BY <1>1
        <4> QED BY <4>1, <4>2 DEF OfBatch
      <3>5. run.issued = 0
        BY <2>1 DEF CountInv, At
      <3>6. run'.pc = "look" /\ run'.issued = 0
        BY <3>1, <3>5 DEF Goes
      <3>7. \A i \in 1 .. n : batches[i].total \in {0, Cardinality(OfBatch(i))}
        BY <1>1 DEF CountInv, BatchCountSound, OfBatch
      <3> HIDE DEF n
      <3>0. PICK m \in Nat : m = n + 1
        BY <1>1
      <3>8. Cardinality(OfBatch(m)') = 0
        <4>1. OfBatch(m) = {}
          BY <3>0, <3>4
        <4>2. OfBatch(m)' = {}
          BY <2>2, <4>1
        <4> QED BY <4>2, FS_EmptySet
      <3>9. BatchCountSound'
        <4> SUFFICES ASSUME NEW i \in 1 .. (n + 1)
                     PROVE  batches'[i].total \in {0, Cardinality(OfBatch(i)')}
          BY <3>3 DEF BatchCountSound, OfBatch
        <4>1. CASE i = n + 1
          BY <3>2, <3>3, <4>1
        <4>2. CASE i \in 1 .. n
          BY <2>2, <3>3, <3>7, <4>2
        <4> QED BY <1>1, <4>1, <4>2
      <3>10. batches'[Len(batches')].total = 0
        BY <3>2, <3>3
      <3>11. run'.issued = Cardinality(OfBatch(Len(batches)))'
        <4>1. Len(batches') = m
          BY <3>0, <3>3
        <4>2. OfBatch(Len(batches))' = OfBatch(m)'
          BY <4>1 DEF OfBatch
        <4> QED BY <3>6, <3>8, <4>2
      <3> QED BY <3>6, <3>9, <3>10, <3>11 DEF CountInv, At
    <2> QED BY <2>3, <2>4
  <1>5. CASE CountBatch
    <2>1. /\ run.pc \in Issuers /\ n \in DOMAIN batches /\ run' = Idle /\ badges' = badges
          /\ batches' = [batches EXCEPT ![n] = [batches[n] EXCEPT !.total = run.issued]]
      BY <1>1, <1>5 DEF CountBatch, At, Issuers
    <2>2. \A i : OfBatch(i)' = OfBatch(i)
      BY <2>1 DEF OfBatch
    <2> DEFINE issued == run.issued
               counted == [batches[n] EXCEPT !.total = issued]
    <2>3. counted.total = issued
      BY <2>1, BatchTyped DEF Typed, Batch
    <2>4. issued = Cardinality(OfBatch(n))
      BY <2>1 DEF CountInv
    <2>5. batches' = [batches EXCEPT ![n] = counted]
      BY <2>1
    <2> HIDE DEF issued, counted, n
    <2>6. /\ DOMAIN batches' = DOMAIN batches /\ batches'[n] = counted
          /\ \A i \in DOMAIN batches : i # n => batches'[i] = batches[i]
      BY <1>1, <2>1, <2>5
    <2>7. BatchCountSound'
      <3> SUFFICES ASSUME NEW i \in DOMAIN batches
                   PROVE  batches'[i].total \in {0, Cardinality(OfBatch(i)')}
        BY <2>6 DEF BatchCountSound, OfBatch
      <3>1. CASE i = n
        BY <2>2, <2>3, <2>4, <2>6, <3>1
      <3>2. CASE i # n
        BY <2>2, <2>6, <3>2 DEF CountInv, BatchCountSound, OfBatch
      <3> QED BY <3>1, <3>2
    <2> QED BY <2>1, <2>7, IdleRun DEF CountInv, Issuers, At
  <1>6. CASE ~AwardBadge /\ ~IssueBadge /\ ~CreateBatch /\ ~CountBatch
    <2>1. badges' = badges
      BY <1>6, BadgesLeft
    <2>2. \A i : OfBatch(i)' = OfBatch(i)
      BY <2>1 DEF OfBatch
    <2>3. CASE Elsewhere \/ UNCHANGED vars
      <3>1. UNCHANGED <<run, batches>>
        BY <2>3, ElsewhereLeaves
      <3> QED BY <1>1, <2>2, <3>1, CountsStay DEF CountInv, At
    <2>4. CASE Crash
      BY <2>2, <2>4, IdleRun, CountsStay DEF Crash, Issuers
    <2>5. CASE Checking
      <3>1. run'.pc \notin Issuers \cup {"batch"} /\ batches' = batches
        <4>1. CASE \E w \in Workers : Check(w)
          BY <4>1 DEF Check, Start, Idle, Issuers
        <4>2. CASE ReadStats \/ ReadWorker
          BY <4>2, LoopKnows DEF ReadStats, ReadWorker, Run, Issuers
        <4>3. CASE CheckEnds
          BY <4>3, IdleRun DEF CheckEnds, Issuers
        <4> QED BY <1>6, <2>5, <4>1, <4>2, <4>3 DEF Checking
      <3> QED BY <2>2, <3>1, CountsStay
    <2>6. CASE \E e \in Events, picked \in Requests : Issue(e, picked)
      <3>1. run'.pc = "batch" /\ run'.issued = 0 /\ batches' = batches
        BY <2>6 DEF Issue, Start, Idle
      <3> QED BY <2>2, <3>1, CountsStay DEF Issuers
    <2>7. CASE LookAtWorker \/ AuditBadge
      <3>1. run.pc \in Issuers /\ batches' = batches
        BY <2>7 DEF LookAtWorker, AuditBadge, At, Issuers
      <3>2. run'.issued = run.issued /\ run'.pc # "batch"
        BY <2>7, IssueTurns DEF Goes
      <3> QED BY <1>1, <2>2, <3>1, <3>2, CountsStay
    <2> QED BY <1>6, <2>3, <2>4, <2>5, <2>6, <2>7 DEF Next, Issuing
  <1> QED BY <1>2, <1>3, <1>4, <1>5, <1>6

\* The tables of issue_project_badges describe the same badges, wherever the
\* loop was cut short.
THEOREM IssuesRecorded == Spec => []IssueRecorded
  <1> DEFINE Inv == Typed /\ AuditInv /\ CountInv
  <1>1. Init => Inv
    BY InitTyped, InitAudit, InitCount
  <1>2. Inv /\ [Next]_vars => Inv'
    BY TypedStep, AuditKept, CountKept
  <1>3. Inv => IssueRecorded
    BY DEF Typed, AuditInv, CountInv, Unaudited, Auditing, EveryIssueAudited, IssueRecorded
  <1> QED BY <1>1, <1>2, <1>3, PTL DEF Spec

-----------------------------------------------------------------------------
(* Levels.  What a check has still to award are stairs on what the worker  *)
(* holds: below each entry, a level is held or comes earlier.              *)

Stairs(todo, held) ==
    \A k \in DOMAIN todo : \A l \in 1 .. (todo[k][2] - 1) :
        \/ <<todo[k][1], l>> \in held
        \/ \E j \in 1 .. (k - 1) : todo[j] = <<todo[k][1], l>>

LEMMA StairsConcat ==
    ASSUME NEW s \in Seq(Found), NEW t \in Seq(Found), NEW held, Stairs(s, held), Stairs(t, held)
    PROVE  s \o t \in Seq(Found) /\ Stairs(s \o t, held)
  <1> DEFINE m == Len(s)
             n == Len(t)
             st == s \o t
  <1>1. /\ m \in Nat /\ n \in Nat /\ DOMAIN s = 1 .. m /\ DOMAIN t = 1 .. n
        /\ st \in Seq(Found) /\ Len(st) = m + n /\ DOMAIN st = 1 .. (m + n)
    BY ConcatProperties, LenProperties
  <1>2. \A i \in 1 .. (m + n) : st[i] = IF i <= m THEN s[i] ELSE t[i - m]
    BY ConcatProperties
  <1> HIDE DEF m, n, st
  <1>3. ASSUME NEW k \in 1 .. (m + n), NEW l \in 1 .. (st[k][2] - 1)
        PROVE  \/ <<st[k][1], l>> \in held
               \/ \E j \in 1 .. (k - 1) : st[j] = <<st[k][1], l>>
    <2>1. CASE k <= m
      <3>1. k \in DOMAIN s /\ st[k] = s[k]
        BY <1>1, <1>2, <2>1
      <3>2. \/ <<s[k][1], l>> \in held
            \/ \E j \in 1 .. (k - 1) : s[j] = <<s[k][1], l>>
        BY <3>1 DEF Stairs
      <3>3. \A j \in 1 .. (k - 1) : st[j] = s[j]
        BY <1>1, <1>2, <2>1
      <3> QED BY <3>1, <3>2, <3>3
    <2>2. CASE ~(k <= m)
      <3> DEFINE i == k - m
      <3>1. i \in 1 .. n /\ st[k] = t[i] /\ k = i + m
        BY <1>1, <1>2, <2>2
      <3> HIDE DEF i
      <3>2. i \in DOMAIN t
        BY <1>1, <3>1
      <3>3. \/ <<t[i][1], l>> \in held
            \/ \E j \in 1 .. (i - 1) : t[j] = <<t[i][1], l>>
        BY <3>1, <3>2 DEF Stairs
      <3>4. ASSUME NEW j \in 1 .. (i - 1), t[j] = <<t[i][1], l>>
            PROVE  \E h \in 1 .. (k - 1) : st[h] = <<st[k][1], l>>
        <4> DEFINE h == j + m
        <4>1. h \in 1 .. (k - 1) /\ h \in 1 .. (m + n) /\ ~(h <= m) /\ h - m = j
          BY <1>1, <3>1
        <4> HIDE DEF h
        <4>2. st[h] = t[j]
          BY <1>2, <4>1
        <4> QED BY <3>1, <3>4, <4>1, <4>2
      <3> QED BY <3>1, <3>3, <3>4
    <2> QED BY <2>1, <2>2
  <1>4. st \in Seq(Found) /\ Stairs(st, held)
    BY <1>1, <1>3 DEF Stairs
  <1> QED BY <1>4 DEF st

LEMMA StairsHead ==
    ASSUME NEW s \in Seq(Found), s # << >>, NEW held, Stairs(s, held)
    PROVE  \A l \in 1 .. (Head(s)[2] - 1) : <<Head(s)[1], l>> \in held
  <1>1. 1 \in DOMAIN s /\ Head(s) = s[1]
    BY EmptySeq, LenProperties
  <1> QED BY <1>1 DEF Stairs

\* Once its first entry is held, the rest are stairs.
LEMMA StairsTail ==
    ASSUME NEW s \in Seq(Found), s # << >>, NEW held, Stairs(s, held),
           NEW more, held \subseteq more, Head(s) \in more
    PROVE  Stairs(Tail(s), more)
  <1> DEFINE t == Tail(s)
             n == Len(t)
  <1>1. /\ n \in Nat /\ DOMAIN t = 1 .. n /\ DOMAIN s = 1 .. (n + 1) /\ Head(s) = s[1]
        /\ \A i \in 1 .. n : t[i] = s[i + 1]
    BY HeadTailProperties, LenProperties
  <1> HIDE DEF t, n
  <1>2. ASSUME NEW k \in 1 .. n, NEW l \in 1 .. (t[k][2] - 1)
        PROVE  \/ <<t[k][1], l>> \in more
               \/ \E j \in 1 .. (k - 1) : t[j] = <<t[k][1], l>>
    <2> DEFINE i == k + 1
    <2>1. i \in DOMAIN s /\ t[k] = s[i]
      BY <1>1
    <2>2. \/ <<s[i][1], l>> \in held
          \/ \E j \in 1 .. (i - 1) : s[j] = <<s[i][1], l>>
      <3> HIDE DEF i
      <3> QED BY <2>1 DEF Stairs
    <2>3. ASSUME NEW j \in 1 .. (i - 1), s[j] = <<s[i][1], l>>
          PROVE  \/ <<t[k][1], l>> \in more
                 \/ \E h \in 1 .. (k - 1) : t[h] = <<t[k][1], l>>
      <3>1. CASE j = 1
        BY <1>1, <2>1, <2>3, <3>1
      <3>2. CASE j # 1
        <4> DEFINE h == j - 1
        <4>1. h \in 1 .. (k - 1) /\ h \in 1 .. n /\ h + 1 = j
          BY <1>1, <3>2
        <4> HIDE DEF h
        <4>2. t[h] = s[j]
          BY <1>1, <4>1
        <4> QED BY <2>1, <2>3, <4>1, <4>2
      <3> QED BY <3>1, <3>2
    <2> QED BY <2>1, <2>2, <2>3
  <1>3. Stairs(t, more)
    BY <1>1, <1>2 DEF Stairs
  <1> QED BY <1>3 DEF t

LEMMA StairsOfLevels ==
    ASSUME NEW type \in Counted, NEW m \in Nat, NEW held
    PROVE  Levels(type, m) \in Seq(Found) /\ Stairs(Levels(type, m), held)
  <1> DEFINE s == Levels(type, m)
  <1>1. s \in Seq(Found) /\ DOMAIN s = 1 .. m /\ \A k \in 1 .. m : s[k] = <<type, k>>
    BY DEF Levels, Found
  <1> HIDE DEF s
  <1>2. ASSUME NEW k \in 1 .. m, NEW l \in 1 .. (s[k][2] - 1)
        PROVE  \E j \in 1 .. (k - 1) : s[j] = <<s[k][1], l>>
    <2>1. s[k] = <<type, k>> /\ l \in 1 .. (k - 1) /\ l \in 1 .. m
      BY <1>1
    <2>2. s[l] = <<type, l>>
      BY <1>1, <2>1
    <2> QED BY <2>1, <2>2
  <1>3. Stairs(s, held)
    BY <1>1, <1>2 DEF Stairs
  <1> QED BY <1>1, <1>3 DEF s

HeldBy(w) == {<<b.type, b.level>> : b \in {c \in badges : c.worker = w}}

StairInv ==
    /\ LevelsWithoutGaps
    /\ run.pc \in {"worker", "award"} => Stairs(run.todo, HeldBy(run.worker))

LEMMA InitStairs == Init => StairInv
  <1> SUFFICES ASSUME Init PROVE StairInv
    OBVIOUS
  <1>1. badges = {} /\ run.pc = "idle"
    BY IdleRun DEF Init
  <1> QED BY <1>1 DEF StairInv, LevelsWithoutGaps

\* A badge more, below which there is no gap.
LEMMA NoGapAdded ==
    ASSUME LevelsWithoutGaps, NEW b, badges' = badges \cup {b},
           \A l \in 1 .. (b.level - 1) : Holds(b.worker, b.type, l)
    PROVE  LevelsWithoutGaps'
  BY DEF LevelsWithoutGaps, Holds

LEMMA StairsKept == Typed /\ StairInv /\ [Next]_vars => StairInv'
  <1> SUFFICES ASSUME Typed, StairInv, [Next]_vars PROVE StairInv'
    OBVIOUS
  <1>1. run \in Run
    BY DEF Typed, TypeOK
  <1>2. CASE AwardBadge
    <2> DEFINE type == Head(run.todo)[1]
               level == Head(run.todo)[2]
               w == run.worker
               b == [worker |-> w, type |-> type, level |-> level, event |-> NoOne, batch |-> 0]
    <2>1. /\ run.pc = "award" /\ run.todo \in Seq(Found) /\ run.todo # << >>
          /\ Head(run.todo) \in Found
          /\ badges' = IF Holds(w, type, level) THEN badges ELSE badges \cup {b}
          /\ run'.worker = w /\ run'.todo = Tail(run.todo)
      BY <1>2, Awarding
    <2>2. Stairs(run.todo, HeldBy(w)) /\ LevelsWithoutGaps
      BY <2>1 DEF StairInv
    <2>3. Head(run.todo) = <<type, level>>
      BY <2>1 DEF Found
    <2>4. b.worker = w /\ b.type = type /\ b.level = level
      OBVIOUS
    <2>5. \A l \in 1 .. (level - 1) : <<type, l>> \in HeldBy(w)
      BY <2>1, <2>2, StairsHead
    <2> HIDE DEF b, type, level, w
    <2>6. HeldBy(w) \subseteq HeldBy(w)' /\ <<type, level>> \in HeldBy(w)'
      <3>1. w' = w
        BY <2>1 DEF w
      <3>2. CASE Holds(w, type, level)
        BY <2>1, <3>1, <3>2 DEF HeldBy, Holds
      <3>3. CASE ~Holds(w, type, level)
        BY <2>1, <2>4, <3>1, <3>3 DEF HeldBy
      <3> QED BY <3>2, <3>3
    <2>7. Stairs(Tail(run.todo), HeldBy(w)')
      BY <2>1, <2>2, <2>3, <2>6, StairsTail
    <2>8. LevelsWithoutGaps'
      <3>1. \A l \in 1 .. (b.level - 1) : Holds(b.worker, b.type, l)
        BY <2>4, <2>5 DEF HeldBy, Holds
      <3>2. CASE badges' = badges
        BY <2>2, <3>2 DEF LevelsWithoutGaps, Holds
      <3>3. CASE badges' = badges \cup {b}
        BY <2>2, <3>1, <3>3, NoGapAdded
      <3> QED BY <2>1, <3>2, <3>3
    <2>9. Stairs(run.todo, HeldBy(run.worker))'
      BY <2>1, <2>7 DEF HeldBy, Stairs, w
    <2> QED BY <2>8, <2>9 DEF StairInv
  <1>3. CASE IssueBadge
    <2> DEFINE b == [worker |-> Head(run.todo), type |-> "PROJECT", level |-> 1,
                     event |-> run.event, batch |-> Len(batches)]
    <2>1. /\ badges' = badges \/ badges' = badges \cup {b}
          /\ run'.pc \notin {"worker", "award"}
      BY <1>3, IssueTurns, IdleRun DEF Goes
    <2>2. b.level = 1
      OBVIOUS
    <2> HIDE DEF b
    <2>3. LevelsWithoutGaps'
      <3>1. \A l \in 1 .. (b.level - 1) : Holds(b.worker, b.type, l)
        BY <2>2
      <3>2. CASE badges' = badges
        BY <3>2 DEF StairInv, LevelsWithoutGaps, Holds
      <3>3. CASE badges' = badges \cup {b}
        BY <3>1, <3>3, NoGapAdded DEF StairInv
      <3> QED BY <2>1, <3>2, <3>3
    <2> QED BY <2>1, <2>3 DEF StairInv
  <1>4. CASE ~AwardBadge /\ ~IssueBadge
    <2>1. badges' = badges
      BY <1>4, BadgesLeft
    <2>2. LevelsWithoutGaps'
      BY <2>1 DEF StairInv, LevelsWithoutGaps, Holds
    <2>3. CASE run' = run
      BY <2>1, <2>2, <2>3 DEF StairInv, HeldBy
    <2>4. CASE run'.pc \notin {"worker", "award"}
      BY <2>2, <2>4 DEF StairInv
    <2>5. CASE ReadStats
      <3> DEFINE s == Stats(run.worker)
                 one == Reached("WORK_COUNT", s["WORK_COUNT"])
                 two == Reached("TRUST", s["TRUST"])
                 three == Reached("BLOCKCHAIN", s["BLOCKCHAIN"])
                 todo == one \o two \o three
                 held == HeldBy(run.worker)
      <3>1. run' = [run EXCEPT !.pc = "worker", !.todo = todo] /\ run.worker \in Workers
        BY <2>5 DEF ReadStats, Typed, RunInv, At
      <3>2. ASSUME NEW type \in Counted
            PROVE  Reached(type, s[type]) \in Seq(Found) /\ Stairs(Reached(type, s[type]), held)
        <4>1. s[type] \in Nat
          BY <3>1, StatsTyped
        <4>2. PICK m \in 0 .. MaxLevel(type) : Reached(type, s[type]) = Levels(type, m)
          BY <4>1, LevelsReached
        <4>3. m \in Nat
          BY BadgesAssumption, LenProperties DEF MaxLevel
        <4> HIDE DEF s, held
        <4> QED BY <4>2, <4>3, StairsOfLevels
      <3>3. /\ one \in Seq(Found) /\ two \in Seq(Found) /\ three \in Seq(Found)
            /\ Stairs(one, held) /\ Stairs(two, held) /\ Stairs(three, held)
        <4> HIDE DEF s, held
        <4> QED BY <3>2 DEF Counted
      <3>4. Stairs(todo, held)
        <4> HIDE DEF one, two, three, held
        <4>1. one \o two \in Seq(Found) /\ Stairs(one \o two, held)
          BY <3>3, StairsConcat
        <4> QED BY <3>3, <4>1, StairsConcat
      <3> HIDE DEF todo
      <3>5. run'.worker = run.worker /\ run'.todo = todo
        BY <1>1, <3>1 DEF Run
      <3> QED BY <2>1, <2>2, <3>4, <3>5 DEF StairInv, HeldBy
    <2>6. CASE ReadWorker
      <3> DEFINE one == Own("PROFILE")
                 two == Own("PHOTO")
                 todo == run.todo \o one \o two
                 held == HeldBy(run.worker)
      <3>1. /\ run' = [run EXCEPT !.pc = "award", !.todo = todo] /\ run.worker \in Workers
            /\ run.todo \in Seq(Found) /\ Stairs(run.todo, held)
        BY <2>6 DEF ReadWorker, Typed, RunInv, StairInv, At
      <3>2. ASSUME NEW f
            PROVE  Own(f) \in Seq(Found) /\ Stairs(Own(f), held)
        <4>1. facts[run.worker] \subseteq Flags
          BY <3>1 DEF Typed, TypeOK
        <4>2. CASE f \in facts[run.worker]
          <5>1. Own(f) = << <<f, 1>> >>
            BY <4>2 DEF Own
          <5>2. Own(f) \in Seq(Found)
            BY <4>1, <4>2, <5>1 DEF Found
          <5>3. DOMAIN Own(f) = {1} /\ Own(f)[1] = <<f, 1>> /\ Own(f)[1][2] = 1
            BY <5>1
          <5> QED BY <5>2, <5>3 DEF Stairs
        <4>3. CASE f \notin facts[run.worker]
          <5>1. Own(f) = << >>
            BY <4>3 DEF Own
          <5> QED BY <5>1 DEF Stairs
        <4> QED BY <4>2, <4>3
      <3>3. Stairs(todo, held)
        <4>1. /\ one \in Seq(Found) /\ Stairs(one, held)
              /\ two \in Seq(Found) /\ Stairs(two, held)
          BY <3>2
        <4> HIDE DEF one, two, held
        <4>2. run.todo \o one \in Seq(Found) /\ Stairs(run.todo \o one, held)
          BY <3>1, <4>1, StairsConcat
        <4> QED BY <4>1, <4>2, StairsConcat
      <3> HIDE DEF todo
      <3>4. run'.worker = run.worker /\ run'.todo = todo
        BY <1>1, <3>1 DEF Run
      <3> QED BY <2>1, <2>2, <3>3, <3>4 DEF StairInv, HeldBy
    <2>7. \/ run' = run
          \/ run'.pc \notin {"worker", "award"}
          \/ ReadStats \/ ReadWorker
      <3>1. CASE Elsewhere \/ UNCHANGED vars
        BY <3>1, ElsewhereLeaves
      <3>2. CASE \E w \in Workers : Check(w)
        BY <3>2 DEF Check, Start, Idle
      <3>3. CASE \E e \in Events, picked \in Requests : Issue(e, picked)
        BY <3>3 DEF Issue, Start, Idle
      <3>4. CASE CheckEnds \/ CountBatch \/ Crash
        BY <3>4, IdleRun DEF CheckEnds, CountBatch, Crash
      <3>5. CASE CreateBatch \/ LookAtWorker \/ AuditBadge
        BY <3>5, IssueTurns, IdleRun DEF Goes
      <3> QED BY <1>4, <3>1, <3>2, <3>3, <3>4, <3>5 DEF Next, Checking, Issuing
    <2> QED BY <2>3, <2>4, <2>5, <2>6, <2>7
  <1> QED BY <1>2, <1>3, <1>4

\* Who has a level has those below it, wherever a check was cut short.
THEOREM NoGapsInLevels == Spec => []LevelsWithoutGaps
  <1>1. Init => Typed /\ StairInv
    BY InitTyped, InitStairs
  <1>2. Typed /\ StairInv /\ [Next]_vars => (Typed /\ StairInv)'
    BY TypedStep, StairsKept
  <1>3. StairInv => LevelsWithoutGaps
    BY DEF StairInv
  <1> QED BY <1>1, <1>2, <1>3, PTL DEF Spec
=============================================================================
