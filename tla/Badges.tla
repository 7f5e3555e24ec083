-------------------------------- MODULE Badges --------------------------------
(***************************************************************************)
(* Badges.  Asking for one's badges reads the worker's counts and inserts  *)
(* a badge per level they reach; issuing a batch of project badges goes    *)
(* over the workers an administrator picked.  Both are loops of the API,   *)
(* one transaction per turn, and run is the loop in progress (the API runs *)
(* one handler at a time).  Meanwhile the bots confirm, complete, anchor   *)
(* and delete what the counts and the foreign keys are about.              *)
(***************************************************************************)
EXTENDS Integers, Sequences, FiniteSets

CONSTANTS Workers, Events,
          Roster,        \* bound on who applies for what, pairs of both
          Thresholds,    \* counts per level: WORK_COUNT, TRUST, BLOCKCHAIN
          Flags,         \* badges that ask for one fact: PROFILE, PHOTO
          Requests,      \* lists of workers an administrator picks
          MaxRuns,       \* bound on loops started
          MaxCrashes     \* bound on deaths of the API process

Counted == {"WORK_COUNT", "TRUST", "BLOCKCHAIN"}

ASSUME BadgesAssumption ==
    /\ Thresholds \in [Counted -> Seq(Nat \ {0})]
    /\ \A type \in Counted : \A k, l \in DOMAIN Thresholds[type] :
          k < l => Thresholds[type][k] <= Thresholds[type][l]
    /\ Flags \subseteq {"PROFILE", "PHOTO"}
    /\ Requests \subseteq Seq(Workers) /\ Roster \subseteq Workers \X Events
    /\ IsFiniteSet(Events) /\ {MaxRuns, MaxCrashes} \subseteq Nat

VARIABLES event,      \* status of each event
          work,       \* applications, attendance and chain_logs, per pair
          facts,      \* what a worker's row says, of Flags
          badges,     \* worker_badges
          batches,    \* project_nft_batches, by id
          audits,     \* audit_logs of action BADGE_ISSUED
          run, runs, crashes
vars == <<event, work, facts, badges, batches, audits, run, runs, crashes>>

NoOne == "none"
Row == [app : {"NO_ROW", "CONFIRMED", "REJECTED"}, out : BOOLEAN, chain : BOOLEAN]
NoRow == [app |-> "NO_ROW", out |-> FALSE, chain |-> FALSE]
MaxLevel(type) == IF type \in Counted THEN Len(Thresholds[type]) ELSE 1
Badge == [worker : Workers, type : Counted \cup Flags \cup {"PROJECT"},
          level : Nat, event : Events \cup {NoOne}, batch : Nat]
Batch == [event : Events, total : Nat]

\* A project badge is one of a batch; the others have no batch_id.
Project(b) == b.batch # 0

Steps == {"idle", "stats", "worker", "award", "batch", "look", "issue", "audit"}
Run == [pc : Steps, worker : Workers \cup {NoOne}, event : Events \cup {NoOne},
        todo : Seq((Counted \cup Flags) \X Nat) \cup Seq(Workers), issued : Nat]
Idle == [pc |-> "idle", worker |-> NoOne, event |-> NoOne, todo |-> << >>,
         issued |-> 0]

TypeOK ==
    /\ event \in [Events -> {"OPEN", "COMPLETED", "GONE"}]
    /\ work \in [Workers -> [Events -> Row]]
    /\ facts \in [Workers -> SUBSET Flags]
    /\ badges \subseteq Badge
    /\ \A b \in badges : Project(b) <=> b.type = "PROJECT"
    /\ \A b, c \in badges :
          b.worker = c.worker /\ b.type = c.type /\ b.level = c.level => b = c
    /\ batches \in Seq(Batch)
    /\ audits \subseteq badges
    /\ run \in Run /\ runs \in 0..MaxRuns /\ crashes \in 0..MaxCrashes

Init ==
    /\ event = [e \in Events |-> "OPEN"]
    /\ work = [w \in Workers |-> [e \in Events |-> NoRow]]
    /\ facts = [w \in Workers |-> {}]
    /\ badges = {} /\ batches = << >> /\ audits = {}
    /\ run = Idle /\ runs = 0 /\ crashes = 0

-----------------------------------------------------------------------------
(* What happens elsewhere.                                                 *)

SetRow(w, e, row) == work' = [work EXCEPT ![w][e] = row]

Confirm(w, e) ==
    /\ <<w, e>> \in Roster /\ event[e] # "GONE" /\ work[w][e].app # "CONFIRMED"
    /\ SetRow(w, e, [work[w][e] EXCEPT !.app = "CONFIRMED"])
    /\ UNCHANGED <<event, facts, badges, batches, audits, run, runs, crashes>>

\* A rejection after the work keeps the attendance.
Reject(w, e) ==
    /\ work[w][e].app = "CONFIRMED"
    /\ SetRow(w, e, [work[w][e] EXCEPT !.app = "REJECTED"])
    /\ UNCHANGED <<event, facts, badges, batches, audits, run, runs, crashes>>

CheckOut(w, e) ==
    /\ work[w][e].app # "NO_ROW" /\ ~work[w][e].out
    /\ SetRow(w, e, [work[w][e] EXCEPT !.out = TRUE])
    /\ UNCHANGED <<event, facts, badges, batches, audits, run, runs, crashes>>

Anchor(w, e) ==
    /\ work[w][e].out /\ ~work[w][e].chain
    /\ SetRow(w, e, [work[w][e] EXCEPT !.chain = TRUE])
    /\ UNCHANGED <<event, facts, badges, batches, audits, run, runs, crashes>>

CompleteEvent(e) ==
    /\ event[e] = "OPEN" /\ event' = [event EXCEPT ![e] = "COMPLETED"]
    /\ UNCHANGED <<work, facts, badges, batches, audits, run, runs, crashes>>

EditProfile(w, f) ==
    /\ f \notin facts[w] /\ facts' = [facts EXCEPT ![w] = @ \cup {f}]
    /\ UNCHANGED <<event, work, badges, batches, audits, run, runs, crashes>>

\* Faulty: without the foreign key of project_nft_batches.
FaultyDeletable(e) == \A w \in Workers : ~work[w][e].chain

\* event_delete_confirm is one transaction: a row of chain_logs, of
\* project_nft_batches or of worker_badges that names the event ends it.
Deletable(e) ==
    /\ \A w \in Workers : ~work[w][e].chain
    /\ \A i \in DOMAIN batches : batches[i].event # e
    /\ \A b \in badges : b.event # e

DeleteEvent(e) ==
    /\ event[e] # "GONE" /\ Deletable(e)
    /\ event' = [event EXCEPT ![e] = "GONE"]
    /\ work' = [w \in Workers |-> [work[w] EXCEPT ![e] = NoRow]]
    /\ UNCHANGED <<facts, badges, batches, audits, run, runs, crashes>>

-----------------------------------------------------------------------------
(* check_and_award_badges.                                                 *)

At(pc) == run.pc = pc
Start(job) == At("idle") /\ runs < MaxRuns /\ runs' = runs + 1 /\ run' = job
Holds(w, type, level) ==
    \E b \in badges : b.worker = w /\ b.type = type /\ b.level = level

\* get_worker_stats_for_badges: its statements are taken together.
Stats(w) ==
    LET done == {e \in Events : work[w][e].out} IN
    [type \in Counted |-> Cardinality(
        CASE type = "WORK_COUNT" -> done
          [] type = "TRUST" -> {e \in done : work[w][e].app = "CONFIRMED"}
          [] type = "BLOCKCHAIN" -> {e \in Events : work[w][e].chain})]

\* Faulty: only the highest level that is reached.
FaultyReached(type, n) ==
    LET met == {l \in DOMAIN Thresholds[type] : n >= Thresholds[type][l]} IN
    IF met = {} THEN << >> ELSE << <<type, Cardinality(met)>> >>

\* The levels of one type whose threshold is reached, in the order they are
\* defined.
Reached(type, n) ==
    LET upTo[l \in 0 .. MaxLevel(type)] ==
          IF l = 0 THEN << >>
          ELSE IF n >= Thresholds[type][l] THEN Append(upTo[l - 1], <<type, l>>)
          ELSE upTo[l - 1]
    IN upTo[MaxLevel(type)]

Check(w) ==
    /\ Start([Idle EXCEPT !.pc = "stats", !.worker = w])
    /\ UNCHANGED <<event, work, facts, badges, batches, audits, crashes>>

ReadStats ==
    /\ At("stats")
    /\ LET s == Stats(run.worker) IN
       run' = [run EXCEPT !.pc = "worker",
                 !.todo = Reached("WORK_COUNT", s["WORK_COUNT"])
                          \o Reached("TRUST", s["TRUST"])
                          \o Reached("BLOCKCHAIN", s["BLOCKCHAIN"])]
    /\ UNCHANGED <<event, work, facts, badges, batches, audits, runs, crashes>>

\* The badge for a fact of the worker's row.
Own(f) == IF f \in facts[run.worker] THEN << <<f, 1>> >> ELSE << >>

ReadWorker ==
    /\ At("worker")
    /\ run' = [run EXCEPT !.pc = "award", !.todo = @ \o Own("PROFILE") \o Own("PHOTO")]
    /\ UNCHANGED <<event, work, facts, badges, batches, audits, runs, crashes>>

\* has_badge and the INSERT: nothing else inserts badges in between.
AwardBadge ==
    /\ At("award") /\ run.todo # << >>
    /\ LET type == Head(run.todo)[1]  level == Head(run.todo)[2] IN
       badges' = IF Holds(run.worker, type, level) THEN badges
                 ELSE badges \cup {[worker |-> run.worker, type |-> type, level |-> level,
                                    event |-> NoOne, batch |-> 0]}
    /\ run' = [run EXCEPT !.todo = Tail(@)]
    /\ UNCHANGED <<event, work, facts, batches, audits, runs, crashes>>

CheckEnds ==
    /\ At("award") /\ run.todo = << >> /\ run' = Idle
    /\ UNCHANGED <<event, work, facts, badges, batches, audits, runs, crashes>>

-----------------------------------------------------------------------------
(* issue_project_badges.                                                   *)

Issue(e, picked) ==
    /\ event[e] = "COMPLETED" /\ picked # << >>
    /\ Start([Idle EXCEPT !.pc = "batch", !.event = e, !.todo = picked])
    /\ UNCHANGED <<event, work, facts, badges, batches, audits, crashes>>

\* The event may be gone by now: the foreign key refuses the batch.
CreateBatch ==
    /\ At("batch")
    /\ IF event[run.event] = "GONE"
       THEN run' = Idle /\ UNCHANGED batches
       ELSE /\ batches' = Append(batches, [event |-> run.event, total |-> 0])
            /\ run' = [run EXCEPT !.pc = "look"]
    /\ UNCHANGED <<event, work, facts, badges, audits, runs, crashes>>

Eligible(w, e) == work[w][e].out

\* get_event_eligible_workers, asked again for every worker.
LookAtWorker ==
    /\ At("look") /\ run.todo # << >>
    /\ run' = IF Eligible(Head(run.todo), run.event)
              THEN [run EXCEPT !.pc = "issue"] ELSE [run EXCEPT !.todo = Tail(@)]
    /\ UNCHANGED <<event, work, facts, badges, batches, audits, runs, crashes>>

\* award_project_badge looks for a badge of the same event; the constraint
\* UNIQUE(worker_id, badge_type, badge_level) then refuses one of another,
\* and the loop ends there.
IssueBadge ==
    LET w == Head(run.todo) IN
    /\ At("issue")
    /\ IF \E b \in badges : b.worker = w /\ b.type = "PROJECT" /\ b.event = run.event
       THEN run' = [run EXCEPT !.pc = "look", !.todo = Tail(@)] /\ UNCHANGED badges
       ELSE IF Holds(w, "PROJECT", 1) THEN run' = Idle /\ UNCHANGED badges
       ELSE /\ badges' = badges \cup {[worker |-> w, type |-> "PROJECT", level |-> 1,
                                       event |-> run.event, batch |-> Len(batches)]}
            /\ run' = [run EXCEPT !.pc = "audit", !.issued = @ + 1]
    /\ UNCHANGED <<event, work, facts, batches, audits, runs, crashes>>

AuditBadge ==
    /\ At("audit")
    /\ audits' = audits \cup {b \in badges : b.worker = Head(run.todo) /\ b.type = "PROJECT"}
    /\ run' = [run EXCEPT !.pc = "look", !.todo = Tail(@)]
    /\ UNCHANGED <<event, work, facts, badges, batches, runs, crashes>>

\* Faulty: what was picked counts, not what was issued.
FaultyCountBatch ==
    /\ At("look") /\ run.todo = << >>
    /\ batches' = [batches EXCEPT ![Len(batches)].total = Cardinality(
                      {w \in Workers : Eligible(w, run.event)})]
    /\ run' = Idle
    /\ UNCHANGED <<event, work, facts, badges, audits, runs, crashes>>

CountBatch ==
    /\ At("look") /\ run.todo = << >>
    /\ batches' = [batches EXCEPT ![Len(batches)].total = run.issued]
    /\ run' = Idle
    /\ UNCHANGED <<event, work, facts, badges, audits, runs, crashes>>

Crash ==
    /\ crashes < MaxCrashes /\ run # Idle
    /\ crashes' = crashes + 1 /\ run' = Idle
    /\ UNCHANGED <<event, work, facts, badges, batches, audits, runs>>

-----------------------------------------------------------------------------
Elsewhere ==
    \/ \E w \in Workers, e \in Events :
          Confirm(w, e) \/ Reject(w, e) \/ CheckOut(w, e) \/ Anchor(w, e)
    \/ \E e \in Events : CompleteEvent(e) \/ DeleteEvent(e)
    \/ \E w \in Workers, f \in Flags : EditProfile(w, f)

Checking ==
    \/ \E w \in Workers : Check(w)
    \/ ReadStats \/ ReadWorker \/ AwardBadge \/ CheckEnds

Issuing ==
    \/ \E e \in Events, picked \in Requests : Issue(e, picked)
    \/ CreateBatch \/ LookAtWorker \/ IssueBadge \/ AuditBadge \/ CountBatch

Next == Elsewhere \/ Checking \/ Issuing \/ Crash
Spec == Init /\ [][Next]_vars

-----------------------------------------------------------------------------
(* Safety.                                                                 *)

\* A project badge stands for work that was done: its event is still there,
\* its batch is one of that event and the worker still has the completed
\* attendance, whatever was deleted or rejected since it was looked at.
IssuedWereEligible ==
    \A b \in badges : Project(b) =>
        /\ event[b.event] # "GONE" /\ work[b.worker][b.event].out
        /\ b.batch \in DOMAIN batches /\ batches[b.batch].event = b.event

\* Every project badge is in the audit log, which is written in a
\* transaction of its own: but for the last one, only the death of the
\* process leaves one out.
EveryIssueAudited ==
    Cardinality({b \in badges : Project(b) /\ b \notin audits})
        <= crashes + IF At("audit") THEN 1 ELSE 0

\* A batch's count is the number of its badges, or still zero: the loop's
\* last transaction writes it, and an error or a death leaves it out.
BatchCountSound ==
    \A i \in DOMAIN batches :
        batches[i].total \in {0, Cardinality({b \in badges : Project(b) /\ b.batch = i})}

\* The three tables that the loop of issue_project_badges writes one by one
\* describe the same badges, wherever the loop was cut short.
IssueRecorded == TypeOK /\ EveryIssueAudited /\ BatchCountSound

\* Who has a level has those below it, although each is a transaction and
\* the process may die in between, and although the counts may shrink.
LevelsWithoutGaps ==
    \A b \in badges : \A l \in 1..(b.level - 1) : Holds(b.worker, b.type, l)

-----------------------------------------------------------------------------
(* What a comment says and the code does not do.                           *)

\* award_project_badge: one project badge per event; a worker it was called
\* for has the one of that event afterwards.
ProjectBadgePerEvent ==
    [][At("issue") /\ crashes' = crashes /\ run' # run =>
          \E b \in badges' : b.worker = Head(run.todo) /\ Project(b)
                             /\ b.event = run.event]_vars
=============================================================================
