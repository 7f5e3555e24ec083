------------------------ MODULE WorkLifecycleProofs ------------------------
(***************************************************************************)
(* Proofs about WorkLifecycle for every set of events, workers and ids.    *)
(***************************************************************************)
EXTENDS WorkLifecycle, TLAPS

-----------------------------------------------------------------------------
(* Handlers: the kind of job a program counter stands for.                 *)

\* A process at a given program counter carries the parameters of that
\* handler, so every step may read the fields it names.
LEMMA JobByPc ==
    ASSUME NEW j \in Job
    PROVE  /\ j.pc = "apply_insert" => j \in ApplyJob
           /\ j.pc \in StatusPc => j \in StatusJob
           /\ j.pc \in AppPc => j \in AppJob
           /\ j.pc \in OutPc => j \in OutJob
           /\ j.pc \in AnchorPc => j \in AnchorJob
           /\ j.pc = "del_run" => j \in DeleteJob
BY DEF Job, Idle, ApplyJob, StatusPc, StatusJob, AppPc, AppJob, OutPc, OutJob,
       AnchorPc, AnchorJob, DeleteJob

\* Moving to a program counter of the same handler keeps the job well-typed.
LEMMA GotoTyped ==
    ASSUME job \in [Procs -> Job], NEW p \in Procs, NEW l, Goto(p, l),
           \/ job[p].pc \in StatusPc /\ l \in StatusPc
           \/ job[p].pc \in AppPc /\ l \in AppPc
           \/ job[p].pc \in OutPc /\ l \in OutPc
           \/ job[p].pc \in AnchorPc /\ l \in AnchorPc
    PROVE  job' \in [Procs -> Job]
<1> DEFINE j == [job[p] EXCEPT !.pc = l]
<1>1. job' = [job EXCEPT ![p] = j]
  BY DEF Goto
<1>2. CASE job[p].pc \in StatusPc /\ l \in StatusPc
  <2>1. j \in StatusJob
    BY <1>2, JobByPc DEF StatusJob
  <2> QED BY <1>1, <2>1 DEF Job
<1>3. CASE job[p].pc \in AppPc /\ l \in AppPc
  <2>1. j \in AppJob
    BY <1>3, JobByPc DEF AppJob
  <2> QED BY <1>1, <2>1 DEF Job
<1>4. CASE job[p].pc \in OutPc /\ l \in OutPc
  <2>1. j \in OutJob
    BY <1>4, JobByPc DEF OutJob
  <2> QED BY <1>1, <2>1 DEF Job
<1>5. CASE job[p].pc \in AnchorPc /\ l \in AnchorPc
  <2>1. j \in AnchorJob
    BY <1>5, JobByPc DEF AnchorJob
  <2> QED BY <1>1, <2>1 DEF Job
<1> QED BY <1>2, <1>3, <1>4, <1>5

\* A request starts a well-typed job and a return leaves an idle process.
LEMMA BeginTyped ==
    ASSUME job \in [Procs -> Job], NEW p \in Procs, NEW j \in Job, Begin(p, j)
    PROVE  job' \in [Procs -> Job]
BY DEF Begin

LEMMA FinishTyped ==
    ASSUME job \in [Procs -> Job], NEW p \in Procs, Finish(p)
    PROVE  job' \in [Procs -> Job]
BY DEF Finish, Job

-----------------------------------------------------------------------------
(* Rows.                                                                   *)

\* An id that is live has a full applications row, and likewise for the other
\* tables.
LEMMA RowsTyped ==
    ASSUME TypeOK, NEW a \in AppIds
    PROVE  /\ Live(a) <=> apps[a] \in AppRow
           /\ ~Live(a) <=> apps[a] \in {NotIssued, Deleted}
           /\ HasAtt(a) <=> att[a] \in AttRow
           /\ ~HasAtt(a) <=> att[a] = NoAtt
           /\ HasChain(a) <=> chain[a] \in ChainRow
           /\ ~HasChain(a) <=> chain[a] = NoChain
BY DEF TypeOK, Live, HasAtt, HasChain, AppRow, AttRow, ChainRow, AppStatus,
       NotIssued, Deleted, NoAtt, NoChain

\* Setting the status of a row, or of none, keeps the table well-typed.
LEMMA SetStatusTyped ==
    ASSUME TypeOK, NEW a \in AppIds, NEW s \in AppStatus, SetStatus(a, s)
    PROVE  apps' \in [AppIds -> AppRow \cup {NotIssued, Deleted}]
<1>1. CASE Live(a)
  <2>1. [apps[a] EXCEPT !.status = s] \in AppRow
    BY <1>1, RowsTyped DEF AppRow
  <2> QED BY <1>1, <2>1 DEF SetStatus, TypeOK
<1>2. CASE ~Live(a)
  BY <1>2 DEF SetStatus, TypeOK
<1> QED BY <1>1, <1>2

LEMMA InsertTyped ==
    ASSUME TypeOK, NEW e \in Events, NEW w \in Workers, InsertApplication(e, w)
    PROVE  apps' \in [AppIds -> AppRow \cup {NotIssued, Deleted}]
<1>1. [event |-> e, worker |-> w, status |-> "PENDING", notified |-> FALSE] \in AppRow
  BY DEF AppRow, AppStatus
<1> QED BY <1>1 DEF InsertApplication, TypeOK

LEMMA CreateTyped ==
    ASSUME att \in [AppIds -> AttRow \cup {NoAtt}], NEW a \in AppIds, CreateAttendance(a)
    PROVE  att' \in [AppIds -> AttRow \cup {NoAtt}]
<1>1. [status |-> "PENDING", checkIn |-> 0, checkOut |-> 0, worked |-> 0] \in AttRow
  BY DEF AttRow
<1> QED BY <1>1 DEF CreateAttendance

-----------------------------------------------------------------------------
(* Type correctness.                                                       *)

LEMMA InitTyped == Init => TypeOK
BY DEF Init, TypeOK, Job, EventStatus

\* Steps of the attendance handlers, the same in the API and the worker bot.
LEMMA AttendanceTyped ==
    ASSUME TypeOK, NEW p \in {"api", "wbot"}, AttendanceStep(p)
    PROVE  TypeOK'
<1> USE JobByPc
<1>0. p \in Procs /\ job \in [Procs -> Job] /\ now \in Nat /\ job[p] \in Job
  BY DEF TypeOK, Procs
<1>1. CASE CheckInWrite(p)
  <2>1. job[p].app \in AppIds
    BY <1>0, <1>1 DEF CheckInWrite, At, AppPc, AppJob
  <2>2. att' \in [AppIds -> AttRow \cup {NoAtt}]
    <3> DEFINE a == job[p].app
    <3>1. CASE HasAtt(a)
      <4>1. now' \in Nat /\ att[a] \in AttRow
        BY <1>0, <1>1, <2>1, <3>1, RowsTyped DEF CheckInWrite
      <4>2. [att[a] EXCEPT !.checkIn = now', !.status = "CHECKED_IN"] \in AttRow
        BY <4>1 DEF AttRow
      <4>3. att' = [att EXCEPT ![a] = [att[a] EXCEPT !.checkIn = now', !.status = "CHECKED_IN"]]
        BY <1>1, <3>1 DEF CheckInWrite
      <4> QED BY <2>1, <4>2, <4>3 DEF TypeOK
    <3>2. CASE ~HasAtt(a)
      BY <1>1, <3>2 DEF CheckInWrite, TypeOK
    <3> QED BY <3>1, <3>2
  <2> QED BY <1>0, <1>1, <2>2, FinishTyped DEF CheckInWrite, TypeOK, outside
<1>2. CASE CheckOutSelect(p)
  <2> DEFINE a == job[p].app
  <2>1. job[p] \in OutJob /\ a \in AppIds
    BY <1>0, <1>2 DEF CheckOutSelect, At, OutPc, OutJob
  <2>2. job' \in [Procs -> Job]
    <3>1. CASE HasAtt(a) /\ att[a].checkIn # 0
      <4>1. att[a].checkIn \in Nat /\ now' \in Nat
        BY <1>0, <1>2, <2>1, <3>1, RowsTyped DEF AttRow, CheckOutSelect
      <4>2. [job[p] EXCEPT !.pc = "co_update", !.stamp = now', !.since = att[a].checkIn] \in OutJob
        BY <2>1, <4>1 DEF OutJob, OutPc
      <4>3. job' = [job EXCEPT ![p] = [job[p] EXCEPT !.pc = "co_update", !.stamp = now',
                                                     !.since = att[a].checkIn]]
        BY <1>2, <3>1 DEF CheckOutSelect
      <4> QED BY <1>0, <4>2, <4>3 DEF Job
    <3>2. CASE ~(HasAtt(a) /\ att[a].checkIn # 0)
      BY <1>0, <1>2, <3>2, GotoTyped DEF CheckOutSelect, At, OutPc
    <3> QED BY <3>1, <3>2
  <2> QED BY <1>0, <1>2, <2>2 DEF CheckOutSelect, TypeOK, records, outside
<1>3. CASE CheckOutUpdate(p)
  <2> DEFINE j == job[p]
  <2>1. j \in OutJob
    BY <1>0, <1>3 DEF CheckOutUpdate, At, OutPc
  <2>2. job' \in [Procs -> Job]
    BY <1>0, <1>3, GotoTyped DEF CheckOutUpdate, At, OutPc
  <2>3. att' \in [AppIds -> AttRow \cup {NoAtt}] /\ checkouts' \subseteq (AppIds \X Nat)
    <3>1. CASE HasAtt(j.app)
      <4>1. [status |-> "COMPLETED", checkIn |-> att[j.app].checkIn,
             checkOut |-> j.stamp, worked |-> j.stamp - j.since] \in AttRow
        BY <2>1, <3>1, RowsTyped DEF AttRow, OutJob
      <4> QED BY <1>3, <2>1, <3>1, <4>1 DEF CheckOutUpdate, TypeOK, OutJob
    <3>2. CASE ~HasAtt(j.app)
      BY <1>3, <3>2 DEF CheckOutUpdate, TypeOK
    <3> QED BY <3>1, <3>2
  <2> QED BY <1>3, <2>2, <2>3 DEF CheckOutUpdate, TypeOK, outside
<1>4. CASE CheckOutReread(p)
  <2> DEFINE a == job[p].app
             h == [fmt |-> p, app |-> a, checkIn |-> att[a].checkIn,
                   checkOut |-> att[a].checkOut, worked |-> att[a].worked]
  <2>1. a \in AppIds
    BY <1>0, <1>4 DEF CheckOutReread, At, OutPc, OutJob
  <2>2. job' \in [Procs -> Job]
    <3>1. CASE job[p].anchor /\ HasAtt(a)
      <4>1. h \in Hash
        BY <2>1, <3>1, RowsTyped DEF AttRow, Hash
      <4>2. [pc |-> "send", hash |-> h] \in Job
        BY <4>1 DEF Job, AnchorJob, AnchorPc
      <4> QED BY <1>0, <1>4, <3>1, <4>2 DEF CheckOutReread
    <3>2. CASE ~(job[p].anchor /\ HasAtt(a))
      BY <1>0, <1>4, <3>2, FinishTyped DEF CheckOutReread
    <3> QED BY <3>1, <3>2
  <2> QED BY <1>4, <2>2 DEF CheckOutReread, TypeOK, records, outside, history
<1>5. CASE RecordSend(p)
  <2>1. job[p].hash \in Hash
    BY <1>0, <1>5 DEF RecordSend, At, AnchorPc, AnchorJob
  <2>2. job' \in [Procs -> Job]
    BY <1>0, <1>5, GotoTyped, FinishTyped DEF RecordSend, At, AnchorPc
  <2> QED BY <1>5, <2>1, <2>2 DEF RecordSend, TypeOK, records, history
<1>6. CASE RecordReceipt(p) \/ RecordTimeout(p)
  <2>1. job' \in [Procs -> Job]
    BY <1>0, <1>6, GotoTyped, FinishTyped DEF RecordReceipt, RecordTimeout, At, AnchorPc
  <2> QED BY <1>6, <2>1 DEF RecordReceipt, RecordTimeout, TypeOK, records, outside, history
<1>7. CASE ChainInsert(p)
  <2> DEFINE h == job[p].hash
  <2>1. h \in Hash /\ h.app \in AppIds
    BY <1>0, <1>7 DEF ChainInsert, At, AnchorPc, AnchorJob, Hash
  <2>2. [hash |-> h, tx |-> "NULL"] \in ChainRow
    BY <2>1 DEF ChainRow
  <2>3. chain' \in [AppIds -> ChainRow \cup {NoChain}]
    BY <1>7, <2>1, <2>2 DEF ChainInsert, TypeOK
  <2>4. job' \in [Procs -> Job]
    BY <1>0, <1>7, GotoTyped, FinishTyped DEF ChainInsert, At, AnchorPc
  <2> QED BY <1>7, <2>3, <2>4 DEF ChainInsert, TypeOK, outside, history
<1>8. CASE ChainTx(p)
  <2> DEFINE a == job[p].hash.app
  <2>1. a \in AppIds
    BY <1>0, <1>8 DEF ChainTx, At, AnchorPc, AnchorJob, Hash
  <2>2. chain' \in [AppIds -> ChainRow \cup {NoChain}]
    <3>1. CASE HasChain(a)
      <4>1. [chain[a] EXCEPT !.tx = "SET"] \in ChainRow
        BY <2>1, <3>1, RowsTyped DEF ChainRow
      <4> QED BY <1>8, <2>1, <3>1, <4>1 DEF ChainTx, TypeOK
    <3>2. CASE ~HasChain(a)
      BY <1>8, <3>2 DEF ChainTx, TypeOK
    <3> QED BY <3>1, <3>2
  <2> QED BY <1>0, <1>8, <2>2, FinishTyped DEF ChainTx, TypeOK, outside, history
<1> QED
  BY <1>1, <1>2, <1>3, <1>4, <1>5, <1>6, <1>7, <1>8 DEF AttendanceStep

\* The API's and the admin bot's other steps.
LEMMA ApiTyped ==
    ASSUME TypeOK, ApiStep
    PROVE  TypeOK'
<1> USE JobByPc
<1> DEFINE j == job["api"]
<1>0. "api" \in Procs /\ job \in [Procs -> Job] /\ j \in Job
  BY DEF TypeOK, Procs
<1>1. CASE ApplyInsert
  <2>1. j \in ApplyJob
    BY <1>0, <1>1 DEF ApplyInsert, At
  <2>2. j.event \in Events /\ j.worker \in Workers
    BY <2>1 DEF ApplyJob
  <2> QED BY <1>0, <1>1, <2>2, InsertTyped, FinishTyped
          DEF ApplyInsert, TypeOK, outside, history
<1>2. CASE CancelDelete
  <2>1. j.app \in AppIds
    BY <1>0, <1>2 DEF CancelDelete, At, AppPc, AppJob
  <2>2. apps' \in [AppIds -> AppRow \cup {NotIssued, Deleted}]
    BY <1>2, <2>1 DEF CancelDelete, TypeOK
  <2> QED BY <1>0, <1>2, <2>2, FinishTyped DEF CancelDelete, TypeOK, outside, history
<1>3. CASE UpdWrite
  <2>1. j.app \in AppIds /\ j.want \in AppStatus
    BY <1>0, <1>3 DEF UpdWrite, At, StatusPc, StatusJob
  <2>2. apps' \in [AppIds -> AppRow \cup {NotIssued, Deleted}]
    BY <1>3, <2>1, SetStatusTyped DEF UpdWrite
  <2>3. job' \in [Procs -> Job]
    BY <1>0, <1>3, GotoTyped, FinishTyped DEF UpdWrite, At, StatusPc
  <2> QED BY <1>3, <2>2, <2>3 DEF UpdWrite, TypeOK, outside, history
<1>4. CASE UpdLook
  <2>1. job' \in [Procs -> Job]
    <3> DEFINE l == IF HasAtt(j.app) THEN "upd_notify" ELSE "upd_create"
    <3>1. l \in StatusPc /\ j.pc \in StatusPc /\ Goto("api", l)
      BY <1>4 DEF UpdLook, At, StatusPc
    <3> QED BY <1>0, <3>1, GotoTyped
  <2> QED BY <1>4, <2>1 DEF UpdLook, TypeOK, records, outside, history
<1>5. CASE UpdCreate
  <2>1. j.app \in AppIds
    BY <1>0, <1>5 DEF UpdCreate, At, StatusPc, StatusJob
  <2>2. att' \in [AppIds -> AttRow \cup {NoAtt}]
    BY <1>5, <2>1, CreateTyped DEF UpdCreate, TypeOK
  <2>3. job' \in [Procs -> Job]
    BY <1>0, <1>5, GotoTyped, FinishTyped DEF UpdCreate, At, StatusPc
  <2> QED BY <1>5, <2>2, <2>3 DEF UpdCreate, TypeOK, outside, history
<1>6. CASE UpdNotify
  <2>1. j.app \in AppIds /\ j.want \in AppStatus
    BY <1>0, <1>6 DEF UpdNotify, At, StatusPc, StatusJob
  <2> QED BY <1>0, <1>6, <2>1, FinishTyped DEF UpdNotify, TypeOK, records, history
<1>7. CASE AttendanceStep("api")
  BY <1>7, AttendanceTyped
<1> QED
  BY <1>1, <1>2, <1>3, <1>4, <1>5, <1>6, <1>7 DEF ApiStep

\* The admin bot's steps.
LEMMA AdminBotTyped ==
    ASSUME TypeOK, AdminBotStep
    PROVE  TypeOK'
<1> USE JobByPc
<1> DEFINE j == job["abot"]
<1>0. "abot" \in Procs /\ job \in [Procs -> Job] /\ j \in Job
  BY DEF TypeOK, Procs
<1>1. CASE BotConfirmWrite
  <2>1. j.app \in AppIds
    BY <1>0, <1>1 DEF BotConfirmWrite, At, AppPc, AppJob
  <2>2. apps' \in [AppIds -> AppRow \cup {NotIssued, Deleted}]
    BY <1>1, <2>1, SetStatusTyped DEF BotConfirmWrite, AppStatus
  <2>3. job' \in [Procs -> Job]
    BY <1>0, <1>1, GotoTyped DEF BotConfirmWrite, At, AppPc
  <2> QED BY <1>1, <2>2, <2>3 DEF BotConfirmWrite, TypeOK, outside, history
<1>2. CASE BotConfirmCreate
  <2>1. j.app \in AppIds
    BY <1>0, <1>2 DEF BotConfirmCreate, At, AppPc, AppJob
  <2>2. att' \in [AppIds -> AttRow \cup {NoAtt}]
    BY <1>2, <2>1, CreateTyped DEF BotConfirmCreate, TypeOK
  <2>3. job' \in [Procs -> Job]
    BY <1>0, <1>2, GotoTyped, FinishTyped DEF BotConfirmCreate, At, AppPc
  <2> QED BY <1>2, <2>2, <2>3 DEF BotConfirmCreate, TypeOK, outside, history
<1>3. CASE BotConfirmSend
  <2>1. j.app \in AppIds
    BY <1>0, <1>3 DEF BotConfirmSend, At, AppPc, AppJob
  <2>2. notices' \subseteq (AppIds \X AppStatus)
    BY <1>3, <2>1 DEF BotConfirmSend, TypeOK, AppStatus
  <2>3. job' \in [Procs -> Job]
    BY <1>0, <1>3, GotoTyped, FinishTyped DEF BotConfirmSend, At, AppPc
  <2> QED BY <1>3, <2>2, <2>3 DEF BotConfirmSend, TypeOK, records, history
<1>4. CASE BotConfirmMark
  <2>1. j.app \in AppIds
    BY <1>0, <1>4 DEF BotConfirmMark, At, AppPc, AppJob
  <2>2. apps' \in [AppIds -> AppRow \cup {NotIssued, Deleted}]
    <3>1. CASE Live(j.app)
      <4>1. [apps[j.app] EXCEPT !.notified = TRUE] \in AppRow
        BY <2>1, <3>1, RowsTyped DEF AppRow
      <4> QED BY <1>4, <2>1, <3>1, <4>1 DEF BotConfirmMark, TypeOK
    <3>2. CASE ~Live(j.app)
      BY <1>4, <3>2 DEF BotConfirmMark, TypeOK
    <3> QED BY <3>1, <3>2
  <2> QED BY <1>0, <1>4, <2>2, FinishTyped DEF BotConfirmMark, TypeOK, outside, history
<1>5. CASE BotDeleteRun
  <2>1. j.event \in Events
    BY <1>0, <1>5 DEF BotDeleteRun, At, DeleteJob
  <2>2. /\ event' \in [Events -> EventStatus \cup {"GONE"}]
        /\ apps' \in [AppIds -> AppRow \cup {NotIssued, Deleted}]
        /\ att' \in [AppIds -> AttRow \cup {NoAtt}]
    <3>1. CASE DeletePermitted(j.event)
      BY <1>5, <2>1, <3>1 DEF BotDeleteRun, TypeOK
    <3>2. CASE ~DeletePermitted(j.event)
      BY <1>5, <3>2 DEF BotDeleteRun, TypeOK
    <3> QED BY <3>1, <3>2
  <2> QED BY <1>0, <1>5, <2>2, FinishTyped DEF BotDeleteRun, TypeOK, outside, history
<1> QED
  BY <1>1, <1>2, <1>3, <1>4, <1>5 DEF AdminBotStep

\* Requests: each starts a job or writes one table.
LEMMA RequestTyped ==
    ASSUME TypeOK, Request
    PROVE  TypeOK'
<1> USE BoundsAssumption
<1>0. job \in [Procs -> Job] /\ {"api", "wbot", "abot"} \subseteq Procs
  BY DEF TypeOK, Procs
<1>1. ASSUME NEW e \in Events, NEW w \in Workers, ApplyRead(e, w)
      PROVE  TypeOK'
  <2>1. [pc |-> "apply_insert", event |-> e, worker |-> w] \in Job
    BY DEF Job, ApplyJob
  <2> QED BY <1>0, <1>1, <2>1, BeginTyped DEF ApplyRead, TypeOK, records, outside, history
<1>2. ASSUME NEW e \in Events, NEW w \in Workers, BotApply(e, w)
      PROVE  TypeOK'
  BY <1>2, InsertTyped DEF BotApply, TypeOK, outside, history
<1>3. ASSUME NEW e \in Events, ApiDeleteEvent(e)
      PROVE  TypeOK'
  BY <1>3 DEF ApiDeleteEvent, TypeOK, outside, history
<1>4. ASSUME NEW e \in Events, BotDeleteRead(e)
      PROVE  TypeOK'
  <2>1. [pc |-> "del_run", event |-> e] \in Job
    BY DEF Job, DeleteJob
  <2> QED BY <1>0, <1>4, <2>1, BeginTyped DEF BotDeleteRead, TypeOK, records, outside, history
<1>5. ASSUME NEW e \in Events, NEW s \in EventStatus, SetEventStatus(e, s)
      PROVE  TypeOK'
  BY <1>5 DEF SetEventStatus, TypeOK, outside, history
<1>6. ASSUME NEW a \in AppIds, NEW s \in Decisions, UpdRead(a, s)
      PROVE  TypeOK'
  <2>1. [pc |-> "upd_write", app |-> a, want |-> s] \in Job
    BY DEF Job, StatusJob, StatusPc, AppStatus
  <2> QED BY <1>0, <1>6, <2>1, BeginTyped DEF UpdRead, TypeOK, records, outside, history
<1>7. ASSUME NEW a \in AppIds, NEW s \in Decisions, BotSetStatus(a, s)
      PROVE  TypeOK'
  <2>1. s \in AppStatus
    BY DEF AppStatus
  <2> QED BY <1>7, <2>1, SetStatusTyped DEF BotSetStatus, TypeOK, outside, history
<1>8. ASSUME NEW a \in AppIds, CancelRead(a) \/ BotConfirmRead(a)
      PROVE  TypeOK'
  <2>1. \A l \in AppPc : [pc |-> l, app |-> a] \in Job
    BY DEF Job, AppJob
  <2>2. job' \in [Procs -> Job]
    BY <1>0, <1>8, <2>1, BeginTyped DEF CancelRead, BotConfirmRead, AppPc
  <2> QED BY <1>8, <2>2 DEF CancelRead, BotConfirmRead, TypeOK, records, outside, history
<1>9. ASSUME NEW p \in Procs, NEW a \in AppIds, BeginCheckIn(p, a)
      PROVE  TypeOK'
  <2>1. [pc |-> "ci_write", app |-> a] \in Job
    BY DEF Job, AppJob, AppPc
  <2> QED BY <1>0, <1>9, <2>1, BeginTyped DEF BeginCheckIn, TypeOK, records, outside, history
<1>10. ASSUME NEW p \in Procs, NEW a \in AppIds, NEW anchor \in BOOLEAN,
              BeginCheckOut(p, a, anchor)
       PROVE  TypeOK'
  <2>1. [pc |-> "co_select", app |-> a, anchor |-> anchor, since |-> 0, stamp |-> 0] \in Job
    BY DEF Job, OutJob, OutPc
  <2> QED BY <1>0, <1>10, <2>1, BeginTyped DEF BeginCheckOut, TypeOK, records, outside, history
<1> QED
  BY <1>0, <1>1, <1>2, <1>3, <1>4, <1>5, <1>6, <1>7, <1>8, <1>9, <1>10
  DEF Request, ApiCheckIn, ManualCheckIn, BotCheckIn, ApiCheckOut, ManualCheckOut, BotCheckOut

\* Blocks, lost transactions and crashes.
LEMMA EnvironmentTyped ==
    ASSUME TypeOK, Environment
    PROVE  TypeOK'
<1>1. ASSUME NEW h \in mempool, Mine(h) \/ Drop(h)
      PROVE  TypeOK'
  BY <1>1 DEF Mine, Drop, TypeOK, records, history
<1>2. ASSUME NEW p \in Procs, Crash(p)
      PROVE  TypeOK'
  <2>1. job \in [Procs -> Job] /\ job[p] \in Job
    BY DEF TypeOK
  <2>2. stranded' \subseteq AppIds
    <3>1. CASE job[p].pc \in {"upd_look", "upd_create", "ab_create"}
      <4>1. job[p].app \in AppIds
        BY <2>1, <3>1, JobByPc DEF StatusPc, StatusJob, AppPc, AppJob
      <4> QED BY <1>2, <3>1, <4>1 DEF Crash, TypeOK
    <3>2. CASE job[p].pc \notin {"upd_look", "upd_create", "ab_create"}
      BY <1>2, <3>2 DEF Crash, TypeOK
    <3> QED BY <3>1, <3>2
  <2> QED BY <1>2, <2>1, <2>2, FinishTyped DEF Crash, TypeOK, records, outside
<1> QED BY <1>1, <1>2 DEF Environment

LEMMA NextTyped ==
    ASSUME TypeOK, [Next]_vars
    PROVE  TypeOK'
<1>1. CASE UNCHANGED vars
  BY <1>1 DEF vars, TypeOK
<1>2. CASE Next
  BY <1>2, ApiTyped, AttendanceTyped, AdminBotTyped, RequestTyped, EnvironmentTyped
  DEF Next, WorkerBotStep
<1> QED BY <1>1, <1>2

\* Every row, job and message of every reachable state has its type, for any
\* number of events, workers, ids and crashes.
THEOREM TypeCorrect == Spec => []TypeOK
<1>1. Init => TypeOK
  BY InitTyped
<1>2. TypeOK /\ [Next]_vars => TypeOK'
  BY NextTyped
<1> QED BY <1>1, <1>2, PTL DEF Spec

-----------------------------------------------------------------------------
(* What one step can do to the rows.                                       *)

\* A new application of an existing event.
NewRow(a) ==
    /\ apps[a] = NotIssued
    /\ \E row \in AppRow :
          /\ event[row.event] # "GONE"
          /\ row.status # "CONFIRMED" /\ ~row.notified
          /\ apps' = [apps EXCEPT ![a] = row]
    /\ UNCHANGED <<event, att, chain>>

WithdrawRow(a) ==
    /\ Live(a) /\ ~HasAtt(a)
    /\ apps' = [apps EXCEPT ![a] = Deleted]
    /\ UNCHANGED <<event, att, chain>>

\* Process p is about to issue a's code once the step is done.
ConfirmingNext(p, a) ==
    /\ job'[p].pc \in {"upd_look", "upd_create", "ab_create"}
    /\ job'[p].app = a

\* A new status, or a notified flag set by the admin bot.
ReviseRow(a) ==
    /\ Live(a)
    /\ \E row \in AppRow :
          /\ row.event = apps[a].event
          /\ \/ row.status # "CONFIRMED" \/ row.status = apps[a].status
             \/ \E p \in Procs : ConfirmingNext(p, a)
          /\ \/ row.notified = apps[a].notified
             \/ At("abot", "ab_mark") /\ job["abot"].app = a
          /\ apps' = [apps EXCEPT ![a] = row]
    /\ UNCHANGED <<event, att, chain>>

IssueRow(a) ==
    /\ Live(a) /\ ~HasAtt(a)
    /\ CreateAttendance(a)
    /\ UNCHANGED <<event, apps, chain>>

\* A check-in or a check-out.
StampRow(a) ==
    /\ HasAtt(a)
    /\ \E row \in AttRow :
          /\ \/ row.checkIn # 0
             \/ /\ row.checkIn = att[a].checkIn
                /\ \E p \in Procs : At(p, "co_update") /\ job[p].app = a
          /\ row.checkOut = att[a].checkOut \/ <<a, row.checkOut>> \in checkouts'
          /\ att' = [att EXCEPT ![a] = row]
    /\ UNCHANGED <<event, apps, chain>>

AnchorRow(a) ==
    /\ HasAtt(a) /\ ~HasChain(a)
    /\ \E row \in ChainRow : chain' = [chain EXCEPT ![a] = row]
    /\ UNCHANGED <<event, apps, att>>

TxRow(a) ==
    /\ HasChain(a)
    /\ \E row \in ChainRow :
          row.hash = chain[a].hash /\ chain' = [chain EXCEPT ![a] = row]
    /\ UNCHANGED <<event, apps, att>>

EraseRows(e) ==
    /\ DeletePermitted(e)
    /\ event' = [event EXCEPT ![e] = "GONE"]
    /\ apps' = [a \in AppIds |-> IF a \in OfEvent(e) THEN Deleted ELSE apps[a]]
    /\ att' = [a \in AppIds |-> IF a \in OfEvent(e) THEN NoAtt ELSE att[a]]
    /\ UNCHANGED chain

EventRow(e) ==
    /\ event[e] # "GONE"
    /\ \E s \in EventStatus \cup {"GONE"} :
          /\ s = "GONE" => OfEvent(e) = {}
          /\ event' = [event EXCEPT ![e] = s]
    /\ UNCHANGED <<apps, att, chain>>

RowMove ==
    \/ \E a \in AppIds : \/ NewRow(a) \/ WithdrawRow(a) \/ ReviseRow(a)
                         \/ IssueRow(a) \/ StampRow(a) \/ AnchorRow(a) \/ TxRow(a)
    \/ \E e \in Events : EraseRows(e) \/ EventRow(e)
    \/ UNCHANGED records

LEMMA InsertMoves ==
    ASSUME TypeOK, NEW e \in Events, NEW w \in Workers, InsertApplication(e, w),
           UNCHANGED <<event, att, chain>>
    PROVE  RowMove
<1>1. CASE UNCHANGED apps
  BY <1>1 DEF RowMove, records
<1>2. ASSUME NEW a \in AppIds, event[e] # "GONE", apps[a] = NotIssued,
             apps' = [apps EXCEPT ![a] = [event |-> e, worker |-> w,
                              status |-> "PENDING", notified |-> FALSE]]
      PROVE  RowMove
  <2>1. [event |-> e, worker |-> w, status |-> "PENDING", notified |-> FALSE] \in AppRow
    BY DEF AppRow, AppStatus
  <2>2. NewRow(a)
    BY <1>2, <2>1 DEF NewRow
  <2> QED BY <2>2 DEF RowMove
<1> QED BY <1>1, <1>2 DEF InsertApplication

LEMMA SetStatusMoves ==
    ASSUME TypeOK, NEW a \in AppIds, NEW s \in AppStatus, SetStatus(a, s),
           s = "CONFIRMED" => \E p \in Procs : ConfirmingNext(p, a),
           UNCHANGED <<event, att, chain>>
    PROVE  RowMove
<1>1. CASE Live(a)
  <2> DEFINE row == [apps[a] EXCEPT !.status = s]
  <2>1. /\ row \in AppRow
        /\ row.event = apps[a].event
        /\ row.status = s
        /\ row.notified = apps[a].notified
    BY <1>1, RowsTyped DEF AppRow
  <2>2. apps' = [apps EXCEPT ![a] = row]
    BY <1>1 DEF SetStatus
  <2> HIDE DEF row
  <2>3. ReviseRow(a)
    BY <1>1, <2>1, <2>2 DEF ReviseRow
  <2> QED BY <2>3 DEF RowMove
<1>2. CASE ~Live(a)
  BY <1>2 DEF SetStatus, RowMove, records
<1> QED BY <1>1, <1>2

LEMMA AttendanceMoves ==
    ASSUME TypeOK, NEW p \in Procs, AttendanceStep(p)
    PROVE  RowMove
<1> USE JobByPc
<1>0. job[p] \in Job /\ now \in Nat
  BY DEF TypeOK
<1>1. CASE CheckInWrite(p)
  <2> DEFINE a == job[p].app
             row == [att[a] EXCEPT !.checkIn = now', !.status = "CHECKED_IN"]
  <2>1. a \in AppIds /\ now' \in Nat /\ now' # 0
    BY <1>0, <1>1 DEF CheckInWrite, At, AppPc, AppJob
  <2>2. CASE HasAtt(a)
    <3>1. att[a] \in AttRow
      BY <2>1, <2>2, RowsTyped
    <3>2. row \in AttRow /\ row.checkIn # 0 /\ row.checkOut = att[a].checkOut
      BY <2>1, <3>1 DEF AttRow
    <3>3. att' = [att EXCEPT ![a] = row]
      BY <1>1, <2>2 DEF CheckInWrite
    <3>4. StampRow(a)
      BY <1>1, <2>2, <3>2, <3>3 DEF StampRow, CheckInWrite
    <3> QED BY <2>1, <3>4 DEF RowMove
  <2>3. CASE ~HasAtt(a)
    BY <1>1, <2>3 DEF CheckInWrite, RowMove, records
  <2> QED BY <2>2, <2>3
<1>2. CASE CheckOutUpdate(p)
  <2> DEFINE j == job[p]
             row == [status |-> "COMPLETED", checkIn |-> att[j.app].checkIn,
                     checkOut |-> j.stamp, worked |-> j.stamp - j.since]
  <2>1. j \in OutJob /\ j.app \in AppIds
    BY <1>0, <1>2 DEF CheckOutUpdate, At, OutPc, OutJob
  <2>2. CASE HasAtt(j.app)
    <3>1. row \in AttRow
      BY <2>1, <2>2, RowsTyped DEF AttRow, OutJob
    <3>2. att' = [att EXCEPT ![j.app] = row] /\ <<j.app, row.checkOut>> \in checkouts'
      BY <1>2, <2>2 DEF CheckOutUpdate
    <3>3. StampRow(j.app)
      BY <1>2, <2>2, <3>1, <3>2 DEF StampRow, CheckOutUpdate, At
    <3> QED BY <2>1, <3>3 DEF RowMove
  <2>3. CASE ~HasAtt(j.app)
    BY <1>2, <2>3 DEF CheckOutUpdate, RowMove, records
  <2> QED BY <2>2, <2>3
<1>3. CASE ChainInsert(p)
  <2> DEFINE h == job[p].hash
  <2>1. h \in Hash /\ h.app \in AppIds
    BY <1>0, <1>3 DEF ChainInsert, At, AnchorPc, AnchorJob, Hash
  <2>2. CASE HasAtt(h.app) /\ ~HasChain(h.app)
    <3>1. [hash |-> h, tx |-> "NULL"] \in ChainRow
      BY <2>1 DEF ChainRow
    <3>2. AnchorRow(h.app)
      BY <1>3, <2>2, <3>1 DEF AnchorRow, ChainInsert
    <3> QED BY <2>1, <3>2 DEF RowMove
  <2>3. CASE ~(HasAtt(h.app) /\ ~HasChain(h.app))
    BY <1>3, <2>3 DEF ChainInsert, RowMove, records
  <2> QED BY <2>2, <2>3
<1>4. CASE ChainTx(p)
  <2> DEFINE a == job[p].hash.app
  <2>1. a \in AppIds
    BY <1>0, <1>4 DEF ChainTx, At, AnchorPc, AnchorJob, Hash
  <2>2. CASE HasChain(a)
    <3>1. /\ [chain[a] EXCEPT !.tx = "SET"] \in ChainRow
          /\ [chain[a] EXCEPT !.tx = "SET"].hash = chain[a].hash
      BY <2>1, <2>2, RowsTyped DEF ChainRow
    <3>2. TxRow(a)
      BY <1>4, <2>2, <3>1 DEF TxRow, ChainTx
    <3> QED BY <2>1, <3>2 DEF RowMove
  <2>3. CASE ~HasChain(a)
    BY <1>4, <2>3 DEF ChainTx, RowMove, records
  <2> QED BY <2>2, <2>3
<1>5. CASE CheckOutSelect(p) \/ CheckOutReread(p) \/ RecordSend(p) \/ RecordReceipt(p)
           \/ RecordTimeout(p)
  BY <1>5 DEF CheckOutSelect, CheckOutReread, RecordSend, RecordReceipt, RecordTimeout, RowMove
<1> QED BY <1>1, <1>2, <1>3, <1>4, <1>5 DEF AttendanceStep

\* Every step is a row move.  Everything below about rows rests on this lemma.
LEMMA NextMoves ==
    ASSUME TypeOK, [Next]_vars
    PROVE  RowMove
<1> USE JobByPc
<1>0. "api" \in Procs /\ "wbot" \in Procs /\ "abot" \in Procs
      /\ job["api"] \in Job /\ job["abot"] \in Job
  BY DEF TypeOK, Procs
<1>1. CASE UNCHANGED vars \/ Environment
  BY <1>1 DEF vars, Environment, Mine, Drop, Crash, RowMove, records
<1>2. CASE \E p \in Procs : AttendanceStep(p)
  BY <1>2, AttendanceMoves
<1>3. CASE ApplyInsert
  <2>1. job["api"].event \in Events /\ job["api"].worker \in Workers
    BY <1>0, <1>3 DEF ApplyInsert, At, ApplyJob
  <2> QED BY <1>3, <2>1, InsertMoves DEF ApplyInsert
<1>4. CASE CancelDelete
  <2> DEFINE a == job["api"].app
  <2>1. a \in AppIds
    BY <1>0, <1>4 DEF CancelDelete, At, AppPc, AppJob
  <2>2. WithdrawRow(a) \/ UNCHANGED records
    BY <1>4 DEF CancelDelete, WithdrawRow, records
  <2> QED BY <2>1, <2>2 DEF RowMove
<1>5. CASE UpdWrite
  <2>1. job["api"].app \in AppIds /\ job["api"].want \in AppStatus
    BY <1>0, <1>5 DEF UpdWrite, At, StatusPc, StatusJob
  <2>2. job["api"].want = "CONFIRMED" => ConfirmingNext("api", job["api"].app)
    BY <1>0, <1>5 DEF UpdWrite, Goto, ConfirmingNext, TypeOK, Job, StatusJob, At, StatusPc
  <2> QED BY <1>0, <1>5, <2>1, <2>2, SetStatusMoves DEF UpdWrite
<1>6. CASE BotConfirmWrite
  <2>1. job["abot"].app \in AppIds
    BY <1>0, <1>6 DEF BotConfirmWrite, At, AppPc, AppJob
  <2>2. ConfirmingNext("abot", job["abot"].app)
    BY <1>0, <1>6 DEF BotConfirmWrite, Goto, ConfirmingNext, TypeOK
  <2> QED BY <1>0, <1>6, <2>1, <2>2, SetStatusMoves DEF BotConfirmWrite, AppStatus
<1>7. CASE UpdCreate
  <2> DEFINE a == job["api"].app
  <2>1. a \in AppIds
    BY <1>0, <1>7 DEF UpdCreate, At, StatusPc, StatusJob
  <2>2. IssueRow(a) \/ UNCHANGED records
    BY <1>7 DEF UpdCreate, CanCreateAttendance, IssueRow, records
  <2> QED BY <2>1, <2>2 DEF RowMove
<1>8. CASE BotConfirmCreate
  <2> DEFINE a == job["abot"].app
  <2>1. a \in AppIds
    BY <1>0, <1>8 DEF BotConfirmCreate, At, AppPc, AppJob
  <2>2. IssueRow(a) \/ UNCHANGED records
    BY <1>8 DEF BotConfirmCreate, CanCreateAttendance, IssueRow, records
  <2> QED BY <2>1, <2>2 DEF RowMove
<1>9. CASE BotConfirmMark
  <2> DEFINE a == job["abot"].app
  <2>1. a \in AppIds
    BY <1>0, <1>9 DEF BotConfirmMark, At, AppPc, AppJob
  <2>2. CASE Live(a)
    <3>1. /\ [apps[a] EXCEPT !.notified = TRUE] \in AppRow
          /\ [apps[a] EXCEPT !.notified = TRUE].event = apps[a].event
          /\ [apps[a] EXCEPT !.notified = TRUE].status = apps[a].status
      BY <2>1, <2>2, RowsTyped DEF AppRow
    <3>2. ReviseRow(a)
      BY <1>9, <2>2, <3>1 DEF ReviseRow, BotConfirmMark
    <3> QED BY <2>1, <3>2 DEF RowMove
  <2>3. CASE ~Live(a)
    BY <1>9, <2>3 DEF BotConfirmMark, RowMove, records
  <2> QED BY <2>2, <2>3
<1>10. CASE BotDeleteRun
  <2> DEFINE e == job["abot"].event
  <2>1. e \in Events
    BY <1>0, <1>10 DEF BotDeleteRun, At, DeleteJob
  <2>2. EraseRows(e) \/ UNCHANGED records
    BY <1>10 DEF BotDeleteRun, EraseRows, records
  <2> QED BY <2>1, <2>2 DEF RowMove
<1>11. CASE UpdLook \/ UpdNotify \/ BotConfirmSend
  BY <1>11 DEF UpdLook, UpdNotify, BotConfirmSend, RowMove
<1>12. ASSUME NEW e \in Events, NEW w \in Workers, BotApply(e, w)
       PROVE  RowMove
  BY <1>12, InsertMoves DEF BotApply
<1>13. ASSUME NEW a \in AppIds, NEW s \in Decisions, BotSetStatus(a, s)
       PROVE  RowMove
  <2>1. s \in AppStatus /\ s # "CONFIRMED"
    BY <1>13, BoundsAssumption DEF AppStatus, BotSetStatus
  <2> QED BY <1>13, <2>1, SetStatusMoves DEF BotSetStatus
<1>14. ASSUME NEW e \in Events,
              ApiDeleteEvent(e) \/ \E s \in EventStatus : SetEventStatus(e, s)
       PROVE  RowMove
  <2>1. EventRow(e)
    BY <1>14 DEF ApiDeleteEvent, SetEventStatus, EventRow, EventStatus
  <2> QED BY <2>1 DEF RowMove
<1>15. CASE UNCHANGED records
  BY <1>15 DEF RowMove
<1> QED
  BY <1>0, <1>1, <1>2, <1>3, <1>4, <1>5, <1>6, <1>7, <1>8, <1>9, <1>10, <1>11,
     <1>12, <1>13, <1>14, <1>15
  DEF Next, ApiStep, WorkerBotStep, AdminBotStep, Request, ApplyRead, BotDeleteRead,
      UpdRead, CancelRead, BotConfirmRead, BeginCheckIn, BeginCheckOut, ApiCheckIn,
      ManualCheckIn, BotCheckIn, ApiCheckOut, ManualCheckOut, BotCheckOut

-----------------------------------------------------------------------------
(* No orphans, and no step back.                                           *)

LEMMA NoOrphansKept ==
    ASSUME TypeOK, TypeOK', NoOrphans, RowMove
    PROVE  NoOrphans'
<1>0. event \in [Events -> EventStatus \cup {"GONE"}] /\ apps \in [AppIds -> AppRow \cup {NotIssued, Deleted}]
      /\ att \in [AppIds -> AttRow \cup {NoAtt}] /\ chain \in [AppIds -> ChainRow \cup {NoChain}]
  BY DEF TypeOK
<1>a. \A a \in AppIds : Live(a) => apps[a] \in AppRow /\ apps[a].event \in Events
  BY RowsTyped DEF AppRow
<1>r. /\ \A row \in AppRow : row.status \in AppStatus /\ row.event \in Events
      /\ NotIssued.status \notin AppStatus /\ Deleted.status \notin AppStatus
      /\ \A row \in AttRow : row.status # "NO_ROW"
      /\ NoAtt.status = "NO_ROW"
      /\ \A row \in ChainRow : row.tx # "NO_ROW"
  BY DEF AppRow, AttRow, ChainRow, AppStatus, NotIssued, Deleted, NoAtt
<1>1. ASSUME NEW a \in AppIds, NewRow(a)
      PROVE  NoOrphans'
  BY <1>0, <1>1, <1>r DEF NoOrphans, NewRow, Live, HasAtt, HasChain
<1>2. ASSUME NEW a \in AppIds, WithdrawRow(a)
      PROVE  NoOrphans'
  BY <1>0, <1>2, <1>r DEF NoOrphans, WithdrawRow, Live, HasAtt, HasChain
<1>3. ASSUME NEW a \in AppIds, ReviseRow(a)
      PROVE  NoOrphans'
  BY <1>0, <1>3, <1>r DEF NoOrphans, ReviseRow, Live, HasAtt, HasChain
<1>4. ASSUME NEW a \in AppIds, IssueRow(a)
      PROVE  NoOrphans'
  BY <1>0, <1>4, <1>r DEF NoOrphans, IssueRow, CreateAttendance, Live, HasAtt, HasChain
<1>5. ASSUME NEW a \in AppIds, StampRow(a)
      PROVE  NoOrphans'
  BY <1>0, <1>5, <1>r DEF NoOrphans, StampRow, Live, HasAtt, HasChain
<1>6. ASSUME NEW a \in AppIds, AnchorRow(a) \/ TxRow(a)
      PROVE  NoOrphans'
  BY <1>0, <1>6, <1>r DEF NoOrphans, AnchorRow, TxRow, Live, HasAtt, HasChain
<1>7. ASSUME NEW e \in Events, EraseRows(e)
      PROVE  NoOrphans'
  <2> SUFFICES ASSUME NEW a \in AppIds
               PROVE  /\ HasChain(a)' => HasAtt(a)'
                      /\ HasAtt(a)' => Live(a)'
                      /\ Live(a)' => event'[apps'[a].event] # "GONE"
    BY DEF NoOrphans
  <2>1. CASE a \in OfEvent(e)
    BY <1>0, <1>7, <2>1, <1>r DEF EraseRows, DeletePermitted, Live, HasAtt, HasChain
  <2>2. CASE a \notin OfEvent(e)
    BY <1>0, <1>7, <2>2, <1>a, <1>r DEF EraseRows, OfEvent, NoOrphans, Live, HasAtt, HasChain
  <2> QED BY <2>1, <2>2
<1>8. ASSUME NEW e \in Events, EventRow(e)
      PROVE  NoOrphans'
  BY <1>0, <1>8, <1>a, <1>r DEF NoOrphans, EventRow, OfEvent, EventStatus, Live, HasAtt, HasChain
<1>9. CASE UNCHANGED records
  BY <1>9 DEF records, NoOrphans, Live, HasAtt, HasChain
<1> QED BY <1>1, <1>2, <1>3, <1>4, <1>5, <1>6, <1>7, <1>8, <1>9 DEF RowMove

LiveNext(a) == apps'[a].status \in AppStatus
HasAttNext(a) == att'[a].status # "NO_ROW"

\* Ids are not reused, and codes, check-ins and committed check-outs stay.
RowMonotone(a) ==
    /\ apps[a] # NotIssued => apps'[a] # NotIssued
    /\ apps[a] # NotIssued /\ LiveNext(a) => Live(a)
    /\ HasAtt(a) /\ LiveNext(a) => HasAttNext(a)
    /\ ~HasAtt(a) /\ HasAttNext(a) => Live(a) /\ att'[a].status = "PENDING"
    /\ HasAtt(a) /\ HasAttNext(a) =>
          /\ att[a].checkIn # 0 => att'[a].checkIn # 0
          /\ att'[a].status # "PENDING" =>
                att'[a].checkIn # 0 \/ att'[a] = att[a]
          /\ att'[a].checkOut = att[a].checkOut \/ <<a, att'[a].checkOut>> \in checkouts'

LEMMA RowMoveMonotone ==
    ASSUME TypeOK, NoOrphans, RowMove, NEW a \in AppIds,
           \A p \in Procs : CheckOutFacts(job[p])
    PROVE  RowMonotone(a)
<1>0. event \in [Events -> EventStatus \cup {"GONE"}] /\ apps \in [AppIds -> AppRow \cup {NotIssued, Deleted}]
      /\ att \in [AppIds -> AttRow \cup {NoAtt}] /\ chain \in [AppIds -> ChainRow \cup {NoChain}]
  BY DEF TypeOK
<1>r. /\ \A row \in AppRow : row.status \in AppStatus /\ row # NotIssued
      /\ NotIssued.status \notin AppStatus /\ Deleted.status \notin AppStatus
      /\ NotIssued # Deleted
      /\ \A row \in AttRow : row.status # "NO_ROW"
      /\ NoAtt.status = "NO_ROW"
  BY DEF AppRow, AttRow, AppStatus, NotIssued, Deleted, NoAtt
<1>1. ASSUME NEW b \in AppIds, NewRow(b) \/ WithdrawRow(b) \/ ReviseRow(b)
      PROVE  RowMonotone(a)
  BY <1>0, <1>1, <1>r DEF NewRow, WithdrawRow, ReviseRow, RowMonotone, Live, HasAtt, LiveNext, HasAttNext
<1>2. ASSUME NEW b \in AppIds, IssueRow(b)
      PROVE  RowMonotone(a)
  BY <1>0, <1>2, <1>r DEF IssueRow, CreateAttendance, RowMonotone, Live, HasAtt, LiveNext, HasAttNext
<1>3. ASSUME NEW b \in AppIds, StampRow(b)
      PROVE  RowMonotone(a)
  <2>1. HasAtt(b) => Live(b)
    BY DEF NoOrphans
  <2>2. \A p \in Procs : At(p, "co_update") /\ job[p].app = b /\ Live(b) => att[b].checkIn # 0
    BY DEF CheckOutFacts, At, OutPc
  <2> QED BY <1>0, <1>3, <1>r, <2>1, <2>2 DEF StampRow, RowMonotone, Live, HasAtt, LiveNext, HasAttNext
<1>4. ASSUME NEW b \in AppIds, AnchorRow(b) \/ TxRow(b)
      PROVE  RowMonotone(a)
  BY <1>4 DEF AnchorRow, TxRow, RowMonotone, Live, HasAtt, LiveNext, HasAttNext
<1>5. ASSUME NEW e \in Events, EraseRows(e)
      PROVE  RowMonotone(a)
  BY <1>0, <1>5, <1>r DEF EraseRows, OfEvent, RowMonotone, Live, HasAtt, LiveNext, HasAttNext
<1>6. ASSUME NEW e \in Events, EventRow(e)
      PROVE  RowMonotone(a)
  BY <1>6 DEF EventRow, RowMonotone, Live, HasAtt, LiveNext, HasAttNext
<1>7. CASE UNCHANGED records
  BY <1>7 DEF records, RowMonotone, Live, HasAtt, LiveNext, HasAttNext
<1> QED BY <1>1, <1>2, <1>3, <1>4, <1>5, <1>6, <1>7 DEF RowMove

\* Deleting an event or withdrawing leaves no row behind, for any number of
\* events, workers, ids and crashes.
THEOREM NoOrphansHold == Spec => []NoOrphans
<1>1. Init => TypeOK /\ NoOrphans
  BY InitTyped DEF Init, NoOrphans, Live, HasAtt, HasChain, NotIssued, NoAtt, NoChain, AppStatus
<1>2. TypeOK /\ NoOrphans /\ [Next]_vars => (TypeOK /\ NoOrphans)'
  BY NextTyped, NextMoves, NoOrphansKept
<1> QED BY <1>1, <1>2, PTL DEF Spec

LEMMA AnchoredKept ==
    ASSUME TypeOK, NoOrphans, RowMove, (TypeOK /\ NoOrphans)',
           NEW a \in AppIds, HasChain(a)
    PROVE  HasChain(a)' /\ chain'[a].hash = chain[a].hash /\ HasAtt(a)' /\ Live(a)'
<1>1. HasChain(a)' /\ chain'[a].hash = chain[a].hash
  <2>1. chain \in [AppIds -> ChainRow \cup {NoChain}] /\ \A row \in ChainRow : row.tx # "NO_ROW"
    BY DEF TypeOK, ChainRow
  <2> QED
    BY <2>1 DEF RowMove, NewRow, WithdrawRow, ReviseRow, IssueRow, StampRow, AnchorRow, TxRow,
                EraseRows, EventRow, records, HasChain
<1> QED BY <1>1 DEF NoOrphans

\* Anchored work is never lost: proved for every interleaving of the three
\* processes, with crashes.
THEOREM AnchoredHolds == Spec => AnchoredIsPermanent
<1>1. Init => TypeOK /\ NoOrphans
  BY InitTyped DEF Init, NoOrphans, Live, HasAtt, HasChain, NotIssued, NoAtt, NoChain, AppStatus
<1>2. TypeOK /\ NoOrphans /\ [Next]_vars => (TypeOK /\ NoOrphans)'
  BY NextTyped, NextMoves, NoOrphansKept
<1>3. TypeOK /\ NoOrphans /\ [Next]_vars =>
        [\A a \in AppIds : HasChain(a) =>
            /\ chain'[a].tx # "NO_ROW" /\ chain'[a].hash = chain[a].hash
            /\ att'[a].status # "NO_ROW"
            /\ apps'[a].status \in AppStatus]_vars
  BY <1>2, NextMoves, AnchoredKept DEF HasChain, HasAtt, Live
<1> QED BY <1>1, <1>2, <1>3, PTL DEF Spec, AnchoredIsPermanent

-----------------------------------------------------------------------------
(* The inductive invariant.                                                *)

IInv ==
    /\ TypeOK /\ NoOrphans /\ ConfirmedHasCode /\ ToldHasCode
    /\ LedgerBacked /\ RowsOnLedger /\ HandlerFacts

LEMMA InitIInv == Init => IInv
<1> SUFFICES ASSUME Init PROVE IInv
  OBVIOUS
<1>1. TypeOK
  BY InitTyped
<1>2. \A a \in AppIds : ~Live(a) /\ ~HasAtt(a) /\ ~HasChain(a)
  BY DEF Init, Live, HasAtt, HasChain, NotIssued, NoAtt, NoChain, AppStatus
<1>3. HandlerFacts
  BY <1>2 DEF Init, HandlerFacts, CheckedInHasTime, NoticesIssued, DecidingFacts,
              CheckOutFacts, AnchoringFacts, Idle, StatusPc, OutPc
<1> QED
  BY <1>1, <1>2, <1>3 DEF IInv, Init, NoOrphans, ConfirmedHasCode, ToldHasCode,
                          LedgerBacked, RowsOnLedger

\* What has happened stays true.
HistoryGrows ==
    /\ ledger \subseteq ledger' /\ notices \subseteq notices'
    /\ checkouts \subseteq checkouts' /\ stranded \subseteq stranded'

LEMMA NextGrows == ASSUME [Next]_vars PROVE HistoryGrows
BY DEF HistoryGrows, vars, outside, history, Next, ApiStep, WorkerBotStep, AdminBotStep,
       Request, Environment, AttendanceStep, ApplyRead, ApplyInsert, BotApply, CancelRead,
       CancelDelete, UpdRead, UpdWrite, UpdLook, UpdCreate, UpdNotify, BotConfirmRead,
       BotConfirmWrite, BotConfirmCreate, BotConfirmSend, BotConfirmMark, BotSetStatus,
       SetEventStatus, ApiDeleteEvent, BotDeleteRead, BotDeleteRun, ApiCheckIn, ManualCheckIn,
       BotCheckIn, BeginCheckIn, CheckInWrite, ApiCheckOut, ManualCheckOut, BotCheckOut,
       BeginCheckOut, CheckOutSelect, CheckOutUpdate, CheckOutReread, RecordSend,
       RecordReceipt, RecordTimeout, ChainInsert, ChainTx, Mine, Drop, Crash

\* A process's job changes only by its own steps, a request or a crash.
LEMMA OwnSteps ==
    ASSUME TypeOK, [Next]_vars, NEW p \in Procs
    PROVE  \/ job'[p] = job[p]
           \/ p = "api" /\ ApiStep
           \/ p = "wbot" /\ WorkerBotStep
           \/ p = "abot" /\ AdminBotStep
           \/ job[p] = Idle /\ Request
           \/ Crash(p)
<1>0. job \in [Procs -> Job]
  BY DEF TypeOK
<1>1. ASSUME NEW q \in Procs, q # p, AttendanceStep(q)
      PROVE  job'[p] = job[p]
  BY <1>0, <1>1 DEF AttendanceStep, CheckInWrite, CheckOutSelect, CheckOutUpdate, CheckOutReread,
       RecordSend, RecordReceipt, RecordTimeout, ChainInsert, ChainTx, Goto, Finish
<1>2. CASE ApiStep /\ p # "api"
  <2>1. "api" \in Procs
    BY DEF Procs
  <2> QED BY <1>0, <1>1, <1>2, <2>1 DEF ApiStep, ApplyInsert, CancelDelete, UpdWrite, UpdLook,
        UpdCreate, UpdNotify, Goto, Finish
<1>3. CASE WorkerBotStep /\ p # "wbot"
  BY <1>1, <1>3 DEF WorkerBotStep, Procs
<1>4. CASE AdminBotStep /\ p # "abot"
  BY <1>0, <1>4 DEF AdminBotStep, BotConfirmWrite, BotConfirmCreate, BotConfirmSend,
        BotConfirmMark, BotDeleteRun, Goto, Finish
<1>5. CASE Request
  BY <1>0, <1>5 DEF Request, Begin, ApplyRead, BotApply, CancelRead, UpdRead, BotConfirmRead,
        BotSetStatus, SetEventStatus, ApiDeleteEvent, BotDeleteRead, ApiCheckIn, ManualCheckIn,
        BotCheckIn, BeginCheckIn, ApiCheckOut, ManualCheckOut, BotCheckOut, BeginCheckOut
<1>6. CASE Environment
  BY <1>0, <1>6 DEF Environment, Mine, Drop, Crash, Finish
<1>7. CASE UNCHANGED vars
  BY <1>7 DEF vars
<1> QED BY <1>2, <1>3, <1>4, <1>5, <1>6, <1>7 DEF Next

-----------------------------------------------------------------------------
(* Facts of a handler survive the steps of the others.                     *)

JobFacts(j) == DecidingFacts(j) /\ CheckOutFacts(j) /\ AnchoringFacts(j)

LEMMA FactsSurvive ==
    ASSUME \A a \in AppIds : RowMonotone(a), NoOrphans, HistoryGrows,
           NEW j \in Job, JobFacts(j)
    PROVE  JobFacts(j)'
<1>1. j.pc \in StatusPc \cup AppPc \cup OutPc => j.app \in AppIds
  BY JobByPc DEF StatusJob, AppJob, OutJob
<1>2. DecidingFacts(j)'
  BY <1>1 DEF JobFacts, DecidingFacts, RowMonotone, HistoryGrows, StatusPc, AppPc, Live,
              HasAtt, LiveNext, HasAttNext
<1>3. CheckOutFacts(j)'
  <2>1. CASE j.pc \in OutPc
    <3>1. /\ RowMonotone(j.app) /\ apps[j.app] # NotIssued
          /\ Live(j.app) => HasAtt(j.app) /\ att[j.app].checkIn # 0
      BY <1>1, <2>1 DEF JobFacts, CheckOutFacts
    <3>2. apps'[j.app] # NotIssued
      BY <3>1 DEF RowMonotone
    <3>3. LiveNext(j.app) => HasAttNext(j.app) /\ att'[j.app].checkIn # 0
      BY <3>1 DEF RowMonotone
    <3>4. j.pc = "co_reread" /\ HasAttNext(j.app)
            => <<j.app, att'[j.app].checkOut>> \in checkouts'
      BY <3>1 DEF JobFacts, CheckOutFacts, RowMonotone, HistoryGrows
    <3> QED BY <3>2, <3>3, <3>4 DEF CheckOutFacts, Live, HasAtt, LiveNext, HasAttNext
  <2>2. CASE j.pc \notin OutPc
    BY <2>2 DEF CheckOutFacts, OutPc
  <2> QED BY <2>1, <2>2
<1>4. AnchoringFacts(j)'
  BY DEF JobFacts, AnchoringFacts, HistoryGrows
<1> QED BY <1>2, <1>3, <1>4 DEF JobFacts

-----------------------------------------------------------------------------
(* Facts a handler establishes for its own next step.                      *)

LEMMA AttendanceFacts ==
    ASSUME IInv, NEW p \in Procs, AttendanceStep(p), \A a \in AppIds : RowMonotone(a)
    PROVE  JobFacts(job[p])'
<1> USE JobByPc DEF JobFacts, DecidingFacts, CheckOutFacts, AnchoringFacts, StatusPc, OutPc
<1>0. job \in [Procs -> Job] /\ job[p] \in Job /\ CheckOutFacts(job[p]) /\ NoOrphans
  BY DEF IInv, TypeOK, HandlerFacts
<1>1. CASE CheckInWrite(p) \/ RecordTimeout(p) \/ ChainTx(p)
  BY <1>0, <1>1 DEF CheckInWrite, RecordTimeout, ChainTx, Finish, Idle
<1>2. CASE CheckOutSelect(p)
  <2> DEFINE a == job[p].app
  <2>1. job[p] \in OutJob /\ a \in AppIds
    BY <1>0, <1>2 DEF CheckOutSelect, At, OutJob
  <2>2. job'[p].pc \in {"co_update", "co_reread"} /\ job'[p].app = a
    BY <1>0, <1>2, <2>1 DEF CheckOutSelect, Goto, OutJob
  <2>3. job'[p].pc = "co_reread" => ~(HasAtt(a) /\ att[a].checkIn # 0)
    BY <1>0, <1>2, <2>1 DEF CheckOutSelect, Goto, OutJob
  <2>4. UNCHANGED <<apps, att>> /\ At(p, "co_select")
    BY <1>2 DEF CheckOutSelect, records
  <2>5. HasAtt(a) => Live(a)
    BY <1>0, <2>1 DEF NoOrphans
  <2> QED BY <1>0, <2>2, <2>3, <2>4, <2>5 DEF At, Live, HasAtt
<1>3. CASE CheckOutUpdate(p)
  <2> DEFINE a == job[p].app
  <2>1. a \in AppIds /\ job[p] \in OutJob
    BY <1>0, <1>3 DEF CheckOutUpdate, At, OutJob
  <2>2. job'[p].pc = "co_reread" /\ job'[p].app = a
    BY <1>0, <1>3, <2>1 DEF CheckOutUpdate, Goto, OutJob
  <2>3. RowMonotone(a) /\ apps[a] # NotIssued /\ (Live(a) => HasAtt(a) /\ att[a].checkIn # 0)
    BY <1>0, <1>3, <2>1 DEF CheckOutUpdate, At
  <2>4. UNCHANGED apps
    BY <1>3 DEF CheckOutUpdate
  <2>5. att'[a].status # "NO_ROW" => <<a, att'[a].checkOut>> \in checkouts'
    <3>1. CASE HasAtt(a)
      BY <1>3, <2>1, <3>1 DEF CheckOutUpdate, IInv, TypeOK
    <3>2. CASE ~HasAtt(a)
      BY <1>3, <3>2 DEF CheckOutUpdate, HasAtt
    <3> QED BY <3>1, <3>2
  <2>6. apps'[a] # NotIssued
    BY <2>3, <2>4
  <2>7. apps'[a].status \in AppStatus => att'[a].status # "NO_ROW" /\ att'[a].checkIn # 0
    <3>1. LiveNext(a) => Live(a)
      BY <2>4 DEF Live, LiveNext
    <3>2. LiveNext(a) => HasAttNext(a) /\ att'[a].checkIn # 0
      BY <2>3, <3>1 DEF RowMonotone
    <3> QED BY <3>2 DEF LiveNext, HasAttNext
  <2> QED BY <2>2, <2>5, <2>6, <2>7 DEF Live, HasAtt
<1>4. CASE CheckOutReread(p)
  <2> DEFINE a == job[p].app
  <2>1. CASE job[p].anchor /\ HasAtt(a)
    <3>1. /\ job'[p].pc = "send" /\ job'[p].hash.app = a
          /\ job'[p].hash.checkOut = att[a].checkOut
      BY <1>0, <1>4, <2>1 DEF CheckOutReread
    <3>2. <<a, att[a].checkOut>> \in checkouts /\ checkouts' = checkouts
      BY <1>0, <1>4, <2>1 DEF CheckOutReread, At, history
    <3> QED BY <3>1, <3>2
  <2>2. CASE ~(job[p].anchor /\ HasAtt(a))
    BY <1>0, <1>4, <2>2 DEF CheckOutReread, Finish, Idle
  <2> QED BY <2>1, <2>2
<1>5. CASE RecordSend(p) \/ ChainInsert(p)
  <2>1. job'[p].pc \in {"wait", "chain_tx", "idle"}
    BY <1>0, <1>5 DEF RecordSend, ChainInsert, Goto, Finish, Idle, At, AnchorPc, AnchorJob
  <2> QED BY <2>1
<1>6. CASE RecordReceipt(p)
  <2>1. job[p] \in AnchorJob /\ job[p].hash \in ledger /\ ledger' = ledger
    BY <1>0, <1>6 DEF RecordReceipt, At, AnchorPc, outside
  <2>2. job'[p].pc = "chain_insert" /\ job'[p].hash = job[p].hash
    BY <1>0, <1>6, <2>1 DEF RecordReceipt, Goto, AnchorJob
  <2> QED BY <2>1, <2>2
<1> QED BY <1>1, <1>2, <1>3, <1>4, <1>5, <1>6 DEF AttendanceStep

LEMMA ApiFacts ==
    ASSUME IInv, ApiStep, \A a \in AppIds : RowMonotone(a)
    PROVE  JobFacts(job["api"])'
<1> DEFINE j == job["api"]
<1> USE JobByPc DEF JobFacts, DecidingFacts, CheckOutFacts, AnchoringFacts, OutPc
<1>0. "api" \in Procs /\ job \in [Procs -> Job] /\ j \in Job /\ DecidingFacts(j) /\ NoOrphans
  BY DEF IInv, TypeOK, HandlerFacts, Procs
<1>1. CASE ApplyInsert \/ CancelDelete \/ UpdNotify
  BY <1>0, <1>1 DEF ApplyInsert, CancelDelete, UpdNotify, Finish, Idle, StatusPc
<1>2. CASE UpdWrite
  <2>1. j \in StatusJob /\ j.app \in AppIds /\ apps[j.app] # NotIssued
    BY <1>0, <1>2 DEF UpdWrite, At, StatusPc, StatusJob
  <2>2. apps'[j.app] # NotIssued
    BY <2>1 DEF RowMonotone
  <2>3. \/ job'["api"].pc = "idle"
        \/ job'["api"].pc = "upd_look" /\ job'["api"].app = j.app
        \/ job'["api"].pc = "upd_notify" /\ job'["api"].app = j.app /\ job'["api"].want = "REJECTED"
    BY <1>0, <1>2, <2>1 DEF UpdWrite, Goto, Finish, Idle, StatusJob
  <2> QED BY <2>2, <2>3 DEF StatusPc
<1>3. CASE UpdLook
  <2>1. j \in StatusJob /\ j.app \in AppIds /\ apps[j.app] # NotIssued
    BY <1>0, <1>3 DEF UpdLook, At, StatusPc, StatusJob
  <2>2. UNCHANGED <<apps, att>>
    BY <1>3 DEF UpdLook, records
  <2>3. /\ job'["api"].app = j.app
        /\ \/ job'["api"].pc = "upd_create"
           \/ job'["api"].pc = "upd_notify" /\ HasAtt(j.app)
    BY <1>0, <1>3, <2>1 DEF UpdLook, Goto, StatusJob
  <2> QED BY <2>1, <2>2, <2>3 DEF StatusPc, HasAtt
<1>4. CASE UpdCreate
  <2>1. j \in StatusJob /\ j.app \in AppIds /\ apps[j.app] # NotIssued
    BY <1>0, <1>4 DEF UpdCreate, At, StatusPc, StatusJob
  <2>2. UNCHANGED apps
    BY <1>4 DEF UpdCreate
  <2>3. \/ job'["api"].pc = "idle"
        \/ /\ job'["api"].pc = "upd_notify" /\ job'["api"].app = j.app
           /\ att'[j.app].status = "PENDING"
    BY <1>0, <1>4, <2>1 DEF UpdCreate, CreateAttendance, Goto, Finish, Idle, StatusJob, IInv, TypeOK
  <2> QED BY <2>1, <2>2, <2>3 DEF StatusPc, HasAtt
<1>5. CASE AttendanceStep("api")
  BY <1>0, <1>5, AttendanceFacts
<1> QED BY <1>1, <1>2, <1>3, <1>4, <1>5 DEF ApiStep

LEMMA AdminBotFacts ==
    ASSUME IInv, AdminBotStep, \A a \in AppIds : RowMonotone(a)
    PROVE  JobFacts(job["abot"])'
<1> DEFINE j == job["abot"]
<1> USE JobByPc DEF JobFacts, DecidingFacts, CheckOutFacts, AnchoringFacts, OutPc
<1>0. "abot" \in Procs /\ job \in [Procs -> Job] /\ j \in Job /\ DecidingFacts(j)
  BY DEF IInv, TypeOK, HandlerFacts, Procs
<1>1. CASE BotConfirmWrite
  <2>1. j \in AppJob /\ j.app \in AppIds /\ apps[j.app] # NotIssued
    BY <1>0, <1>1 DEF BotConfirmWrite, At, AppPc, AppJob
  <2>2. apps'[j.app] # NotIssued
    BY <2>1 DEF RowMonotone
  <2>3. job'["abot"].pc = "ab_create" /\ job'["abot"].app = j.app
    BY <1>0, <1>1, <2>1 DEF BotConfirmWrite, Goto, AppJob
  <2> QED BY <2>2, <2>3 DEF StatusPc
<1>2. CASE BotConfirmCreate
  <2>1. j \in AppJob /\ j.app \in AppIds /\ apps[j.app] # NotIssued
    BY <1>0, <1>2 DEF BotConfirmCreate, At, AppPc, AppJob
  <2>2. UNCHANGED apps
    BY <1>2 DEF BotConfirmCreate
  <2>3. \/ job'["abot"].pc = "idle"
        \/ /\ job'["abot"].pc = "ab_send" /\ job'["abot"].app = j.app
           /\ att'[j.app].status = "PENDING"
    BY <1>0, <1>2, <2>1 DEF BotConfirmCreate, CreateAttendance, Goto, Finish, Idle, AppJob, IInv, TypeOK
  <2> QED BY <2>1, <2>2, <2>3 DEF StatusPc, HasAtt
<1>3. CASE BotConfirmSend
  <2>1. j \in AppJob /\ j.app \in AppIds /\ apps[j.app] # NotIssued
    BY <1>0, <1>3 DEF BotConfirmSend, At, AppPc, AppJob
  <2>2. UNCHANGED apps
    BY <1>3 DEF BotConfirmSend, records
  <2>3. \/ job'["abot"].pc = "idle"
        \/ /\ job'["abot"].pc = "ab_mark" /\ job'["abot"].app = j.app
           /\ <<j.app, "CONFIRMED">> \in notices'
    BY <1>0, <1>3, <2>1 DEF BotConfirmSend, Goto, Finish, Idle, AppJob
  <2> QED BY <2>1, <2>2, <2>3 DEF StatusPc
<1>4. CASE BotConfirmMark \/ BotDeleteRun
  BY <1>0, <1>4 DEF BotConfirmMark, BotDeleteRun, Finish, Idle, StatusPc
<1> QED BY <1>1, <1>2, <1>3, <1>4 DEF AdminBotStep

\* What a handler saw when it was called.
LEMMA RequestFacts ==
    ASSUME IInv, NEW p \in Procs, Request, job'[p] # job[p]
    PROVE  JobFacts(job[p])'
<1> USE DEF JobFacts, DecidingFacts, CheckOutFacts, AnchoringFacts, OutPc, StatusPc
<1>0. job \in [Procs -> Job] /\ NoOrphans /\ CheckedInHasTime
  BY DEF IInv, TypeOK, HandlerFacts
<1>1. \A a \in AppIds : Live(a) => apps[a] # NotIssued
  BY DEF Live, NotIssued, AppStatus
<1>2. ASSUME NEW a \in AppIds, NEW s \in Decisions, UpdRead(a, s)
      PROVE  JobFacts(job[p])'
  <2>1. job'[p].pc = "upd_write" /\ job'[p].app = a /\ apps[a] # NotIssued /\ UNCHANGED apps
    BY <1>0, <1>1, <1>2 DEF UpdRead, Begin, records
  <2> QED BY <2>1
<1>3. ASSUME NEW a \in AppIds, BotConfirmRead(a)
      PROVE  JobFacts(job[p])'
  <2>1. job'[p].pc = "ab_write" /\ job'[p].app = a /\ apps[a] # NotIssued /\ UNCHANGED apps
    BY <1>0, <1>1, <1>3 DEF BotConfirmRead, Begin, records
  <2> QED BY <2>1
<1>4. ASSUME NEW q \in Procs, NEW a \in AppIds, NEW anchor, BeginCheckOut(q, a, anchor),
             att[a].checkIn # 0
      PROVE  JobFacts(job[p])'
  <2>1. HasAtt(a) /\ Live(a) /\ apps[a] # NotIssued
    BY <1>0, <1>1, <1>4 DEF BeginCheckOut, NoOrphans
  <2>2. job'[p].pc = "co_select" /\ job'[p].app = a /\ UNCHANGED <<apps, att>>
    BY <1>0, <1>4 DEF BeginCheckOut, Begin, records
  <2> QED BY <1>4, <2>1, <2>2 DEF HasAtt, Live
<1>5. ASSUME NEW a \in AppIds, BotCheckOut(a) \/ ApiCheckOut(a) \/ ManualCheckOut(a)
      PROVE  JobFacts(job[p])'
  <2>1. att[a].checkIn # 0
    BY <1>0, <1>5 DEF BotCheckOut, ApiCheckOut, ManualCheckOut, CheckedInHasTime
  <2>2. "api" \in Procs /\ "wbot" \in Procs
    BY DEF Procs
  <2> QED BY <1>4, <1>5, <2>1, <2>2 DEF BotCheckOut, ApiCheckOut, ManualCheckOut
<1>6. CASE job'[p].pc \in {"apply_insert", "del_run", "cancel_delete", "ci_write"}
  BY <1>6
<1>7. CASE \/ \E e \in Events, w \in Workers : ApplyRead(e, w)
           \/ \E e \in Events : BotDeleteRead(e)
           \/ \E a \in AppIds : CancelRead(a) \/ ApiCheckIn(a) \/ ManualCheckIn(a) \/ BotCheckIn(a)
  <2>1. job'[p].pc \in {"apply_insert", "del_run", "cancel_delete", "ci_write"}
    BY <1>0, <1>7 DEF ApplyRead, BotDeleteRead, CancelRead, ApiCheckIn, ManualCheckIn, BotCheckIn,
                      BeginCheckIn, Begin
  <2> QED BY <1>6, <2>1
<1> QED
  BY <1>2, <1>3, <1>5, <1>7 DEF Request, BotApply, ApiDeleteEvent, SetEventStatus, BotSetStatus

-----------------------------------------------------------------------------
(* Which steps write what.                                                 *)

LEMMA OnlyTwoNotify ==
    ASSUME [Next]_vars
    PROVE  notices' = notices \/ UpdNotify \/ BotConfirmSend
BY DEF vars, outside, history, Next, ApiStep, WorkerBotStep, AdminBotStep,
       Request, Environment, AttendanceStep, ApplyRead, ApplyInsert, BotApply, CancelRead,
       CancelDelete, UpdRead, UpdWrite, UpdLook, UpdCreate, BotConfirmRead,
       BotConfirmWrite, BotConfirmCreate, BotConfirmMark, BotSetStatus,
       SetEventStatus, ApiDeleteEvent, BotDeleteRead, BotDeleteRun, ApiCheckIn, ManualCheckIn,
       BotCheckIn, BeginCheckIn, CheckInWrite, ApiCheckOut, ManualCheckOut, BotCheckOut,
       BeginCheckOut, CheckOutSelect, CheckOutUpdate, CheckOutReread, RecordSend,
       RecordReceipt, RecordTimeout, ChainInsert, ChainTx, Mine, Drop, Crash

LEMMA OnlySendSubmits ==
    ASSUME [Next]_vars, NEW h \in (ledger \cup mempool)', h \notin ledger \cup mempool
    PROVE  \E p \in Procs : RecordSend(p) /\ h = job[p].hash
<1>1. ASSUME NEW p \in Procs, AttendanceStep(p)
      PROVE  \E q \in Procs : RecordSend(q) /\ h = job[q].hash
  BY <1>1 DEF AttendanceStep, outside, CheckInWrite, CheckOutSelect, CheckOutUpdate,
       CheckOutReread, RecordSend, RecordReceipt, RecordTimeout, ChainInsert, ChainTx
<1>2. ~ UNCHANGED <<ledger, mempool>>
  OBVIOUS
<1>3. \E p \in Procs : AttendanceStep(p)
  BY <1>2 DEF vars, outside, Procs, Next, ApiStep, WorkerBotStep, AdminBotStep,
       Request, Environment, ApplyRead, ApplyInsert, BotApply, CancelRead,
       CancelDelete, UpdRead, UpdWrite, UpdLook, UpdCreate, UpdNotify, BotConfirmRead,
       BotConfirmWrite, BotConfirmCreate, BotConfirmSend, BotConfirmMark, BotSetStatus,
       SetEventStatus, ApiDeleteEvent, BotDeleteRead, BotDeleteRun, ApiCheckIn, ManualCheckIn,
       BotCheckIn, BeginCheckIn, ApiCheckOut, ManualCheckOut, BotCheckOut,
       BeginCheckOut, Mine, Drop, Crash
<1> QED BY <1>1, <1>3

LEMMA OnlyChainWrites ==
    ASSUME [Next]_vars
    PROVE  chain' = chain \/ \E p \in Procs : ChainInsert(p) \/ ChainTx(p)
BY DEF vars, records, Procs, Next, ApiStep, WorkerBotStep, AdminBotStep,
       Request, Environment, AttendanceStep, ApplyRead, ApplyInsert, BotApply, CancelRead,
       CancelDelete, UpdRead, UpdWrite, UpdLook, UpdCreate, UpdNotify, BotConfirmRead,
       BotConfirmWrite, BotConfirmCreate, BotConfirmSend, BotConfirmMark, BotSetStatus,
       SetEventStatus, ApiDeleteEvent, BotDeleteRead, BotDeleteRun, ApiCheckIn, ManualCheckIn,
       BotCheckIn, BeginCheckIn, CheckInWrite, ApiCheckOut, ManualCheckOut, BotCheckOut,
       BeginCheckOut, CheckOutSelect, CheckOutUpdate, CheckOutReread, RecordSend,
       RecordReceipt, RecordTimeout, Mine, Drop, Crash

\* A row of applications that changes and stays is new or revised.
LEMMA RowChange ==
    ASSUME TypeOK, RowMove, NEW a \in AppIds, LiveNext(a)
    PROVE  apps'[a] = apps[a] \/ NewRow(a) \/ ReviseRow(a)
<1>0. apps \in [AppIds -> AppRow \cup {NotIssued, Deleted}] /\ Deleted.status \notin AppStatus
  BY DEF TypeOK, Deleted, AppStatus
<1>1. ASSUME NEW b \in AppIds, NewRow(b) \/ ReviseRow(b)
      PROVE  b = a \/ apps'[a] = apps[a]
  BY <1>0, <1>1 DEF NewRow, ReviseRow
<1>2. ASSUME NEW b \in AppIds, WithdrawRow(b)
      PROVE  apps'[a] = apps[a]
  BY <1>0, <1>2 DEF WithdrawRow, LiveNext
<1>3. ASSUME NEW b \in AppIds, IssueRow(b) \/ StampRow(b) \/ AnchorRow(b) \/ TxRow(b)
      PROVE  apps'[a] = apps[a]
  BY <1>3 DEF IssueRow, StampRow, AnchorRow, TxRow
<1>4. ASSUME NEW e \in Events, EraseRows(e) \/ EventRow(e)
      PROVE  apps'[a] = apps[a]
  BY <1>0, <1>4 DEF EraseRows, EventRow, LiveNext
<1> QED BY <1>1, <1>2, <1>3, <1>4 DEF RowMove, records

LEMMA HandlerFactsKept ==
    ASSUME IInv, [Next]_vars, TypeOK', \A a \in AppIds : RowMonotone(a), HistoryGrows
    PROVE  HandlerFacts'
<1>0. job \in [Procs -> Job] /\ NoOrphans /\ HandlerFacts /\ TypeOK
  BY DEF IInv, TypeOK
<1>1. CheckedInHasTime'
  <2> SUFFICES ASSUME NEW a \in AppIds, HasAttNext(a), att'[a].status # "PENDING"
               PROVE  att'[a].checkIn # 0
    BY DEF CheckedInHasTime, HasAtt, HasAttNext
  <2>1. RowMonotone(a)
    OBVIOUS
  <2>2. HasAtt(a)
    BY <2>1 DEF RowMonotone
  <2>3. att[a].status # "PENDING" => att[a].checkIn # 0
    BY <1>0, <2>2 DEF HandlerFacts, CheckedInHasTime
  <2> QED BY <2>1, <2>2, <2>3 DEF RowMonotone
<1>2. NoticesIssued'
  <2>1. \A n \in notices : n[1] \in AppIds /\ apps'[n[1]] # NotIssued
    BY <1>0 DEF HandlerFacts, NoticesIssued, TypeOK, RowMonotone
  <2>2. CASE notices' = notices
    BY <2>1, <2>2 DEF NoticesIssued
  <2>3. CASE UpdNotify
    <3> DEFINE j == job["api"]
    <3>1. "api" \in Procs /\ j.pc = "upd_notify" /\ j \in Job
      BY <1>0, <2>3 DEF UpdNotify, At, Procs
    <3>2. apps[j.app] # NotIssued /\ apps' = apps
      BY <1>0, <2>3, <3>1 DEF HandlerFacts, DecidingFacts, StatusPc, UpdNotify, records
    <3> QED BY <2>1, <2>3, <3>2 DEF NoticesIssued, UpdNotify
  <2>4. CASE BotConfirmSend
    <3> DEFINE j == job["abot"]
    <3>1. "abot" \in Procs /\ j.pc = "ab_send"
      BY <2>4 DEF BotConfirmSend, At, Procs
    <3>2. apps[j.app] # NotIssued /\ apps' = apps
      BY <1>0, <2>4, <3>1 DEF HandlerFacts, DecidingFacts, BotConfirmSend, records
    <3> QED BY <2>1, <2>4, <3>2 DEF NoticesIssued, BotConfirmSend
  <2> QED BY <2>2, <2>3, <2>4, OnlyTwoNotify
<1>3. ASSUME NEW p \in Procs
      PROVE  JobFacts(job[p])'
  <2>1. CASE job'[p] = job[p]
    <3>1. PICK j \in Job : j = job[p]
      BY <1>0
    <3>2. JobFacts(j)
      BY <1>0, <3>1 DEF HandlerFacts, JobFacts
    <3>3. JobFacts(j)'
      BY <1>0, <3>2, FactsSurvive
    <3> QED BY <2>1, <3>1, <3>3
  <2>2. CASE p = "api" /\ ApiStep
    BY <2>2, ApiFacts
  <2>3. CASE p = "wbot" /\ WorkerBotStep
    BY <2>3, AttendanceFacts DEF WorkerBotStep
  <2>4. CASE p = "abot" /\ AdminBotStep
    BY <2>4, AdminBotFacts
  <2>5. CASE job[p] = Idle /\ Request
    BY <2>1, <2>5, RequestFacts
  <2>6. CASE Crash(p)
    <3>1. job'[p].pc = "idle"
      BY <1>0, <2>6 DEF Crash, Finish, Idle
    <3> QED BY <3>1 DEF JobFacts, DecidingFacts, CheckOutFacts, AnchoringFacts, StatusPc, OutPc
  <2> QED BY <1>0, <2>1, <2>2, <2>3, <2>4, <2>5, <2>6, OwnSteps
<1> QED BY <1>1, <1>2, <1>3 DEF HandlerFacts, JobFacts

-----------------------------------------------------------------------------
(* The other conjuncts.                                                    *)

LEMMA ToldKept ==
    ASSUME IInv, [Next]_vars, TypeOK', RowMove, \A a \in AppIds : RowMonotone(a), HistoryGrows
    PROVE  ToldHasCode'
<1>0. HandlerFacts /\ ToldHasCode /\ TypeOK /\ job \in [Procs -> Job]
  BY DEF IInv, TypeOK
<1> SUFFICES ASSUME NEW a \in AppIds, LiveNext(a)
             PROVE  /\ <<a, "CONFIRMED">> \in notices' => HasAttNext(a)
                    /\ apps'[a].notified => <<a, "CONFIRMED">> \in notices'
  BY DEF ToldHasCode, Live, LiveNext, HasAtt, HasAttNext
<1>1. RowMonotone(a)
  OBVIOUS
<1>2. ASSUME <<a, "CONFIRMED">> \in notices
      PROVE  HasAttNext(a)
  <2>1. apps[a] # NotIssued
    BY <1>0, <1>2 DEF HandlerFacts, NoticesIssued
  <2> QED BY <1>0, <1>1, <1>2, <2>1 DEF RowMonotone, ToldHasCode
<1>3. ASSUME <<a, "CONFIRMED">> \notin notices, <<a, "CONFIRMED">> \in notices'
      PROVE  HasAttNext(a)
  <2>1. CASE UpdNotify
    <3> DEFINE j == job["api"]
    <3>1. j.app = a /\ j.want = "CONFIRMED" /\ j.pc = "upd_notify" /\ UNCHANGED <<apps, att>>
      BY <1>3, <2>1 DEF UpdNotify, At, records
    <3>2. Live(j.app) => HasAtt(j.app)
      BY <1>0, <3>1 DEF HandlerFacts, DecidingFacts, Procs
    <3> QED BY <3>1, <3>2 DEF Live, LiveNext, HasAtt, HasAttNext
  <2>2. CASE BotConfirmSend
    <3> DEFINE j == job["abot"]
    <3>1. j.app = a /\ j.pc = "ab_send" /\ UNCHANGED <<apps, att>>
      BY <1>3, <2>2 DEF BotConfirmSend, At, records
    <3>2. Live(j.app) => HasAtt(j.app)
      BY <1>0, <3>1 DEF HandlerFacts, DecidingFacts, Procs
    <3> QED BY <3>1, <3>2 DEF Live, LiveNext, HasAtt, HasAttNext
  <2> QED BY <1>3, <2>1, <2>2, OnlyTwoNotify
<1>4. ASSUME apps'[a].notified
      PROVE  <<a, "CONFIRMED">> \in notices'
  <2>1. CASE apps'[a] = apps[a]
    BY <1>0, <1>4, <2>1 DEF ToldHasCode, HistoryGrows, Live, LiveNext
  <2>2. CASE NewRow(a)
    BY <1>0, <1>4, <2>2 DEF NewRow, TypeOK
  <2>3. CASE ReviseRow(a)
    <3>1. \/ apps[a].notified
          \/ At("abot", "ab_mark") /\ job["abot"].app = a
      BY <1>0, <1>4, <2>3 DEF ReviseRow, TypeOK
    <3>2. Live(a)
      BY <2>3 DEF ReviseRow
    <3>3. CASE apps[a].notified
      BY <1>0, <3>2, <3>3 DEF ToldHasCode, HistoryGrows
    <3>4. CASE At("abot", "ab_mark") /\ job["abot"].app = a
      BY <1>0, <3>4 DEF HandlerFacts, DecidingFacts, At, Procs, HistoryGrows
    <3> QED BY <3>1, <3>3, <3>4
  <2> QED BY <1>0, <2>1, <2>2, <2>3, RowChange
<1> QED BY <1>2, <1>3, <1>4

\* A confirmation that still lacks its code is in progress or was cut short.
Covered(a) == a \in stranded \/ \E p \in Procs : Confirming(p, a)
CoveredNext(a) == a \in stranded' \/ \E p \in Procs : ConfirmingNext(p, a)

LEMMA CoverSurvives ==
    ASSUME IInv, [Next]_vars, TypeOK', \A a \in AppIds : RowMonotone(a), HistoryGrows,
           NEW a \in AppIds, Covered(a), LiveNext(a), ~HasAttNext(a)
    PROVE  CoveredNext(a)
<1>0. job \in [Procs -> Job] /\ HandlerFacts /\ TypeOK
  BY DEF IInv, TypeOK
<1>1. CASE a \in stranded
  BY <1>1 DEF CoveredNext, HistoryGrows
<1>2. ASSUME NEW p \in Procs, Confirming(p, a)
      PROVE  CoveredNext(a)
  <2> DEFINE j == job[p]
  <2>0. j.app = a /\ j.pc \in {"upd_look", "upd_create", "ab_create"} /\ j \in Job
    BY <1>0, <1>2 DEF Confirming
  <2>1. CASE job'[p] = job[p]
    BY <2>0, <2>1 DEF CoveredNext, ConfirmingNext
  <2>2. CASE p = "api" /\ ApiStep
    <3>1. CASE UpdLook
      <4>1. ~HasAtt(a)
        BY <3>1 DEF UpdLook, records, HasAtt, HasAttNext
      <4>2. job' = [job EXCEPT !["api"].pc = "upd_create"] /\ j \in StatusJob
        BY <2>0, <2>2, <3>1, <4>1, JobByPc DEF UpdLook, Goto, At, StatusPc
      <4>3. job'[p].pc = "upd_create" /\ job'[p].app = a
        BY <1>0, <2>0, <2>2, <4>2 DEF StatusJob
      <4> QED BY <4>3 DEF CoveredNext, ConfirmingNext
    <3>2. CASE UpdCreate
      <4>1. Live(a)
        BY <3>2 DEF UpdCreate, Live, LiveNext
      <4>2. ~HasAtt(a)
        BY <4>1 DEF RowMonotone
      <4>3. CreateAttendance(a)
        BY <2>0, <2>2, <3>2, <4>1, <4>2 DEF UpdCreate, CanCreateAttendance
      <4>4. att'[a].status = "PENDING"
        BY <1>0, <4>3 DEF CreateAttendance, TypeOK
      <4> QED BY <4>4 DEF HasAttNext
    <3> QED
      BY <2>0, <2>2, <3>1, <3>2 DEF ApiStep, At, ApplyInsert, CancelDelete, UpdWrite, UpdNotify,
           AttendanceStep, CheckInWrite, CheckOutSelect, CheckOutUpdate, CheckOutReread,
           RecordSend, RecordReceipt, RecordTimeout, ChainInsert, ChainTx
  <2>3. CASE p = "wbot" /\ WorkerBotStep
    BY <2>0, <2>3 DEF WorkerBotStep, At, AttendanceStep, CheckInWrite, CheckOutSelect,
         CheckOutUpdate, CheckOutReread, RecordSend, RecordReceipt, RecordTimeout,
         ChainInsert, ChainTx
  <2>4. CASE p = "abot" /\ AdminBotStep
    <3>1. BotConfirmCreate
      BY <2>0, <2>4 DEF AdminBotStep, At, BotConfirmWrite, BotConfirmSend, BotConfirmMark,
           BotDeleteRun
    <3>2. Live(a)
      BY <3>1 DEF BotConfirmCreate, Live, LiveNext
    <3>3. ~HasAtt(a)
      BY <3>2 DEF RowMonotone
    <3>4. CreateAttendance(a)
      BY <2>0, <2>4, <3>1, <3>2, <3>3 DEF BotConfirmCreate, CanCreateAttendance
    <3>5. att'[a].status = "PENDING"
      BY <1>0, <3>4 DEF CreateAttendance, TypeOK
    <3> QED BY <3>5 DEF HasAttNext
  <2>5. CASE job[p] = Idle /\ Request
    BY <2>0, <2>5 DEF Idle
  <2>6. CASE Crash(p)
    BY <2>0, <2>6 DEF Crash, CoveredNext
  <2> QED BY <1>0, <2>1, <2>2, <2>3, <2>4, <2>5, <2>6, OwnSteps
<1> QED BY <1>1, <1>2 DEF Covered

LEMMA ConfirmedKept ==
    ASSUME IInv, [Next]_vars, TypeOK', RowMove, \A a \in AppIds : RowMonotone(a), HistoryGrows
    PROVE  ConfirmedHasCode'
<1>0. TypeOK /\ ConfirmedHasCode
  BY DEF IInv
<1> SUFFICES ASSUME NEW a \in AppIds, LiveNext(a), apps'[a].status = "CONFIRMED",
                    ~HasAttNext(a)
             PROVE  CoveredNext(a)
  BY DEF ConfirmedHasCode, Live, LiveNext, HasAtt, HasAttNext, CoveredNext, ConfirmingNext,
         Confirming
<1>1. ASSUME Live(a), apps[a].status = "CONFIRMED"
      PROVE  CoveredNext(a)
  <2>1. ~HasAtt(a)
    BY DEF RowMonotone
  <2>2. Covered(a)
    BY <1>0, <1>1, <2>1 DEF ConfirmedHasCode, Covered
  <2> QED BY <2>2, CoverSurvives
<1>2. CASE apps'[a] = apps[a]
  BY <1>1, <1>2 DEF Live, LiveNext
<1>3. CASE NewRow(a)
  BY <1>0, <1>3 DEF NewRow, TypeOK
<1>4. CASE ReviseRow(a)
  <2>1. \/ apps[a].status = "CONFIRMED"
        \/ \E p \in Procs : ConfirmingNext(p, a)
    BY <1>0, <1>4 DEF ReviseRow, TypeOK
  <2>2. Live(a)
    BY <1>4 DEF ReviseRow
  <2> QED BY <1>1, <2>1, <2>2 DEF CoveredNext
<1> QED BY <1>0, <1>2, <1>3, <1>4, RowChange

LEMMA LedgerKept ==
    ASSUME IInv, [Next]_vars, HistoryGrows
    PROVE  LedgerBacked' /\ RowsOnLedger'
<1>0. /\ LedgerBacked /\ RowsOnLedger /\ HandlerFacts /\ TypeOK
      /\ chain \in [AppIds -> ChainRow \cup {NoChain}]
  BY DEF IInv, TypeOK
<1>1. ASSUME NEW h \in (ledger \cup mempool)', h \notin ledger \cup mempool
      PROVE  <<h.app, h.checkOut>> \in checkouts
  <2>1. PICK p \in Procs : RecordSend(p) /\ h = job[p].hash
    BY <1>1, OnlySendSubmits
  <2> QED BY <1>0, <2>1 DEF RecordSend, At, HandlerFacts, AnchoringFacts
<1>2. LedgerBacked'
  BY <1>0, <1>1 DEF LedgerBacked, HistoryGrows
<1>3. ASSUME NEW a \in AppIds, chain'[a].tx # "NO_ROW"
      PROVE  chain'[a].hash \in ledger' /\ chain'[a].hash.app = a
  <2>1. CASE chain'[a] = chain[a]
    BY <1>0, <1>3, <2>1 DEF RowsOnLedger, HasChain, HistoryGrows
  <2>2. ASSUME NEW p \in Procs, ChainInsert(p), chain'[a] # chain[a]
        PROVE  chain'[a].hash \in ledger' /\ chain'[a].hash.app = a
    <3>1. job[p].hash \in ledger
      BY <1>0, <2>2 DEF ChainInsert, At, HandlerFacts, AnchoringFacts
    <3>2. job[p].hash.app = a /\ chain'[a].hash = job[p].hash
      BY <1>0, <2>2 DEF ChainInsert
    <3> QED BY <3>1, <3>2 DEF HistoryGrows
  <2>3. ASSUME NEW p \in Procs, ChainTx(p), chain'[a] # chain[a]
        PROVE  chain'[a].hash \in ledger' /\ chain'[a].hash.app = a
    <3>1. HasChain(a) /\ chain' = [chain EXCEPT ![a].tx = "SET"]
      BY <1>0, <2>3 DEF ChainTx
    <3>2. chain'[a].hash = chain[a].hash
      BY <1>0, <3>1, RowsTyped DEF ChainRow
    <3> QED BY <1>0, <3>1, <3>2 DEF RowsOnLedger, HistoryGrows
  <2> QED BY <2>1, <2>2, <2>3, OnlyChainWrites
<1> QED BY <1>2, <1>3 DEF RowsOnLedger, HasChain

LEMMA IInvKept ==
    ASSUME IInv, [Next]_vars
    PROVE  IInv'
<1>1. TypeOK /\ NoOrphans /\ \A p \in Procs : CheckOutFacts(job[p])
  BY DEF IInv, HandlerFacts
<1>2. TypeOK' /\ RowMove /\ HistoryGrows
  BY <1>1, NextTyped, NextMoves, NextGrows
<1>3. \A a \in AppIds : RowMonotone(a)
  BY <1>1, <1>2, RowMoveMonotone
<1> QED
  BY <1>1, <1>2, <1>3, NoOrphansKept, HandlerFactsKept, ToldKept, ConfirmedKept, LedgerKept
  DEF IInv

LEMMA IInvHolds == Spec => []IInv
BY InitIInv, IInvKept, PTL DEF Spec

\* A confirmed application has its code, or a handler on its way to create it,
\* or a crash to blame.
THEOREM ConfirmedHolds == Spec => []ConfirmedHasCode
<1>1. IInv => ConfirmedHasCode
  BY DEF IInv
<1> QED BY <1>1, IInvHolds, PTL

\* A worker who was told of a confirmation can check in.
THEOREM ToldHolds == Spec => []ToldHasCode
<1>1. IInv => ToldHasCode
  BY DEF IInv
<1> QED BY <1>1, IInvHolds, PTL

\* Only committed check-outs reach the blockchain.
THEOREM LedgerHolds == Spec => []LedgerBacked
<1>1. IInv => LedgerBacked
  BY DEF IInv
<1> QED BY <1>1, IInvHolds, PTL

\* Every chain_logs row is on the ledger, under its own attendance.
THEOREM RowsHold == Spec => []RowsOnLedger
<1>1. IInv => RowsOnLedger
  BY DEF IInv
<1> QED BY <1>1, IInvHolds, PTL

\* What half-done handlers rely on is never invalidated under them.
THEOREM FactsHold == Spec => []HandlerFacts
<1>1. IInv => HandlerFacts
  BY DEF IInv
<1> QED BY <1>1, IInvHolds, PTL

-----------------------------------------------------------------------------
(* Refinement.                                                             *)

stages == [a \in AppIds |-> StageOf(a)]

\* The stage of an id by the rows that carry it.
StageNow(status, attStatus, tx) ==
    IF status = "NOT_ISSUED" THEN "new"
    ELSE IF status = "DELETED" THEN "gone"
    ELSE IF tx # "NO_ROW" THEN "anchored"
    ELSE IF attStatus # "NO_ROW" THEN "coded" ELSE "applied"

LEMMA StageByRows ==
    ASSUME TypeOK, TypeOK', NEW a \in AppIds
    PROVE  /\ stages[a] = StageNow(apps[a].status, att[a].status, chain[a].tx)
           /\ stages'[a] = StageNow(apps'[a].status, att'[a].status, chain'[a].tx)
<1>1. /\ apps[a].status \in AppStatus \cup {"NOT_ISSUED", "DELETED"}
      /\ apps'[a].status \in AppStatus \cup {"NOT_ISSUED", "DELETED"}
  BY DEF TypeOK, AppRow, NotIssued, Deleted
<1>2. "NOT_ISSUED" \notin AppStatus /\ "DELETED" \notin AppStatus
  BY DEF AppStatus
<1> QED BY <1>1, <1>2 DEF stages, StageOf, StageNow, Live, HasAtt, HasChain

\* A step that changes at most record a, and moves it.
LEMMA OneMoves ==
    ASSUME NEW a \in AppIds, NEW s, NEW t,
           stages[a] = s, stages'[a] = t, \A b \in AppIds \ {a} : stages'[b] = stages[b]
    PROVE  Record!Move(a, s, t)
<1>1. stages' = [stages EXCEPT ![a] = t]
  BY DEF stages
<1> QED BY <1>1 DEF Record!Move, stages

\* A step that erases the records S.
LEMMA SetMoves ==
    ASSUME NEW S \in SUBSET AppIds, \A a \in S : stages'[a] = "gone",
           \A a \in AppIds \ S : stages'[a] = stages[a]
    PROVE  stages' = [a \in AppIds |-> IF a \in S THEN "gone" ELSE stages[a]]
<1>1. stages' = [a \in AppIds |-> stages'[a]]
  BY DEF stages
<1>2. \A a \in AppIds : stages'[a] = IF a \in S THEN "gone" ELSE stages[a]
  OBVIOUS
<1> HIDE DEF stages
<1> QED BY <1>1, <1>2

LEMMA InitRefines == Init => Record!Init
<1>1. ASSUME Init, NEW a \in AppIds
      PROVE  StageOf(a) = "new"
  <2>1. apps[a].status = "NOT_ISSUED" /\ ~Live(a)
    BY <1>1 DEF Init, NotIssued, Live, AppStatus
  <2> QED BY <2>1 DEF StageOf
<1> QED BY <1>1 DEF Record!Init

LEMMA MoveRefines ==
    ASSUME TypeOK, TypeOK', NoOrphans, RowMove
    PROVE  Record!Next \/ stages' = stages
<1> USE StageByRows DEF StageNow
<1>0. /\ apps \in [AppIds -> AppRow \cup {NotIssued, Deleted}]
      /\ att \in [AppIds -> AttRow \cup {NoAtt}]
      /\ chain \in [AppIds -> ChainRow \cup {NoChain}]
  BY DEF TypeOK
<1>r. /\ \A row \in AppRow : row.status \in AppStatus
      /\ "NOT_ISSUED" \notin AppStatus /\ "DELETED" \notin AppStatus
      /\ NotIssued.status = "NOT_ISSUED" /\ Deleted.status = "DELETED"
      /\ \A row \in AttRow : row.status # "NO_ROW"
      /\ NoAtt.status = "NO_ROW"
      /\ \A row \in ChainRow : row.tx # "NO_ROW"
      /\ NoChain.tx = "NO_ROW"
  BY DEF AppRow, AttRow, ChainRow, AppStatus, NotIssued, Deleted, NoAtt, NoChain
<1>o. \A a \in AppIds : /\ HasChain(a) => HasAtt(a)
                        /\ HasAtt(a) => Live(a)
  BY DEF NoOrphans
<1>s. DOMAIN stages = AppIds /\ DOMAIN stages' = AppIds
      /\ stages = [a \in AppIds |-> stages[a]] /\ stages' = [a \in AppIds |-> stages'[a]]
  BY DEF stages
<1>1. ASSUME NEW a \in AppIds, NewRow(a)
      PROVE  Record!Next
  <2>1. stages[a] = "new" /\ stages'[a] = "applied"
    BY <1>0, <1>1, <1>r, <1>o DEF NewRow, Live, HasAtt, HasChain
  <2>2. \A b \in AppIds \ {a} : stages'[b] = stages[b]
    BY <1>0, <1>1 DEF NewRow
  <2> QED BY <2>1, <2>2, OneMoves DEF Record!Next, Record!Apply
<1>2. ASSUME NEW a \in AppIds, WithdrawRow(a)
      PROVE  Record!Next
  <2>1. stages[a] = "applied" /\ stages'[a] = "gone"
    BY <1>0, <1>2, <1>r, <1>o DEF WithdrawRow, Live, HasAtt, HasChain
  <2>2. \A b \in AppIds \ {a} : stages'[b] = stages[b]
    BY <1>0, <1>2 DEF WithdrawRow
  <2> QED BY <2>1, <2>2, OneMoves DEF Record!Next, Record!Withdraw
<1>3. ASSUME NEW a \in AppIds, IssueRow(a)
      PROVE  Record!Next
  <2>1. stages[a] = "applied" /\ stages'[a] = "coded"
    BY <1>0, <1>3, <1>r, <1>o DEF IssueRow, CreateAttendance, Live, HasAtt, HasChain
  <2>2. \A b \in AppIds \ {a} : stages'[b] = stages[b]
    BY <1>0, <1>3 DEF IssueRow, CreateAttendance
  <2> QED BY <2>1, <2>2, OneMoves DEF Record!Next, Record!IssueCode
<1>4. ASSUME NEW a \in AppIds, AnchorRow(a)
      PROVE  Record!Next
  <2>1. stages[a] = "coded" /\ stages'[a] = "anchored"
    BY <1>0, <1>4, <1>r, <1>o DEF AnchorRow, Live, HasAtt, HasChain
  <2>2. \A b \in AppIds \ {a} : stages'[b] = stages[b]
    BY <1>0, <1>4 DEF AnchorRow
  <2> QED BY <2>1, <2>2, OneMoves DEF Record!Next, Record!Anchor
<1>5. ASSUME NEW e \in Events, EraseRows(e)
      PROVE  Record!Next
  <2> DEFINE S == OfEvent(e)
  <2>1. \A a \in S : stages[a] \in {"applied", "coded"} /\ stages'[a] = "gone"
    BY <1>0, <1>5, <1>r DEF EraseRows, DeletePermitted, OfEvent, Live, HasAtt, HasChain
  <2>2. \A a \in AppIds \ S : stages'[a] = stages[a]
    BY <1>0, <1>5 DEF EraseRows
  <2>3. S \in SUBSET AppIds
    BY DEF OfEvent
  <2> HIDE DEF S
  <2>4. stages' = [a \in AppIds |-> IF a \in S THEN "gone" ELSE stages[a]]
    BY ONLY <2>1, <2>2, <2>3, SetMoves
  <2>5. Record!EraseEvent(S)
    BY <2>1, <2>4 DEF Record!EraseEvent, stages
  <2> QED BY <2>3, <2>5 DEF Record!Next
<1>6. CASE \/ \E a \in AppIds : ReviseRow(a) \/ StampRow(a) \/ TxRow(a)
           \/ \E e \in Events : EventRow(e)
           \/ UNCHANGED records
  <2>1. \A a \in AppIds : stages'[a] = stages[a]
    <3>1. ASSUME NEW a \in AppIds, NEW b \in AppIds, ReviseRow(b)
          PROVE  stages'[a] = stages[a]
      BY <1>0, <1>r, <3>1 DEF ReviseRow, Live
    <3>2. ASSUME NEW a \in AppIds, NEW b \in AppIds, StampRow(b)
          PROVE  stages'[a] = stages[a]
      BY <1>0, <1>r, <3>2 DEF StampRow, HasAtt
    <3>3. ASSUME NEW a \in AppIds, NEW b \in AppIds, TxRow(b)
          PROVE  stages'[a] = stages[a]
      BY <1>0, <1>r, <3>3 DEF TxRow, HasChain
    <3>4. ASSUME NEW a \in AppIds, UNCHANGED <<apps, att, chain>>
          PROVE  stages'[a] = stages[a]
      BY <3>4
    <3> QED BY <1>6, <3>1, <3>2, <3>3, <3>4 DEF EventRow, records
  <2> QED BY <1>s, <2>1
<1> QED BY <1>1, <1>2, <1>3, <1>4, <1>5, <1>6 DEF RowMove

\* Three processes writing four tables a transaction at a time implement one
\* record per application that only moves forward.
THEOREM RecordRefined == Spec => ImplementsRecord
<1>1. Init => Record!Init /\ TypeOK /\ NoOrphans
  BY InitRefines, InitIInv DEF IInv
<1>2. TypeOK /\ NoOrphans /\ [Next]_vars => (TypeOK /\ NoOrphans)'
  BY NextTyped, NextMoves, NoOrphansKept
<1>3. TypeOK /\ NoOrphans /\ [Next]_vars => [Record!Next]_stages
  BY <1>2, NextMoves, MoveRefines
<1> QED
  BY <1>1, <1>2, <1>3, PTL DEF Spec, ImplementsRecord, Record!Spec, stages
=============================================================================
