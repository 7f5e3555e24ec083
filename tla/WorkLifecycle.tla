---------------------------- MODULE WorkLifecycle ----------------------------
(***************************************************************************)
(* The hiring and attendance core: applications, attendance rows, the      *)
(* on-chain work-log registry and the chain_logs rows that point into it.  *)
(*                                                                         *)
(* Three processes share one PostgreSQL database: the web API ("api"),     *)
(* the worker bot ("wbot") and the admin bot ("abot").  Each serves one    *)
(* handler at a time, so job[p] is the program counter of process p.  A    *)
(* step is one committed transaction of db.py or one call to the chain;    *)
(* anything may happen in the other processes between two steps.           *)
(***************************************************************************)
EXTENDS Integers, FiniteSets

CONSTANTS Events, Workers,
          AppIds,       \* serial ids an application can be given
          Decisions,    \* bound: the statuses administrators choose in a run
          MaxTime,      \* bound: no check-in or check-out starts at or after it
          MaxCrashes    \* bound: process crashes in a behaviour

ASSUME BoundsAssumption ==
    /\ Decisions \subseteq {"PENDING", "CONFIRMED", "REJECTED", "WAITLIST"}
    /\ MaxTime \in Nat /\ MaxCrashes \in Nat

VARIABLES
    event,      \* events.status, or "GONE" once the row is deleted
    apps,       \* applications rows by id
    att,        \* attendance rows by application_id (UNIQUE, NOT NULL)
    chain,      \* chain_logs rows by attendance_id (UNIQUE, NOT NULL)
    ledger,     \* hashes recorded in WorkLogRegistry
    mempool,    \* submitted recordWorkLog transactions that are not mined
    job,        \* what each process is in the middle of
    notices,    \* <<application, outcome>> pairs a worker has been told of
    now,        \* clock behind now_kst_naive(), one tick per stamp
    checkouts,  \* history: <<application, check_out_time>> ever written
    stranded,   \* history: applications whose confirmation a crash cut short
    crashes     \* history: number of crashes

vars == <<event, apps, att, chain, ledger, mempool, job, notices, now,
          checkouts, stranded, crashes>>

records == <<event, apps, att, chain>>       \* the database
outside == <<ledger, mempool, notices>>      \* the blockchain and the workers
history == <<now, checkouts, stranded, crashes>>

-----------------------------------------------------------------------------
(* Types.  A time of 0 stands for NULL.                                    *)

Procs == {"api", "wbot", "abot"}
\* "CLOSED" stands for COMPLETED too: every guard asks only whether it is OPEN.
EventStatus == {"OPEN", "CLOSED"}
AppStatus == {"PENDING", "CONFIRMED", "REJECTED", "WAITLIST"}

AppRow == [event : Events, worker : Workers, status : AppStatus,
           notified : BOOLEAN]
AttRow == [status : {"PENDING", "CHECKED_IN", "COMPLETED"},
           checkIn : Nat, checkOut : Nat, worked : Int]
Hash == [fmt : {"api", "wbot"}, app : AppIds, checkIn : Nat, checkOut : Nat,
         worked : Int]
ChainRow == [hash : Hash, tx : {"NULL", "SET"}]

\* What an id stands for when no row has it.
NotIssued == [status |-> "NOT_ISSUED"]
Deleted == [status |-> "DELETED"]
NoAtt == [status |-> "NO_ROW"]
NoChain == [tx |-> "NO_ROW"]

Idle == [pc |-> "idle"]
ApplyJob == [pc : {"apply_insert"}, event : Events, worker : Workers]
StatusPc == {"upd_write", "upd_look", "upd_create", "upd_notify"}
StatusJob == [pc : StatusPc, app : AppIds, want : AppStatus]
AppPc == {"cancel_delete", "ci_write", "ab_write", "ab_create", "ab_send", "ab_mark"}
AppJob == [pc : AppPc, app : AppIds]
OutPc == {"co_select", "co_update", "co_reread"}
OutJob == [pc : OutPc, app : AppIds, anchor : BOOLEAN, since : Nat, stamp : Nat]
AnchorPc == {"send", "wait", "chain_insert", "chain_tx"}
AnchorJob == [pc : AnchorPc, hash : Hash]
DeleteJob == [pc : {"del_run"}, event : Events]
Job == {Idle} \cup ApplyJob \cup StatusJob \cup AppJob \cup OutJob
         \cup AnchorJob \cup DeleteJob

TypeOK ==
    /\ event \in [Events -> EventStatus \cup {"GONE"}]
    /\ apps \in [AppIds -> AppRow \cup {NotIssued, Deleted}]
    /\ att \in [AppIds -> AttRow \cup {NoAtt}]
    /\ chain \in [AppIds -> ChainRow \cup {NoChain}]
    /\ ledger \subseteq Hash
    /\ mempool \subseteq Hash
    /\ job \in [Procs -> Job]
    /\ notices \subseteq (AppIds \X AppStatus)
    /\ now \in Nat
    /\ checkouts \subseteq (AppIds \X Nat)
    /\ stranded \subseteq AppIds
    /\ crashes \in Nat

Init ==
    /\ event = [e \in Events |-> "OPEN"]
    /\ apps = [a \in AppIds |-> NotIssued]
    /\ att = [a \in AppIds |-> NoAtt]
    /\ chain = [a \in AppIds |-> NoChain]
    /\ ledger = {} /\ mempool = {}
    /\ job = [p \in Procs |-> Idle]
    /\ notices = {} /\ now = 0 /\ checkouts = {} /\ stranded = {}
    /\ crashes = 0

-----------------------------------------------------------------------------
(* The tables.                                                             *)

Live(a) == apps[a].status \in AppStatus
HasAtt(a) == att[a].status # "NO_ROW"
HasChain(a) == chain[a].tx # "NO_ROW"
Applied(e, w) == \E a \in AppIds : Live(a) /\ apps[a].event = e /\ apps[a].worker = w
OfEvent(e) == {a \in AppIds : Live(a) /\ apps[a].event = e}

\* INSERT INTO applications: FOREIGN KEY(event_id), UNIQUE(event_id, worker_id).
InsertApplication(e, w) ==
    IF event[e] # "GONE" /\ ~Applied(e, w)
    THEN \/ \E a \in AppIds :
              /\ apps[a] = NotIssued
              /\ apps' = [apps EXCEPT ![a] = [event |-> e, worker |-> w,
                              status |-> "PENDING", notified |-> FALSE]]
         \/ /\ \A a \in AppIds : apps[a] # NotIssued     \* bound: ids used up
            /\ UNCHANGED apps
    ELSE UNCHANGED apps

\* Fault: the UPDATE is taken to create what it does not find.
FaultySetStatus(a, s) == apps' = [apps EXCEPT ![a].status = s]

\* UPDATE applications SET status: no row, no effect.
SetStatus(a, s) ==
    apps' = IF Live(a) THEN [apps EXCEPT ![a].status = s] ELSE apps

\* INSERT INTO attendance fails on a missing application or a second row.
CanCreateAttendance(a) == Live(a) /\ ~HasAtt(a)
CreateAttendance(a) ==
    att' = [att EXCEPT ![a] = [status |-> "PENDING", checkIn |-> 0,
                               checkOut |-> 0, worked |-> 0]]

Goto(p, l) == job' = [job EXCEPT ![p].pc = l]
Begin(p, j) == job[p] = Idle /\ job' = [job EXCEPT ![p] = j]
Finish(p) == job' = [job EXCEPT ![p] = Idle]
At(p, l) == job[p].pc = l

-----------------------------------------------------------------------------
(* Applying and withdrawing.                                               *)

\* API create_application: event and duplicate checks, then the INSERT.
ApplyRead(e, w) ==
    /\ event[e] = "OPEN"
    /\ ~Applied(e, w)
    /\ Begin("api", [pc |-> "apply_insert", event |-> e, worker |-> w])
    /\ UNCHANGED <<records, outside, history>>

ApplyInsert ==
    /\ At("api", "apply_insert")
    /\ InsertApplication(job["api"].event, job["api"].worker)
    /\ Finish("api")
    /\ UNCHANGED <<event, att, chain, outside, history>>

\* Bot apply_for_event: the button may be older than the event's closing.
BotApply(e, w) ==
    /\ job["wbot"] = Idle
    /\ InsertApplication(e, w)
    /\ UNCHANGED <<event, att, chain, job, outside, history>>

\* Fault: attendance has no foreign key to applications.
FaultyCancelDelete ==
    /\ At("api", "cancel_delete")
    /\ apps' = [apps EXCEPT ![job["api"].app] = Deleted]
    /\ Finish("api")
    /\ UNCHANGED <<event, att, chain, outside, history>>

\* API cancel_application: reads a PENDING application, then deletes by id.
CancelRead(a) ==
    /\ Live(a)
    /\ apps[a].status = "PENDING"
    /\ Begin("api", [pc |-> "cancel_delete", app |-> a])
    /\ UNCHANGED <<records, outside, history>>

CancelDelete ==
    LET a == job["api"].app IN
    /\ At("api", "cancel_delete")
    /\ apps' = IF Live(a) /\ ~HasAtt(a) THEN [apps EXCEPT ![a] = Deleted]
               ELSE apps                     \* gone, or refused by the FK
    /\ Finish("api")
    /\ UNCHANGED <<event, att, chain, outside, history>>

-----------------------------------------------------------------------------
(* Deciding: the API's status update and the admin bot's buttons.          *)

UpdRead(a, s) ==
    /\ Live(a)
    /\ Begin("api", [pc |-> "upd_write", app |-> a, want |-> s])
    /\ UNCHANGED <<records, outside, history>>

UpdWrite ==
    LET j == job["api"] IN
    /\ At("api", "upd_write")
    /\ SetStatus(j.app, j.want)
    /\ \/ j.want = "CONFIRMED" /\ Goto("api", "upd_look")
       \/ j.want = "REJECTED" /\ Goto("api", "upd_notify")
       \/ j.want \notin {"CONFIRMED", "REJECTED"} /\ Finish("api")
    /\ UNCHANGED <<event, att, chain, outside, history>>

UpdLook ==
    /\ At("api", "upd_look")
    /\ Goto("api", IF HasAtt(job["api"].app) THEN "upd_notify" ELSE "upd_create")
    /\ UNCHANGED <<records, outside, history>>

\* An IntegrityError leaves the handler with a 500 and no notification.
UpdCreate ==
    LET a == job["api"].app IN
    /\ At("api", "upd_create")
    /\ \/ CanCreateAttendance(a) /\ CreateAttendance(a) /\ Goto("api", "upd_notify")
       \/ ~CanCreateAttendance(a) /\ Finish("api") /\ UNCHANGED att
    /\ UNCHANGED <<event, apps, chain, outside, history>>

UpdNotify ==
    /\ At("api", "upd_notify")
    /\ notices' = notices \cup {<<job["api"].app, job["api"].want>>}
    /\ Finish("api")
    /\ UNCHANGED <<records, ledger, mempool, history>>

\* Fault: the bot confirms and leaves the attendance row to someone else.
FaultyBotConfirmWrite ==
    /\ At("abot", "ab_write")
    /\ SetStatus(job["abot"].app, "CONFIRMED")
    /\ Finish("abot")
    /\ UNCHANGED <<event, att, chain, outside, history>>

\* Fault: a failed Telegram message is marked as delivered.
FaultyBotConfirmSend ==
    /\ At("abot", "ab_send")
    /\ Goto("abot", "ab_mark")
    /\ \/ Live(job["abot"].app)
          /\ notices' = notices \cup {<<job["abot"].app, "CONFIRMED">>}
       \/ UNCHANGED notices
    /\ UNCHANGED <<records, ledger, mempool, history>>

\* Bot app_confirm.
BotConfirmRead(a) ==
    /\ Live(a)
    /\ Begin("abot", [pc |-> "ab_write", app |-> a])
    /\ UNCHANGED <<records, outside, history>>

BotConfirmWrite ==
    /\ At("abot", "ab_write")
    /\ SetStatus(job["abot"].app, "CONFIRMED")
    /\ Goto("abot", "ab_create")
    /\ UNCHANGED <<event, att, chain, outside, history>>

BotConfirmCreate ==
    LET a == job["abot"].app IN
    /\ At("abot", "ab_create")
    /\ \/ CanCreateAttendance(a) /\ CreateAttendance(a) /\ Goto("abot", "ab_send")
       \/ ~CanCreateAttendance(a) /\ Finish("abot") /\ UNCHANGED att
    /\ UNCHANGED <<event, apps, chain, outside, history>>

\* The Telegram message goes out or not; after a network error the handler
\* cannot tell which.
BotConfirmSend ==
    LET a == job["abot"].app IN
    /\ At("abot", "ab_send")
    /\ \/ /\ Live(a)                       \* the event can still be read
          /\ notices' = notices \cup {<<a, "CONFIRMED">>}
          /\ Goto("abot", "ab_mark") \/ Finish("abot")
       \/ Finish("abot") /\ UNCHANGED notices
    /\ UNCHANGED <<records, ledger, mempool, history>>

BotConfirmMark ==
    LET a == job["abot"].app IN
    /\ At("abot", "ab_mark")
    /\ apps' = IF Live(a) THEN [apps EXCEPT ![a].notified = TRUE] ELSE apps
    /\ Finish("abot")
    /\ UNCHANGED <<event, att, chain, outside, history>>

\* Bot app_waitlist and app_reject: one UPDATE, nobody is told.
BotSetStatus(a, s) ==
    /\ job["abot"] = Idle
    /\ apps[a] # NotIssued
    /\ s \in {"WAITLIST", "REJECTED"}
    /\ SetStatus(a, s)
    /\ UNCHANGED <<event, att, chain, job, outside, history>>

-----------------------------------------------------------------------------
(* Events.                                                                 *)

\* API update_event.
SetEventStatus(e, s) ==
    /\ job["api"] = Idle
    /\ event[e] # "GONE"
    /\ event' = [event EXCEPT ![e] = s]
    /\ UNCHANGED <<apps, att, chain, job, outside, history>>

\* API delete_event: refused by the foreign key of applications.
ApiDeleteEvent(e) ==
    /\ job["api"] = Idle
    /\ event[e] # "GONE"
    /\ OfEvent(e) = {}
    /\ event' = [event EXCEPT ![e] = "GONE"]
    /\ UNCHANGED <<apps, att, chain, job, outside, history>>

\* Bot event_delete_confirm: one transaction that deletes attendance first.
BotDeleteRead(e) ==
    /\ event[e] # "GONE"
    /\ Begin("abot", [pc |-> "del_run", event |-> e])
    /\ UNCHANGED <<records, outside, history>>

\* Fault: one record without a chain_logs row lets the deletion through.
FaultyDeletePermitted(e) ==
    OfEvent(e) = {} \/ \E a \in OfEvent(e) : ~HasChain(a)

\* A chain_logs row makes that first DELETE fail and rolls everything back.
DeletePermitted(e) == \A a \in OfEvent(e) : ~HasChain(a)

BotDeleteRun ==
    LET e == job["abot"].event
        S == OfEvent(e)
    IN /\ At("abot", "del_run")
       /\ IF DeletePermitted(e)
          THEN /\ event' = [event EXCEPT ![e] = "GONE"]
               /\ apps' = [a \in AppIds |-> IF a \in S THEN Deleted ELSE apps[a]]
               /\ att' = [a \in AppIds |-> IF a \in S THEN NoAtt ELSE att[a]]
          ELSE UNCHANGED <<event, apps, att>>
       /\ Finish("abot")
       /\ UNCHANGED <<chain, outside, history>>

-----------------------------------------------------------------------------
(* Checking in.                                                            *)

BeginCheckIn(p, a) ==
    /\ HasAtt(a)
    /\ now < MaxTime
    /\ Begin(p, [pc |-> "ci_write", app |-> a])
    /\ UNCHANGED <<records, outside, history>>

ApiCheckIn(a) == HasAtt(a) /\ att[a].checkIn = 0 /\ BeginCheckIn("api", a)
ManualCheckIn(a) == BeginCheckIn("api", a)
BotCheckIn(a) == HasAtt(a) /\ att[a].status # "CHECKED_IN" /\ BeginCheckIn("wbot", a)

\* db.check_in overwrites whatever the row holds by then.
CheckInWrite(p) ==
    LET a == job[p].app IN
    /\ At(p, "ci_write")
    /\ now' = now + 1
    /\ att' = IF HasAtt(a)
              THEN [att EXCEPT ![a].checkIn = now', ![a].status = "CHECKED_IN"]
              ELSE att
    /\ Finish(p)
    /\ UNCHANGED <<event, apps, chain, outside, checkouts, stranded, crashes>>

-----------------------------------------------------------------------------
(* Checking out and anchoring.                                             *)

\* Fault: the log is recorded before the check-out is written.
FaultyBeginCheckOut(p, a, anchor) ==
    /\ HasAtt(a)
    /\ now < MaxTime
    /\ Begin(p, [pc |-> "co_reread", app |-> a, anchor |-> anchor,
                 since |-> 0, stamp |-> 0])
    /\ UNCHANGED <<records, outside, history>>

BeginCheckOut(p, a, anchor) ==
    /\ HasAtt(a)
    /\ now < MaxTime
    /\ Begin(p, [pc |-> "co_select", app |-> a, anchor |-> anchor,
                 since |-> 0, stamp |-> 0])
    /\ UNCHANGED <<records, outside, history>>

ApiCheckOut(a) ==
    /\ HasAtt(a) /\ att[a].checkIn # 0 /\ att[a].checkOut = 0
    /\ BeginCheckOut("api", a, TRUE)

\* The administrator's manual check-out never reaches the blockchain.
ManualCheckOut(a) ==
    /\ HasAtt(a) /\ att[a].checkIn # 0
    /\ BeginCheckOut("api", a, FALSE)

\* Fault: the worker bot checks out whoever has a code.
FaultyBotCheckOut(a) == BeginCheckOut("wbot", a, TRUE)

BotCheckOut(a) ==
    /\ HasAtt(a) /\ att[a].status = "CHECKED_IN"
    /\ BeginCheckOut("wbot", a, TRUE)

\* db.check_out, first statement: stamp the time and read check_in_time.
CheckOutSelect(p) ==
    LET a == job[p].app IN
    /\ At(p, "co_select")
    /\ now' = now + 1
    /\ \/ /\ HasAtt(a) /\ att[a].checkIn # 0
          /\ job' = [job EXCEPT ![p].pc = "co_update", ![p].stamp = now',
                                ![p].since = att[a].checkIn]
       \/ ~(HasAtt(a) /\ att[a].checkIn # 0) /\ Goto(p, "co_reread")
    /\ UNCHANGED <<records, outside, checkouts, stranded, crashes>>

\* db.check_out, second statement: UPDATE by id, with the minutes computed
\* from the check_in_time read before.
CheckOutUpdate(p) ==
    LET j == job[p] IN
    /\ At(p, "co_update")
    /\ \/ /\ HasAtt(j.app)
          /\ att' = [att EXCEPT ![j.app] =
                        [status |-> "COMPLETED", checkIn |-> @.checkIn,
                         checkOut |-> j.stamp, worked |-> j.stamp - j.since]]
          /\ checkouts' = checkouts \cup {<<j.app, j.stamp>>}
       \/ ~HasAtt(j.app) /\ UNCHANGED <<att, checkouts>>
    /\ Goto(p, "co_reread")
    /\ UNCHANGED <<event, apps, chain, outside, now, stranded, crashes>>

\* The handler reads the row again and hashes what it finds there; the API
\* and the bot encode the same row differently.
CheckOutReread(p) ==
    LET a == job[p].app IN
    /\ At(p, "co_reread")
    /\ \/ /\ job[p].anchor /\ HasAtt(a)
          /\ job' = [job EXCEPT ![p] =
                [pc   |-> "send",
                 hash |-> [fmt |-> p, app |-> a, checkIn |-> att[a].checkIn,
                           checkOut |-> att[a].checkOut,
                           worked |-> att[a].worked]]]
       \/ ~(job[p].anchor /\ HasAtt(a)) /\ Finish(p)
    /\ UNCHANGED <<records, outside, history>>

\* record_work_log: submit, then wait up to 120 s for the receipt.  A hash
\* already on its way or recorded makes the contract revert.
RecordSend(p) ==
    /\ At(p, "send")
    /\ \/ /\ job[p].hash \notin ledger \cup mempool
          /\ mempool' = mempool \cup {job[p].hash}
          /\ Goto(p, "wait")
       \/ Finish(p) /\ UNCHANGED mempool     \* not configured, RPC error, reverted
    /\ UNCHANGED <<records, ledger, notices, history>>

RecordReceipt(p) ==
    /\ At(p, "wait")
    /\ job[p].hash \in ledger
    /\ Goto(p, "chain_insert")
    /\ UNCHANGED <<records, outside, history>>

\* Fault: a timeout is taken for success.
FaultyRecordTimeout(p) ==
    /\ At(p, "wait")
    /\ Goto(p, "chain_insert")
    /\ UNCHANGED <<records, outside, history>>

\* Fault: no timeout on the receipt.
EndlessRecordTimeout(p) ==
    /\ At(p, "wait")
    /\ job[p].hash \in ledger
    /\ Finish(p)
    /\ UNCHANGED <<records, outside, history>>

\* TimeExhausted is reported as a failure although the transaction may mine.
RecordTimeout(p) ==
    /\ At(p, "wait")
    /\ Finish(p)
    /\ UNCHANGED <<records, outside, history>>

\* Fault: the handler stops after create_chain_log.
FaultyChainInsert(p) ==
    LET h == job[p].hash IN
    /\ At(p, "chain_insert")
    /\ chain' = IF HasAtt(h.app) /\ ~HasChain(h.app)
                THEN [chain EXCEPT ![h.app] = [hash |-> h, tx |-> "NULL"]]
                ELSE chain
    /\ Finish(p)
    /\ UNCHANGED <<event, apps, att, outside, history>>

\* create_chain_log: FK to attendance, UNIQUE(attendance_id); the handler
\* swallows the IntegrityError.
ChainInsert(p) ==
    LET h == job[p].hash IN
    /\ At(p, "chain_insert")
    /\ \/ /\ HasAtt(h.app) /\ ~HasChain(h.app)
          /\ chain' = [chain EXCEPT ![h.app] = [hash |-> h, tx |-> "NULL"]]
          /\ Goto(p, "chain_tx")
       \/ ~(HasAtt(h.app) /\ ~HasChain(h.app)) /\ Finish(p) /\ UNCHANGED chain
    /\ UNCHANGED <<event, apps, att, outside, history>>

\* update_chain_log_tx.
ChainTx(p) ==
    LET a == job[p].hash.app IN
    /\ At(p, "chain_tx")
    /\ chain' = IF HasChain(a) THEN [chain EXCEPT ![a].tx = "SET"] ELSE chain
    /\ Finish(p)
    /\ UNCHANGED <<event, apps, att, outside, history>>

-----------------------------------------------------------------------------
(* The environment.                                                        *)

\* WorkLogRegistry.recordWorkLog executes in a block.
Mine(h) ==
    /\ h \in mempool
    /\ mempool' = mempool \ {h}
    /\ ledger' = ledger \cup {h}
    /\ UNCHANGED <<records, job, notices, history>>

\* The network forgets a transaction (for example, its nonce was taken).
Drop(h) ==
    /\ h \in mempool
    /\ mempool' = mempool \ {h}
    /\ UNCHANGED <<records, job, ledger, notices, history>>

\* A process dies between two steps; systemd restarts it with no memory.
Crash(p) ==
    /\ job[p] # Idle
    /\ crashes < MaxCrashes
    /\ crashes' = crashes + 1
    /\ stranded' = IF job[p].pc \in {"upd_look", "upd_create", "ab_create"}
                   THEN stranded \cup {job[p].app} ELSE stranded
    /\ Finish(p)
    /\ UNCHANGED <<records, outside, now, checkouts>>

-----------------------------------------------------------------------------
\* Steps of a handler that has begun, by process.
AttendanceStep(p) ==
    \/ CheckInWrite(p)
    \/ CheckOutSelect(p) \/ CheckOutUpdate(p) \/ CheckOutReread(p)
    \/ RecordSend(p) \/ RecordReceipt(p) \/ RecordTimeout(p)
    \/ ChainInsert(p) \/ ChainTx(p)

ApiStep ==
    \/ ApplyInsert \/ CancelDelete
    \/ UpdWrite \/ UpdLook \/ UpdCreate \/ UpdNotify
    \/ AttendanceStep("api")

WorkerBotStep == AttendanceStep("wbot")

AdminBotStep ==
    \/ BotConfirmWrite \/ BotConfirmCreate \/ BotConfirmSend \/ BotConfirmMark
    \/ BotDeleteRun

\* Requests and button presses.
Request ==
    \/ \E e \in Events, w \in Workers : ApplyRead(e, w) \/ BotApply(e, w)
    \/ \E e \in Events : ApiDeleteEvent(e) \/ BotDeleteRead(e)
    \/ \E e \in Events, s \in EventStatus : SetEventStatus(e, s)
    \/ \E a \in AppIds, s \in Decisions : UpdRead(a, s) \/ BotSetStatus(a, s)
    \/ \E a \in AppIds :
          \/ CancelRead(a) \/ BotConfirmRead(a)
          \/ ApiCheckIn(a) \/ ManualCheckIn(a) \/ BotCheckIn(a)
          \/ ApiCheckOut(a) \/ ManualCheckOut(a) \/ BotCheckOut(a)

Environment == \/ \E h \in mempool : Mine(h) \/ Drop(h)
               \/ \E p \in Procs : Crash(p)

Next == ApiStep \/ WorkerBotStep \/ AdminBotStep \/ Request \/ Environment

Spec == Init /\ [][Next]_vars

\* A running process goes on with its handler; nothing is promised about
\* requests, miners or restarts.
Fairness == WF_vars(ApiStep) /\ WF_vars(WorkerBotStep) /\ WF_vars(AdminBotStep)

FairSpec == Spec /\ Fairness

-----------------------------------------------------------------------------
(* Safety.                                                                 *)

\* Deleting an event or withdrawing an application leaves no row behind
\* that points at a deleted one, whatever other handlers were half-way
\* through (event_delete_confirm, cancel_application).
NoOrphans ==
    \A a \in AppIds :
        /\ HasChain(a) => HasAtt(a)
        /\ HasAtt(a) => Live(a)
        /\ Live(a) => event[apps[a].event] # "GONE"

Confirming(p, a) ==
    /\ job[p].pc \in {"upd_look", "upd_create", "ab_create"}
    /\ job[p].app = a

\* A confirmed application has a check-in code unless the handler that
\* confirmed it is still running or died half-way: the status and the
\* attendance row are two transactions (update_application_status,
\* app_confirm).
ConfirmedHasCode ==
    \A a \in AppIds :
        Live(a) /\ apps[a].status = "CONFIRMED" /\ ~HasAtt(a)
            => a \in stranded \/ \E p \in Procs : Confirming(p, a)

\* A worker who was told of a confirmation, on the web or by Telegram, has a
\* code to check in with as long as the application exists; and the notified
\* flag is never set before the message went out.
ToldHasCode ==
    \A a \in AppIds : Live(a) =>
        /\ <<a, "CONFIRMED">> \in notices => HasAtt(a)
        /\ apps[a].notified => <<a, "CONFIRMED">> \in notices

\* No log is sent to the blockchain for a check-out that was not committed
\* first, even across crashes, timeouts and a row re-read after another
\* process changed it.
LedgerBacked ==
    \A h \in ledger \cup mempool : <<h.app, h.checkOut>> \in checkouts

\* Every chain_logs row points at a log of its own attendance that is on the
\* ledger, although the transaction and the row are written by different
\* systems and receipts can be missed.
RowsOnLedger ==
    \A a \in AppIds : HasChain(a) =>
        chain[a].hash \in ledger /\ chain[a].hash.app = a

CheckedInHasTime ==
    \A a \in AppIds : HasAtt(a) /\ att[a].status # "PENDING" => att[a].checkIn # 0

NoticesIssued == \A n \in notices : apps[n[1]] # NotIssued

DecidingFacts(j) ==
    /\ j.pc \in StatusPc \cup {"ab_write", "ab_create", "ab_send", "ab_mark"}
          => apps[j.app] # NotIssued
    /\ j.pc = "upd_notify" /\ j.want = "CONFIRMED" /\ Live(j.app) => HasAtt(j.app)
    /\ j.pc = "ab_send" /\ Live(j.app) => HasAtt(j.app)
    /\ j.pc = "ab_mark" => <<j.app, "CONFIRMED">> \in notices

CheckOutFacts(j) ==
    /\ j.pc \in OutPc =>
          /\ apps[j.app] # NotIssued
          /\ Live(j.app) => HasAtt(j.app) /\ att[j.app].checkIn # 0
    /\ j.pc = "co_reread" /\ HasAtt(j.app)
          => <<j.app, att[j.app].checkOut>> \in checkouts

AnchoringFacts(j) ==
    /\ j.pc = "send" => <<j.hash.app, j.hash.checkOut>> \in checkouts
    /\ j.pc = "chain_insert" => j.hash \in ledger

\* What a handler half-way through still relies on holds whatever the others
\* did since it looked: the row it decides on was issued; a notification of a
\* confirmation is only due where a code exists; a check-out still has its
\* check-in; what is read again before hashing was committed as a check-out;
\* and a chain_logs row is only written after a receipt.
HandlerFacts ==
    /\ CheckedInHasTime
    /\ NoticesIssued
    /\ \A p \in Procs : DecidingFacts(job[p]) /\ CheckOutFacts(job[p])
                          /\ AnchoringFacts(job[p])

\* Anchored work is never lost: no step of any handler removes a chain_logs
\* row, the attendance and application under it, or changes its hash.
AnchoredIsPermanent ==
    [][\A a \in AppIds : HasChain(a) =>
          /\ chain'[a].tx # "NO_ROW" /\ chain'[a].hash = chain[a].hash
          /\ att'[a].status # "NO_ROW"
          /\ apps'[a].status \in AppStatus]_vars

-----------------------------------------------------------------------------
(* The abstract record.                                                    *)

StageOf(a) ==
    CASE apps[a].status = "NOT_ISSUED" -> "new"
      [] apps[a].status = "DELETED" -> "gone"
      [] Live(a) /\ HasChain(a) -> "anchored"
      [] Live(a) /\ ~HasChain(a) /\ HasAtt(a) -> "coded"
      [] Live(a) /\ ~HasChain(a) /\ ~HasAtt(a) -> "applied"

Record == INSTANCE WorkRecord WITH
             Records <- AppIds, stage <- [a \in AppIds |-> StageOf(a)]

\* The tables, written by three processes a transaction at a time, behave
\* like one record per application that only moves forward.
ImplementsRecord == Record!Spec

-----------------------------------------------------------------------------
(* Liveness.                                                               *)

\* Every handler returns: the wait for a receipt is bounded by its timeout
\* and nothing waits for another process.
HandlersReturn == \A p \in Procs : job[p] # Idle ~> job[p] = Idle

\* A chain_logs row gets its transaction hash: the INSERT and the UPDATE are
\* two transactions of one handler, and only the death of its process between
\* them leaves a row without one.
RowsGetTx == \A a \in AppIds : HasChain(a) ~> chain[a].tx = "SET" \/ crashes > 0

-----------------------------------------------------------------------------
(* What the documents say and the code does not do.                        *)

\* event_delete: the event goes and takes its applications and attendance.
DeletionDeletes ==
    [][At("abot", "del_run") /\ job'["abot"] = Idle /\ crashes' = crashes
          => event'[job["abot"].event] = "GONE"]_vars

\* cancel_application: only a PENDING application can be cancelled.
OnlyPendingCancelled ==
    [][At("api", "cancel_delete") /\ job'["api"] = Idle =>
          LET a == job["api"].app IN
          Live(a) /\ apps'[a] = Deleted => apps[a].status = "PENDING"]_vars

\* attendance_code_entered: a worker who has checked in cannot do so again.
WorkerChecksInOnce ==
    [][At("wbot", "ci_write") =>
          LET a == job["wbot"].app IN
          HasAtt(a) /\ att[a].checkIn # 0 /\ att'[a].status # "NO_ROW"
              => att'[a].checkIn = att[a].checkIn]_vars
=============================================================================
