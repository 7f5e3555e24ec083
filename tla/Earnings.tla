------------------------------- MODULE Earnings -------------------------------
(***************************************************************************)
(* What work is paid and counted as.  Four documents state the pay of a    *)
(* work (the payroll sheet, the event report, the payment statement and    *)
(* the certificate), and two tables count it (worker_monthly_stats and     *)
(* columns of workers).  Each is made by a handler of several transactions *)
(* from attendance and event rows which the other processes keep changing. *)
(***************************************************************************)
EXTENDS Integers, Sequences, FiniteSets, SequencesExt, Sums

CONSTANTS Workers, Events, Months,
          Roster,        \* who may work where, pairs of both
          Pays,          \* pay_amount, in won
          Offers,        \* events as they are created
          Shifts,        \* minutes from a check-in to its check-out
          Amounts,       \* what is typed into a report's blank cells
          Budgets,       \* bounds: how much is started, and who works where
          MaxChanges     \* bound on what is changed or done again

\* The admin bot writes a date as "01월 25일", which no cast to date reads.
BotDate == "bot_date"
Event == [pay : Pays, date : Months \cup {BotDate}]
NoOne == "none"
Gone == [pay |-> 0, date |-> "gone"]

Budget == [papers : Nat, stats : Nat, roster : SUBSET Roster]

ASSUME EarningsAssumption ==
    /\ Pays \subseteq Nat /\ Shifts \subseteq Nat /\ Amounts \subseteq Nat
    /\ Roster \subseteq Workers \X Events /\ Offers \subseteq [Events -> Event]
    /\ Months \cap {BotDate, Gone.date, NoOne, "total"} = {}
    /\ IsFiniteSet(Workers) /\ IsFiniteSet(Events) /\ IsFiniteSet(Months)
    /\ Workers # {} /\ Months # {}
    /\ Budgets \subseteq Budget /\ MaxChanges \in Nat

VARIABLES event,      \* events
          att,        \* attendance
          monthly,    \* worker_monthly_stats
          total,      \* the cumulative columns of workers
          papers,     \* documents handed out
          job,        \* the handler in progress in each process
          left, changes, \* what may be started yet, and what has changed
          fresh, clean   \* history: statistics nothing has changed since
vars == <<event, att, monthly, total, papers, job, left, changes, fresh, clean>>
tables == <<event, att>>
counted == <<monthly, total, fresh, clean>>

Processes == {"api", "abot"}
NoRow == [status |-> "NO_ROW", out |-> FALSE, minutes |-> 0]
Row == [status : {"NO_ROW", "PENDING", "CHECKED_IN", "COMPLETED"},
        out : BOOLEAN, minutes : Nat]

NoStats == [events |-> 0, completed |-> 0, hours |-> 0, earnings |-> 0]
Stats == [events : Nat, completed : Nat, hours : Nat, earnings : Nat]
NoTotal == [events |-> 0, hours |-> 0, score |-> 50]
Total == [events : Nat, hours : Nat, score : 0..100]

Kinds == {"sheet", "report", "statement", "certificate"}
Paper == [kind : Kinds, event : Events, staff : SUBSET Workers,
          missed : SUBSET Workers, gross : Nat, net : Nat, deducted : Nat,
          billed : Seq(Nat), spent : Seq(Nat)]

Job == [pc : {"idle", "list", "counts", "earnings", "upsert", "sum", "update", "answer"},
        kind : Kinds \cup {"month", "batch", "cumulative", NoOne},
        event : Events \cup {NoOne}, pay : Nat, due : SUBSET Workers,
        todo : Seq(Workers), month : Months \cup {NoOne},
        read : Stats \cup Total, done : Nat]
Idle == [pc |-> "idle", kind |-> NoOne, event |-> NoOne, pay |-> 0, due |-> {},
         todo |-> << >>, month |-> NoOne, read |-> NoStats, done |-> 0]

Exists(e) == event[e] # Gone
HasRow(w, e) == <<w, e>> \in Roster /\ att[<<w, e>>] # NoRow

TypeOK ==
    /\ event \in [Events -> Event \cup {Gone}]
    /\ att \in [Roster -> Row]
    /\ \A r \in Roster : att[r] # NoRow => Exists(r[2])
    /\ monthly \in [Workers -> [Months -> Stats]]
    /\ total \in [Workers -> Total]
    /\ papers \subseteq Paper
    /\ job \in [Processes -> Job]
    /\ left \in Budget /\ changes \in 0..MaxChanges
    /\ fresh \subseteq Workers \X (Months \cup {"total"}) /\ clean \in BOOLEAN

Init ==
    /\ event \in Offers
    /\ att = [r \in Roster |-> NoRow]
    /\ monthly = [w \in Workers |-> [m \in Months |-> NoStats]]
    /\ total = [w \in Workers |-> NoTotal]
    /\ papers = {}
    /\ job = [p \in Processes |-> Idle]
    /\ left \in Budgets /\ changes = 0
    /\ fresh = {} /\ clean = FALSE

-----------------------------------------------------------------------------
(* What the other handlers do to the rows.                                 *)

Free(p) == job[p].pc = "idle"
Disturb == fresh' = {} /\ clean' = FALSE
SetRow(w, e, row) ==
    /\ att' = [att EXCEPT ![<<w, e>>] = row] /\ Disturb
    /\ UNCHANGED <<event, monthly, total, papers, job, left>>

Confirm(w, e) ==
    /\ Exists(e) /\ <<w, e>> \in left.roster /\ att[<<w, e>>] = NoRow
    /\ \E p \in Processes : Free(p)
    /\ SetRow(w, e, [NoRow EXCEPT !.status = "PENDING"]) /\ UNCHANGED changes

CheckIn(w, e) ==
    /\ HasRow(w, e) /\ att[<<w, e>>].status = "PENDING"
    /\ SetRow(w, e, [att[<<w, e>>] EXCEPT !.status = "CHECKED_IN"]) /\ UNCHANGED changes

\* The worker bot takes the code of a completed row again.
CheckInAgain(w, e) ==
    /\ HasRow(w, e) /\ att[<<w, e>>].status = "COMPLETED"
    /\ changes < MaxChanges /\ changes' = changes + 1
    /\ SetRow(w, e, [att[<<w, e>>] EXCEPT !.status = "CHECKED_IN"])

CheckOut(w, e, minutes) ==
    /\ HasRow(w, e) /\ att[<<w, e>>].status = "CHECKED_IN"
    /\ SetRow(w, e, [status |-> "COMPLETED", out |-> TRUE, minutes |-> minutes])
    /\ UNCHANGED changes

Change(p, e) == Free(p) /\ Exists(e) /\ changes < MaxChanges /\ changes' = changes + 1

SetEvent(p, e, row) ==
    /\ Change(p, e) /\ row # event[e] /\ event' = [event EXCEPT ![e] = row] /\ Disturb
    /\ UNCHANGED <<att, monthly, total, papers, job, left>>

UpdateEvent(e) ==
    \E pay \in Pays, date \in Months : SetEvent("api", e, [pay |-> pay, date |-> date])
EditPay(e, pay) == Exists(e) /\ SetEvent("abot", e, [event[e] EXCEPT !.pay = pay])
EditDate(e) == Exists(e) /\ SetEvent("abot", e, [event[e] EXCEPT !.date = BotDate])

\* One transaction.  An anchored row would refuse it, which is no step.
DeleteEvent(e) ==
    /\ Change("abot", e) /\ event' = [event EXCEPT ![e] = Gone] /\ Disturb
    /\ att' = [r \in Roster |-> IF r[2] = e THEN NoRow ELSE att[r]]
    /\ UNCHANGED <<monthly, total, papers, job, left>>

-----------------------------------------------------------------------------
(* Documents.  int(x * 0.967) and its like are exact floors for the pays   *)
(* there are, although they are computed in floating point.                *)

SheetNet(gross) == (967 * gross) \div 1000
StatementNet(gross) == gross - (30 * gross) \div 1000 - (3 * gross) \div 1000
CertificateNet(gross) == gross - (33 * gross) \div 1000
\* Faulty: the statement without local income tax.
FaultyNet(kind, gross) ==
    CASE kind = "statement" -> gross - (30 * gross) \div 1000
      [] kind = "certificate" -> CertificateNet(gross)
      [] OTHER -> SheetNet(gross)
Net(kind, gross) ==
    CASE kind = "statement" -> StatementNet(gross)
      [] kind = "certificate" -> CertificateNet(gross)
      [] OTHER -> SheetNet(gross)

\* Faulty: the deduction is computed by itself.
FaultyDeduction(gross) == (33 * gross) \div 1000
Deduction(gross) == gross - SheetNet(gross)

\* due and missed are history: who had worked at the event when the handler
\* began, and who of them is not in the document.
Due(e) == {w \in Workers : HasRow(w, e) /\ att[<<w, e>>].out}
NewPaper(kind, e, staff, due, gross) ==
    [kind |-> kind, event |-> e, staff |-> staff, missed |-> due \ staff, gross |-> gross,
     net |-> Net(kind, gross), deducted |-> Deduction(gross),
     billed |-> << >>, spent |-> << >>]
Hand(paper) == papers' = papers \cup {paper}
Start(p, what, new) ==
    /\ Free(p) /\ left[what] > 0 /\ left' = [left EXCEPT ![what] = @ - 1]
    /\ job' = [job EXCEPT ![p] = new]

\* The event is read first.  The admin bot makes sheets only.
Export(p, kind, e) ==
    /\ Exists(e) /\ kind \in IF p = "api" THEN {"sheet", "report"} ELSE {"sheet"}
    /\ Start(p, "papers", [Idle EXCEPT !.pc = "list", !.kind = kind, !.event = e,
                             !.pay = event[e].pay, !.due = Due(e)])
    /\ UNCHANGED <<tables, papers, counted, changes>>

\* Faulty: only completed rows.
FaultyListed(e) ==
    {w \in Workers : HasRow(w, e) /\ att[<<w, e>>].status = "COMPLETED"}
Listed(e) == {w \in Workers : HasRow(w, e)}

\* Then its attendance, whatever its status; a sheet of no rows is refused.
ListAttendance(p) ==
    LET j == job[p]
        staff == Listed(j.event)
    IN /\ j.pc = "list"
       /\ IF staff = {} /\ j.kind = "sheet" THEN UNCHANGED papers
          ELSE Hand(NewPaper(j.kind, j.event, staff, j.due, j.pay))
       /\ job' = [job EXCEPT ![p] = Idle]
       /\ UNCHANGED <<tables, counted, left, changes>>

DownloadPaper(kind, w, e) ==
    /\ HasRow(w, e) /\ att[<<w, e>>].out
    /\ Start("api", "papers", Idle) /\ Hand(NewPaper(kind, e, {w}, {w}, event[e].pay))
    /\ UNCHANGED <<tables, counted, changes>>
\* The statement asks for a check-out, the certificate for a log, which has one.
DownloadStatement(w, e) == DownloadPaper("statement", w, e)
DownloadCertificate(w, e) == DownloadPaper("certificate", w, e)

(* A report has blank cells for what is billed and spent, and formulas.    *)
Vat(amount) == (amount + 5) \div 10
Added(amounts) == FirstSum(amounts, Len(amounts))
BillingTotal(r) == Added(r.billed) + Added([i \in DOMAIN r.billed |-> Vat(r.billed[i])])
ExpenseTotal(r) == Added(r.spent)
\* The cell below the workers sums their rows.  Where there are none, it is the
\* first of the rows it sums, and has no value; nor has what refers to it.
Circular == "circular"
Settles(r) == r.staff # {}
LabourTotal(r) == IF Settles(r) THEN Cardinality(r.staff) * r.gross ELSE Circular
Settlement(r) ==
    LET income == BillingTotal(r)
        paid == LabourTotal(r) + ExpenseTotal(r)
    IN IF Settles(r)
       THEN [income |-> income, paid |-> paid, profit |-> income - paid,
             net_profit |-> BillingTotal(r) - LabourTotal(r) - ExpenseTotal(r)]
       ELSE [income |-> income, paid |-> Circular, profit |-> Circular,
             net_profit |-> Circular]

FillIn(r, billed, spent) ==
    /\ r.kind = "report" /\ r.billed = << >> /\ r.spent = << >>
    /\ papers' = (papers \ {r}) \cup {[r EXCEPT !.billed = <<billed>>, !.spent = <<spent>>]}
    /\ UNCHANGED <<tables, counted, job, left, changes>>

-----------------------------------------------------------------------------
(* Statistics.  The API computes them, a worker at a time.                 *)

Api == job["api"]
At(pc) == Api.pc = pc
Worker == Head(Api.todo)
Go(next) == job' = [job EXCEPT !["api"] = next]

RowsOf(w) == {e \in Events : HasRow(w, e)}
RowsIn(w, m) == {e \in RowsOf(w) : event[e].date = m}
Minutes(w, S) == SumOver(S, [e \in S |-> att[<<w, e>>].minutes])
Completed(w, S) == {e \in S : att[<<w, e>>].status = "COMPLETED"}
PayOf(S) == SumOver(S, [e \in S |-> event[e].pay])

\* A bot's date ends the statement for whoever works at that event; for the
\* others it depends on whether the plan casts before it joins.
MustFail(w) == \E e \in RowsOf(w) : event[e].date = BotDate
MayFail(w) == \E e \in Events : Exists(e) /\ event[e].date = BotDate

CalculateStats(w, m) ==
    /\ Start("api", "stats", [Idle EXCEPT !.pc = "counts", !.kind = "month", !.todo = <<w>>,
                                 !.month = m])
    /\ UNCHANGED <<tables, papers, counted, changes>>

BatchAll(m) ==
    /\ Start("api", "stats", [Idle EXCEPT !.pc = "counts", !.kind = "batch", !.month = m,
                                 !.todo = SetToSeq(Workers)])
    /\ UNCHANGED <<tables, papers, counted, changes>>

BatchCumulative ==
    /\ Start("api", "stats", [Idle EXCEPT !.pc = "sum", !.kind = "cumulative",
                                 !.todo = SetToSeq(Workers)])
    /\ UNCHANGED <<tables, papers, counted, changes>>

\* The first statement: what there was to do, and what was done.
ReadCounts ==
    /\ At("counts") /\ ~MustFail(Worker) /\ clean' = TRUE
    /\ LET rows == RowsIn(Worker, Api.month) IN
       Go([Api EXCEPT !.pc = "earnings",
             !.read = [events |-> Cardinality(rows),
                       completed |-> Cardinality(Completed(Worker, rows)),
                       hours |-> Minutes(Worker, rows) \div 60, earnings |-> 0]])
    /\ UNCHANGED <<tables, papers, monthly, total, fresh, left, changes>>

\* Faulty: what is not completed is earned, too.
FaultyEarned(w, m) == PayOf(RowsIn(w, m))
Earned(w, m) == PayOf(Completed(w, RowsIn(w, m)))

ReadEarnings ==
    /\ At("earnings") /\ ~MustFail(Worker)
    /\ Go([Api EXCEPT !.pc = "upsert", !.read.earnings = Earned(Worker, Api.month)])
    /\ UNCHANGED <<tables, papers, counted, left, changes>>

\* The next worker of a batch, or the answer.
Onward(j) ==
    LET rest == Tail(j.todo) IN
    [j EXCEPT !.todo = rest, !.read = NoStats,
       !.pc = IF rest = << >> THEN "answer"
              ELSE IF j.kind = "batch" THEN "counts" ELSE "sum"]

\* Faulty: the worker whose statement failed stays first.
FaultySkipWorker ==
    /\ At("counts") \/ At("earnings")
    /\ MayFail(Worker)
    /\ IF Api.kind = "batch" THEN Go([Api EXCEPT !.pc = "counts", !.read = NoStats])
       ELSE Go(Idle)
    /\ UNCHANGED <<tables, papers, counted, left, changes>>

\* The statement fails: a batch prints the error and goes on.
SkipWorker ==
    /\ At("counts") \/ At("earnings")
    /\ MayFail(Worker)
    /\ IF Api.kind = "batch" THEN Go(Onward(Api)) ELSE Go(Idle)
    /\ UNCHANGED <<tables, papers, counted, left, changes>>

Fresh(key) == fresh' = IF clean THEN fresh \cup {<<Worker, key>>} ELSE fresh

\* upsert_worker_monthly_stats, on a connection of its own.
UpsertMonthly ==
    /\ At("upsert") /\ Fresh(Api.month)
    /\ monthly' = [monthly EXCEPT ![Worker][Api.month] = Api.read]
    /\ Go(IF Api.kind = "batch" THEN [Api EXCEPT !.pc = "sum", !.read = NoStats] ELSE Idle)
    /\ UNCHANGED <<tables, papers, total, clean, left, changes>>

Reliability(events) == LET score == 50 + 2 * events IN IF score > 100 THEN 100 ELSE score

\* Faulty: counts completed rows only, as the hours seem to do.
FaultyReadTotals ==
    /\ At("sum") /\ clean' = TRUE
    /\ LET rows == Completed(Worker, RowsOf(Worker)) IN
       Go([Api EXCEPT !.pc = "update",
             !.read = [events |-> Cardinality(rows), hours |-> Minutes(Worker, rows) \div 60,
                       score |-> Reliability(Cardinality(rows))]])
    /\ UNCHANGED <<tables, papers, monthly, total, fresh, left, changes>>

\* No cast here: bots' dates are counted, too.
ReadTotals ==
    /\ At("sum") /\ clean' = TRUE
    /\ LET rows == RowsOf(Worker) IN
       Go([Api EXCEPT !.pc = "update",
             !.read = [events |-> Cardinality(rows), hours |-> Minutes(Worker, rows) \div 60,
                       score |-> Reliability(Cardinality(rows))]])
    /\ UNCHANGED <<tables, papers, monthly, total, fresh, left, changes>>

UpdateTotals ==
    /\ At("update") /\ Fresh("total")
    /\ total' = [total EXCEPT ![Worker] = Api.read]
    /\ Go(Onward([Api EXCEPT !.done = @ + 1]))
    /\ UNCHANGED <<tables, papers, monthly, clean, left, changes>>

Answer == At("answer") /\ Go(Idle) /\ UNCHANGED <<tables, papers, counted, left, changes>>

(* What the pages of statistics sum up, if no date ends their statements.  *)
SummaryRevenue(m) == SumOver(Workers, [w \in Workers |-> Earned(w, m)])
CompletedPay(m) ==
    SumOver({r \in Roster : att[r].out /\ Exists(r[2]) /\ event[r[2]].date = m},
            [r \in Roster |-> event[r[2]].pay])

\* The analytics pages take one connection and read rows with a check-out time.
Out(w) == {e \in RowsOf(w) : att[<<w, e>>].out}
Readable == \A e \in Events : event[e].date # BotDate
AnalyticsPage ==
    [total_events |-> Cardinality({e \in Events : Exists(e)}),
     total_completed_work |-> SumOver(Workers, [w \in Workers |-> Cardinality(Out(w))]),
     total_worked_minutes |-> SumOver(Workers, [w \in Workers |-> Minutes(w, Out(w))])]

\* Rates are tenths of a percent, and 100 % of nothing.  Who has been late is
\* not modelled: late may be any number of a worker's works.
CheckedIn(w) == {e \in RowsOf(w) : att[<<w, e>>].status # "PENDING"}
Rate(part, whole) ==
    IF whole = 0 THEN 1000 ELSE (2000 * part + whole) \div (2 * whole)
WorkScore(w, late) ==
    LET came == Cardinality(CheckedIn(w)) IN
    (5 * Rate(came, Cardinality(RowsOf(w))) + 2 * Rate(came - late, came)
       + 3 * Rate(Cardinality(Out(w)), came) + 5) \div 10
Grade(w, late) ==
    LET score == WorkScore(w, late)
        completed == Cardinality(Out(w))
    IN IF score >= 900 /\ completed >= 5 THEN "S"
       ELSE IF score >= 800 /\ completed >= 3 THEN "A"
       ELSE IF score >= 700 /\ completed >= 1 THEN "B"
       ELSE IF score >= 500 THEN "C"
       ELSE IF RowsOf(w) # {} THEN "D" ELSE "N"

-----------------------------------------------------------------------------
Crash(p) ==
    /\ ~Free(p) /\ job' = [job EXCEPT ![p] = Idle]
    /\ UNCHANGED <<tables, papers, counted, left, changes>>

ApiStep ==
    \/ ReadCounts \/ ReadEarnings \/ SkipWorker \/ UpsertMonthly
    \/ ReadTotals \/ UpdateTotals \/ Answer \/ ListAttendance("api")
Next ==
    \/ ApiStep \/ ListAttendance("abot") \/ BatchCumulative
    \/ \E p \in Processes : Crash(p)
    \/ \E p \in Processes, kind \in Kinds, e \in Events : Export(p, kind, e)
    \/ \E w \in Workers, e \in Events :
          \/ Confirm(w, e) \/ CheckIn(w, e) \/ CheckInAgain(w, e)
          \/ \E minutes \in Shifts : CheckOut(w, e, minutes)
          \/ DownloadStatement(w, e) \/ DownloadCertificate(w, e)
    \/ \E e \in Events : UpdateEvent(e) \/ EditDate(e) \/ DeleteEvent(e)
    \/ \E e \in Events, pay \in Pays : EditPay(e, pay)
    \/ \E m \in Months : BatchAll(m) \/ \E w \in Workers : CalculateStats(w, m)
    \/ \E r \in papers, billed, spent \in Amounts : FillIn(r, billed, spent)

Spec == Init /\ [][Next]_vars
\* A handler that runs goes on; what it waits for is its database.
FairSpec == Spec /\ WF_vars(ApiStep)

-----------------------------------------------------------------------------
\* The documents of one pay differ by two won at most, and always in the same
\* order: payroll.py takes the floor of 96.7 %, chain.py takes the floor of
\* 3.3 % off, attendance.py the floors of 3 % and of 0.3 %.
Order == [sheet |-> 0, report |-> 0, certificate |-> 1, statement |-> 2]
NetsWithinTwoWon ==
    \A p, q \in papers : p.gross = q.gross /\ Order[p.kind] <= Order[q.kind] =>
        /\ p.net <= q.net
        /\ q.net <= p.net + Order[q.kind]

\* Whoever had worked when the event was read for a payroll sheet is on it,
\* although rows are listed later: checked in again, or with the event changed
\* or deleted in between, no one who is to be paid is left out.
WorkDoneIsOnSheet == \A p \in papers : p.kind = "sheet" => p.missed = {}

\* A report has everyone who had worked when its event was read, or no one: the
\* event has then been deleted before the rows were listed.  So it settles unless
\* nobody had worked or there is no such event any more.
ReportsAreWhole ==
    \A r \in papers : r.kind = "report" /\ r.missed # {} => ~Settles(r) /\ ~Exists(r.event)

\* The settlement of a report that has one, whatever is typed into it: what is
\* billed is the profit, what its workers receive, what is deducted of it and
\* what is spent.  The column of deductions is filled in for itself, and the
\* settlement takes the sum of another column.
SettlementBalances ==
    \A r \in papers : r.kind = "report" /\ Settles(r) =>
        Settlement(r).income = Settlement(r).profit + ExpenseTotal(r)
                                + Cardinality(r.staff) * (r.net + r.deducted)

\* What a report holds: rows of the right type, of everyone who had worked, and
\* sums that agree.  With no rows the sums refer to themselves, and nothing
\* refuses such a report: it is one of no work, or of an event that is gone.
ReportInv == TypeOK /\ ReportsAreWhole /\ SettlementBalances

\* The stored months of a worker add up to the stored totals if nothing has
\* changed since each was computed: the events exactly, the hours but for less
\* than one hour a month, which every month rounds down by itself.  The works
\* and hours of the analytics page, which looks at check-out times and not at
\* the status, are those of all months and of all totals in the same way.
MonthsAddUp ==
    /\ \A w \in Workers : (\A key \in Months \cup {"total"} : <<w, key>> \in fresh) =>
          LET hours == SumOver(Months, [m \in Months |-> monthly[w][m].hours]) IN
          /\ total[w].events = SumOver(Months, [m \in Months |-> monthly[w][m].events])
          /\ total[w].hours \in hours .. hours + Cardinality(Months) - 1
    /\ Workers \X Months \subseteq fresh /\ Readable =>
          AnalyticsPage.total_completed_work =
              SumOver(Workers, [w \in Workers |->
                  Cardinality(Out(w) \ Completed(w, RowsOf(w)))
                    + SumOver(Months, [m \in Months |-> monthly[w][m].completed])])
    /\ Workers \X {"total"} \subseteq fresh =>
          LET hours == SumOver(Workers, [w \in Workers |-> total[w].hours])
              minutes == AnalyticsPage.total_worked_minutes
          IN 60 * hours <= minutes /\ minutes < 60 * (hours + Cardinality(Workers))

\* The stored earnings of a month are the total_revenue of the summary page, if
\* nothing has changed since, and the completed_pay of the revenue page but for
\* who checked in again: that page asks for a check-out time, the others for the
\* status COMPLETED.
EarningsMatchRevenue ==
    \A m \in Months : (\A w \in Workers : <<w, m>> \in fresh) =>
        LET earned == SumOver(Workers, [w \in Workers |-> monthly[w][m].earnings])
            again == {r \in Roster : att[r].out /\ att[r].status # "COMPLETED"
                                     /\ event[r[2]].date = m}
        IN /\ earned = SummaryRevenue(m)
           /\ earned + SumOver(again, [r \in Roster |-> event[r[2]].pay]) = CompletedPay(m)

\* Every export and every calculation of the API ends, also a batch in which the dates of
\* some workers' events cannot be read.
JobsEnd == ~Free("api") ~> Free("api")

(* What documents and comments say and the code does not do.               *)

\* A batch calculates every worker ("전체 근무자 월별 통계 계산").
BatchCoversEveryone ==
    At("answer") /\ Api.kind = "batch" => Api.done = Cardinality(Workers)

\* The net profit of a report starts from what is billed before tax
\* ("세전 청구금합계(G열)").
NetProfitBeforeTax ==
    \A r \in papers : r.kind = "report" /\ Settles(r) =>
        Settlement(r).net_profit = Added(r.billed) - LabourTotal(r) - ExpenseTotal(r)

\* A worker without any attendance is new ("신규"), whatever else is counted.
NewcomersAreNew == \A w \in Workers : RowsOf(w) = {} => Grade(w, 0) = "N"
=============================================================================
