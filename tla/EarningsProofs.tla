---------------------------- MODULE EarningsProofs ----------------------------
(***************************************************************************)
(* For any workers, events, months and pays: the documents of one pay are  *)
(* within two won of each other, a payroll sheet leaves out no one who had *)
(* worked when it was begun, the settlement of a report adds up, and the   *)
(* stored statistics add up to each other and to what the pages show.      *)
(***************************************************************************)
EXTENDS Earnings, SumsProofs, FiniteSetTheorems, SequenceTheorems, TLAPS

-----------------------------------------------------------------------------
(* The nets of one pay.                                                    *)

\* A floor is a natural number and less than one away.
LEMMA Floor ==
    ASSUME NEW x \in Nat
    PROVE  /\ x \div 1000 \in Nat
           /\ 1000 * (x \div 1000) <= x
           /\ x < 1000 * (x \div 1000) + 1000
  OBVIOUS

LEMMA NetsOfOnePay ==
    ASSUME NEW g \in Nat
    PROVE  /\ SheetNet(g) \in Int /\ CertificateNet(g) \in Int /\ StatementNet(g) \in Int
           /\ SheetNet(g) <= CertificateNet(g) /\ CertificateNet(g) <= SheetNet(g) + 1
           /\ CertificateNet(g) <= StatementNet(g)
           /\ StatementNet(g) <= CertificateNet(g) + 1
  <1>1. 967 * g \in Nat /\ 33 * g \in Nat /\ 30 * g \in Nat /\ 3 * g \in Nat
    OBVIOUS
  <1> DEFINE s == (967 * g) \div 1000
             c == (33 * g) \div 1000
             i == (30 * g) \div 1000
             l == (3 * g) \div 1000
  <1>2. s \in Nat /\ 1000 * s <= 967 * g /\ 967 * g < 1000 * s + 1000
    BY <1>1, Floor
  <1>3. c \in Nat /\ 1000 * c <= 33 * g /\ 33 * g < 1000 * c + 1000
    BY <1>1, Floor
  <1>4. i \in Nat /\ 1000 * i <= 30 * g /\ 30 * g < 1000 * i + 1000
    BY <1>1, Floor
  <1>5. l \in Nat /\ 1000 * l <= 3 * g /\ 3 * g < 1000 * l + 1000
    BY <1>1, Floor
  <1>6. SheetNet(g) = s /\ CertificateNet(g) = g - c /\ StatementNet(g) = g - i - l
    BY DEF SheetNet, CertificateNet, StatementNet
  <1> HIDE DEF s, c, i, l
  <1>7. s <= g - c /\ g - c <= s + 1
    BY <1>2, <1>3
  <1>8. g - c <= g - i - l /\ g - i - l <= g - c + 1
    BY <1>3, <1>4, <1>5
  <1> QED BY <1>2, <1>3, <1>4, <1>5, <1>6, <1>7, <1>8

LEMMA NetsInOrder ==
    ASSUME NEW g \in Nat, NEW k \in Kinds, NEW m \in Kinds, Order[k] <= Order[m]
    PROVE  Net(k, g) <= Net(m, g) /\ Net(m, g) <= Net(k, g) + Order[m]
  <1>1. \A n \in Kinds : Net(n, g) = IF n = "statement" THEN StatementNet(g)
                                     ELSE IF n = "certificate" THEN CertificateNet(g)
                                     ELSE SheetNet(g)
    BY DEF Net, Kinds
  <1>2. /\ Order["sheet"] = 0 /\ Order["report"] = 0
        /\ Order["certificate"] = 1 /\ Order["statement"] = 2
    BY DEF Order
  <1> QED BY <1>1, <1>2, NetsOfOnePay DEF Kinds

-----------------------------------------------------------------------------
(* The inductive invariant: what a document was made from.                 *)

JobFields == DOMAIN Idle
PaperFields == {"kind", "event", "staff", "missed", "gross", "net", "deducted",
                "billed", "spent"}

EventsTyped == event \in [Events -> Event \cup {Gone}]
RowsTyped == att \in [Roster -> Row] /\ \A r \in Roster : att[r] # NoRow => Exists(r[2])
JobsTyped ==
    /\ DOMAIN job = Processes
    /\ \A p \in Processes :
          /\ DOMAIN job[p] = JobFields /\ job[p].pay \in Nat
          /\ job[p].pc = "list" => /\ job[p].kind \in {"sheet", "report"}
                                   /\ job[p].event \in Events
PapersNetted ==
    \A r \in papers : /\ DOMAIN r = PaperFields /\ r.kind \in Kinds /\ r.gross \in Nat
                      /\ r.net = Net(r.kind, r.gross) /\ r.event \in Events
\* Whoever is due still has a row, or the event is gone with all its rows.
DueListed ==
    \A p \in Processes : job[p].pc = "list" =>
        job[p].due \subseteq Listed(job[p].event) \/ ~Exists(job[p].event)

PaperInv ==
    /\ EventsTyped /\ RowsTyped /\ JobsTyped /\ PapersNetted /\ DueListed
    /\ WorkDoneIsOnSheet /\ ReportsAreWhole

\* An event that is gone stays away, and with it the excuse of a report.
LEMMA WholeStays ==
    ASSUME PaperInv, UNCHANGED papers,
           \A e \in Events : event[e] = Gone => event'[e] = Gone
    PROVE  ReportsAreWhole'
  BY DEF PaperInv, PapersNetted, ReportsAreWhole, Settles, Exists

LEMMA PaperInit == Init => PaperInv
  <1> SUFFICES ASSUME Init PROVE PaperInv
    OBVIOUS
  <1>1. EventsTyped
    BY EarningsAssumption DEF Init, EventsTyped
  <1>2. RowsTyped
    BY DEF Init, RowsTyped, Row, NoRow
  <1>3. DOMAIN Idle = JobFields /\ Idle.pay = 0 /\ Idle.pc = "idle"
    BY DEF Idle, JobFields
  <1>4. JobsTyped /\ DueListed
    BY <1>3 DEF Init, JobsTyped, DueListed
  <1>5. PapersNetted /\ WorkDoneIsOnSheet /\ ReportsAreWhole
    BY DEF Init, PapersNetted, WorkDoneIsOnSheet, ReportsAreWhole
  <1> QED BY <1>1, <1>2, <1>4, <1>5 DEF PaperInv

\* A step of a handler that reads no list.
LEMMA JobStep ==
    ASSUME PaperInv, NEW p \in Processes, NEW next,
           DOMAIN next = JobFields, next.pay \in Nat, next.pc # "list",
           job' = [job EXCEPT ![p] = next], UNCHANGED <<event, att, papers>>
    PROVE  PaperInv'
  <1>1. DOMAIN job' = Processes
    BY DEF PaperInv, JobsTyped
  <1>2. \A q \in Processes : job'[q] = IF q = p THEN next ELSE job[q]
    BY DEF PaperInv, JobsTyped
  <1>3. JobsTyped'
    BY <1>1, <1>2 DEF PaperInv, JobsTyped
  <1>4. DueListed'
    BY <1>2 DEF PaperInv, DueListed, Listed, HasRow, Exists
  <1>5. EventsTyped' /\ RowsTyped' /\ PapersNetted' /\ WorkDoneIsOnSheet'
    BY DEF PaperInv, EventsTyped, RowsTyped, PapersNetted, WorkDoneIsOnSheet, Exists
  <1> QED BY <1>3, <1>4, <1>5, WholeStays DEF PaperInv

\* A step of the other handlers that changes no event and removes no row.
LEMMA RowStep ==
    ASSUME PaperInv, NEW w, NEW e, NEW row \in Row, row # NoRow, Exists(e),
           SetRow(w, e, row)
    PROVE  PaperInv'
  <1>1. UNCHANGED <<event, job, papers>> /\ att' = [att EXCEPT ![<<w, e>>] = row]
    BY DEF SetRow
  <1>2. \A r \in Roster : att'[r] = IF r = <<w, e>> THEN row ELSE att[r]
    BY <1>1 DEF PaperInv, RowsTyped
  <1>3. att' \in [Roster -> Row]
    BY <1>1 DEF PaperInv, RowsTyped
  <1>4. RowsTyped'
    <2>1. Exists(e)'
      BY <1>1 DEF Exists
    <2>2. ASSUME NEW r \in Roster, att'[r] # NoRow PROVE event'[r[2]] # Gone
      BY <1>1, <1>2, <2>1, <2>2 DEF PaperInv, RowsTyped, Exists
    <2> QED BY <1>3, <2>2 DEF RowsTyped, Exists
  <1>5. \A f : Listed(f) \subseteq {v \in Workers : <<v, f>> \in Roster /\ att'[<<v, f>>] # NoRow}
    BY <1>2 DEF Listed, HasRow
  <1>6. DueListed'
    BY <1>1, <1>5 DEF PaperInv, DueListed, Listed, HasRow, Exists
  <1>7. EventsTyped' /\ JobsTyped' /\ PapersNetted' /\ WorkDoneIsOnSheet'
    BY <1>1 DEF PaperInv, EventsTyped, JobsTyped, PapersNetted, WorkDoneIsOnSheet
  <1> QED BY <1>1, <1>4, <1>6, <1>7, WholeStays DEF PaperInv

\* A change of an event keeps it, its rows and all that was read.
LEMMA EventStep ==
    ASSUME PaperInv, NEW p, NEW e \in Events, NEW row \in Event, row # Gone,
           SetEvent(p, e, row)
    PROVE  PaperInv'
  <1>1. /\ UNCHANGED <<att, job, papers>> /\ event' = [event EXCEPT ![e] = row]
        /\ Exists(e)
    BY DEF SetEvent, Change
  <1>2. \A f \in Events : event'[f] = IF f = e THEN row ELSE event[f]
    BY <1>1 DEF PaperInv, EventsTyped
  <1>3. EventsTyped'
    BY <1>1 DEF PaperInv, EventsTyped
  <1>4. \A f \in Events : event'[f] # Gone <=> event[f] # Gone
    BY <1>1, <1>2 DEF Exists
  <1>5. \A r \in Roster : r[2] \in Events
    BY EarningsAssumption
  <1>6. RowsTyped'
    BY <1>1, <1>4, <1>5 DEF PaperInv, RowsTyped, Exists
  <1>7. DueListed'
    BY <1>1, <1>4 DEF PaperInv, DueListed, JobsTyped, Listed, HasRow, Exists
  <1>8. JobsTyped' /\ PapersNetted' /\ WorkDoneIsOnSheet'
    BY <1>1 DEF PaperInv, JobsTyped, PapersNetted, WorkDoneIsOnSheet
  <1> QED BY <1>1, <1>3, <1>4, <1>6, <1>7, <1>8, WholeStays DEF PaperInv

LEMMA DeleteStep ==
    ASSUME PaperInv, NEW e \in Events, DeleteEvent(e)
    PROVE  PaperInv'
  <1>1. /\ UNCHANGED <<job, papers>> /\ event' = [event EXCEPT ![e] = Gone]
        /\ att' = [r \in Roster |-> IF r[2] = e THEN NoRow ELSE att[r]]
    BY DEF DeleteEvent
  <1>2. \A f \in Events : event'[f] = IF f = e THEN Gone ELSE event[f]
    BY <1>1 DEF PaperInv, EventsTyped
  <1>3. EventsTyped'
    BY <1>1 DEF PaperInv, EventsTyped
  <1>4. att' \in [Roster -> Row]
    BY <1>1 DEF PaperInv, RowsTyped, Row, NoRow
  <1>5. RowsTyped'
    <2>1. \A r \in Roster : r[2] \in Events
      BY EarningsAssumption
    <2>2. ASSUME NEW r \in Roster, att'[r] # NoRow PROVE event'[r[2]] # Gone
      BY <1>1, <1>2, <2>1, <2>2 DEF PaperInv, RowsTyped, Exists
    <2> QED BY <1>4, <2>2 DEF RowsTyped, Exists
  <1>6. DueListed'
    <2> SUFFICES ASSUME NEW p \in Processes, job[p].pc = "list"
                 PROVE  \/ job[p].due \subseteq Listed(job[p].event)'
                        \/ event'[job[p].event] = Gone
      BY <1>1 DEF DueListed, Exists, Listed, HasRow
    <2>1. job[p].event \in Events
      BY DEF PaperInv, JobsTyped
    <2>2. CASE job[p].event = e
      BY <1>2, <2>2
    <2>3. CASE job[p].event # e
      <3>1. Listed(job[p].event)' = Listed(job[p].event)
        BY <1>1, <2>3 DEF Listed, HasRow
      <3>2. event'[job[p].event] = event[job[p].event]
        BY <1>2, <2>1, <2>3
      <3> QED BY <3>1, <3>2 DEF PaperInv, DueListed, Exists
    <2> QED BY <2>2, <2>3
  <1>7. JobsTyped' /\ PapersNetted' /\ WorkDoneIsOnSheet'
    BY <1>1 DEF PaperInv, JobsTyped, PapersNetted, WorkDoneIsOnSheet
  <1> QED BY <1>1, <1>2, <1>3, <1>5, <1>6, <1>7, WholeStays DEF PaperInv

-----------------------------------------------------------------------------
(* The steps of the documents.                                             *)

\* A document made of rows, in the paper the properties see.
LEMMA PaperMade ==
    ASSUME NEW kind \in Kinds, NEW e, NEW staff, NEW due, NEW gross \in Nat
    PROVE  LET r == NewPaper(kind, e, staff, due, gross) IN
           /\ DOMAIN r = PaperFields /\ r.kind = kind /\ r.gross = gross
           /\ r.net = Net(kind, gross) /\ r.missed = due \ staff
           /\ r.event = e /\ r.staff = staff
  BY DEF NewPaper, PaperFields

LEMMA ExportStep ==
    ASSUME PaperInv, NEW p \in Processes, NEW kind \in Kinds, NEW e \in Events,
           Export(p, kind, e)
    PROVE  PaperInv'
  <1> DEFINE next == [Idle EXCEPT !.pc = "list", !.kind = kind, !.event = e,
                                  !.pay = event[e].pay, !.due = Due(e)]
  <1>1. /\ Exists(e) /\ kind \in {"sheet", "report"} /\ job' = [job EXCEPT ![p] = next]
        /\ UNCHANGED <<event, att, papers>>
    BY DEF Export, Start, tables
  <1>2. /\ DOMAIN next = JobFields /\ next.pay = event[e].pay /\ next.kind = kind
        /\ next.event = e /\ next.due = Due(e)
    BY DEF Idle, JobFields
  <1> HIDE DEF next
  <1>3. event[e].pay \in Nat
    <2>1. event[e] \in Event
      BY <1>1 DEF PaperInv, EventsTyped, Exists
    <2> QED BY <2>1, EarningsAssumption DEF Event
  <1>4. DOMAIN job' = Processes
    BY <1>1 DEF PaperInv, JobsTyped
  <1>5. \A q \in Processes : job'[q] = IF q = p THEN next ELSE job[q]
    BY <1>1 DEF PaperInv, JobsTyped
  <1>6. JobsTyped'
    BY <1>1, <1>2, <1>3, <1>4, <1>5 DEF PaperInv, JobsTyped
  <1>7. Due(e) \subseteq Listed(e)
    BY DEF Due, Listed
  <1>8. DueListed'
    BY <1>1, <1>2, <1>5, <1>7 DEF PaperInv, DueListed, Listed, HasRow, Exists
  <1>9. EventsTyped' /\ RowsTyped' /\ PapersNetted' /\ WorkDoneIsOnSheet'
    BY <1>1 DEF PaperInv, EventsTyped, RowsTyped, PapersNetted, WorkDoneIsOnSheet, Exists
  <1> QED BY <1>1, <1>6, <1>8, <1>9, WholeStays DEF PaperInv

\* What a new document must be for the papers to stay as they should.
LEMMA HandStep ==
    ASSUME PaperInv, NEW r, Hand(r), DOMAIN r = PaperFields, r.kind \in Kinds,
           r.gross \in Nat, r.net = Net(r.kind, r.gross), r.event \in Events,
           r.kind = "sheet" => r.missed = {}, UNCHANGED event,
           r.kind = "report" /\ r.missed # {} => r.staff = {} /\ ~Exists(r.event)
    PROVE  PapersNetted' /\ WorkDoneIsOnSheet' /\ ReportsAreWhole'
  BY DEF PaperInv, Hand, PapersNetted, WorkDoneIsOnSheet, ReportsAreWhole, Settles, Exists

LEMMA IdleStep ==
    ASSUME PaperInv, NEW p \in Processes, job' = [job EXCEPT ![p] = Idle],
           UNCHANGED <<event, att>>
    PROVE  EventsTyped' /\ RowsTyped' /\ JobsTyped' /\ DueListed'
  <1>1. DOMAIN Idle = JobFields /\ Idle.pay = 0 /\ Idle.pc = "idle"
    BY DEF Idle, JobFields
  <1>2. DOMAIN job' = Processes
    BY DEF PaperInv, JobsTyped
  <1>3. \A q \in Processes : job'[q] = IF q = p THEN Idle ELSE job[q]
    BY DEF PaperInv, JobsTyped
  <1>4. JobsTyped'
    BY <1>1, <1>2, <1>3 DEF PaperInv, JobsTyped
  <1>5. DueListed'
    BY <1>1, <1>3 DEF PaperInv, DueListed, Listed, HasRow, Exists
  <1>6. EventsTyped' /\ RowsTyped'
    BY DEF PaperInv, EventsTyped, RowsTyped, Exists
  <1> QED BY <1>4, <1>5, <1>6

LEMMA ListStep ==
    ASSUME PaperInv, NEW p \in Processes, ListAttendance(p)
    PROVE  PaperInv'
  <1> DEFINE j == job[p]
             staff == Listed(j.event)
             r == NewPaper(j.kind, j.event, staff, j.due, j.pay)
  <1>1. /\ j.pc = "list" /\ job' = [job EXCEPT ![p] = Idle] /\ UNCHANGED <<event, att>>
        /\ \/ staff = {} /\ j.kind = "sheet" /\ UNCHANGED papers
           \/ ~(staff = {} /\ j.kind = "sheet") /\ Hand(r)
    BY DEF ListAttendance, tables
  <1>2. j.kind \in Kinds /\ j.pay \in Nat /\ j.event \in Events
    BY <1>1 DEF PaperInv, JobsTyped, Kinds
  <1>3. EventsTyped' /\ RowsTyped' /\ JobsTyped' /\ DueListed'
    BY <1>1, IdleStep
  <1>4. CASE UNCHANGED papers
    BY <1>1, <1>3, <1>4, WholeStays DEF PaperInv, PapersNetted, WorkDoneIsOnSheet
  <1>5. CASE ~(staff = {} /\ j.kind = "sheet") /\ Hand(r)
    <2>1. /\ DOMAIN r = PaperFields /\ r.kind = j.kind /\ r.gross = j.pay
          /\ r.net = Net(j.kind, j.pay) /\ r.missed = j.due \ staff
          /\ r.event = j.event /\ r.staff = staff
      BY <1>2, PaperMade
    <2>2. staff # {} => Exists(j.event)
      BY <1>2 DEF PaperInv, RowsTyped, Listed, HasRow, Exists
    <2>3. staff # {} => j.due \subseteq staff
      BY <1>1, <2>2 DEF PaperInv, DueListed
    <2>4. r.kind = "sheet" => r.missed = {}
      BY <1>5, <2>1, <2>3
    <2>5. r.missed # {} => r.staff = {} /\ ~Exists(r.event)
      BY <1>1, <2>1, <2>3 DEF PaperInv, DueListed
    <2> HIDE DEF r
    <2>6. PapersNetted' /\ WorkDoneIsOnSheet' /\ ReportsAreWhole'
      BY <1>1, <1>2, <1>5, <2>1, <2>4, <2>5, HandStep
    <2> QED BY <1>3, <2>6 DEF PaperInv
  <1> QED BY <1>1, <1>4, <1>5

LEMMA DownloadStep ==
    ASSUME PaperInv, NEW kind \in {"statement", "certificate"}, NEW w \in Workers,
           NEW e \in Events, DownloadPaper(kind, w, e)
    PROVE  PaperInv'
  <1> DEFINE r == NewPaper(kind, e, {w}, {w}, event[e].pay)
  <1>1. /\ HasRow(w, e) /\ job' = [job EXCEPT !["api"] = Idle] /\ Hand(r)
        /\ UNCHANGED <<event, att>>
    BY DEF DownloadPaper, Start, tables
  <1>2. event[e].pay \in Nat
    <2>1. Exists(e)
      <3>1. <<w, e>> \in Roster /\ att[<<w, e>>] # NoRow
        BY <1>1 DEF HasRow
      <3>2. Exists(<<w, e>>[2])
        BY <3>1 DEF PaperInv, RowsTyped
      <3> QED BY <3>2
    <2>2. event[e] \in Event
      BY <2>1 DEF PaperInv, EventsTyped, Exists
    <2> QED BY <2>2, EarningsAssumption DEF Event
  <1>3. EventsTyped' /\ RowsTyped' /\ JobsTyped' /\ DueListed'
    BY <1>1, IdleStep DEF Processes
  <1>4. /\ DOMAIN r = PaperFields /\ r.kind = kind /\ r.gross = event[e].pay
        /\ r.net = Net(kind, event[e].pay) /\ kind \in Kinds /\ r.event = e
    BY <1>2, PaperMade DEF Kinds
  <1> HIDE DEF r
  <1>5. PapersNetted' /\ WorkDoneIsOnSheet' /\ ReportsAreWhole'
    BY <1>1, <1>2, <1>4, HandStep
  <1> QED BY <1>3, <1>5 DEF PaperInv

LEMMA FillInStep ==
    ASSUME PaperInv, NEW r \in papers, NEW b, NEW s, FillIn(r, b, s)
    PROVE  PaperInv'
  <1> DEFINE new == [r EXCEPT !.billed = <<b>>, !.spent = <<s>>]
  <1>1. /\ papers' = (papers \ {r}) \cup {new} /\ r.kind = "report"
        /\ UNCHANGED <<event, att, job>>
    BY DEF FillIn, tables
  <1>2. /\ DOMAIN new = PaperFields /\ new.kind = r.kind /\ new.gross = r.gross
        /\ new.net = r.net /\ new.event = r.event
        /\ new.missed = r.missed /\ new.staff = r.staff
    BY DEF PaperInv, PapersNetted, PaperFields
  <1> HIDE DEF new
  <1>3. PapersNetted' /\ WorkDoneIsOnSheet' /\ ReportsAreWhole'
    BY <1>1, <1>2 DEF PaperInv, PapersNetted, WorkDoneIsOnSheet, ReportsAreWhole, Settles,
                      Exists
  <1>4. EventsTyped' /\ RowsTyped' /\ JobsTyped' /\ DueListed'
    BY <1>1 DEF PaperInv, EventsTyped, RowsTyped, JobsTyped, DueListed, Listed, HasRow, Exists
  <1> QED BY <1>3, <1>4 DEF PaperInv

-----------------------------------------------------------------------------
(* The steps of the statistics: none reads a list or makes a document.     *)

LEMMA Onwards ==
    ASSUME NEW j, DOMAIN j = JobFields, j.pay \in Nat
    PROVE  /\ DOMAIN Onward(j) = JobFields /\ Onward(j).pay \in Nat
           /\ Onward(j).pc # "list"
  BY DEF Onward, JobFields, Idle

LEMMA ApiJob ==
    ASSUME PaperInv
    PROVE  /\ "api" \in Processes /\ DOMAIN Api = JobFields /\ Api.pay \in Nat
           /\ DOMAIN Idle = JobFields /\ Idle.pay \in Nat /\ Idle.pc = "idle"
  BY DEF PaperInv, JobsTyped, Api, Processes, Idle, JobFields

LEMMA StatsStep ==
    ASSUME PaperInv,
           ReadCounts \/ ReadEarnings \/ SkipWorker \/ UpsertMonthly
             \/ ReadTotals \/ UpdateTotals \/ Answer
    PROVE  PaperInv'
  <1>1. UNCHANGED <<event, att, papers>>
    BY DEF ReadCounts, ReadEarnings, SkipWorker, UpsertMonthly, ReadTotals, UpdateTotals,
           Answer, tables
  <1>2. ASSUME NEW next, DOMAIN next = JobFields, next.pay \in Nat, next.pc # "list", Go(next)
        PROVE  PaperInv'
    BY <1>1, <1>2, JobStep, ApiJob DEF Go
  <1>3. CASE ReadCounts
    <2>1. PICK counts : Go([Api EXCEPT !.pc = "earnings", !.read = counts])
      BY <1>3 DEF ReadCounts
    <2>2. LET next == [Api EXCEPT !.pc = "earnings", !.read = counts] IN
          DOMAIN next = JobFields /\ next.pay \in Nat /\ next.pc # "list"
      BY ApiJob DEF JobFields, Idle
    <2> QED BY <2>1, <2>2, <1>2
  <1>4. CASE ReadEarnings
    <2>1. PICK earned : Go([Api EXCEPT !.pc = "upsert", !.read.earnings = earned])
      BY <1>4 DEF ReadEarnings
    <2>2. LET next == [Api EXCEPT !.pc = "upsert", !.read.earnings = earned] IN
          DOMAIN next = JobFields /\ next.pay \in Nat /\ next.pc # "list"
      BY ApiJob DEF JobFields, Idle
    <2> QED BY <2>1, <2>2, <1>2
  <1>5. CASE SkipWorker
    <2>1. Go(Onward(Api)) \/ Go(Idle)
      BY <1>5 DEF SkipWorker
    <2> QED BY <2>1, <1>2, ApiJob, Onwards
  <1>6. CASE UpsertMonthly
    <2>1. Go([Api EXCEPT !.pc = "sum", !.read = NoStats]) \/ Go(Idle)
      BY <1>6 DEF UpsertMonthly
    <2>2. LET next == [Api EXCEPT !.pc = "sum", !.read = NoStats] IN
          DOMAIN next = JobFields /\ next.pay \in Nat /\ next.pc # "list"
      BY ApiJob DEF JobFields, Idle
    <2> QED BY <2>1, <2>2, <1>2, ApiJob
  <1>7. CASE ReadTotals
    <2>1. PICK sums : Go([Api EXCEPT !.pc = "update", !.read = sums])
      BY <1>7 DEF ReadTotals
    <2>2. LET next == [Api EXCEPT !.pc = "update", !.read = sums] IN
          DOMAIN next = JobFields /\ next.pay \in Nat /\ next.pc # "list"
      BY ApiJob DEF JobFields, Idle
    <2> QED BY <2>1, <2>2, <1>2
  <1>8. CASE UpdateTotals
    <2> DEFINE counted_on == [Api EXCEPT !.done = @ + 1]
    <2>1. Go(Onward(counted_on))
      BY <1>8 DEF UpdateTotals
    <2>2. DOMAIN counted_on = JobFields /\ counted_on.pay \in Nat
      BY ApiJob DEF JobFields, Idle
    <2> HIDE DEF counted_on
    <2> QED BY <2>1, <2>2, <1>2, Onwards
  <1>9. CASE Answer
    BY <1>9, <1>2, ApiJob DEF Answer
  <1> QED BY <1>3, <1>4, <1>5, <1>6, <1>7, <1>8, <1>9

LEMMA StartStep ==
    ASSUME PaperInv,
           \/ BatchCumulative
           \/ \E m \in Months : BatchAll(m) \/ \E w \in Workers : CalculateStats(w, m)
    PROVE  PaperInv'
  <1>1. ASSUME NEW next, DOMAIN next = JobFields, next.pay \in Nat, next.pc # "list",
               Start("api", "stats", next), UNCHANGED <<event, att, papers>>
        PROVE  PaperInv'
    BY <1>1, JobStep, ApiJob DEF Start
  <1>2. CASE BatchCumulative
    <2> DEFINE next == [Idle EXCEPT !.pc = "sum", !.kind = "cumulative",
                                    !.todo = SetToSeq(Workers)]
    <2>1. Start("api", "stats", next) /\ UNCHANGED <<event, att, papers>>
      BY <1>2 DEF BatchCumulative, tables
    <2>2. DOMAIN next = JobFields /\ next.pay \in Nat /\ next.pc # "list"
      BY DEF JobFields, Idle
    <2> HIDE DEF next
    <2> QED BY <2>1, <2>2, <1>1
  <1>3. ASSUME NEW m \in Months, BatchAll(m) PROVE PaperInv'
    <2> DEFINE next == [Idle EXCEPT !.pc = "counts", !.kind = "batch", !.month = m,
                                    !.todo = SetToSeq(Workers)]
    <2>1. Start("api", "stats", next) /\ UNCHANGED <<event, att, papers>>
      BY <1>3 DEF BatchAll, tables
    <2>2. DOMAIN next = JobFields /\ next.pay \in Nat /\ next.pc # "list"
      BY DEF JobFields, Idle
    <2> HIDE DEF next
    <2> QED BY <2>1, <2>2, <1>1
  <1>4. ASSUME NEW m \in Months, NEW w \in Workers, CalculateStats(w, m) PROVE PaperInv'
    <2> DEFINE next == [Idle EXCEPT !.pc = "counts", !.kind = "month", !.todo = <<w>>,
                                    !.month = m]
    <2>1. Start("api", "stats", next) /\ UNCHANGED <<event, att, papers>>
      BY <1>4 DEF CalculateStats, tables
    <2>2. DOMAIN next = JobFields /\ next.pay \in Nat /\ next.pc # "list"
      BY DEF JobFields, Idle
    <2> HIDE DEF next
    <2> QED BY <2>1, <2>2, <1>1
  <1> QED BY <1>2, <1>3, <1>4

-----------------------------------------------------------------------------
LEMMA PaperNext == PaperInv /\ [Next]_vars => PaperInv'
  <1> SUFFICES ASSUME PaperInv, [Next]_vars PROVE PaperInv'
    OBVIOUS
  <1>1. ASSUME ApiStep PROVE PaperInv'
    BY <1>1, StatsStep, ListStep DEF ApiStep, Processes
  <1>2. ASSUME ListAttendance("abot") PROVE PaperInv'
    BY <1>2, ListStep DEF Processes
  <1>3. ASSUME NEW p \in Processes, Crash(p) PROVE PaperInv'
    <2>1. job' = [job EXCEPT ![p] = Idle] /\ UNCHANGED <<event, att, papers>>
      BY <1>3 DEF Crash, tables
    <2> QED BY <2>1, JobStep, ApiJob
  <1>4. ASSUME NEW p \in Processes, NEW kind \in Kinds, NEW e \in Events,
               Export(p, kind, e)
        PROVE  PaperInv'
    BY <1>4, ExportStep
  <1>5. ASSUME NEW w \in Workers, NEW e \in Events,
               Confirm(w, e) \/ CheckIn(w, e) \/ CheckInAgain(w, e)
                 \/ \E minutes \in Shifts : CheckOut(w, e, minutes)
        PROVE  PaperInv'
    <2>1. CASE Confirm(w, e)
      <3>1. LET row == [NoRow EXCEPT !.status = "PENDING"] IN row \in Row /\ row # NoRow
        BY DEF NoRow, Row
      <3> QED BY <2>1, <3>1, RowStep DEF Confirm
    <2>2. ASSUME HasRow(w, e)
          PROVE  Exists(e) /\ <<w, e>> \in Roster /\ att[<<w, e>>] \in Row
      <3>1. <<w, e>> \in Roster /\ att[<<w, e>>] # NoRow
        BY <2>2 DEF HasRow
      <3>2. Exists(<<w, e>>[2])
        BY <3>1 DEF PaperInv, RowsTyped
      <3> QED BY <3>1, <3>2 DEF PaperInv, RowsTyped
    <2>3. CASE CheckIn(w, e) \/ CheckInAgain(w, e)
      <3> DEFINE row == [att[<<w, e>>] EXCEPT !.status = "CHECKED_IN"]
      <3>1. HasRow(w, e) /\ SetRow(w, e, row)
        BY <2>3 DEF CheckIn, CheckInAgain
      <3>2. row \in Row /\ row.status = "CHECKED_IN"
        BY <3>1, <2>2 DEF Row
      <3>3. row # NoRow
        BY <3>2 DEF NoRow
      <3> HIDE DEF row
      <3> QED BY <3>1, <3>2, <3>3, <2>2, RowStep
    <2>4. ASSUME NEW minutes \in Shifts, CheckOut(w, e, minutes) PROVE PaperInv'
      <3> DEFINE row == [status |-> "COMPLETED", out |-> TRUE, minutes |-> minutes]
      <3>1. HasRow(w, e) /\ SetRow(w, e, row)
        BY <2>4 DEF CheckOut
      <3>2. row \in Row /\ row # NoRow
        BY EarningsAssumption DEF Row, NoRow
      <3> HIDE DEF row
      <3> QED BY <3>1, <3>2, <2>2, RowStep
    <2> QED BY <1>5, <2>1, <2>3, <2>4
  <1>6. ASSUME NEW w \in Workers, NEW e \in Events,
               DownloadStatement(w, e) \/ DownloadCertificate(w, e)
        PROVE  PaperInv'
    BY <1>6, DownloadStep DEF DownloadStatement, DownloadCertificate
  <1>7. ASSUME NEW row \in Event PROVE row # Gone
    <2>1. row.date \in Months \cup {BotDate} /\ Gone.date = "gone" /\ BotDate = "bot_date"
      BY DEF Event, Gone, BotDate
    <2> QED BY <2>1, EarningsAssumption
  <1>8. ASSUME NEW e \in Events, UpdateEvent(e) PROVE PaperInv'
    <2>1. PICK pay \in Pays, date \in Months :
            SetEvent("api", e, [pay |-> pay, date |-> date])
      BY <1>8 DEF UpdateEvent
    <2>2. [pay |-> pay, date |-> date] \in Event
      BY DEF Event
    <2> QED BY <2>1, <2>2, <1>7, EventStep
  <1>9. ASSUME NEW e \in Events, Exists(e) PROVE event[e] \in Event
    BY <1>9 DEF PaperInv, EventsTyped, Exists
  <1>10. ASSUME NEW e \in Events, EditDate(e) PROVE PaperInv'
    <2> DEFINE row == [event[e] EXCEPT !.date = BotDate]
    <2>1. Exists(e) /\ SetEvent("abot", e, row)
      BY <1>10 DEF EditDate
    <2>2. row \in Event
      BY <2>1, <1>9 DEF Event
    <2> HIDE DEF row
    <2> QED BY <2>1, <2>2, <1>7, EventStep
  <1>11. ASSUME NEW e \in Events, NEW pay \in Pays, EditPay(e, pay) PROVE PaperInv'
    <2> DEFINE row == [event[e] EXCEPT !.pay = pay]
    <2>1. Exists(e) /\ SetEvent("abot", e, row)
      BY <1>11 DEF EditPay
    <2>2. row \in Event
      BY <2>1, <1>9 DEF Event
    <2> HIDE DEF row
    <2> QED BY <2>1, <2>2, <1>7, EventStep
  <1>12. ASSUME NEW e \in Events, DeleteEvent(e) PROVE PaperInv'
    BY <1>12, DeleteStep
  <1>13. ASSUME NEW r \in papers, NEW b \in Amounts, NEW s \in Amounts, FillIn(r, b, s)
         PROVE  PaperInv'
    BY <1>13, FillInStep
  <1>14. CASE UNCHANGED vars
    BY <1>14 DEF vars, PaperInv, EventsTyped, RowsTyped, JobsTyped, PapersNetted, DueListed,
                 WorkDoneIsOnSheet, ReportsAreWhole, Settles, Listed, HasRow, Exists
  <1>15. CASE Next
    BY <1>15, <1>1, <1>2, <1>3, <1>4, <1>5, <1>6, <1>8, <1>10, <1>11, <1>12, <1>13, StartStep
       DEF Next
  <1> QED BY <1>14, <1>15

-----------------------------------------------------------------------------
LEMMA PaperInvHolds == Spec => []PaperInv
  BY PaperInit, PaperNext, PTL DEF Spec

\* For any pay: documents of one pay are within two won of each other, in the
\* order sheet, certificate, statement.
THEOREM NetsAgree == Spec => []NetsWithinTwoWon
  <1>1. PaperInv => NetsWithinTwoWon
    <2> SUFFICES ASSUME PaperInv, NEW p \in papers, NEW q \in papers, p.gross = q.gross,
                        Order[p.kind] <= Order[q.kind]
                 PROVE  p.net <= q.net /\ q.net <= p.net + Order[q.kind]
      BY DEF NetsWithinTwoWon
    <2>1. /\ p.kind \in Kinds /\ q.kind \in Kinds /\ p.gross \in Nat
          /\ p.net = Net(p.kind, p.gross) /\ q.net = Net(q.kind, p.gross)
      BY DEF PaperInv, PapersNetted
    <2> QED BY <2>1, NetsInOrder
  <1> QED BY <1>1, PaperInvHolds, PTL

\* For any workers and events, and any order of the steps of the exporter and of
\* the others: a payroll sheet has a row for whoever had worked when it was begun.
THEOREM SheetsLeaveNoOneOut == Spec => []WorkDoneIsOnSheet
  <1>1. PaperInv => WorkDoneIsOnSheet
    BY DEF PaperInv
  <1> QED BY <1>1, PaperInvHolds, PTL

-----------------------------------------------------------------------------
(* Types, and how far a handler has come: it is at a statement of a worker *)
(* and a month only if it has both, and has read what it is to write.      *)

JobGoes(p, j) ==
    /\ j.pc = "list" => j.kind \in {"sheet", "report"} /\ j.event \in Events
    /\ j.pc \in {"counts", "earnings", "upsert", "sum", "update"} =>
          p = "api" /\ j.todo # << >>
    /\ j.pc \in {"counts", "earnings", "upsert"} => j.month \in Months
    /\ j.pc \in {"earnings", "upsert"} => j.read \in Stats
    /\ j.pc = "update" => j.read \in Total
    /\ j.kind = "batch" => j.month \in Months

CountsTyped ==
    /\ monthly \in [Workers -> [Months -> Stats]] /\ total \in [Workers -> Total]
    /\ fresh \subseteq Workers \X (Months \cup {"total"}) /\ clean \in BOOLEAN
HandlersGo ==
    job \in [Processes -> Job] /\ \A p \in Processes : JobGoes(p, job[p])
BudgetTyped == left \in Budget /\ changes \in 0 .. MaxChanges
\* What is deducted and what remains of a report's pay.
PapersBalance ==
    papers \subseteq Paper /\ \A r \in papers : r.kind = "report" => r.net + r.deducted = r.gross

GoInv == EventsTyped /\ RowsTyped /\ CountsTyped /\ HandlersGo /\ BudgetTyped /\ PapersBalance

LEMMA GoTyped == GoInv => TypeOK
  BY DEF GoInv, TypeOK, EventsTyped, RowsTyped, CountsTyped, HandlersGo, BudgetTyped,
         PapersBalance

LEMMA GoKept ==
    /\ EventsTyped /\ UNCHANGED event => EventsTyped'
    /\ RowsTyped /\ UNCHANGED <<event, att>> => RowsTyped'
    /\ CountsTyped /\ UNCHANGED <<monthly, total, fresh, clean>> => CountsTyped'
    /\ HandlersGo /\ UNCHANGED job => HandlersGo'
    /\ BudgetTyped /\ UNCHANGED <<left, changes>> => BudgetTyped'
    /\ PapersBalance /\ UNCHANGED papers => PapersBalance'
  BY DEF EventsTyped, RowsTyped, Exists, CountsTyped, HandlersGo, BudgetTyped, PapersBalance

\* A row that is there, its event, and its pay.
LEMMA RowTyped ==
    ASSUME EventsTyped, RowsTyped, NEW w, NEW e, HasRow(w, e)
    PROVE  /\ w \in Workers /\ e \in Events /\ <<w, e>> \in Roster /\ att[<<w, e>>] \in Row
           /\ Exists(e) /\ event[e] \in Event
  <1>1. <<w, e>> \in Roster /\ att[<<w, e>>] # NoRow
    BY DEF HasRow
  <1>2. w \in Workers /\ e \in Events
    BY <1>1, EarningsAssumption
  <1>3. Exists(<<w, e>>[2])
    BY <1>1 DEF RowsTyped
  <1>4. Exists(e)
    BY <1>3
  <1> QED BY <1>1, <1>2, <1>4 DEF EventsTyped, RowsTyped, Exists

LEMMA PaysTyped ==
    ASSUME EventsTyped
    PROVE  \A e \in Events : event[e].pay \in Nat
  <1>1. \A e \in Events : event[e] \in Event \/ event[e] = Gone
    BY DEF EventsTyped
  <1>2. Gone.pay \in Nat
    BY DEF Gone
  <1>3. \A v \in Event : v.pay \in Nat
    BY EarningsAssumption DEF Event
  <1> QED BY <1>1, <1>2, <1>3

\* The rows of a worker are finitely many.
LEMMA RowsFinite ==
    ASSUME NEW w, NEW S \in SUBSET RowsOf(w)
    PROVE  S \subseteq Events /\ IsFiniteSet(S) /\ Cardinality(S) \in Nat
  <1>1. S \subseteq Events
    BY DEF RowsOf
  <1> QED BY <1>1, EarningsAssumption, FS_Subset, FS_CardinalityType

LEMMA MinutesTyped ==
    ASSUME EventsTyped, RowsTyped, NEW w, NEW S \in SUBSET RowsOf(w)
    PROVE  Minutes(w, S) \in Nat
  <1> DEFINE f == [e \in S |-> att[<<w, e>>].minutes]
  <1>1. \A e \in S : f[e] \in Nat
    <2> SUFFICES ASSUME NEW e \in S PROVE att[<<w, e>>].minutes \in Nat
      OBVIOUS
    <2>1. HasRow(w, e)
      BY DEF RowsOf
    <2>2. att[<<w, e>>] \in Row
      BY <2>1, RowTyped
    <2> QED BY <2>2 DEF Row
  <1>2. IsFiniteSet(S)
    BY RowsFinite
  <1> HIDE DEF f
  <1>3. SumOver(S, f) \in Nat
    BY <1>1, <1>2, SumOverNat
  <1> QED BY <1>3 DEF Minutes, f

LEMMA PayTyped ==
    ASSUME EventsTyped, NEW S \in SUBSET Events
    PROVE  PayOf(S) \in Nat
  <1> DEFINE f == [e \in S |-> event[e].pay]
  <1>1. \A e \in S : f[e] \in Nat
    BY PaysTyped
  <1>2. IsFiniteSet(S)
    BY EarningsAssumption, FS_Subset
  <1> HIDE DEF f
  <1>3. SumOver(S, f) \in Nat
    BY <1>1, <1>2, SumOverNat
  <1> QED BY <1>3 DEF PayOf, f

LEMMA HoursTyped == \A n \in Nat : n \div 60 \in Nat
  OBVIOUS

LEMMA ReliabilityTyped == \A n \in Nat : Reliability(n) \in 0 .. 100
  BY DEF Reliability

\* All workers, one after the other.
LEMMA WorkersListed ==
    SetToSeq(Workers) \in Seq(Workers) /\ SetToSeq(Workers) # << >>
  <1> DEFINE n == Cardinality(Workers)
  <1>1. n \in Nat /\ ExistsBijection(1 .. n, Workers)
    BY EarningsAssumption, FS_CardinalityType
  <1>2. PICK f \in Bijection(1 .. n, Workers) : TRUE
    BY <1>1 DEF ExistsBijection
  <1>3. f \in [1 .. n -> Workers] /\ IsInjective(f)
    BY <1>2 DEF Bijection, Injection, IsInjective
  <1>4. PICK s : s = SetToSeq(Workers)
    OBVIOUS
  <1>5. s = CHOOSE g \in [1 .. n -> Workers] : IsInjective(g)
    BY <1>4 DEF SetToSeq
  <1>6. s \in [1 .. n -> Workers]
    BY <1>3, <1>5
  <1>7. n # 0
    BY EarningsAssumption, FS_EmptySet
  <1> HIDE DEF n
  <1>8. s \in Seq(Workers) /\ DOMAIN s = 1 .. n
    BY <1>1, <1>6
  <1>9. s # << >>
    BY <1>1, <1>7, <1>8
  <1> QED BY <1>4, <1>8, <1>9

-----------------------------------------------------------------------------
(* The steps keep the types.                                               *)

LEMMA IdleGoes == Idle \in Job /\ \A p : JobGoes(p, Idle)
  BY DEF Idle, Job, JobGoes, NoStats, Stats, NoOne

LEMMA HandlerStep ==
    ASSUME HandlersGo, NEW p \in Processes, NEW next \in Job, JobGoes(p, next),
           job' = [job EXCEPT ![p] = next]
    PROVE  HandlersGo'
  <1>1. job' \in [Processes -> Job]
    BY DEF HandlersGo
  <1>2. \A q \in Processes : job'[q] = IF q = p THEN next ELSE job[q]
    BY DEF HandlersGo
  <1>3. \A q \in Processes : JobGoes(q, job'[q])
    BY <1>2 DEF HandlersGo
  <1> QED BY <1>1, <1>3 DEF HandlersGo

LEMMA DisturbTyped == CountsTyped /\ Disturb /\ UNCHANGED <<monthly, total>> => CountsTyped'
  BY DEF CountsTyped, Disturb

LEMMA StartTyped ==
    ASSUME BudgetTyped, NEW p, NEW what \in {"papers", "stats"}, NEW next,
           Start(p, what, next), UNCHANGED changes
    PROVE  BudgetTyped'
  <1>1. left' = [left EXCEPT ![what] = @ - 1] /\ left[what] > 0
    BY DEF Start
  <1>2. left \in Budget
    BY DEF BudgetTyped
  <1>3. left' \in Budget
    <2>1. CASE what = "papers"
      BY <1>1, <1>2, <2>1 DEF Budget
    <2>2. CASE what = "stats"
      BY <1>1, <1>2, <2>2 DEF Budget
    <2> QED BY <2>1, <2>2
  <1> QED BY <1>3 DEF BudgetTyped

LEMMA ChangeTyped ==
    BudgetTyped /\ changes < MaxChanges /\ changes' = changes + 1 /\ UNCHANGED left
        => BudgetTyped'
  BY EarningsAssumption DEF BudgetTyped

LEMMA GoInit == Init => GoInv
  <1> SUFFICES ASSUME Init PROVE GoInv
    OBVIOUS
  <1>1. EventsTyped /\ RowsTyped
    BY PaperInit DEF PaperInv
  <1>2. CountsTyped
    <2>1. NoStats \in Stats /\ NoTotal \in Total
      BY DEF NoStats, Stats, NoTotal, Total
    <2> QED BY <2>1 DEF Init, CountsTyped
  <1>3. HandlersGo
    BY IdleGoes DEF Init, HandlersGo
  <1>4. BudgetTyped /\ PapersBalance
    BY EarningsAssumption DEF Init, BudgetTyped, PapersBalance
  <1> QED BY <1>1, <1>2, <1>3, <1>4 DEF GoInv

LEMMA RowGoes ==
    ASSUME GoInv, PaperInv', NEW w, NEW e, NEW row, SetRow(w, e, row),
           UNCHANGED changes \/ (changes < MaxChanges /\ changes' = changes + 1)
    PROVE  GoInv'
  <1>1. EventsTyped' /\ RowsTyped'
    BY DEF PaperInv
  <1>2. CountsTyped' /\ HandlersGo' /\ BudgetTyped' /\ PapersBalance'
    BY GoKept, DisturbTyped, ChangeTyped DEF GoInv, SetRow
  <1> QED BY <1>1, <1>2 DEF GoInv

LEMMA EventGoes ==
    ASSUME GoInv, PaperInv', NEW p, NEW e,
           DeleteEvent(e) \/ \E row : SetEvent(p, e, row)
    PROVE  GoInv'
  <1>1. EventsTyped' /\ RowsTyped'
    BY DEF PaperInv
  <1>2. /\ Disturb /\ changes < MaxChanges /\ changes' = changes + 1
        /\ UNCHANGED <<monthly, total, papers, job, left>>
    BY DEF DeleteEvent, SetEvent, Change
  <1>3. CountsTyped' /\ HandlersGo' /\ BudgetTyped' /\ PapersBalance'
    BY <1>2, GoKept, DisturbTyped, ChangeTyped DEF GoInv
  <1> QED BY <1>1, <1>3 DEF GoInv

\* The steps of a handler that changes nothing but itself.
LEMMA OnlyGoes ==
    ASSUME GoInv, NEW p \in Processes, NEW next \in Job, JobGoes(p, next),
           job' = [job EXCEPT ![p] = next],
           UNCHANGED <<tables, papers, counted, left, changes>>
    PROVE  GoInv'
  <1>1. HandlersGo'
    BY HandlerStep DEF GoInv
  <1> QED BY <1>1, GoKept DEF GoInv, tables, counted

-----------------------------------------------------------------------------
(* Documents.                                                              *)

LEMMA ExportGoes ==
    ASSUME GoInv, NEW p \in Processes, NEW kind, NEW e \in Events,
           Export(p, kind, e)
    PROVE  GoInv'
  <1> DEFINE next == [Idle EXCEPT !.pc = "list", !.kind = kind, !.event = e,
                                  !.pay = event[e].pay, !.due = Due(e)]
  <1>1. /\ Exists(e) /\ kind \in {"sheet", "report"} /\ Start(p, "papers", next)
        /\ UNCHANGED <<tables, papers, counted, changes>>
    BY DEF Export
  <1>2. event[e].pay \in Nat /\ Due(e) \in SUBSET Workers
    BY PaysTyped DEF GoInv, Due
  <1>3. next \in Job /\ next.kind = kind /\ next.event = e /\ next.pc = "list"
    BY <1>1, <1>2, IdleGoes DEF Job, Kinds
  <1> HIDE DEF next
  <1>4. JobGoes(p, next)
    BY <1>1, <1>3 DEF JobGoes
  <1>5. HandlersGo' /\ BudgetTyped'
    BY <1>1, <1>3, <1>4, HandlerStep, StartTyped DEF GoInv, Start
  <1> QED BY <1>1, <1>5, GoKept DEF GoInv, tables, counted

LEMMA NetsTyped ==
    ASSUME NEW kind \in Kinds, NEW g \in Nat
    PROVE  /\ Net(kind, g) \in Nat /\ Deduction(g) \in Nat
           /\ kind = "report" => Net(kind, g) + Deduction(g) = g
  <1>1. 967 * g \in Nat /\ 33 * g \in Nat /\ 30 * g \in Nat /\ 3 * g \in Nat
    OBVIOUS
  <1> DEFINE s == (967 * g) \div 1000
             c == (33 * g) \div 1000
             i == (30 * g) \div 1000
             l == (3 * g) \div 1000
  <1>2. s \in Nat /\ 1000 * s <= 967 * g /\ c \in Nat /\ 1000 * c <= 33 * g
    BY <1>1, Floor
  <1>3. i \in Nat /\ 1000 * i <= 30 * g /\ l \in Nat /\ 1000 * l <= 3 * g
    BY <1>1, Floor
  <1>4. /\ SheetNet(g) = s /\ CertificateNet(g) = g - c /\ StatementNet(g) = g - i - l
        /\ Deduction(g) = g - s
    BY DEF SheetNet, CertificateNet, StatementNet, Deduction
  <1> HIDE DEF s, c, i, l
  <1>5. s \in Nat /\ g - c \in Nat /\ g - i - l \in Nat /\ g - s \in Nat /\ s + (g - s) = g
    BY <1>2, <1>3
  <1>6. Net(kind, g) = IF kind = "statement" THEN g - i - l
                       ELSE IF kind = "certificate" THEN g - c ELSE s
    BY <1>4 DEF Net, Kinds
  <1> QED BY <1>4, <1>5, <1>6

LEMMA PaperTyped ==
    ASSUME NEW kind \in Kinds, NEW e \in Events, NEW staff \in SUBSET Workers,
           NEW due \in SUBSET Workers, NEW g \in Nat
    PROVE  LET r == NewPaper(kind, e, staff, due, g) IN
           r \in Paper /\ (r.kind = "report" => r.net + r.deducted = r.gross)
  <1> DEFINE n == Net(kind, g)
             d == Deduction(g)
             r == [kind |-> kind, event |-> e, staff |-> staff, missed |-> due \ staff,
                   gross |-> g, net |-> n, deducted |-> d, billed |-> << >>, spent |-> << >>]
  <1>1. n \in Nat /\ d \in Nat /\ (kind = "report" => n + d = g)
    BY NetsTyped
  <1>2. NewPaper(kind, e, staff, due, g) = r
    BY DEF NewPaper
  <1> HIDE DEF n, d
  <1>3. r \in Paper
    BY <1>1 DEF Paper
  <1>4. r.kind = kind /\ r.net = n /\ r.deducted = d /\ r.gross = g
    OBVIOUS
  <1> HIDE DEF r
  <1> QED BY <1>1, <1>2, <1>3, <1>4

LEMMA HandTyped ==
    ASSUME PapersBalance, NEW kind \in Kinds, NEW e \in Events, NEW staff \in SUBSET Workers,
           NEW due \in SUBSET Workers, NEW g \in Nat, Hand(NewPaper(kind, e, staff, due, g))
    PROVE  PapersBalance'
  <1> DEFINE r == NewPaper(kind, e, staff, due, g)
  <1>1. r \in Paper /\ (r.kind = "report" => r.net + r.deducted = r.gross)
    BY PaperTyped
  <1>2. papers' = papers \cup {r}
    BY DEF Hand
  <1> HIDE DEF r
  <1> QED BY <1>1, <1>2 DEF PapersBalance

LEMMA ListGoes ==
    ASSUME GoInv, NEW p \in Processes, ListAttendance(p)
    PROVE  GoInv'
  <1> DEFINE j == job[p]
             staff == Listed(j.event)
  <1>1. /\ j.pc = "list" /\ job' = [job EXCEPT ![p] = Idle]
        /\ UNCHANGED <<tables, counted, left, changes>>
        /\ UNCHANGED papers \/ Hand(NewPaper(j.kind, j.event, staff, j.due, j.pay))
    BY DEF ListAttendance
  <1>2. j \in Job /\ JobGoes(p, j)
    BY DEF GoInv, HandlersGo
  <1>3. /\ j.kind \in Kinds /\ j.event \in Events /\ j.due \in SUBSET Workers /\ j.pay \in Nat
        /\ staff \in SUBSET Workers
    BY <1>1, <1>2 DEF JobGoes, Job, Kinds, Listed
  <1>4. HandlersGo'
    BY <1>1, IdleGoes, HandlerStep DEF GoInv
  <1> HIDE DEF j, staff
  <1>5. PapersBalance'
    BY <1>1, <1>3, HandTyped, GoKept DEF GoInv
  <1> QED BY <1>1, <1>4, <1>5, GoKept DEF GoInv, tables, counted

LEMMA DownloadGoes ==
    ASSUME GoInv, NEW kind \in {"statement", "certificate"}, NEW w, NEW e,
           DownloadPaper(kind, w, e)
    PROVE  GoInv'
  <1>1. /\ HasRow(w, e) /\ Start("api", "papers", Idle)
        /\ Hand(NewPaper(kind, e, {w}, {w}, event[e].pay))
        /\ UNCHANGED <<tables, counted, changes>>
    BY DEF DownloadPaper
  <1>2. w \in Workers /\ e \in Events
    BY <1>1, RowTyped DEF GoInv
  <1>3. PICK g \in Nat : g = event[e].pay
    BY <1>2, PaysTyped DEF GoInv
  <1>4. PapersBalance'
    BY <1>1, <1>2, <1>3, HandTyped DEF GoInv, Kinds
  <1>5. HandlersGo' /\ BudgetTyped'
    BY <1>1, IdleGoes, HandlerStep, StartTyped DEF GoInv, Start, Processes
  <1> QED BY <1>1, <1>4, <1>5, GoKept DEF GoInv, tables, counted

LEMMA FillInGoes ==
    ASSUME GoInv, NEW r \in papers, NEW b \in Amounts, NEW s \in Amounts, FillIn(r, b, s)
    PROVE  GoInv'
  <1> DEFINE new == [r EXCEPT !.billed = <<b>>, !.spent = <<s>>]
  <1>1. /\ papers' = (papers \ {r}) \cup {new}
        /\ UNCHANGED <<tables, counted, job, left, changes>>
    BY DEF FillIn
  <1>2. r \in Paper
    BY DEF GoInv, PapersBalance
  <1>3. <<b>> \in Seq(Nat) /\ <<s>> \in Seq(Nat)
    BY EarningsAssumption
  <1>4. new \in Paper
    BY <1>2, <1>3 DEF Paper
  <1>5. new.kind = r.kind /\ new.net = r.net /\ new.deducted = r.deducted /\ new.gross = r.gross
    BY <1>2 DEF Paper
  <1> HIDE DEF new
  <1>6. PapersBalance'
    BY <1>1, <1>4, <1>5 DEF GoInv, PapersBalance
  <1> QED BY <1>1, <1>6, GoKept DEF GoInv, tables, counted

-----------------------------------------------------------------------------
(* Statistics.                                                             *)

LEMMA ApiGoes == HandlersGo => Api \in Job /\ JobGoes("api", Api) /\ "api" \in Processes
  BY DEF HandlersGo, Api, Processes

\* A handler at a statement of a worker.
LEMMA WorkerGoes ==
    ASSUME HandlersGo, Api.pc \in {"counts", "earnings", "upsert", "sum", "update"}
    PROVE  /\ Worker \in Workers /\ Api.todo \in Seq(Workers) /\ Api.todo # << >>
           /\ Tail(Api.todo) \in Seq(Workers)
  <1>1. Api.todo \in Seq(Workers) /\ Api.todo # << >>
    BY ApiGoes DEF Job, JobGoes
  <1>2. Head(Api.todo) \in Workers /\ Tail(Api.todo) \in Seq(Workers)
    BY <1>1, HeadTailProperties
  <1> QED BY <1>1, <1>2 DEF Worker

LEMMA OnwardGoes ==
    ASSUME NEW j \in Job, j.todo # << >>, j.kind = "batch" => j.month \in Months
    PROVE  Onward(j) \in Job /\ JobGoes("api", Onward(j))
  <1> DEFINE rest == Tail(j.todo)
             pc == IF rest = << >> THEN "answer" ELSE IF j.kind = "batch" THEN "counts" ELSE "sum"
             next == [j EXCEPT !.todo = rest, !.read = NoStats, !.pc = pc]
  <1>1. j.todo \in Seq(Workers)
    BY DEF Job
  <1>2. rest \in Seq(Workers)
    BY <1>1, HeadTailProperties
  <1>3. Onward(j) = next
    BY DEF Onward
  <1>4. /\ pc \in {"answer", "counts", "sum"} /\ (pc # "answer" => rest # << >>)
        /\ pc = "counts" => j.kind = "batch"
    OBVIOUS
  <1>5. NoStats \in Stats
    BY DEF NoStats, Stats
  <1> HIDE DEF rest, pc
  <1>6. next \in Job
    BY <1>2, <1>4, <1>5 DEF Job
  <1>7. /\ next.pc = pc /\ next.todo = rest
        /\ next.kind = j.kind /\ next.month = j.month
    BY DEF Job
  <1> HIDE DEF next
  <1>8. JobGoes("api", next)
    BY <1>4, <1>7 DEF JobGoes
  <1> QED BY <1>3, <1>6, <1>8

LEMMA GoGoes ==
    ASSUME GoInv, NEW next \in Job, JobGoes("api", next), Go(next)
    PROVE  HandlersGo'
  BY HandlerStep DEF GoInv, Go, Processes

LEMMA ReadCountsGoes == GoInv /\ ReadCounts => GoInv'
  <1> SUFFICES ASSUME GoInv, ReadCounts PROVE GoInv'
    OBVIOUS
  <1> DEFINE rows == RowsIn(Worker, Api.month)
             events == Cardinality(rows)
             done == Cardinality(Completed(Worker, rows))
             hours == Minutes(Worker, rows) \div 60
             read == [events |-> events, completed |-> done, hours |-> hours, earnings |-> 0]
             next == [Api EXCEPT !.pc = "earnings", !.read = read]
  <1>1. /\ Api.pc = "counts" /\ clean' = TRUE /\ Go(next)
        /\ UNCHANGED <<tables, papers, monthly, total, fresh, left, changes>>
    BY DEF ReadCounts, At
  <1>2. Api \in Job /\ JobGoes("api", Api)
    BY ApiGoes DEF GoInv
  <1>3. rows \in SUBSET RowsOf(Worker) /\ Completed(Worker, rows) \in SUBSET RowsOf(Worker)
    BY DEF RowsIn, Completed
  <1>4. events \in Nat /\ done \in Nat /\ hours \in Nat
    BY <1>3, RowsFinite, MinutesTyped, HoursTyped DEF GoInv
  <1> HIDE DEF events, done, hours
  <1>5. read \in Stats
    BY <1>4 DEF Stats
  <1> HIDE DEF read
  <1>6. next \in Job
    BY <1>2, <1>5 DEF Job
  <1>7. JobGoes("api", next)
    BY <1>1, <1>2, <1>5 DEF Job, JobGoes
  <1> HIDE DEF next
  <1>8. HandlersGo'
    BY <1>1, <1>6, <1>7, GoGoes
  <1>9. CountsTyped'
    BY <1>1 DEF GoInv, CountsTyped
  <1> QED BY <1>1, <1>8, <1>9, GoKept DEF GoInv, tables

LEMMA EarnedTyped ==
    ASSUME GoInv, NEW w, NEW m
    PROVE  Earned(w, m) \in Nat
  <1>1. Completed(w, RowsIn(w, m)) \subseteq Events
    BY DEF Completed, RowsIn, RowsOf
  <1> QED BY <1>1, PayTyped DEF GoInv, Earned

LEMMA ReadEarningsGoes == GoInv /\ ReadEarnings => GoInv'
  <1> SUFFICES ASSUME GoInv, ReadEarnings PROVE GoInv'
    OBVIOUS
  <1>1. PICK earned \in Nat : earned = Earned(Worker, Api.month)
    BY EarnedTyped
  <1> DEFINE next == [Api EXCEPT !.pc = "upsert", !.read.earnings = earned]
  <1>2. /\ Api.pc = "earnings" /\ Go(next)
        /\ UNCHANGED <<tables, papers, counted, left, changes>>
    BY <1>1 DEF ReadEarnings, At
  <1>3. Api \in Job /\ JobGoes("api", Api)
    BY ApiGoes DEF GoInv
  <1>4. Api.read \in Stats
    BY <1>2, <1>3 DEF JobGoes
  <1>5. [Api.read EXCEPT !.earnings = earned] \in Stats
    BY <1>4 DEF Stats
  <1>6. next = [Api EXCEPT !.pc = "upsert", !.read = [Api.read EXCEPT !.earnings = earned]]
    OBVIOUS
  <1>7. next \in Job
    BY <1>3, <1>5, <1>6 DEF Job
  <1>8. JobGoes("api", next)
    BY <1>2, <1>3, <1>5, <1>6 DEF Job, JobGoes
  <1> HIDE DEF next
  <1>9. GoInv'
    BY <1>2, <1>3, <1>7, <1>8, ApiGoes, OnlyGoes DEF Go, GoInv
  <1> QED BY <1>9

LEMMA SkipGoes == GoInv /\ SkipWorker => GoInv'
  <1> SUFFICES ASSUME GoInv, SkipWorker PROVE GoInv'
    OBVIOUS
  <1>1. /\ Api.pc \in {"counts", "earnings"} /\ (Go(Onward(Api)) \/ Go(Idle))
        /\ UNCHANGED <<tables, papers, counted, left, changes>>
    BY DEF SkipWorker, At
  <1>2. Api \in Job /\ JobGoes("api", Api) /\ "api" \in Processes
    BY ApiGoes DEF GoInv
  <1>3. Onward(Api) \in Job /\ JobGoes("api", Onward(Api))
    BY <1>1, <1>2, OnwardGoes DEF JobGoes
  <1> QED BY <1>1, <1>2, <1>3, IdleGoes, OnlyGoes DEF Go

LEMMA UpsertGoes == GoInv /\ UpsertMonthly => GoInv'
  <1> SUFFICES ASSUME GoInv, UpsertMonthly PROVE GoInv'
    OBVIOUS
  <1> DEFINE summed == [Api EXCEPT !.pc = "sum", !.read = NoStats]
  <1>1. /\ Api.pc = "upsert" /\ (Go(summed) \/ Go(Idle)) /\ Fresh(Api.month)
        /\ monthly' = [monthly EXCEPT ![Worker][Api.month] = Api.read]
        /\ UNCHANGED <<tables, papers, total, clean, left, changes>>
    BY DEF UpsertMonthly, At
  <1>2. Api \in Job /\ JobGoes("api", Api)
    BY ApiGoes DEF GoInv
  <1>3. Worker \in Workers /\ Api.month \in Months /\ Api.read \in Stats
    BY <1>1, <1>2, WorkerGoes DEF GoInv, JobGoes
  <1>4. summed \in Job
    BY <1>2 DEF Job, NoStats, Stats
  <1>5. JobGoes("api", summed)
    BY <1>1, <1>2 DEF Job, JobGoes
  <1> HIDE DEF summed
  <1>6. HandlersGo'
    BY <1>1, <1>4, <1>5, GoGoes, IdleGoes
  <1>7. CountsTyped'
    <2>1. monthly' \in [Workers -> [Months -> Stats]]
      BY <1>1, <1>3 DEF GoInv, CountsTyped
    <2>2. fresh' \subseteq Workers \X (Months \cup {"total"})
      BY <1>1, <1>3 DEF GoInv, CountsTyped, Fresh
    <2> QED BY <1>1, <2>1, <2>2 DEF GoInv, CountsTyped
  <1> QED BY <1>1, <1>6, <1>7, GoKept DEF GoInv, tables

LEMMA ReadTotalsGoes == GoInv /\ ReadTotals => GoInv'
  <1> SUFFICES ASSUME GoInv, ReadTotals PROVE GoInv'
    OBVIOUS
  <1> DEFINE rows == RowsOf(Worker)
             events == Cardinality(rows)
             hours == Minutes(Worker, rows) \div 60
             score == Reliability(events)
             read == [events |-> events, hours |-> hours, score |-> score]
             next == [Api EXCEPT !.pc = "update", !.read = read]
  <1>1. /\ Api.pc = "sum" /\ clean' = TRUE /\ Go(next)
        /\ UNCHANGED <<tables, papers, monthly, total, fresh, left, changes>>
    BY DEF ReadTotals, At
  <1>2. Api \in Job /\ JobGoes("api", Api)
    BY ApiGoes DEF GoInv
  <1>3. PICK R \in SUBSET RowsOf(Worker) : R = rows
    OBVIOUS
  <1>4. events \in Nat /\ hours \in Nat
    BY <1>3, RowsFinite, MinutesTyped, HoursTyped DEF GoInv
  <1> HIDE DEF events, hours
  <1>5. score \in 0 .. 100
    BY <1>4, ReliabilityTyped
  <1> HIDE DEF score
  <1>6. read \in Total
    BY <1>4, <1>5 DEF Total
  <1> HIDE DEF read
  <1>7. next \in Job
    BY <1>2, <1>6 DEF Job
  <1>8. JobGoes("api", next)
    BY <1>1, <1>2, <1>6 DEF Job, JobGoes
  <1> HIDE DEF next
  <1>9. HandlersGo'
    BY <1>1, <1>7, <1>8, GoGoes
  <1>10. CountsTyped'
    BY <1>1 DEF GoInv, CountsTyped
  <1> QED BY <1>1, <1>9, <1>10, GoKept DEF GoInv, tables

LEMMA UpdateTotalsGoes == GoInv /\ UpdateTotals => GoInv'
  <1> SUFFICES ASSUME GoInv, UpdateTotals PROVE GoInv'
    OBVIOUS
  <1> DEFINE one == [Api EXCEPT !.done = @ + 1]
  <1>1. /\ Api.pc = "update" /\ Go(Onward(one)) /\ Fresh("total")
        /\ total' = [total EXCEPT ![Worker] = Api.read]
        /\ UNCHANGED <<tables, papers, monthly, clean, left, changes>>
    BY DEF UpdateTotals, At
  <1>2. Api \in Job /\ JobGoes("api", Api)
    BY ApiGoes DEF GoInv
  <1>3. Worker \in Workers /\ Api.read \in Total /\ Api.todo # << >>
    BY <1>1, <1>2, WorkerGoes DEF GoInv, JobGoes
  <1>4. one \in Job /\ one.todo = Api.todo /\ one.kind = Api.kind /\ one.month = Api.month
    BY <1>2 DEF Job
  <1> HIDE DEF one
  <1>5. Onward(one) \in Job /\ JobGoes("api", Onward(one))
    BY <1>2, <1>3, <1>4, OnwardGoes DEF JobGoes
  <1>6. HandlersGo'
    BY <1>1, <1>5, GoGoes
  <1>7. CountsTyped'
    BY <1>1, <1>3 DEF GoInv, CountsTyped, Fresh
  <1> QED BY <1>1, <1>6, <1>7, GoKept DEF GoInv, tables

\* What starts a calculation.
LEMMA StatsStartGoes ==
    ASSUME GoInv, NEW next \in Job, JobGoes("api", next), Start("api", "stats", next),
           UNCHANGED <<tables, papers, counted, changes>>
    PROVE  GoInv'
  <1>1. HandlersGo' /\ BudgetTyped'
    BY HandlerStep, StartTyped DEF GoInv, Start, Processes
  <1> QED BY <1>1, GoKept DEF GoInv, tables, counted

LEMMA StartGoes ==
    ASSUME GoInv,
           \/ BatchCumulative
           \/ \E m \in Months : BatchAll(m) \/ \E w \in Workers : CalculateStats(w, m)
    PROVE  GoInv'
  <1>1. PICK s \in Seq(Workers) : s = SetToSeq(Workers) /\ s # << >>
    BY WorkersListed
  <1>2. CASE BatchCumulative
    <2> DEFINE next == [Idle EXCEPT !.pc = "sum", !.kind = "cumulative", !.todo = s]
    <2>1. Start("api", "stats", next) /\ UNCHANGED <<tables, papers, counted, changes>>
      BY <1>1, <1>2 DEF BatchCumulative
    <2>2. next \in Job /\ next.pc = "sum" /\ next.kind = "cumulative" /\ next.todo # << >>
      BY <1>1, IdleGoes DEF Job
    <2> HIDE DEF next
    <2>3. JobGoes("api", next)
      BY <2>2 DEF JobGoes
    <2> QED BY <2>1, <2>2, <2>3, StatsStartGoes
  <1>3. ASSUME NEW m \in Months, BatchAll(m) PROVE GoInv'
    <2> DEFINE next == [Idle EXCEPT !.pc = "counts", !.kind = "batch", !.month = m, !.todo = s]
    <2>1. Start("api", "stats", next) /\ UNCHANGED <<tables, papers, counted, changes>>
      BY <1>1, <1>3 DEF BatchAll
    <2>2. /\ next \in Job /\ next.pc = "counts" /\ next.kind = "batch" /\ next.todo # << >>
          /\ next.month = m
      BY <1>1, IdleGoes DEF Job
    <2> HIDE DEF next
    <2>3. JobGoes("api", next)
      BY <2>2 DEF JobGoes
    <2> QED BY <2>1, <2>2, <2>3, StatsStartGoes
  <1>4. ASSUME NEW m \in Months, NEW w \in Workers, CalculateStats(w, m) PROVE GoInv'
    <2> DEFINE one == <<w>>
    <2>1. one \in Seq(Workers) /\ one # << >>
      OBVIOUS
    <2> HIDE DEF one
    <2> DEFINE next == [Idle EXCEPT !.pc = "counts", !.kind = "month", !.todo = one,
                                    !.month = m]
    <2>2. Start("api", "stats", next) /\ UNCHANGED <<tables, papers, counted, changes>>
      BY <1>4 DEF CalculateStats, one
    <2>3. /\ next \in Job /\ next.pc = "counts" /\ next.kind = "month" /\ next.todo # << >>
          /\ next.month = m
      BY <2>1, IdleGoes DEF Job
    <2> HIDE DEF next
    <2>4. JobGoes("api", next)
      BY <2>3 DEF JobGoes
    <2> QED BY <2>2, <2>3, <2>4, StatsStartGoes
  <1> QED BY <1>2, <1>3, <1>4

-----------------------------------------------------------------------------
LEMMA GoNext == GoInv /\ PaperInv /\ [Next]_vars => GoInv'
  <1> SUFFICES ASSUME GoInv, PaperInv, [Next]_vars PROVE GoInv'
    OBVIOUS
  <1>1. PaperInv'
    BY PaperNext
  <1>2. ASSUME ApiStep PROVE GoInv'
    <2>1. ASSUME Answer PROVE GoInv'
      BY <2>1, IdleGoes, OnlyGoes DEF Answer, Go, Processes
    <2> QED BY <1>2, <2>1, ReadCountsGoes, ReadEarningsGoes, SkipGoes, UpsertGoes,
               ReadTotalsGoes, UpdateTotalsGoes, ListGoes DEF ApiStep, Processes
  <1>3. ASSUME ListAttendance("abot") PROVE GoInv'
    BY <1>3, ListGoes DEF Processes
  <1>4. ASSUME NEW p \in Processes, Crash(p) PROVE GoInv'
    BY <1>4, IdleGoes, OnlyGoes DEF Crash
  <1>5. ASSUME NEW p \in Processes, NEW kind \in Kinds, NEW e \in Events, Export(p, kind, e)
        PROVE  GoInv'
    BY <1>5, ExportGoes
  <1>6. ASSUME NEW w \in Workers, NEW e \in Events,
               Confirm(w, e) \/ CheckIn(w, e) \/ CheckInAgain(w, e)
                 \/ \E minutes \in Shifts : CheckOut(w, e, minutes)
        PROVE  GoInv'
    <2>1. PICK row : SetRow(w, e, row)
      BY <1>6 DEF Confirm, CheckIn, CheckInAgain, CheckOut
    <2>2. UNCHANGED changes \/ (changes < MaxChanges /\ changes' = changes + 1)
      BY <1>6 DEF Confirm, CheckIn, CheckInAgain, CheckOut
    <2> QED BY <1>1, <2>1, <2>2, RowGoes
  <1>7. ASSUME NEW w \in Workers, NEW e \in Events,
               DownloadStatement(w, e) \/ DownloadCertificate(w, e)
        PROVE  GoInv'
    BY <1>7, DownloadGoes DEF DownloadStatement, DownloadCertificate
  <1>8. ASSUME NEW p, NEW e, DeleteEvent(e) \/ \E row : SetEvent(p, e, row) PROVE GoInv'
    BY <1>1, <1>8, EventGoes
  <1>9. ASSUME NEW e \in Events, UpdateEvent(e) \/ EditDate(e) \/ DeleteEvent(e)
        PROVE  GoInv'
    BY <1>9, <1>8 DEF UpdateEvent, EditDate
  <1>10. ASSUME NEW e \in Events, NEW pay \in Pays, EditPay(e, pay) PROVE GoInv'
    BY <1>10, <1>8 DEF EditPay
  <1>11. ASSUME NEW r \in papers, NEW b \in Amounts, NEW s \in Amounts, FillIn(r, b, s)
         PROVE  GoInv'
    BY <1>11, FillInGoes
  <1>12. CASE UNCHANGED vars
    BY <1>12, GoKept DEF vars, GoInv
  <1>13. CASE Next
    BY <1>13, <1>2, <1>3, <1>4, <1>5, <1>6, <1>7, <1>9, <1>10, <1>11, StartGoes DEF Next
  <1> QED BY <1>12, <1>13

LEMMA GoInvHolds == Spec => [](GoInv /\ PaperInv)
  <1>1. Init => GoInv /\ PaperInv
    BY GoInit, PaperInit
  <1>2. GoInv /\ PaperInv /\ [Next]_vars => GoInv' /\ PaperInv'
    BY GoNext, PaperNext
  <1> QED BY <1>1, <1>2, PTL DEF Spec

-----------------------------------------------------------------------------
(* The settlement of a report.                                             *)

LEMMA AddedTyped ==
    ASSUME NEW amounts \in Seq(Nat)
    PROVE  Added(amounts) \in Int
  <1>1. Len(amounts) \in Nat /\ \A i \in 1 .. Len(amounts) : amounts[i] \in Int
    BY LenProperties, ElementOfSeq
  <1> QED BY <1>1, FirstSumType DEF Added

LEMMA VatTyped == \A n \in Nat : Vat(n) \in Nat
  BY DEF Vat

LEMMA BillingTyped ==
    ASSUME NEW r, r.billed \in Seq(Nat)
    PROVE  BillingTotal(r) \in Int
  <1> DEFINE vats == [i \in DOMAIN r.billed |-> Vat(r.billed[i])]
  <1>1. Len(r.billed) \in Nat /\ DOMAIN r.billed = 1 .. Len(r.billed)
    BY LenProperties
  <1>2. \A i \in 1 .. Len(r.billed) : Vat(r.billed[i]) \in Nat
    BY VatTyped, ElementOfSeq
  <1>3. vats \in Seq(Nat)
    BY <1>1, <1>2
  <1> HIDE DEF vats
  <1>4. Added(r.billed) \in Int /\ Added(vats) \in Int
    BY <1>3, AddedTyped
  <1> QED BY <1>4 DEF BillingTotal, vats

\* For any amounts typed into a report of any event, and any order of its two
\* transactions and the steps of others: it has a row for whoever had worked when
\* it was begun, or has no row and its event is gone; if it has rows, its profit
\* is what is billed without their pays, of which the deductions are a part, and
\* without the expenses; and every document and statistic has its type.
THEOREM ReportsBalance == Spec => []ReportInv
  <1>1. GoInv => SettlementBalances
    <2> SUFFICES ASSUME GoInv, NEW r \in papers, r.kind = "report", Settles(r)
                 PROVE  Settlement(r).income = Settlement(r).profit + ExpenseTotal(r)
                                                + Cardinality(r.staff) * (r.net + r.deducted)
      BY DEF SettlementBalances
    <2>1. r \in Paper /\ r.net + r.deducted = r.gross
      BY DEF GoInv, PapersBalance
    <2>2. r.billed \in Seq(Nat) /\ r.spent \in Seq(Nat) /\ r.gross \in Nat
          /\ r.staff \subseteq Workers
      BY <2>1 DEF Paper
    <2>3. Cardinality(r.staff) \in Nat
      BY <2>2, EarningsAssumption, FS_Subset, FS_CardinalityType
    <2> DEFINE income == BillingTotal(r)
               spent == ExpenseTotal(r)
               staff == Cardinality(r.staff)
               labour == staff * r.gross
    <2>4. income \in Int /\ spent \in Int
      BY <2>2, BillingTyped, AddedTyped DEF ExpenseTotal
    <2>5. Settlement(r).income = income /\ Settlement(r).profit = income - (labour + spent)
      BY DEF Settlement, LabourTotal
    <2>6. staff \in Nat /\ labour \in Int
      BY <2>2, <2>3
    <2> HIDE DEF income, spent, staff
    <2>7. staff * (r.net + r.deducted) = labour
      BY <2>1
    <2> HIDE DEF labour
    <2>8. income = (income - (labour + spent)) + spent + labour
      BY <2>4, <2>6
    <2> QED BY <2>5, <2>7, <2>8 DEF income, spent, staff
  <1>2. GoInv /\ PaperInv => ReportInv
    BY <1>1, GoTyped DEF ReportInv, PaperInv
  <1> QED BY <1>2, GoInvHolds, PTL

-----------------------------------------------------------------------------
(* The statistics: what was stored, or read to be stored, since the rows   *)
(* changed last is what the rows give now.                                 *)

Counts(w, m) ==
    [events |-> Cardinality(RowsIn(w, m)), completed |-> Cardinality(Completed(w, RowsIn(w, m))),
     hours |-> Minutes(w, RowsIn(w, m)) \div 60, earnings |-> 0]
MonthOf(w, m) ==
    [events |-> Cardinality(RowsIn(w, m)), completed |-> Cardinality(Completed(w, RowsIn(w, m))),
     hours |-> Minutes(w, RowsIn(w, m)) \div 60, earnings |-> Earned(w, m)]
TotalOf(w) ==
    [events |-> Cardinality(RowsOf(w)), hours |-> Minutes(w, RowsOf(w)) \div 60,
     score |-> Reliability(Cardinality(RowsOf(w)))]
ReadOf(j) ==
    LET w == Head(j.todo) IN
    /\ j.pc = "earnings" => j.read = Counts(w, j.month) /\ ~MustFail(w)
    /\ j.pc = "upsert" => j.read = MonthOf(w, j.month) /\ ~MustFail(w)
    /\ j.pc = "update" => j.read = TotalOf(w)

MonthsCurrent ==
    \A w \in Workers, m \in Months : <<w, m>> \in fresh =>
        monthly[w][m] = MonthOf(w, m) /\ ~MustFail(w)
TotalsCurrent == \A w \in Workers : <<w, "total">> \in fresh => total[w] = TotalOf(w)
ReadCurrent == clean => ReadOf(Api)
\* Whoever is completed has checked out, and only who has checked out has minutes.
SoundRows ==
    \A r \in Roster : /\ att[r].status = "COMPLETED" => att[r].out
                      /\ ~att[r].out => att[r].minutes = 0

CountInv ==
    MonthsCurrent /\ TotalsCurrent /\ ReadCurrent /\ (clean \/ fresh = {}) /\ SoundRows

LEMMA CountInit == Init => CountInv
  <1> SUFFICES ASSUME Init PROVE CountInv
    OBVIOUS
  <1>1. MonthsCurrent /\ TotalsCurrent /\ ReadCurrent /\ fresh = {}
    BY DEF Init, MonthsCurrent, TotalsCurrent, ReadCurrent
  <1>2. SoundRows
    BY DEF Init, SoundRows, NoRow
  <1> QED BY <1>1, <1>2 DEF CountInv

\* While no row changes, nothing read from them does.
LEMMA SameRows ==
    ASSUME UNCHANGED tables
    PROVE  /\ \A w, m : Counts(w, m)' = Counts(w, m) /\ MonthOf(w, m)' = MonthOf(w, m)
           /\ \A w : TotalOf(w)' = TotalOf(w) /\ MustFail(w)' = MustFail(w)
           /\ \A j : ReadOf(j)' = ReadOf(j)
           /\ SoundRows' = SoundRows
  <1>1. event' = event /\ att' = att
    BY DEF tables
  <1>2. \A w : RowsOf(w)' = RowsOf(w)
    BY <1>1 DEF RowsOf, HasRow
  <1>3. \A w, m : RowsIn(w, m)' = RowsIn(w, m)
    BY <1>1, <1>2 DEF RowsIn
  <1>4. \A w, S : Minutes(w, S)' = Minutes(w, S) /\ Completed(w, S)' = Completed(w, S)
    BY <1>1 DEF Minutes, Completed
  <1>5. \A S : PayOf(S)' = PayOf(S)
    BY <1>1 DEF PayOf
  <1>6. \A w, m : Completed(w, RowsIn(w, m))' = Completed(w, RowsIn(w, m))
    BY <1>1, <1>3 DEF Completed
  <1>7. \A w, m : Earned(w, m)' = Earned(w, m)
    BY <1>1, <1>6 DEF Earned, PayOf
  <1>8. \A w, m : Minutes(w, RowsIn(w, m))' = Minutes(w, RowsIn(w, m))
    BY <1>1, <1>3 DEF Minutes
  <1>9. \A w : Minutes(w, RowsOf(w))' = Minutes(w, RowsOf(w))
    BY <1>1, <1>2 DEF Minutes
  <1>10. \A w, m : Counts(w, m)' = Counts(w, m) /\ MonthOf(w, m)' = MonthOf(w, m)
    BY <1>3, <1>6, <1>7, <1>8 DEF Counts, MonthOf
  <1>11. \A w : TotalOf(w)' = TotalOf(w) /\ MustFail(w)' = MustFail(w)
    BY <1>1, <1>2, <1>9 DEF TotalOf, MustFail
  <1>12. \A j : ReadOf(j)' = ReadOf(j)
    BY <1>10, <1>11 DEF ReadOf
  <1>13. SoundRows' = SoundRows
    BY <1>1 DEF SoundRows
  <1> QED BY <1>10, <1>11, <1>12, <1>13

LEMMA DisturbCounts ==
    ASSUME Disturb, SoundRows'
    PROVE  CountInv'
  BY DEF Disturb, CountInv, MonthsCurrent, TotalsCurrent, ReadCurrent

\* A step that leaves the statistics alone, and reads none.
LEMMA OtherCounts ==
    ASSUME CountInv, UNCHANGED <<tables, counted>>, UNCHANGED Api \/ ReadOf(Api')
    PROVE  CountInv'
  <1>1. MonthsCurrent' /\ TotalsCurrent'
    BY SameRows DEF CountInv, MonthsCurrent, TotalsCurrent, counted
  <1>2. ReadCurrent'
    <2>1. PICK j : j = Api'
      OBVIOUS
    <2>2. ReadOf(j)' = ReadOf(j)
      BY SameRows
    <2> QED BY <2>1, <2>2 DEF CountInv, ReadCurrent, counted
  <1> QED BY <1>1, <1>2, SameRows DEF CountInv, counted

LEMMA NothingRead ==
    ASSUME NEW j, j.pc \in {"idle", "list", "counts", "sum", "answer"}
    PROVE  ReadOf(j)
  BY DEF ReadOf

-----------------------------------------------------------------------------
(* The steps keep what is stored, or read, current.                        *)

LEMMA ApiThen ==
    ASSUME HandlersGo, NEW p \in Processes, NEW next, job' = [job EXCEPT ![p] = next]
    PROVE  Api' = IF p = "api" THEN next ELSE Api
  BY DEF HandlersGo, Api, Processes

LEMMA GoThen ==
    ASSUME HandlersGo, NEW next, Go(next)
    PROVE  Api' = next
  BY DEF HandlersGo, Api, Processes, Go

\* A step of a handler which reads no rows into the job.
LEMMA HandlerCounts ==
    ASSUME GoInv, CountInv, NEW p \in Processes, NEW next, ReadOf(next),
           job' = [job EXCEPT ![p] = next], UNCHANGED <<tables, counted>>
    PROVE  CountInv'
  <1>1. Api' = IF p = "api" THEN next ELSE Api
    BY ApiThen DEF GoInv
  <1> QED BY <1>1, OtherCounts

LEMMA CountsRead == GoInv /\ CountInv /\ ReadCounts => CountInv'
  <1> SUFFICES ASSUME GoInv, CountInv, ReadCounts PROVE CountInv'
    OBVIOUS
  <1> DEFINE next == [Api EXCEPT !.pc = "earnings", !.read = Counts(Worker, Api.month)]
  <1>1. /\ ~MustFail(Worker) /\ clean' = TRUE /\ Go(next)
        /\ UNCHANGED <<tables, monthly, total, fresh>>
    BY DEF ReadCounts, Counts
  <1>2. Api \in Job
    BY ApiGoes DEF GoInv
  <1>3. /\ next.pc = "earnings" /\ next.read = Counts(Worker, Api.month)
        /\ next.todo = Api.todo /\ next.month = Api.month
    BY <1>2 DEF Job
  <1> HIDE DEF next
  <1>4. ReadOf(next)
    BY <1>1, <1>3 DEF ReadOf, Worker
  <1>5. Api' = next
    BY <1>1, GoThen DEF GoInv
  <1>6. PICK j : j = next
    OBVIOUS
  <1>7. ReadOf(j)'
    BY <1>1, <1>4, <1>6, SameRows
  <1>8. ReadCurrent'
    BY <1>5, <1>6, <1>7 DEF ReadCurrent
  <1>9. MonthsCurrent' /\ TotalsCurrent' /\ SoundRows'
    BY <1>1, SameRows DEF CountInv, MonthsCurrent, TotalsCurrent
  <1> QED BY <1>1, <1>8, <1>9 DEF CountInv

LEMMA WithEarnings ==
    ASSUME NEW e, NEW c, NEW h, NEW p, NEW q
    PROVE  [[events |-> e, completed |-> c, hours |-> h, earnings |-> q] EXCEPT !.earnings = p]
             = [events |-> e, completed |-> c, hours |-> h, earnings |-> p]
  OBVIOUS

LEMMA EarningsRead == GoInv /\ CountInv /\ ReadEarnings => CountInv'
  <1> SUFFICES ASSUME GoInv, CountInv, ReadEarnings PROVE CountInv'
    OBVIOUS
  <1>1. PICK earned : earned = Earned(Worker, Api.month)
    OBVIOUS
  <1> DEFINE next == [Api EXCEPT !.pc = "upsert", !.read.earnings = earned]
  <1>2. /\ Api.pc = "earnings" /\ ~MustFail(Worker) /\ Go(next)
        /\ UNCHANGED <<tables, counted>>
    BY <1>1 DEF ReadEarnings, At
  <1>3. Api \in Job
    BY ApiGoes DEF GoInv
  <1>4. /\ next.pc = "upsert" /\ next.read = [Api.read EXCEPT !.earnings = earned]
        /\ next.todo = Api.todo /\ next.month = Api.month
    BY <1>3 DEF Job
  <1> HIDE DEF next
  <1>5. Api' = next
    BY <1>2, GoThen DEF GoInv
  <1>6. CASE clean
    <2>1. Api.read = Counts(Worker, Api.month)
      BY <1>2, <1>6 DEF CountInv, ReadCurrent, ReadOf, Worker
    <2>2. next.read = MonthOf(Worker, Api.month)
      BY <1>1, <1>4, <2>1, WithEarnings DEF Counts, MonthOf
    <2>3. ReadOf(next)
      BY <1>2, <1>4, <2>2 DEF ReadOf, Worker
    <2> QED BY <1>2, <1>5, <2>3, OtherCounts
  <1>7. CASE ~clean
    <2>1. MonthsCurrent' /\ TotalsCurrent' /\ SoundRows'
      BY <1>2, SameRows DEF CountInv, MonthsCurrent, TotalsCurrent, counted
    <2>2. ReadCurrent' /\ (clean \/ fresh = {})'
      BY <1>2, <1>7 DEF CountInv, ReadCurrent, counted
    <2> QED BY <2>1, <2>2 DEF CountInv
  <1> QED BY <1>6, <1>7

LEMMA CountsSkipped == GoInv /\ CountInv /\ SkipWorker => CountInv'
  <1> SUFFICES ASSUME GoInv, CountInv, SkipWorker PROVE CountInv'
    OBVIOUS
  <1>1. /\ Go(Onward(Api)) \/ Go(Idle)
        /\ UNCHANGED <<tables, counted>>
    BY DEF SkipWorker
  <1>2. Api \in Job
    BY ApiGoes DEF GoInv
  <1>3. Onward(Api).pc \in {"counts", "sum", "answer"} /\ Idle.pc = "idle"
    BY <1>2 DEF Onward, Job, Idle
  <1>4. ReadOf(Onward(Api)) /\ ReadOf(Idle)
    BY <1>3, NothingRead
  <1> QED BY <1>1, <1>4, HandlerCounts, ApiGoes DEF Go, GoInv

\* What was read is stored for the worker, and is current if it was when it was read.
LEMMA MonthStored == GoInv /\ CountInv /\ UpsertMonthly => CountInv'
  <1> SUFFICES ASSUME GoInv, CountInv, UpsertMonthly PROVE CountInv'
    OBVIOUS
  <1> DEFINE summed == [Api EXCEPT !.pc = "sum", !.read = NoStats]
  <1>1. PICK w \in Workers : w = Worker
    BY WorkerGoes DEF GoInv, UpsertMonthly, At
  <1>2. Api \in Job /\ JobGoes("api", Api)
    BY ApiGoes DEF GoInv
  <1>3. PICK m \in Months : m = Api.month
    BY <1>2 DEF JobGoes, UpsertMonthly, At
  <1>4. /\ Api.pc = "upsert" /\ (Go(summed) \/ Go(Idle))
        /\ fresh' = IF clean THEN fresh \cup {<<w, m>>} ELSE fresh
        /\ monthly' = [monthly EXCEPT ![w][m] = Api.read]
        /\ UNCHANGED <<tables, total, clean>>
    BY <1>1, <1>3 DEF UpsertMonthly, At, Fresh
  <1>5. \A v \in Workers, n \in Months :
           monthly'[v][n] = IF v = w /\ n = m THEN Api.read ELSE monthly[v][n]
    BY <1>4 DEF GoInv, CountsTyped
  <1>6. clean => Api.read = MonthOf(w, m) /\ ~MustFail(w)
    BY <1>1, <1>3, <1>4 DEF CountInv, ReadCurrent, ReadOf, Worker
  <1>7. ASSUME NEW v \in Workers, NEW n \in Months, <<v, n>> \in fresh'
        PROVE  monthly'[v][n] = MonthOf(v, n) /\ ~MustFail(v)
    <2>1. clean
      BY <1>4, <1>7 DEF CountInv
    <2>2. CASE v = w /\ n = m
      BY <1>5, <1>6, <2>1, <2>2
    <2>3. CASE ~(v = w /\ n = m)
      <3>1. <<v, n>> \in fresh
        BY <1>4, <1>7, <2>3
      <3> QED BY <1>5, <2>3, <3>1 DEF CountInv, MonthsCurrent
    <2> QED BY <2>2, <2>3
  <1>8. MonthsCurrent'
    BY <1>4, <1>7, SameRows DEF MonthsCurrent
  <1>9. TotalsCurrent'
    <2>1. m # "total"
      BY EarningsAssumption
    <2>2. \A v : <<v, "total">> \in fresh' => <<v, "total">> \in fresh
      BY <1>4, <2>1
    <2> QED BY <1>4, <2>2, SameRows DEF CountInv, TotalsCurrent
  <1>10. ReadCurrent'
    <2>1. summed.pc = "sum" /\ Idle.pc = "idle"
      BY <1>2 DEF Job, Idle
    <2> HIDE DEF summed
    <2>2. ReadOf(summed) /\ ReadOf(Idle)
      BY <2>1, NothingRead
    <2>3. Api' = summed \/ Api' = Idle
      BY <1>4, GoThen DEF GoInv
    <2>4. PICK j : j = Api'
      OBVIOUS
    <2>5. ReadOf(j)
      BY <2>2, <2>3, <2>4
    <2>6. ReadOf(j)'
      BY <1>4, <2>5, SameRows
    <2> QED BY <2>4, <2>6 DEF ReadCurrent
  <1> QED BY <1>4, <1>8, <1>9, <1>10, SameRows DEF CountInv

LEMMA TotalsRead == GoInv /\ CountInv /\ ReadTotals => CountInv'
  <1> SUFFICES ASSUME GoInv, CountInv, ReadTotals PROVE CountInv'
    OBVIOUS
  <1> DEFINE next == [Api EXCEPT !.pc = "update", !.read = TotalOf(Worker)]
  <1>1. /\ clean' = TRUE /\ Go(next) /\ UNCHANGED <<tables, monthly, total, fresh>>
    BY DEF ReadTotals, TotalOf
  <1>2. Api \in Job
    BY ApiGoes DEF GoInv
  <1>3. next.pc = "update" /\ next.read = TotalOf(Worker) /\ next.todo = Api.todo
    BY <1>2 DEF Job
  <1> HIDE DEF next
  <1>4. ReadOf(next)
    BY <1>1, <1>3 DEF ReadOf, Worker
  <1>5. Api' = next
    BY <1>1, GoThen DEF GoInv
  <1>6. PICK j : j = next
    OBVIOUS
  <1>7. ReadOf(j)'
    BY <1>1, <1>4, <1>6, SameRows
  <1>8. ReadCurrent'
    BY <1>5, <1>6, <1>7 DEF ReadCurrent
  <1>9. MonthsCurrent' /\ TotalsCurrent' /\ SoundRows'
    BY <1>1, SameRows DEF CountInv, MonthsCurrent, TotalsCurrent
  <1> QED BY <1>1, <1>8, <1>9 DEF CountInv

LEMMA TotalsStored == GoInv /\ CountInv /\ UpdateTotals => CountInv'
  <1> SUFFICES ASSUME GoInv, CountInv, UpdateTotals PROVE CountInv'
    OBVIOUS
  <1> DEFINE one == [Api EXCEPT !.done = @ + 1]
  <1>1. PICK w \in Workers : w = Worker
    BY WorkerGoes DEF GoInv, UpdateTotals, At
  <1>2. Api \in Job /\ JobGoes("api", Api)
    BY ApiGoes DEF GoInv
  <1>3. /\ Api.pc = "update" /\ Go(Onward(one))
        /\ fresh' = IF clean THEN fresh \cup {<<w, "total">>} ELSE fresh
        /\ total' = [total EXCEPT ![w] = Api.read]
        /\ UNCHANGED <<tables, monthly, clean>>
    BY <1>1 DEF UpdateTotals, At, Fresh
  <1>4. \A v \in Workers : total'[v] = IF v = w THEN Api.read ELSE total[v]
    BY <1>3 DEF GoInv, CountsTyped
  <1>5. clean => Api.read = TotalOf(w)
    BY <1>1, <1>3 DEF CountInv, ReadCurrent, ReadOf, Worker
  <1>6. ASSUME NEW v \in Workers, <<v, "total">> \in fresh'
        PROVE  total'[v] = TotalOf(v)
    <2>1. clean
      BY <1>3, <1>6 DEF CountInv
    <2>2. v # w => <<v, "total">> \in fresh
      BY <1>3, <1>6
    <2> QED BY <1>4, <1>5, <2>1, <2>2 DEF CountInv, TotalsCurrent
  <1>7. TotalsCurrent'
    BY <1>3, <1>6, SameRows DEF TotalsCurrent
  <1>8. MonthsCurrent'
    <2>1. \A n \in Months : n # "total"
      BY EarningsAssumption
    <2>2. \A v, n : <<v, n>> \in fresh' /\ n \in Months => <<v, n>> \in fresh
      BY <1>3, <2>1
    <2> QED BY <1>3, <2>2, SameRows DEF CountInv, MonthsCurrent
  <1>9. ReadCurrent'
    <2>1. one \in Job
      BY <1>2 DEF Job
    <2> HIDE DEF one
    <2>2. Onward(one).pc \in {"counts", "sum", "answer"}
      BY <2>1 DEF Onward, Job
    <2>3. ReadOf(Onward(one))
      BY <2>2, NothingRead
    <2>4. PICK j : j = Onward(one)
      OBVIOUS
    <2>5. Api' = j
      BY <1>3, <2>4, GoThen DEF GoInv
    <2>6. ReadOf(j)'
      BY <1>3, <2>3, <2>4, SameRows
    <2> QED BY <2>5, <2>6 DEF ReadCurrent
  <1> QED BY <1>3, <1>7, <1>8, <1>9, SameRows DEF CountInv

\* The rows that the other handlers write are sound.
LEMMA RowCounts ==
    ASSUME GoInv, CountInv, NEW w, NEW e, NEW row, SetRow(w, e, row),
           row.status = "COMPLETED" => row.out, ~row.out => row.minutes = 0
    PROVE  CountInv'
  <1>1. att' = [att EXCEPT ![<<w, e>>] = row] /\ Disturb
    BY DEF SetRow
  <1>2. \A r \in Roster : att'[r] = IF r = <<w, e>> THEN row ELSE att[r]
    BY <1>1 DEF GoInv, RowsTyped
  <1>3. SoundRows'
    BY <1>2 DEF CountInv, SoundRows
  <1> QED BY <1>1, <1>3, DisturbCounts

LEMMA EventCounts ==
    ASSUME GoInv, CountInv, NEW p, NEW e, DeleteEvent(e) \/ \E row : SetEvent(p, e, row)
    PROVE  CountInv'
  <1>1. CASE DeleteEvent(e)
    <2>1. Disturb /\ att' = [r \in Roster |-> IF r[2] = e THEN NoRow ELSE att[r]]
      BY <1>1 DEF DeleteEvent
    <2>2. SoundRows'
      BY <2>1 DEF CountInv, SoundRows, NoRow
    <2> QED BY <2>1, <2>2, DisturbCounts
  <1>2. CASE \E row : SetEvent(p, e, row)
    <2>1. Disturb /\ att' = att
      BY <1>2 DEF SetEvent
    <2>2. SoundRows'
      BY <2>1 DEF CountInv, SoundRows
    <2> QED BY <2>1, <2>2, DisturbCounts
  <1> QED BY <1>1, <1>2

LEMMA StartCounts ==
    ASSUME GoInv, CountInv,
           \/ BatchCumulative
           \/ \E m \in Months : BatchAll(m) \/ \E w \in Workers : CalculateStats(w, m)
    PROVE  CountInv'
  <1>1. PICK next : /\ job' = [job EXCEPT !["api"] = next]
                    /\ ReadOf(next) /\ UNCHANGED <<tables, counted>>
    <2>1. CASE BatchCumulative
      <3> DEFINE next == [Idle EXCEPT !.pc = "sum", !.kind = "cumulative",
                                      !.todo = SetToSeq(Workers)]
      <3>1. job' = [job EXCEPT !["api"] = next] /\ UNCHANGED <<tables, counted>>
        BY <2>1 DEF BatchCumulative, Start
      <3>2. next.pc = "sum"
        BY DEF Idle
      <3> HIDE DEF next
      <3>3. ReadOf(next)
        BY <3>2, NothingRead
      <3> QED BY <3>1, <3>3
    <2>2. ASSUME NEW m \in Months, BatchAll(m)
          PROVE  \E next : /\ job' = [job EXCEPT !["api"] = next]
                           /\ ReadOf(next) /\ UNCHANGED <<tables, counted>>
      <3> DEFINE next == [Idle EXCEPT !.pc = "counts", !.kind = "batch", !.month = m,
                                      !.todo = SetToSeq(Workers)]
      <3>1. job' = [job EXCEPT !["api"] = next] /\ UNCHANGED <<tables, counted>>
        BY <2>2 DEF BatchAll, Start
      <3>2. next.pc = "counts"
        BY DEF Idle
      <3> HIDE DEF next
      <3>3. ReadOf(next)
        BY <3>2, NothingRead
      <3> QED BY <3>1, <3>3
    <2>3. ASSUME NEW m \in Months, NEW w \in Workers, CalculateStats(w, m)
          PROVE  \E next : /\ job' = [job EXCEPT !["api"] = next]
                           /\ ReadOf(next) /\ UNCHANGED <<tables, counted>>
      <3> DEFINE next == [Idle EXCEPT !.pc = "counts", !.kind = "month", !.todo = <<w>>,
                                      !.month = m]
      <3>1. job' = [job EXCEPT !["api"] = next] /\ UNCHANGED <<tables, counted>>
        BY <2>3 DEF CalculateStats, Start
      <3>2. next.pc = "counts"
        BY DEF Idle
      <3> HIDE DEF next
      <3>3. ReadOf(next)
        BY <3>2, NothingRead
      <3> QED BY <3>1, <3>3
    <2> QED BY <2>1, <2>2, <2>3
  <1> QED BY <1>1, HandlerCounts DEF Processes

-----------------------------------------------------------------------------
LEMMA CountNext == GoInv /\ CountInv /\ [Next]_vars => CountInv'
  <1> SUFFICES ASSUME GoInv, CountInv, [Next]_vars PROVE CountInv'
    OBVIOUS
  <1>1. ReadOf(Idle)
    BY DEF ReadOf, Idle
  <1>2. ASSUME NEW p \in Processes, ListAttendance(p) PROVE CountInv'
    <2>1. job' = [job EXCEPT ![p] = Idle] /\ UNCHANGED <<tables, counted>>
      BY <1>2 DEF ListAttendance
    <2> QED BY <1>1, <2>1, HandlerCounts
  <1>3. ASSUME ApiStep PROVE CountInv'
    <2>1. ASSUME Answer PROVE CountInv'
      BY <1>1, <2>1, HandlerCounts DEF Answer, Go, Processes
    <2> QED BY <1>2, <1>3, <2>1, CountsRead, EarningsRead, CountsSkipped, MonthStored,
               TotalsRead, TotalsStored DEF ApiStep, Processes
  <1>4. ASSUME NEW p \in Processes, Crash(p) PROVE CountInv'
    <2>1. job' = [job EXCEPT ![p] = Idle] /\ UNCHANGED <<tables, counted>>
      BY <1>4 DEF Crash
    <2> QED BY <1>1, <2>1, HandlerCounts
  <1>5. ASSUME NEW p \in Processes, NEW kind \in Kinds, NEW e \in Events, Export(p, kind, e)
        PROVE  CountInv'
    <2> DEFINE next == [Idle EXCEPT !.pc = "list", !.kind = kind, !.event = e,
                                    !.pay = event[e].pay, !.due = Due(e)]
    <2>1. job' = [job EXCEPT ![p] = next] /\ UNCHANGED <<tables, counted>>
      BY <1>5 DEF Export, Start
    <2>2. next.pc = "list"
      BY DEF Idle
    <2> HIDE DEF next
    <2>3. ReadOf(next)
      BY <2>2, NothingRead
    <2> QED BY <2>1, <2>3, HandlerCounts
  <1>6. ASSUME NEW w \in Workers, NEW e \in Events,
               Confirm(w, e) \/ CheckIn(w, e) \/ CheckInAgain(w, e)
                 \/ \E minutes \in Shifts : CheckOut(w, e, minutes)
        PROVE  CountInv'
    <2>1. CASE Confirm(w, e)
      <3> DEFINE row == [NoRow EXCEPT !.status = "PENDING"]
      <3>1. SetRow(w, e, row) /\ row.status = "PENDING" /\ ~row.out /\ row.minutes = 0
        BY <2>1 DEF Confirm, NoRow
      <3> HIDE DEF row
      <3> QED BY <3>1, RowCounts
    <2>2. CASE CheckIn(w, e) \/ CheckInAgain(w, e)
      <3> DEFINE row == [att[<<w, e>>] EXCEPT !.status = "CHECKED_IN"]
      <3>1. HasRow(w, e) /\ SetRow(w, e, row)
        BY <2>2 DEF CheckIn, CheckInAgain
      <3>2. <<w, e>> \in Roster /\ att[<<w, e>>] \in Row
        BY <3>1, RowTyped DEF GoInv
      <3>3. /\ row.status = "CHECKED_IN" /\ row.out = att[<<w, e>>].out
            /\ row.minutes = att[<<w, e>>].minutes
        BY <3>2 DEF Row
      <3> HIDE DEF row
      <3>4. ~row.out => row.minutes = 0
        BY <3>2, <3>3 DEF CountInv, SoundRows
      <3> QED BY <3>1, <3>3, <3>4, RowCounts
    <2>3. ASSUME NEW minutes \in Shifts, CheckOut(w, e, minutes) PROVE CountInv'
      <3> DEFINE row == [status |-> "COMPLETED", out |-> TRUE, minutes |-> minutes]
      <3>1. SetRow(w, e, row) /\ row.out
        BY <2>3 DEF CheckOut
      <3> HIDE DEF row
      <3> QED BY <3>1, RowCounts
    <2> QED BY <1>6, <2>1, <2>2, <2>3
  <1>7. ASSUME NEW w \in Workers, NEW e \in Events,
               DownloadStatement(w, e) \/ DownloadCertificate(w, e)
        PROVE  CountInv'
    <2>1. job' = [job EXCEPT !["api"] = Idle] /\ UNCHANGED <<tables, counted>>
      BY <1>7 DEF DownloadStatement, DownloadCertificate, DownloadPaper, Start
    <2> QED BY <1>1, <2>1, HandlerCounts DEF Processes
  <1>8. ASSUME NEW e \in Events, UpdateEvent(e) \/ EditDate(e) \/ DeleteEvent(e)
        PROVE  CountInv'
    BY <1>8, EventCounts DEF UpdateEvent, EditDate
  <1>9. ASSUME NEW e \in Events, NEW pay \in Pays, EditPay(e, pay) PROVE CountInv'
    BY <1>9, EventCounts DEF EditPay
  <1>10. ASSUME NEW r \in papers, NEW b \in Amounts, NEW s \in Amounts, FillIn(r, b, s)
         PROVE  CountInv'
    <2>1. UNCHANGED <<tables, counted, job>>
      BY <1>10 DEF FillIn
    <2> QED BY <2>1, OtherCounts DEF Api
  <1>11. CASE UNCHANGED vars
    <2>1. UNCHANGED <<tables, counted, job>>
      BY <1>11 DEF vars, tables, counted
    <2> QED BY <2>1, OtherCounts DEF Api
  <1>12. CASE Next
    BY <1>12, <1>2, <1>3, <1>4, <1>5, <1>6, <1>7, <1>8, <1>9, <1>10, StartCounts
       DEF Next, Processes
  <1> QED BY <1>11, <1>12

LEMMA CountInvHolds == Spec => [](GoInv /\ PaperInv /\ CountInv)
  <1>1. Init => GoInv /\ PaperInv /\ CountInv
    BY GoInit, PaperInit, CountInit
  <1>2. GoInv /\ PaperInv /\ CountInv /\ [Next]_vars => GoInv' /\ PaperInv' /\ CountInv'
    BY GoNext, PaperNext, CountNext
  <1> QED BY <1>1, <1>2, PTL DEF Spec

-----------------------------------------------------------------------------
(* What the stored statistics add up to.                                   *)

LEMMA RowPays ==
    ASSUME GoInv, NEW r \in Roster
    PROVE  r[1] \in Workers /\ r[2] \in Events /\ r = <<r[1], r[2]>> /\ event[r[2]].pay \in Nat
  <1>1. r[1] \in Workers /\ r[2] \in Events /\ r = <<r[1], r[2]>>
    BY EarningsAssumption
  <1> QED BY <1>1, PaysTyped DEF GoInv

LEMMA RosterFinite == IsFiniteSet(Roster)
  BY EarningsAssumption, FS_Product, FS_Subset

\* The rows that are completed and dated in a month.
DoneIn(m) == {r \in Roster : att[r].status = "COMPLETED" /\ event[r[2]].date = m}

LEMMA DoneByWorker ==
    ASSUME NEW m, NEW w \in Workers
    PROVE  Completed(w, RowsIn(w, m)) = {e \in Events : <<w, e>> \in DoneIn(m)}
  <1>1. NoRow.status = "NO_ROW"
    BY DEF NoRow
  <1>2. ASSUME NEW e
        PROVE  e \in Completed(w, RowsIn(w, m)) <=> e \in Events /\ <<w, e>> \in DoneIn(m)
    <2>1. <<w, e>>[2] = e
      OBVIOUS
    <2> QED BY <1>1, <2>1 DEF Completed, RowsIn, RowsOf, HasRow, DoneIn
  <1> QED BY <1>2

LEMMA EarnedByRows ==
    ASSUME GoInv, NEW m
    PROVE  SummaryRevenue(m) = SumOver(DoneIn(m), [r \in Roster |-> event[r[2]].pay])
  <1> DEFINE D == DoneIn(m)
             pay == [r \in Roster |-> event[r[2]].pay]
             P == [w \in Workers |-> {r \in D : r[1] = w}]
             g == [w \in Workers |-> Earned(w, m)]
  <1>1. D \subseteq Roster /\ IsFiniteSet(D)
    BY RosterFinite, FS_Subset DEF DoneIn
  <1>2. \A r \in D : pay[r] \in Int
    BY <1>1, RowPays
  <1>3. ASSUME NEW w \in Workers PROVE g[w] = SumOver(P[w], pay)
    <2> DEFINE T == Completed(w, RowsIn(w, m))
               h == [e \in T |-> event[e].pay]
    <2>1. T = {e \in Events : <<w, e>> \in D} /\ IsFiniteSet(T)
      BY DoneByWorker, EarningsAssumption, FS_Subset
    <2>2. ASSUME NEW e \in T PROVE h[e] \in Int /\ pay[<<w, e>>] = h[e]
      <3>1. <<w, e>> \in Roster /\ <<w, e>>[2] = e
        BY <1>1, <2>1
      <3>2. pay[<<w, e>>] = event[<<w, e>>[2]].pay
        BY <3>1
      <3>3. event[<<w, e>>[2]].pay \in Int
        BY <3>1, RowPays
      <3> HIDE DEF D, T
      <3> QED BY <3>1, <3>2, <3>3
    <2>3. P[w] = PairsOf(w, T)
      <3>1. ASSUME NEW r \in P[w] PROVE \E e \in T : r = <<w, e>>
        <4>1. r \in D /\ r[1] = w
          OBVIOUS
        <4>2. r[2] \in Events /\ r = <<w, r[2]>>
          BY <1>1, <4>1, EarningsAssumption
        <4> QED BY <2>1, <4>1, <4>2
      <3>2. ASSUME NEW e \in T PROVE <<w, e>> \in P[w]
        BY <2>1
      <3> HIDE DEF P, T
      <3> QED BY <3>1, <3>2 DEF PairsOf
    <2>4. g[w] = SumOver(T, h)
      BY DEF Earned, PayOf
    <2> HIDE DEF T, h, P, pay, g
    <2>5. \A e \in T : h[e] \in Int /\ pay[<<w, e>>] = h[e]
      BY <2>2
    <2>6. SumOver(PairsOf(w, T), pay) = SumOver(T, h)
      BY <2>1, <2>5, SumOverPairs
    <2> QED BY <2>3, <2>4, <2>6
  <1>4. \A w \in Workers : P[w] \subseteq D
    OBVIOUS
  <1>5. \A v, w \in Workers : v # w => P[v] \cap P[w] = {}
    OBVIOUS
  <1>6. UNION {P[w] : w \in Workers} = D
    <2>1. ASSUME NEW r \in D PROVE \E w \in Workers : r \in P[w]
      BY <1>1, RowPays
    <2> HIDE DEF P
    <2> QED BY <1>4, <2>1
  <1> HIDE DEF pay, g, D, P
  <1>7. \A w \in Workers : g[w] = SumOver(P[w], pay)
    BY <1>3
  <1>8. IsFiniteSet(Workers)
    BY EarningsAssumption
  <1>9. SumOver(UNION {P[w] : w \in Workers}, pay) = SumOver(Workers, g)
    BY <1>1, <1>2, <1>4, <1>5, <1>7, <1>8, SumOverParts
  <1> QED BY <1>6, <1>9 DEF SummaryRevenue, D, pay, g

\* For any workers, events, months and interleaving: the earnings stored for a
\* month are those of the summary and the revenue page, if they are current.
LEMMA RevenueMatches == GoInv /\ CountInv => EarningsMatchRevenue
  <1> SUFFICES ASSUME GoInv, CountInv, NEW m \in Months, \A w \in Workers : <<w, m>> \in fresh
               PROVE  LET earned == SumOver(Workers, [w \in Workers |-> monthly[w][m].earnings])
                          again == {r \in Roster : att[r].out /\ att[r].status # "COMPLETED"
                                                   /\ event[r[2]].date = m}
                      IN /\ earned = SummaryRevenue(m)
                         /\ earned + SumOver(again, [r \in Roster |-> event[r[2]].pay])
                              = CompletedPay(m)
    BY DEF EarningsMatchRevenue
  <1> DEFINE D == DoneIn(m)
             A == {r \in Roster : att[r].out /\ att[r].status # "COMPLETED"
                                  /\ event[r[2]].date = m}
             pay == [r \in Roster |-> event[r[2]].pay]
             e == [w \in Workers |-> monthly[w][m].earnings]
             g == [w \in Workers |-> Earned(w, m)]
  <1>1. \A w \in Workers : e[w] = g[w]
    <2> SUFFICES ASSUME NEW w \in Workers PROVE monthly[w][m].earnings = Earned(w, m)
      OBVIOUS
    <2>1. monthly[w][m] = MonthOf(w, m)
      BY DEF CountInv, MonthsCurrent
    <2> QED BY <2>1 DEF MonthOf
  <1>2. SumOver(Workers, e) = SummaryRevenue(m)
    <2> HIDE DEF e, g
    <2>1. SumOver(Workers, e) = SumOver(Workers, g)
      BY <1>1, EarningsAssumption, SumOverEqual
    <2> QED BY <2>1 DEF g, SummaryRevenue
  <1>3. SummaryRevenue(m) = SumOver(D, pay)
    BY EarnedByRows
  <1>4. D \cup A = {r \in Roster : att[r].out /\ Exists(r[2]) /\ event[r[2]].date = m}
    <2>1. \A r \in Roster : att[r].status = "COMPLETED" => att[r].out
      BY DEF CountInv, SoundRows
    <2>2. \A x : event[x].date = m => Exists(x)
      <3>1. Gone.date # m
        BY EarningsAssumption
      <3> QED BY <3>1 DEF Exists
    <2> QED BY <2>1, <2>2 DEF DoneIn
  <1>5. D \subseteq Roster /\ A \subseteq Roster /\ D \cap A = {}
    BY DEF DoneIn
  <1>6. IsFiniteSet(D) /\ IsFiniteSet(A)
    BY <1>5, RosterFinite, FS_Subset
  <1>7. \A r \in D \cup A : pay[r] \in Int
    BY <1>5, RowPays
  <1>8. SumOver(D \cup A, pay) = CompletedPay(m)
    BY <1>4 DEF CompletedPay
  <1> HIDE DEF D, A, pay
  <1>9. SumOver(D \cup A, pay) = SumOver(D, pay) + SumOver(A, pay)
    BY <1>5, <1>6, <1>7, SumOverUnion
  <1>10. SumOver(Workers, e) + SumOver(A, pay) = CompletedPay(m)
    BY <1>2, <1>3, <1>8, <1>9
  <1> QED BY <1>2, <1>10 DEF A, pay

\* The rows of a worker whose statistics can be read fall into months.
LEMMA RowsByMonth ==
    ASSUME GoInv, NEW w \in Workers, ~MustFail(w)
    PROVE  /\ \A e \in RowsOf(w) : event[e].date \in Months
           /\ UNION {RowsIn(w, m) : m \in Months} = RowsOf(w)
           /\ \A m, n \in Months : m # n => RowsIn(w, m) \cap RowsIn(w, n) = {}
  <1>1. ASSUME NEW e \in RowsOf(w) PROVE event[e].date \in Months
    <2>1. HasRow(w, e) /\ event[e].date # BotDate
      BY DEF RowsOf, MustFail
    <2>2. event[e] \in Event
      BY <2>1, RowTyped DEF GoInv
    <2> QED BY <2>1, <2>2 DEF Event
  <1>2. \A m : RowsIn(w, m) = {e \in RowsOf(w) : event[e].date = m}
    BY DEF RowsIn
  <1>3. UNION {RowsIn(w, m) : m \in Months} = RowsOf(w)
    BY <1>1, <1>2
  <1> QED BY <1>1, <1>2, <1>3

\* A part of the rows of a worker, by month: how many they are.
LEMMA CountByMonth ==
    ASSUME GoInv, NEW w \in Workers, ~MustFail(w), NEW S \in SUBSET RowsOf(w),
           NEW g, \A m \in Months : g[m] = Cardinality({e \in S : event[e].date = m})
    PROVE  Cardinality(S) = SumOver(Months, g)
  <1> DEFINE P == [m \in Months |-> {e \in S : event[e].date = m}]
  <1>1. IsFiniteSet(S) /\ IsFiniteSet(Months)
    BY RowsFinite, EarningsAssumption
  <1>2. \A e \in S : event[e].date \in Months
    BY RowsByMonth
  <1>3. UNION {P[m] : m \in Months} = S
    BY <1>2
  <1>4. \A m, n \in Months : m # n => P[m] \cap P[n] = {}
    OBVIOUS
  <1>5. \A m \in Months : g[m] = Cardinality(P[m])
    OBVIOUS
  <1> HIDE DEF P
  <1> QED BY <1>1, <1>3, <1>4, <1>5, CardinalityOfParts

LEMMA MinutesByMonth ==
    ASSUME GoInv, NEW w \in Workers, ~MustFail(w),
           NEW g, \A m \in Months : g[m] = Minutes(w, RowsIn(w, m))
    PROVE  Minutes(w, RowsOf(w)) = SumOver(Months, g)
  <1> DEFINE U == RowsOf(w)
             P == [m \in Months |-> RowsIn(w, m)]
             f == [e \in U |-> att[<<w, e>>].minutes]
  <1>1. IsFiniteSet(U) /\ IsFiniteSet(Months)
    BY RowsFinite, EarningsAssumption
  <1>2. /\ UNION {P[m] : m \in Months} = U
        /\ \A m, n \in Months : m # n => P[m] \cap P[n] = {}
    BY RowsByMonth
  <1>3. \A m \in Months : P[m] \subseteq U
    BY DEF RowsIn
  <1>4. \A e \in U : f[e] \in Int
    <2> SUFFICES ASSUME NEW e \in RowsOf(w) PROVE att[<<w, e>>].minutes \in Int
      OBVIOUS
    <2>1. att[<<w, e>>] \in Row
      BY RowTyped DEF GoInv, RowsOf
    <2> QED BY <2>1 DEF Row
  <1>5. ASSUME NEW m \in Months PROVE g[m] = SumOver(P[m], f)
    <2> DEFINE h == [e \in RowsIn(w, m) |-> att[<<w, e>>].minutes]
    <2>1. RowsIn(w, m) \subseteq U /\ P[m] = RowsIn(w, m)
      BY <1>3
    <2>2. \A e \in RowsIn(w, m) : f[e] = h[e]
      BY <2>1
    <2>3. IsFiniteSet(RowsIn(w, m))
      BY <1>1, <2>1, FS_Subset
    <2>4. g[m] = SumOver(RowsIn(w, m), h)
      BY DEF Minutes
    <2> HIDE DEF f, h, P
    <2>5. SumOver(RowsIn(w, m), f) = SumOver(RowsIn(w, m), h)
      BY <2>2, <2>3, SumOverEqual
    <2> QED BY <2>1, <2>4, <2>5
  <1>6. Minutes(w, RowsOf(w)) = SumOver(U, f)
    BY DEF Minutes
  <1> HIDE DEF U, P, f
  <1>7. \A m \in Months : g[m] = SumOver(P[m], f)
    BY <1>5
  <1>8. SumOver(UNION {P[m] : m \in Months}, f) = SumOver(Months, g)
    BY <1>1, <1>2, <1>3, <1>4, <1>7, SumOverParts
  <1> QED BY <1>2, <1>6, <1>8

\* Who has not checked out has no minutes.
LEMMA MinutesAreOut ==
    ASSUME GoInv, CountInv, NEW w \in Workers
    PROVE  Minutes(w, Out(w)) = Minutes(w, RowsOf(w))
  <1> DEFINE U == RowsOf(w)
             A == Out(w)
             f == [e \in U |-> att[<<w, e>>].minutes]
             h == [e \in A |-> att[<<w, e>>].minutes]
  <1>1. IsFiniteSet(U) /\ A \in SUBSET U /\ IsFiniteSet(A)
    BY RowsFinite, FS_Subset DEF Out
  <1>2. ASSUME NEW e \in U PROVE f[e] \in Int /\ (e \notin A => f[e] = 0)
    <2>1. HasRow(w, e)
      BY DEF RowsOf
    <2>2. att[<<w, e>>] \in Row /\ <<w, e>> \in Roster
      BY <2>1, RowTyped DEF GoInv
    <2>3. ~att[<<w, e>>].out => att[<<w, e>>].minutes = 0
      BY <2>2 DEF CountInv, SoundRows
    <2> QED BY <2>2, <2>3 DEF Row, Out
  <1>3. \A e \in A : f[e] = h[e]
    BY <1>1
  <1>4. Minutes(w, RowsOf(w)) = SumOver(U, f) /\ Minutes(w, Out(w)) = SumOver(A, h)
    BY DEF Minutes
  <1> HIDE DEF U, A, f, h
  <1>5. \A e \in U : f[e] \in Int
    BY <1>2
  <1>6. \A e \in U \ A : f[e] = 0
    BY <1>2
  <1>7. SumOver(U, f) = SumOver(A, f)
    BY <1>1, <1>5, <1>6, SumOverDrop
  <1>8. SumOver(A, f) = SumOver(A, h)
    BY <1>1, <1>3, SumOverEqual
  <1> QED BY <1>4, <1>7, <1>8

-----------------------------------------------------------------------------
(* Hours, which are rounded down one by one.                               *)

LEMMA HoursFloor ==
    ASSUME NEW n \in Nat
    PROVE  n \div 60 \in Nat /\ 60 * (n \div 60) <= n /\ n <= 60 * (n \div 60) + 59
  OBVIOUS

\* What is rounded down once is not less than what is rounded down part by part,
\* and by less than the number of parts.
LEMMA HoursOfParts ==
    ASSUME NEW J, IsFiniteSet(J), J # {}, NEW f, NEW h,
           \A x \in J : f[x] \in Nat /\ h[x] = f[x] \div 60
    PROVE  LET hours == SumOver(J, h)
               minutes == SumOver(J, f)
           IN /\ hours \in Int /\ minutes \in Nat /\ Cardinality(J) \in Nat
              /\ 60 * hours <= minutes /\ minutes < 60 * (hours + Cardinality(J))
              /\ minutes \div 60 \in hours .. hours + Cardinality(J) - 1
  <1>1. ASSUME NEW x \in J
        PROVE  /\ f[x] \in Int /\ h[x] \in Int
               /\ 60 * h[x] <= f[x] /\ f[x] <= 60 * h[x] + 59
    <2>1. PICK n \in Nat : n = f[x] /\ h[x] = n \div 60
      OBVIOUS
    <2> QED BY <2>1, HoursFloor
  <1> DEFINE H == SumOver(J, h)
             M == SumOver(J, f)
             c == Cardinality(J)
  <1>2. M \in Nat /\ H \in Int
    BY <1>1, SumOverNat, SumOverType
  <1>3. 60 * H <= M /\ M <= 60 * H + 59 * c
    BY <1>1, SumOfFloors
  <1>4. c \in Nat /\ c # 0
    BY FS_CardinalityType, FS_EmptySet
  <1> HIDE DEF H, M, c
  <1>5. M < 60 * (H + c)
    BY <1>2, <1>3, <1>4
  <1>6. PICK q \in Nat : q = M \div 60 /\ 60 * q <= M /\ M <= 60 * q + 59
    BY <1>2, HoursFloor
  <1>7. q \in H .. H + c - 1
    BY <1>2, <1>3, <1>4, <1>5, <1>6
  <1> QED BY <1>2, <1>3, <1>4, <1>5, <1>6, <1>7 DEF H, M, c

-----------------------------------------------------------------------------
(* The three parts of MonthsAddUp.                                         *)

LEMMA FieldsOf ==
    ASSUME NEW w, NEW m
    PROVE  /\ MonthOf(w, m).events = Cardinality(RowsIn(w, m))
           /\ MonthOf(w, m).completed = Cardinality(Completed(w, RowsIn(w, m)))
           /\ MonthOf(w, m).hours = Minutes(w, RowsIn(w, m)) \div 60
           /\ TotalOf(w).events = Cardinality(RowsOf(w))
           /\ TotalOf(w).hours = Minutes(w, RowsOf(w)) \div 60
  <1> DEFINE e == Cardinality(RowsIn(w, m))
             c == Cardinality(Completed(w, RowsIn(w, m)))
             h == Minutes(w, RowsIn(w, m)) \div 60
             p == Earned(w, m)
             k == Cardinality(RowsOf(w))
             n == Minutes(w, RowsOf(w)) \div 60
             s == Reliability(k)
  <1>1. /\ MonthOf(w, m) = [events |-> e, completed |-> c, hours |-> h, earnings |-> p]
        /\ TotalOf(w) = [events |-> k, hours |-> n, score |-> s]
    BY DEF MonthOf, TotalOf
  <1> HIDE DEF e, c, h, p, k, n, s
  <1>2. /\ MonthOf(w, m).events = e /\ MonthOf(w, m).completed = c
        /\ MonthOf(w, m).hours = h /\ TotalOf(w).events = k /\ TotalOf(w).hours = n
    BY <1>1
  <1> QED BY <1>2 DEF e, c, h, k, n

\* One worker: events exactly, hours but for less than one a month.
LEMMA TotalsAddUp ==
    ASSUME GoInv, CountInv, NEW w \in Workers,
           \A key \in Months \cup {"total"} : <<w, key>> \in fresh
    PROVE  LET hours == SumOver(Months, [m \in Months |-> monthly[w][m].hours]) IN
           /\ total[w].events = SumOver(Months, [m \in Months |-> monthly[w][m].events])
           /\ total[w].hours \in hours .. hours + Cardinality(Months) - 1
  <1> DEFINE h == [m \in Months |-> monthly[w][m].hours]
             k == [m \in Months |-> monthly[w][m].events]
             f == [m \in Months |-> Minutes(w, RowsIn(w, m))]
  <1>1. total[w] = TotalOf(w) /\ \A m \in Months : monthly[w][m] = MonthOf(w, m)
    BY DEF CountInv, MonthsCurrent, TotalsCurrent
  <1>2. ~MustFail(w)
    <2>1. PICK m \in Months : TRUE
      BY EarningsAssumption
    <2> QED BY <2>1 DEF CountInv, MonthsCurrent
  <1>3. IsFiniteSet(Months) /\ Months # {}
    BY EarningsAssumption
  <1>4. total[w].events = SumOver(Months, k)
    <2>1. \A m \in Months : k[m] = Cardinality({e \in RowsOf(w) : event[e].date = m})
      <3> SUFFICES ASSUME NEW m \in Months
                   PROVE  monthly[w][m].events
                            = Cardinality({e \in RowsOf(w) : event[e].date = m})
        OBVIOUS
      <3>1. monthly[w][m].events = Cardinality(RowsIn(w, m))
        BY <1>1, FieldsOf
      <3> QED BY <3>1 DEF RowsIn
    <2>2. total[w].events = Cardinality(RowsOf(w))
      BY <1>1, FieldsOf
    <2>3. PICK S \in SUBSET RowsOf(w) : S = RowsOf(w)
      OBVIOUS
    <2> HIDE DEF k
    <2>4. \A m \in Months : k[m] = Cardinality({e \in S : event[e].date = m})
      BY <2>1, <2>3
    <2>5. Cardinality(S) = SumOver(Months, k)
      BY <1>2, <2>4, CountByMonth
    <2> QED BY <2>2, <2>3, <2>5
  <1>5. total[w].hours \in SumOver(Months, h) .. SumOver(Months, h) + Cardinality(Months) - 1
    <2>1. ASSUME NEW m \in Months PROVE f[m] \in Nat /\ h[m] = f[m] \div 60
      <3>1. RowsIn(w, m) \in SUBSET RowsOf(w)
        BY DEF RowsIn
      <3>2. f[m] \in Nat
        BY <3>1, MinutesTyped DEF GoInv
      <3>3. monthly[w][m].hours = Minutes(w, RowsIn(w, m)) \div 60
        BY <1>1, FieldsOf
      <3> QED BY <3>2, <3>3
    <2>2. \A m \in Months : f[m] = Minutes(w, RowsIn(w, m))
      OBVIOUS
    <2>3. total[w].hours = Minutes(w, RowsOf(w)) \div 60
      BY <1>1, FieldsOf
    <2> HIDE DEF f, h
    <2>4. Minutes(w, RowsOf(w)) = SumOver(Months, f)
      BY <1>2, <2>2, MinutesByMonth
    <2>5. SumOver(Months, f) \div 60
            \in SumOver(Months, h) .. SumOver(Months, h) + Cardinality(Months) - 1
      BY <1>3, <2>1, HoursOfParts
    <2> QED BY <2>3, <2>4, <2>5
  <1> QED BY <1>4, <1>5

\* The works of a worker with a check-out time: who checked in again, and the months.
LEMMA OutByMonth ==
    ASSUME GoInv, CountInv, NEW w \in Workers, ~MustFail(w),
           \A m \in Months : <<w, m>> \in fresh
    PROVE  Cardinality(Out(w)) =
             Cardinality(Out(w) \ Completed(w, RowsOf(w)))
               + SumOver(Months, [m \in Months |-> monthly[w][m].completed])
  <1> DEFINE k == [m \in Months |-> monthly[w][m].completed]
             C == Completed(w, RowsOf(w))
             A == Out(w)
  <1>1. \A m \in Months : monthly[w][m] = MonthOf(w, m)
    BY DEF CountInv, MonthsCurrent
  <1>2. ASSUME NEW e \in C PROVE e \in A
    <2>1. e \in RowsOf(w) /\ att[<<w, e>>].status = "COMPLETED"
      BY DEF Completed
    <2>2. <<w, e>> \in Roster
      BY <2>1 DEF RowsOf, HasRow
    <2> QED BY <2>1, <2>2 DEF CountInv, SoundRows, Out
  <1>3. C \in SUBSET RowsOf(w) /\ A \in SUBSET RowsOf(w)
    BY DEF Completed, Out
  <1>4. IsFiniteSet(C) /\ IsFiniteSet(A)
    BY <1>3, RowsFinite
  <1>5. \A m \in Months : k[m] = Cardinality({e \in C : event[e].date = m})
    <2> SUFFICES ASSUME NEW m \in Months
                 PROVE  monthly[w][m].completed = Cardinality({e \in C : event[e].date = m})
      OBVIOUS
    <2>1. Completed(w, RowsIn(w, m)) = {e \in C : event[e].date = m}
      BY DEF Completed, RowsIn
    <2>2. monthly[w][m].completed = Cardinality(Completed(w, RowsIn(w, m)))
      BY <1>1, FieldsOf
    <2> QED BY <2>1, <2>2, Zenon
  <1> HIDE DEF k, C, A
  <1>6. Cardinality(C) = SumOver(Months, k)
    BY <1>3, <1>5, CountByMonth
  <1>7. A \ C \in SUBSET A /\ IsFiniteSet(A \ C) /\ (A \ C) \cap C = {} /\ (A \ C) \cup C = A
    BY <1>2, <1>4, FS_Difference
  <1>8. Cardinality(A) = Cardinality(A \ C) + Cardinality(C)
    <2>1. PICK D : D = A \ C
      OBVIOUS
    <2>2. IsFiniteSet(D) /\ D \cap C = {} /\ D \cup C = A
      BY <1>7, <2>1
    <2>3. /\ Cardinality(D \cup C)
               = Cardinality(D) + Cardinality(C) - Cardinality(D \cap C)
      BY <1>4, <2>2, FS_Union
    <2>4. Cardinality({}) = 0
      BY FS_EmptySet
    <2>5. Cardinality(D) \in Nat /\ Cardinality(C) \in Nat
      BY <1>4, <2>2, FS_CardinalityType
    <2>6. Cardinality(A) = Cardinality(D) + Cardinality(C) - Cardinality({})
      BY <2>2, <2>3
    <2> QED BY <2>1, <2>4, <2>5, <2>6
  <1> QED BY <1>6, <1>8 DEF k, C, A

LEMMA WorksAddUp ==
    ASSUME GoInv, CountInv, Workers \X Months \subseteq fresh, Readable
    PROVE  AnalyticsPage.total_completed_work =
             SumOver(Workers, [w \in Workers |->
                 Cardinality(Out(w) \ Completed(w, RowsOf(w)))
                   + SumOver(Months, [m \in Months |-> monthly[w][m].completed])])
  <1> DEFINE f == [w \in Workers |-> Cardinality(Out(w))]
             g == [w \in Workers |->
                     Cardinality(Out(w) \ Completed(w, RowsOf(w)))
                       + SumOver(Months, [m \in Months |-> monthly[w][m].completed])]
  <1>1. ASSUME NEW w \in Workers PROVE f[w] = g[w]
    <2>1. ~MustFail(w)
      BY DEF Readable, MustFail, RowsOf
    <2>2. \A m \in Months : <<w, m>> \in fresh
      OBVIOUS
    <2> QED BY <2>1, <2>2, OutByMonth
  <1>2. AnalyticsPage.total_completed_work = SumOver(Workers, f)
    BY DEF AnalyticsPage
  <1>3. IsFiniteSet(Workers)
    BY EarningsAssumption
  <1> HIDE DEF f, g
  <1>4. SumOver(Workers, f) = SumOver(Workers, g)
    BY <1>1, <1>3, SumOverEqual
  <1> QED BY <1>2, <1>4 DEF g

LEMMA MinutesAddUp ==
    ASSUME GoInv, CountInv, Workers \X {"total"} \subseteq fresh
    PROVE  LET hours == SumOver(Workers, [w \in Workers |-> total[w].hours])
               minutes == AnalyticsPage.total_worked_minutes
           IN 60 * hours <= minutes /\ minutes < 60 * (hours + Cardinality(Workers))
  <1> DEFINE f == [w \in Workers |-> Minutes(w, Out(w))]
             h == [w \in Workers |-> total[w].hours]
  <1>1. ASSUME NEW w \in Workers PROVE f[w] \in Nat /\ h[w] = f[w] \div 60
    <2>1. <<w, "total">> \in fresh
      OBVIOUS
    <2>2. total[w].hours = Minutes(w, RowsOf(w)) \div 60
      BY <2>1, FieldsOf DEF CountInv, TotalsCurrent
    <2>3. Minutes(w, Out(w)) = Minutes(w, RowsOf(w))
      BY MinutesAreOut
    <2>4. Out(w) \in SUBSET RowsOf(w)
      BY DEF Out
    <2>5. Minutes(w, Out(w)) \in Nat
      BY <2>4, MinutesTyped DEF GoInv
    <2> QED BY <2>2, <2>3, <2>5
  <1>2. AnalyticsPage.total_worked_minutes = SumOver(Workers, f)
    BY DEF AnalyticsPage
  <1>3. IsFiniteSet(Workers) /\ Workers # {}
    BY EarningsAssumption
  <1> HIDE DEF f, h
  <1>4. 60 * SumOver(Workers, h) <= SumOver(Workers, f)
        /\ SumOver(Workers, f) < 60 * (SumOver(Workers, h) + Cardinality(Workers))
    BY <1>1, <1>3, HoursOfParts
  <1> QED BY <1>2, <1>4 DEF h

-----------------------------------------------------------------------------
\* For any workers, events, months and interleaving of the calculations with the
\* rest: stored months add up to stored totals, and both to the analytics page,
\* if nothing has changed since they were computed.
THEOREM StatisticsAddUp == Spec => []MonthsAddUp
  <1>1. GoInv /\ CountInv => MonthsAddUp
    BY TotalsAddUp, WorksAddUp, MinutesAddUp DEF MonthsAddUp
  <1> QED BY <1>1, CountInvHolds, PTL

\* For the same: the earnings stored for a month are those that the summary and
\* the revenue page show, but for who checked in again.
THEOREM RevenuesMatch == Spec => []EarningsMatchRevenue
  BY RevenueMatches, CountInvHolds, PTL
===============================================================================
