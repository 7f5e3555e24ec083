------------------------------- MODULE Credits -------------------------------
(***************************************************************************)
(* Credits (WPT): the balance a worker holds in the WorkProofToken         *)
(* contract, the workers.tokens column that mirrors it, and the rows that  *)
(* explain both (credit_history, daily_checkins, monthly_bonuses).         *)
(*                                                                         *)
(* The API serves one handler at a time; the worker bot pays each signup   *)
(* bonus in a thread of its own.  A handler is a script of steps: a call   *)
(* to the chain or one committed transaction of db.py.  With Enabled       *)
(* FALSE the token contract is not configured and only the tables move.    *)
(***************************************************************************)
EXTENDS Integers, Sequences, FiniteSets, Sums

CONSTANTS Workers, Enabled,
          Week,         \* check-ins in a row per extra credit: 7
          MonthDays,    \* days in a month
          Amounts,      \* bound: amounts minted and burned on request, any integers
          MaxDay,       \* bound: last day of a behaviour
          MaxRequests,  \* bound: credit requests the API serves
          MaxUploads,   \* bound: photo uploads of one worker in progress
          MaxCrashes    \* bound: process crashes

ASSUME CreditsAssumption ==
    /\ Enabled \in BOOLEAN
    /\ "api" \notin Workers
    /\ Week \in Nat \ {0} /\ MonthDays \in Nat \ {0}
    /\ Amounts \subseteq Int
    /\ MaxDay \in Nat \ {0}
    /\ {MaxRequests, MaxUploads, MaxCrashes} \subseteq Nat

VARIABLES
    member,     \* whether a worker has a row in workers
    tokens,     \* workers.tokens
    complete,   \* whether every required profile field is filled in
    applied,    \* workers whom rows of other tables refer to
    history,    \* credit_history rows of each worker, in order
    checkins,   \* daily_checkins rows of each worker
    bonuses,    \* months with a monthly_bonuses row
    txs,        \* token transactions sent from the platform's account
    balance,    \* WorkProofToken.balanceOf
    job,        \* what each handler or thread is in the middle of
    uploads,    \* photo uploads waiting for their body, begun incomplete
    today, requests, crashes,
    lost,       \* history: credits minted for a handler that did not see it
    broken      \* history: workers with a change of tokens left unexplained

vars == <<member, tokens, complete, applied, history, checkins, bonuses, txs,
          balance, job, uploads, today, requests, crashes, lost, broken>>

rows == <<history, checkins, bonuses>>
person == <<member, complete, applied, uploads>>
token == <<txs, balance>>
ghosts == <<crashes, lost, broken>>
clock == <<today, requests>>

-----------------------------------------------------------------------------
Actors == Workers \cup {"api"}
Days == 1 .. MaxDay
MonthOf(d) == (d - 1) \div MonthDays

DefaultTokens == 3
SignupBonus == 3
WebSignupBonus == 5
ProfileBonus == 3
PerfectAttendanceBonus == 10

Burns == {"burn", "cert", "withdraw"}
Mints == {"signup", "web", "profile", "mint", "checkin", "monthly"}

\* A signup or profile bonus: add to the column, explain it.
BonusScript == <<"tokens", "history">>

\* The transactions of each kind of handler, in the order of the code.
Tables(op) ==
    CASE op \in {"signup", "web", "profile"} -> BonusScript
      [] op = "mint" -> IF Enabled THEN <<"history", "tokens">>
                        ELSE <<"tokens", "history">>
      [] op = "checkin" -> <<"tokens", "checkin", "history", "monthly">>
      [] op = "monthly" -> <<"tokens", "bonus", "history">>
      [] op = "burn" -> IF Enabled THEN <<"history", "use">> ELSE <<"use", "history">>
      [] op = "cert" -> IF Enabled THEN <<"history", "use">>
                        ELSE <<"use", "history", "pdf">>
      [] op = "withdraw" -> <<"delete">>

\* The call to the chain, if there is one, comes first.
Script(op) == IF Enabled \/ op = "withdraw" THEN <<"send", "wait">> \o Tables(op)
              ELSE Tables(op)

Idle == [op |-> "none"]
Job == {Idle} \cup
       [op : Burns \cup Mints, worker : Workers, amount : Int, at : 1 .. 6,
        tx : Nat, ref : Int]     \* ref: day of a check-in, month of a bonus
Tx == [owner : Actors, op : Burns \cup Mints, worker : Workers,
       amount : Nat, ref : Int, state : {"pending", "ok", "reverted", "dropped"}]
HistoryRow == [type : Burns \cup Mints, amount : Int, tx : Nat]
CheckinRow == [day : Days, amount : Nat, streak : Nat, tx : Nat, began : Days]

TypeOK ==
    /\ member \in [Workers -> {"none", "row", "gone"}]
    /\ tokens \in [Workers -> Int]
    /\ complete \in [Workers -> BOOLEAN]
    /\ applied \subseteq Workers
    /\ history \in [Workers -> Seq(HistoryRow)]
    /\ checkins \in [Workers -> SUBSET CheckinRow]
    /\ bonuses \in [Workers -> SUBSET Nat]
    /\ txs \in Seq(Tx)
    /\ balance \in [Workers -> Nat]
    /\ job \in [Actors -> Job]
    /\ uploads \in [Workers -> Nat]
    /\ today \in Days /\ requests \in Nat /\ crashes \in Nat
    /\ lost \in [Workers -> Nat]
    /\ broken \subseteq Workers

Init ==
    /\ member = [w \in Workers |-> "none"]
    /\ tokens = [w \in Workers |-> 0]
    /\ complete = [w \in Workers |-> FALSE]
    /\ applied = {}
    /\ history = [w \in Workers |-> <<>>]
    /\ checkins = [w \in Workers |-> {}]
    /\ bonuses = [w \in Workers |-> {}]
    /\ txs = <<>>
    /\ balance = [w \in Workers |-> 0]
    /\ job = [a \in Actors |-> Idle]
    /\ uploads = [w \in Workers |-> 0]
    /\ today = 1 /\ requests = 0 /\ crashes = 0
    /\ lost = [w \in Workers |-> 0]
    /\ broken = {}

-----------------------------------------------------------------------------
(* Streaks.                                                                *)

Dates(w) == {r.day : r \in checkins[w]}

\* get_streak_days walks back over at most 30 rows and forgives a missing day
\* before each of them: it reaches the rows no two missing days come after.
StreakDays(dates, day) ==
    LET reached == {d \in dates : /\ d <= day
                                  /\ \A e \in d + 1 .. day : e \in dates \/ e - 1 \in dates}
    IN IF Cardinality(reached) > 30 THEN 30 ELSE Cardinality(reached)

\* daily_checkin: 1 credit and one more for every Week of streak.
Reward(streak) == 1 + streak \div Week

\* Fault: a missing day goes unnoticed.
FaultyPerfectAttendance(w, month) ==
    Cardinality({d \in Dates(w) : MonthOf(d) = month}) >= MonthDays - 1

\* check_perfect_attendance counts the month's rows.
PerfectAttendance(w, month) ==
    Cardinality({d \in Dates(w) : MonthOf(d) = month}) >= MonthDays

-----------------------------------------------------------------------------
(* Scripts.                                                                *)

Step(a, s) == job[a] # Idle /\ Script(job[a].op)[job[a].at] = s

BeginAt(a, op, w, n, ref, k) ==
    /\ job[a] = Idle
    /\ job' = [job EXCEPT ![a] = [op |-> op, worker |-> w, amount |-> n,
                                  at |-> k, tx |-> 0, ref |-> ref]]

Begin(a, op, w, n) == BeginAt(a, op, w, n, 0, 1)
Finish(a) == job' = [job EXCEPT ![a] = Idle]
Advance(a) == IF job[a].at = Len(Script(job[a].op)) THEN Finish(a)
              ELSE job' = [job EXCEPT ![a].at = @ + 1]

HasRow(w) == member[w] = "row"
Serve == requests < MaxRequests /\ requests' = requests + 1

-----------------------------------------------------------------------------
(* Registering.                                                            *)

NewMember(w) ==
    /\ member[w] = "none"
    /\ member' = [member EXCEPT ![w] = "row"]
    /\ tokens' = [tokens EXCEPT ![w] = DefaultTokens]
    /\ UNCHANGED <<complete, applied, uploads, rows, token, ghosts, clock>>

\* Worker bot, last registration step: the bonus is left to a thread.
BotRegister(w) == NewMember(w) /\ Begin(w, "signup", w, SignupBonus)

\* API create_worker pays the bonus itself.
WebRegister(w) == NewMember(w) /\ Begin("api", "web", w, WebSignupBonus)

\* The thread of an e-mail signup dies at Database(), called without the URL
\* it needs, before it has paid anything.
EmailBonus == job["api"] = Idle /\ UNCHANGED job

\* API email_register.
EmailRegister(w) == NewMember(w) /\ EmailBonus

\* A row of another table (an application, a badge) refers to the worker.
Apply(w) ==
    /\ HasRow(w)
    /\ applied' = applied \cup {w}
    /\ UNCHANGED <<member, complete, uploads, tokens, rows, token, job, ghosts, clock>>

-----------------------------------------------------------------------------
(* The profile bonus.                                                      *)

HistoryHas(w, type) == \E i \in DOMAIN history[w] : history[w][i].type = type

\* Fault: it is not asked whether the bonus was given before.
FaultyGiveProfileBonus(w) == Serve /\ Begin("api", "profile", w, ProfileBonus)

\* _give_profile_completion_bonus: once, going by credit_history.
GiveProfileBonus(w) ==
    \/ HistoryHas(w, "profile") /\ UNCHANGED <<job, requests>>
    \/ ~HistoryHas(w, "profile") /\ Serve /\ Begin("api", "profile", w, ProfileBonus)

\* API update_my_info; v says whether the profile is complete afterwards.
UpdateProfile(w, v) ==
    /\ job["api"] = Idle
    /\ HasRow(w)
    /\ complete' = [complete EXCEPT ![w] = v]
    /\ \/ ~complete[w] /\ v /\ GiveProfileBonus(w)
       \/ ~(~complete[w] /\ v) /\ UNCHANGED <<job, requests>>
    /\ UNCHANGED <<member, applied, uploads, tokens, rows, token, today, ghosts>>

\* API upload_my_photo reads the worker and then waits for the body: the one
\* place where the API serves other requests in the middle of a handler.
UploadBegin(w) ==
    /\ job["api"] = Idle
    /\ HasRow(w) /\ ~complete[w]
    /\ uploads[w] < MaxUploads
    /\ uploads' = [uploads EXCEPT ![w] = @ + 1]
    /\ UNCHANGED <<member, complete, applied, tokens, rows, token, job, ghosts, clock>>

\* It still takes the profile for incomplete when it goes on.
UploadEnd(w) ==
    /\ job["api"] = Idle
    /\ uploads[w] > 0
    /\ uploads' = [uploads EXCEPT ![w] = @ - 1]
    /\ \/ /\ HasRow(w)
          /\ complete' = [complete EXCEPT ![w] = TRUE]
          /\ GiveProfileBonus(w)
       \/ /\ ~HasRow(w) \/ ~complete[w]           \* other fields are missing
          /\ UNCHANGED <<complete, job, requests>>
    /\ UNCHANGED <<member, applied, tokens, rows, token, today, ghosts>>

-----------------------------------------------------------------------------
(* Requests.                                                               *)

\* API mint_credits (administrators).  Nothing bounds the amount from below:
\* without the token contract a negative one takes credits away, whatever the
\* column holds.
AdminMint(w, n) ==
    /\ Serve
    /\ HasRow(w)
    /\ Begin("api", "mint", w, n)
    /\ UNCHANGED <<person, tokens, rows, token, today, ghosts>>

\* API burn_my_credits and, with n = 1, download_certificate.  A negative
\* amount passes the look at the balance too, and then adds credits.
Spend(op, w, n) ==
    /\ Serve
    /\ HasRow(w)
    /\ Enabled => balance[w] >= n
    /\ Begin("api", op, w, n)
    /\ UNCHANGED <<person, tokens, rows, token, today, ghosts>>

\* API daily_checkin.
CheckIn(w) ==
    /\ Serve
    /\ HasRow(w)
    /\ today \notin Dates(w)
    /\ BeginAt("api", "checkin", w, Reward(StreakDays(Dates(w), today)), today, 1)
    /\ UNCHANGED <<person, tokens, rows, token, today, ghosts>>

\* API delete_my_account and admin_delete_worker: everything on the chain is
\* burned first; get_balance answers 0 when the node cannot be reached.
Withdraw(w) ==
    /\ Serve
    /\ HasRow(w)
    /\ \E b \in {balance[w], 0} :
          BeginAt("api", "withdraw", w, b, 0, IF Enabled /\ b > 0 THEN 1 ELSE 3)
    /\ UNCHANGED <<person, tokens, rows, token, today, ghosts>>

-----------------------------------------------------------------------------
(* Calls to the token contract.                                            *)

Minted(j) == j # Idle /\ j.op \in Mints /\ j.tx # 0 /\ txs[j.tx].state = "ok"

\* Credits that are minted for w and on their way to its tokens column.
Owed(a, w) ==
    LET j == job[a] IN
    IF Minted(j) /\ j.worker = w
          /\ \E k \in j.at .. Len(Script(j.op)) : Script(j.op)[k] = "tokens"
    THEN j.amount ELSE 0

\* Fault: whether the call succeeded is not asked.
FaultyOnFailure(a) == job' = [job EXCEPT ![a].at = 3, ![a].tx = 0]

\* Fault: a failed mint ends the signup thread too.
StoppingOnFailure(a) == Finish(a)

\* A failed call ends the handler, but the signup thread and the withdrawal
\* go on with their third step.
OnFailure(a) ==
    IF job[a].op \in {"signup", "withdraw"}
    THEN job' = [job EXCEPT ![a].at = 3, ![a].tx = 0]
    ELSE Finish(a)

\* The nonce counts mined transactions only, so a transaction sent while
\* another is pending has the same nonce: it replaces it or is refused.  A
\* negative amount is no uint256: no transaction can be built.
Send(a) ==
    /\ Step(a, "send")
    /\ \/ /\ job[a].amount >= 0
          /\ txs' = Append([i \in DOMAIN txs |->
                                IF txs[i].state = "pending"
                                THEN [txs[i] EXCEPT !.state = "dropped"]
                                ELSE txs[i]],
                           [owner |-> a, op |-> job[a].op, worker |-> job[a].worker,
                            amount |-> job[a].amount, ref |-> job[a].ref,
                            state |-> "pending"])
          /\ job' = [job EXCEPT ![a].at = @ + 1, ![a].tx = Len(txs) + 1]
       \/ OnFailure(a) /\ UNCHANGED txs
    /\ UNCHANGED <<person, tokens, rows, balance, ghosts, clock>>

Receipt(a) ==
    /\ Step(a, "wait")
    /\ \/ txs[job[a].tx].state = "ok" /\ Advance(a)
       \/ txs[job[a].tx].state = "reverted" /\ OnFailure(a)
    /\ UNCHANGED <<person, tokens, rows, token, ghosts, clock>>

\* Fault: the timeout is taken for a success.
FaultyTimeout(a) ==
    /\ Step(a, "wait")
    /\ Advance(a)
    /\ UNCHANGED <<person, tokens, rows, token, ghosts, clock>>

\* Fault: no timeout on the receipt.
EndlessTimeout(a) ==
    /\ Step(a, "wait")
    /\ txs[job[a].tx].state = "ok"
    /\ Advance(a)
    /\ UNCHANGED <<person, tokens, rows, token, ghosts, clock>>

\* No receipt in 120 s, or the node fails to answer: the call counts as
\* failed although the transaction may be or become part of a block.
Timeout(a) ==
    LET w == job[a].worker IN
    /\ Step(a, "wait")
    /\ OnFailure(a)
    /\ lost' = [lost EXCEPT ![w] = @ + Owed(a, w)]
    /\ UNCHANGED <<person, tokens, rows, token, crashes, broken, clock>>

\* A block: mint, or burn, which reverts when the balance is too small.
Mine(i) ==
    LET t == txs[i]
        burn == t.op \in Burns
        reverts == burn /\ balance[t.worker] < t.amount
        waited == job[t.owner] # Idle /\ job[t.owner].tx = i
    IN /\ t.state = "pending"
       /\ txs' = [txs EXCEPT ![i].state = IF reverts THEN "reverted" ELSE "ok"]
       /\ \/ reverts /\ UNCHANGED <<balance, lost>>
          \/ /\ ~reverts /\ burn
             /\ balance' = [balance EXCEPT ![t.worker] = @ - t.amount]
             /\ UNCHANGED lost
          \/ /\ ~burn
             /\ balance' = [balance EXCEPT ![t.worker] = @ + t.amount]
             /\ lost' = IF waited THEN lost
                        ELSE [lost EXCEPT ![t.worker] = @ + t.amount]
       /\ UNCHANGED <<person, tokens, rows, job, crashes, broken, clock>>

\* The network forgets a transaction, or the work-log registry's
\* transactions, sent from the same account, take its nonce.
Drop(i) ==
    /\ txs[i].state = "pending"
    /\ txs' = [txs EXCEPT ![i].state = "dropped"]
    /\ UNCHANGED <<person, tokens, rows, balance, job, ghosts, clock>>

-----------------------------------------------------------------------------
(* Transactions of db.py.                                                  *)

\* add_tokens: no row, no effect.
AddTokens(a) ==
    LET w == job[a].worker IN
    /\ Step(a, "tokens")
    /\ tokens' = IF HasRow(w) THEN [tokens EXCEPT ![w] = @ + job[a].amount]
                 ELSE tokens
    /\ Advance(a)
    /\ UNCHANGED <<person, rows, token, ghosts, clock>>

\* Fault: the balance is not looked at.
FaultyUseTokens(a) ==
    LET w == job[a].worker IN
    /\ Step(a, "use")
    /\ tokens' = [tokens EXCEPT ![w] = @ - job[a].amount]
    /\ Advance(a)
    /\ UNCHANGED <<person, rows, token, ghosts, clock>>

\* use_token: refused when the column holds too little.  The refusal ends the
\* handler without the token contract and is overlooked with it.
UseTokens(a) ==
    LET w == job[a].worker
        n == job[a].amount
    IN /\ Step(a, "use")
       /\ \/ /\ tokens[w] >= n
             /\ tokens' = [tokens EXCEPT ![w] = @ - n]
             /\ Advance(a)
             /\ UNCHANGED broken
          \/ /\ tokens[w] < n
             /\ IF Enabled THEN Advance(a) /\ broken' = broken \cup {w}
                ELSE Finish(a) /\ UNCHANGED broken
             /\ UNCHANGED tokens
       /\ UNCHANGED <<person, rows, token, crashes, lost, clock>>

\* Fault: credit_history has no foreign key to workers.
FaultyRecordHistory(a) ==
    LET j == job[a] IN
    /\ Step(a, "history")
    /\ history' = [history EXCEPT ![j.worker] =
              Append(@, [type |-> j.op, tx |-> j.tx,
                         amount |-> IF j.op \in Burns THEN -j.amount ELSE j.amount])]
    /\ Advance(a)
    /\ UNCHANGED <<person, tokens, checkins, bonuses, token, ghosts, clock>>

\* Fault: what was spent is recorded without its sign.
UnsignedRecordHistory(a) ==
    LET j == job[a] IN
    /\ Step(a, "history")
    /\ history' = IF HasRow(j.worker)
                  THEN [history EXCEPT ![j.worker] =
                           Append(@, [type |-> j.op, tx |-> j.tx, amount |-> j.amount])]
                  ELSE history
    /\ Advance(a)
    /\ UNCHANGED <<person, tokens, checkins, bonuses, token, ghosts, clock>>

\* create_credit_history; without a workers row the foreign key ends the
\* handler.
RecordHistory(a) ==
    LET j == job[a] IN
    /\ Step(a, "history")
    /\ \/ /\ HasRow(j.worker)
          /\ history' = [history EXCEPT ![j.worker] =
                Append(@, [type |-> j.op, tx |-> j.tx,
                           amount |-> IF j.op \in Burns THEN -j.amount ELSE j.amount])]
          /\ Advance(a)
       \/ ~HasRow(j.worker) /\ Finish(a) /\ UNCHANGED history
    /\ UNCHANGED <<person, tokens, checkins, bonuses, token, ghosts, clock>>

\* Fault: the streak is stored without the day that is being added.
FaultyInsertCheckin(a) ==
    LET j == job[a]
        w == j.worker
    IN /\ Step(a, "checkin")
       /\ checkins' = [checkins EXCEPT ![w] = @ \cup
             {[day |-> today, amount |-> j.amount, tx |-> j.tx, began |-> j.ref,
               streak |-> StreakDays(Dates(w), today)]}]
       /\ Advance(a)
       /\ UNCHANGED <<person, tokens, history, bonuses, token, ghosts, clock>>

\* create_daily_checkin: the day and the streak are worked out again.
InsertCheckin(a) ==
    LET j == job[a]
        w == j.worker
    IN /\ Step(a, "checkin")
       /\ checkins' = [checkins EXCEPT ![w] = @ \cup
             {[day |-> today, amount |-> j.amount, tx |-> j.tx, began |-> j.ref,
               streak |-> StreakDays(Dates(w), today) + 1]}]
       /\ Advance(a)
       /\ UNCHANGED <<person, tokens, history, bonuses, token, ghosts, clock>>

\* _check_and_give_monthly_bonus, for the month before this one.
CheckMonth(a) ==
    LET w == job[a].worker
        month == MonthOf(today) - 1
        due == month \notin bonuses[w] /\ PerfectAttendance(w, month)
    IN /\ Step(a, "monthly")
       /\ job' = [job EXCEPT ![a] =
             IF due THEN [op |-> "monthly", worker |-> w, at |-> 1, tx |-> 0,
                          amount |-> PerfectAttendanceBonus, ref |-> month]
             ELSE Idle]
       /\ UNCHANGED <<person, tokens, rows, token, ghosts, clock>>

\* create_monthly_bonus.
InsertBonus(a) ==
    LET j == job[a] IN
    /\ Step(a, "bonus")
    /\ bonuses' = [bonuses EXCEPT ![j.worker] = @ \cup {j.ref}]
    /\ Advance(a)
    /\ UNCHANGED <<person, tokens, history, checkins, token, ghosts, clock>>

\* The certificate is drawn after it was paid for; without the token contract
\* a failure gives the credit back.
DrawCertificate(a) ==
    LET w == job[a].worker IN
    /\ Step(a, "pdf")
    /\ \/ UNCHANGED <<tokens, broken>>
       \/ /\ tokens' = [tokens EXCEPT ![w] = @ + 1]
          /\ broken' = broken \cup {w}
    /\ Advance(a)
    /\ UNCHANGED <<person, rows, token, crashes, lost, clock>>

\* One transaction deletes the worker's credit rows and the worker; a row of
\* another table, a monthly bonus included, makes it fail as a whole.
DeleteWorker(a) ==
    LET w == job[a].worker IN
    /\ Step(a, "delete")
    /\ \/ /\ w \notin applied /\ bonuses[w] = {}
          /\ member' = [member EXCEPT ![w] = "gone"]
          /\ tokens' = [tokens EXCEPT ![w] = 0]
          /\ history' = [history EXCEPT ![w] = <<>>]
          /\ checkins' = [checkins EXCEPT ![w] = {}]
          /\ UNCHANGED broken
       \/ /\ w \in applied \/ bonuses[w] # {}
          /\ broken' = broken \cup {w}
          /\ UNCHANGED <<member, tokens, history, checkins>>
    /\ Finish(a)
    /\ UNCHANGED <<complete, applied, uploads, bonuses, token, crashes, lost, clock>>

-----------------------------------------------------------------------------
NextDay ==
    /\ today < MaxDay
    /\ today' = today + 1
    /\ UNCHANGED <<person, tokens, rows, token, job, requests, ghosts>>

\* The API or the worker bot dies and is restarted; threads die with it.
Crash(p) ==
    LET dying == {a \in (IF p = "api" THEN {"api"} ELSE Workers) : job[a] # Idle} IN
    /\ crashes < MaxCrashes
    /\ dying # {}
    /\ crashes' = crashes + 1
    /\ job' = [a \in Actors |-> IF a \in dying THEN Idle ELSE job[a]]
    /\ uploads' = IF p = "api" THEN [w \in Workers |-> 0] ELSE uploads
    /\ broken' = broken \cup {job[a].worker : a \in dying}
    /\ lost' = [w \in Workers |->
                   IF p = "api" THEN lost[w] + Owed("api", w)
                   ELSE lost[w] + Owed(w, w)]
    /\ UNCHANGED <<member, complete, applied, tokens, rows, token, clock>>

\* A handler or thread goes on.
Continue(a) ==
    \/ Send(a) \/ Receipt(a) \/ Timeout(a)
    \/ AddTokens(a) \/ UseTokens(a) \/ RecordHistory(a)
    \/ InsertCheckin(a) \/ CheckMonth(a) \/ InsertBonus(a)
    \/ DrawCertificate(a) \/ DeleteWorker(a)

Ask ==
    \E w \in Workers :
       \/ BotRegister(w) \/ WebRegister(w) \/ EmailRegister(w)
       \/ \E v \in BOOLEAN : UpdateProfile(w, v)
       \/ UploadBegin(w) \/ UploadEnd(w)
       \/ \E n \in Amounts : AdminMint(w, n) \/ Spend("burn", w, n)
       \/ Spend("cert", w, 1)
       \/ CheckIn(w) \/ Withdraw(w)

Environment ==
    \/ \E i \in DOMAIN txs : Mine(i) \/ Drop(i)
    \/ \E w \in Workers : Apply(w)
    \/ \E p \in {"api", "wbot"} : Crash(p)
    \/ NextDay

Next == (\E a \in Actors : Continue(a)) \/ Ask \/ Environment

Spec == Init /\ [][Next]_vars

\* Handlers and threads that have begun go on; nobody has to ask for anything
\* and no transaction has to be mined.
FairSpec == Spec /\ \A a \in Actors : WF_vars(Continue(a))

-----------------------------------------------------------------------------
(* Safety.                                                                 *)

Total(w) == FirstSum([i \in DOMAIN history[w] |-> history[w][i].amount], Len(history[w]))
Waiting(w) == \E a \in Actors : job[a] # Idle /\ job[a].worker = w

\* What administrators took from w with negative mints, by its history.
Negative(row) == IF row.type = "mint" /\ row.amount < 0 THEN row.amount ELSE 0
Taken(w) == FirstSum([i \in DOMAIN history[w] |-> Negative(history[w][i])], Len(history[w]))

\* workers.tokens never promises less than the chain holds: every credit on
\* the chain is in the column, on its way there, or was minted for a handler
\* that timed out or died (mint_credits, add_tokens, use_token); the column
\* is ahead by the default every row starts with.
CreditsAccounted ==
    Enabled => \A w \in Workers : HasRow(w) =>
        balance[w] + DefaultTokens <= tokens[w] + Owed("api", w) + Owed(w, w) + lost[w]

\* The history explains the column: unless a handler of the worker is at
\* work, died, was refused the use of tokens or gave one back, tokens is the
\* default plus everything in credit_history, although handlers write the
\* two in separate transactions and in different orders.
HistoryExplainsTokens ==
    \A w \in Workers : HasRow(w) /\ w \notin broken /\ ~Waiting(w)
        => tokens[w] = DefaultTokens + Total(w)

\* Nobody spends what the column does not hold: it is below zero only by what
\* administrators took, recorded as such in credit_history, and never by a
\* use_token, although add_tokens takes any amount, use_token only refuses
\* what is above the column, and the two write in transactions of their own.
NoOverdraft ==
    \A w \in Workers : HasRow(w) /\ w \notin broken /\ ~Waiting(w)
        => tokens[w] >= Taken(w)

\* The state is well typed and nobody overdraws.
ColumnInv == TypeOK /\ NoOverdraft

\* A history or check-in row that names a transaction names one that was
\* executed, for that worker, of that amount and direction; and no two history
\* rows name the same one.
HistoryOnChain ==
    \A w \in Workers :
        /\ \A i \in DOMAIN history[w] :
              LET row == history[w][i] IN
              row.tx # 0 =>
                 /\ txs[row.tx].state = "ok" /\ txs[row.tx].worker = w
                 /\ row.amount = (IF txs[row.tx].op \in Burns THEN -1 ELSE 1) * txs[row.tx].amount
                 /\ \A k \in DOMAIN history[w] : k # i => history[w][k].tx # row.tx
        /\ \A row \in checkins[w] :
              row.tx # 0 => txs[row.tx].state = "ok" /\ txs[row.tx].amount = row.amount

\* Rows of a worker only exist while the worker does, although the signup
\* thread may still be paying when the account is deleted.
NoRowsWithoutWorker ==
    \A w \in Workers : ~HasRow(w) =>
        tokens[w] = 0 /\ history[w] = <<>> /\ checkins[w] = {} /\ bonuses[w] = {}

\* The profile bonus is recorded once per worker, even if several uploads
\* began while the profile was incomplete.
ProfileBonusOnce ==
    \A w \in Workers : \A i, k \in DOMAIN history[w] :
        history[w][i].type = "profile" /\ history[w][k].type = "profile" => i = k

\* A check-in is rewarded for the streak its row shows, although the streak
\* is worked out twice, before and after the call to the chain, unless
\* midnight passed in between.
RewardMatchesStreak ==
    \A w \in Workers : \A row \in checkins[w] :
        row.began = row.day => row.amount = Reward(row.streak - 1)

\* A perfect-attendance bonus is only given for a past month with a check-in
\* on every day.
MonthlyBonusEarned ==
    \A w \in Workers : \A month \in bonuses[w] : \A d \in Days :
        MonthOf(d) = month => d < today /\ d \in Dates(w)

-----------------------------------------------------------------------------
(* Liveness.                                                               *)

\* Every handler and thread comes to its end.
HandlersEnd == \A a \in Actors : job[a] # Idle ~> job[a] = Idle

\* A worker who registers with the bot gets the signup bonus, whatever
\* becomes of the mint, unless the account is deleted first or a process dies.
SignupSettled ==
    \A w \in Workers :
        job[w] # Idle ~> HistoryHas(w, "signup") \/ ~HasRow(w) \/ crashes > 0

-----------------------------------------------------------------------------
(* What documents and comments say and the code does not do.               *)

\* daily_checkin: only once a day.
OneRewardPerDay ==
    \A i, k \in {n \in DOMAIN txs : txs[n].op = "checkin" /\ txs[n].state = "ok"} :
        txs[i].worker = txs[k].worker /\ txs[i].ref = txs[k].ref => i = k

\* get_streak_days: the number of consecutive days.
StreakIsConsecutive ==
    \A w \in Workers : \A row \in checkins[w] :
        \A d \in Days : d <= row.day /\ d > row.day - row.streak => d \in Dates(w)

\* delete_my_account: applications stay, only the worker is deleted.
WithdrawalDeletes ==
    [][\A w \in Workers :
          Step("api", "delete") /\ job'["api"] = Idle /\ crashes' = crashes
             /\ job["api"].worker = w => ~(member'[w] = "row")]_vars
=============================================================================
