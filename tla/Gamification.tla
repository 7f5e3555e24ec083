----------------------------- MODULE Gamification -----------------------------
(***************************************************************************)
(* Points, experience and streaks of one worker.  A check-in or a check-   *)
(* out commits the attendance first; its reward is then a streak update,   *)
(* a row of wpt_transactions and an update of the experience, each in a    *)
(* transaction of its own.  A worker whose reward was not paid (the bot    *)
(* pays none) may ask for it at an endpoint.                               *)
(*                                                                         *)
(* The API is one process whose handlers never wait for one another: api   *)
(* is the handler in progress.  The worker bot is another process; its     *)
(* transactions fall between those of the API.  The rows of different      *)
(* workers never meet, so there is one worker.                             *)
(***************************************************************************)
EXTENDS Integers, Sequences, FiniteSets, FiniteSetsExt, Sums

CONSTANTS Atts,          \* attendance rows the worker may get
          BonusEvery,    \* days of streak per bonus (3 in the code)
          RequiredExp,   \* worker_levels: experience each level requires
          Grants,        \* amounts an administrator grants, of any sign
          Tick,          \* minutes between two looks at the clock
          MaxMinutes,    \* bound on the clock
          MaxWrites,     \* bound on writes to the attendance table
          MaxGrants,     \* bound on grants
          MaxCrashes     \* bound on deaths of the API process

ASSUME GamificationAssumption ==
    /\ BonusEvery \in Nat \ {0} /\ Tick \in Nat \ {0}
    /\ RequiredExp \in Seq(Nat) /\ RequiredExp # << >> /\ RequiredExp[1] = 0
    /\ \A l \in DOMAIN RequiredExp \ {1} : RequiredExp[l] > 0
    /\ Grants \subseteq Int
    /\ {MaxMinutes, MaxWrites, MaxGrants, MaxCrashes} \subseteq Nat

VARIABLES clock, config, att, metrics, streak, wpt, api, bot, crashes,
          days,    \* history: streak updates committed, as <<day, attendance>>
          early    \* history: ledger rows older than the metrics row
vars == <<clock, config, att, metrics, streak, wpt, api, bot, crashes, days, early>>

None == -1
NoAtt == "none"
Today == clock \div 1440
Levels == DOMAIN RequiredExp
Categories == {"checkin", "checkout"}

AttRow == [status : {"NO_ROW", "PENDING", "CHECKED_IN", "COMPLETED"},
           in : Int, out : Int]
MetricsRow == [has : BOOLEAN, total : Nat, done : Nat, balance : Int,
               earned : Nat, spent : Nat, exp : Int, level : Levels]
StreakRow == [has : BOOLEAN, current : Nat, longest : Nat, last : Int]
\* worked: the time that the row's description gives, for a check-out.
LedgerRow == [att : Atts \cup {NoAtt}, cat : Categories \cup {"admin"},
              amount : Int, after : Int, worked : Int]

ApiSteps == {"idle", "in_write", "streak", "in_award", "out_write",
             "reread", "out_award", "exp"}
Job == [pc : ApiSteps, att : Atts \cup {NoAtt}, auto : BOOLEAN, n : Int]
Idle == [pc |-> "idle", att |-> NoAtt, auto |-> FALSE, n |-> 0]
BotJob == [pc : {"idle", "in_write", "out_write"}, att : Atts \cup {NoAtt}]
BotIdle == [pc |-> "idle", att |-> NoAtt]

TypeOK ==
    /\ clock \in 0..MaxMinutes /\ config \in BOOLEAN
    /\ att \in [Atts -> AttRow]
    /\ metrics \in MetricsRow /\ streak \in StreakRow
    /\ wpt \in Seq(LedgerRow)
    /\ api \in Job /\ bot \in BotJob
    /\ crashes \in 0..MaxCrashes
    /\ days \subseteq (Nat \X Atts) /\ early \in 0..Len(wpt)

NewMetrics == [has |-> TRUE, total |-> 0, done |-> 0, balance |-> 0,
               earned |-> 0, spent |-> 0, exp |-> 0, level |-> 1]

\* The migration makes both rows for the workers it finds and stores the
\* setting wpt_rewards; a worker who comes later has neither row.
Init ==
    /\ clock = 0 /\ config \in BOOLEAN
    /\ att = [a \in Atts |-> [status |-> "NO_ROW", in |-> None, out |-> None]]
    /\ \E old \in BOOLEAN :
          /\ metrics = [NewMetrics EXCEPT !.has = old]
          /\ streak = [has |-> old, current |-> 0, longest |-> 0, last |-> None]
    /\ wpt = << >> /\ api = Idle /\ bot = BotIdle
    /\ crashes = 0 /\ days = {} /\ early = 0

-----------------------------------------------------------------------------
(* The attendance table and its trigger.                                   *)

\* update_worker_metrics: fired by every INSERT and every UPDATE.
Touched(m, out) ==
    LET row == IF m.has THEN m ELSE NewMetrics
        finished == IF out # None THEN 1 ELSE 0 IN
    [row EXCEPT !.total = @ + 1, !.done = @ + finished]

WriteAtt(a, row) ==
    /\ metrics.total < MaxWrites
    /\ att' = [att EXCEPT ![a] = row]
    /\ metrics' = Touched(metrics, row.out)

CreateAttendance(a) ==
    /\ att[a].status = "NO_ROW"
    /\ WriteAtt(a, [att[a] EXCEPT !.status = "PENDING"])
    /\ UNCHANGED <<clock, config, streak, wpt, api, bot, crashes, days, early>>

\* check_in leaves an earlier check-out time alone.
CheckIn(a) == WriteAtt(a, [att[a] EXCEPT !.status = "CHECKED_IN", !.in = clock])

CheckOut(a) ==
    IF att[a].in # None
    THEN WriteAtt(a, [att[a] EXCEPT !.status = "COMPLETED", !.out = clock])
    ELSE UNCHANGED <<att, metrics>>

-----------------------------------------------------------------------------
(* The parts of a reward.                                                  *)

\* Faulty: a longer gap continues the run as well.
FaultyNewStreak ==
    IF ~streak.has \/ streak.last = None THEN 1
    ELSE IF Today = streak.last THEN streak.current
    ELSE streak.current + 1

\* UpdateStreak asks for the row of the day: a day later continues the run.
NewStreak ==
    IF ~streak.has \/ streak.last = None THEN 1
    ELSE IF Today - streak.last = 1 THEN streak.current + 1
    ELSE IF Today = streak.last THEN streak.current
    ELSE 1

Bonus(n) == IF n >= BonusEvery THEN 5 * (n \div BonusEvery) ELSE 0

\* Faulty: the code adds to the balance that the trigger adds to as well.
FaultyAward(a, cat, amount, worked) ==
    LET before == IF metrics.has THEN metrics.balance ELSE 0 IN
    /\ wpt' = Append(wpt, [att |-> a, cat |-> cat, amount |-> amount,
                           after |-> before + amount, worked |-> worked])
    /\ IF metrics.has
       THEN /\ metrics' = [metrics EXCEPT !.balance = @ + 2 * amount]
            /\ UNCHANGED early
       ELSE early' = early + 1 /\ UNCHANGED metrics

\* The row of the ledger, and the trigger update_wpt_balance, which finds no
\* row to update before the worker's first attendance.
Award(a, cat, amount, worked) ==
    LET before == IF metrics.has THEN metrics.balance ELSE 0 IN
    /\ wpt' = Append(wpt, [att |-> a, cat |-> cat, amount |-> amount,
                           after |-> before + amount, worked |-> worked])
    /\ IF metrics.has
       THEN /\ metrics' = [metrics EXCEPT !.balance = @ + amount,
                             !.earned = @ + IF amount > 0 THEN amount ELSE 0,
                             !.spent = @ + IF amount < 0 THEN -amount ELSE 0]
            /\ UNCHANGED early
       ELSE early' = early + 1 /\ UNCHANGED metrics

\* The highest level whose requirement is met; none is below zero, and the
\* level stays.
LevelFor(exp, current) ==
    LET met == {l \in Levels : RequiredExp[l] <= exp} IN
    IF met = {} THEN current ELSE Max(met)

\* Faulty: the experience a level took is used up.
FaultyAddExperience(e) ==
    LET exp == metrics.exp + e  level == LevelFor(exp, metrics.level) IN
    metrics' = IF metrics.has
               THEN [metrics EXCEPT !.level = level, !.exp =
                        IF level > metrics.level THEN exp - RequiredExp[level] ELSE exp]
               ELSE metrics

AddExperience(e) ==
    LET exp == metrics.exp + e IN
    metrics' = IF metrics.has
               THEN [metrics EXCEPT !.exp = exp,
                                    !.level = LevelFor(exp, metrics.level)]
               ELSE metrics

-----------------------------------------------------------------------------
(* The handlers of the API, a transaction at a time.                       *)

At(pc) == api.pc = pc
Goto(pc, n) == api' = [api EXCEPT !.pc = pc, !.n = n]
Begin(pc, a, auto, n) ==
    At("idle") /\ api' = [pc |-> pc, att |-> a, auto |-> auto, n |-> n]
Paid(a, cat) == \E i \in DOMAIN wpt : wpt[i].att = a /\ wpt[i].cat = cat

ApiCheckInRead(a) ==
    /\ att[a].status # "NO_ROW" /\ att[a].in = None
    /\ Begin("in_write", a, TRUE, 0)
    /\ UNCHANGED <<clock, config, att, metrics, streak, wpt, bot, crashes, days, early>>

ApiCheckInWrite ==
    /\ At("in_write") /\ CheckIn(api.att) /\ Goto("streak", 0)
    /\ UNCHANGED <<clock, config, streak, wpt, bot, crashes, days, early>>

\* Faulty: the endpoint does not look for an earlier payment.
FaultyClaimCheckIn(a) ==
    /\ att[a].in # None
    /\ Begin("streak", a, FALSE, 0)
    /\ UNCHANGED <<clock, config, att, metrics, streak, wpt, bot, crashes, days, early>>

\* POST /checkin-reward, for a check-in that was not paid.
ClaimCheckIn(a) ==
    /\ att[a].in # None /\ ~Paid(a, "checkin")
    /\ Begin("streak", a, FALSE, 0)
    /\ UNCHANGED <<clock, config, att, metrics, streak, wpt, bot, crashes, days, early>>

\* Faulty: the second check-in of a day is noticed after the update.
FaultyUpdateStreak ==
    /\ At("streak")
    /\ IF config
       THEN api' = Idle /\ UNCHANGED <<streak, days>>
       ELSE /\ streak' = [has |-> TRUE, current |-> NewStreak, last |-> Today,
                          longest |-> Max({streak.longest, NewStreak})]
            /\ days' = days \cup {<<Today, api.att>>}
            /\ IF api.auto /\ streak.last = Today
               THEN api' = Idle ELSE Goto("in_award", NewStreak)
    /\ UNCHANGED <<clock, config, att, metrics, wpt, bot, crashes, early>>

\* The setting is decoded twice when its row exists, so the handler fails
\* here; without a row it uses the defaults.  The second check-in of a day
\* ends the automatic reward, not the endpoint's.
UpdateStreak ==
    /\ At("streak")
    /\ IF config \/ (api.auto /\ streak.last = Today)
       THEN api' = Idle /\ UNCHANGED <<streak, days>>
       ELSE /\ streak' = [has |-> TRUE, current |-> NewStreak, last |-> Today,
                          longest |-> Max({streak.longest, NewStreak})]
            /\ days' = days \cup {<<Today, api.att>>}
            /\ Goto("in_award", NewStreak)
    /\ UNCHANGED <<clock, config, att, metrics, wpt, bot, crashes, early>>

AwardCheckIn ==
    /\ At("in_award")
    /\ Award(api.att, "checkin", 10 + Bonus(api.n), 0) /\ Goto("exp", 5)
    /\ UNCHANGED <<clock, config, att, streak, bot, crashes, days>>

ApiCheckOutRead(a) ==
    /\ att[a].in # None /\ att[a].out = None
    /\ Begin("out_write", a, TRUE, 0)
    /\ UNCHANGED <<clock, config, att, metrics, streak, wpt, bot, crashes, days, early>>

ApiCheckOutWrite ==
    /\ At("out_write") /\ CheckOut(api.att) /\ Goto("reread", 0)
    /\ UNCHANGED <<clock, config, streak, wpt, bot, crashes, days, early>>

\* The time worked is that of the row as it is read again, which a check-in
\* by the bot may have made negative.
Worked(a) == att[a].out - att[a].in

ApiCheckOutReread ==
    /\ At("reread")
    /\ IF config THEN api' = Idle ELSE Goto("out_award", Worked(api.att))
    /\ UNCHANGED <<clock, config, att, metrics, streak, wpt, bot, crashes, days, early>>

\* POST /checkout-reward.
ClaimCheckOut(a) ==
    /\ att[a].out # None /\ ~Paid(a, "checkout") /\ ~config
    /\ Begin("out_award", a, FALSE, Worked(a))
    /\ UNCHANGED <<clock, config, att, metrics, streak, wpt, bot, crashes, days, early>>

\* int() of a number of hours that is given in minutes: towards zero.  Five
\* and two times the hours become whole at whole minutes only, every 12 and
\* every 30, so the seconds decide nothing.
Whole(n) == IF n >= 0 THEN n \div 60 ELSE -((-n) \div 60)

\* Points and experience are each rounded by themselves.
AwardCheckOut ==
    /\ At("out_award")
    /\ Award(api.att, "checkout", 10 + Whole(5 * api.n), api.n)
    /\ Goto("exp", Whole(2 * api.n))
    /\ UNCHANGED <<clock, config, att, streak, bot, crashes, days>>

Experience ==
    /\ At("exp") /\ AddExperience(api.n) /\ api' = Idle
    /\ UNCHANGED <<clock, config, att, streak, wpt, bot, crashes, days, early>>

\* The administrator's endpoints write without asking for an earlier time
\* and pay nothing; what they ask for, once true, stays true.
ManualCheckIn(a) ==
    /\ At("idle") /\ att[a].status # "NO_ROW" /\ CheckIn(a)
    /\ UNCHANGED <<clock, config, streak, wpt, api, bot, crashes, days, early>>

ManualCheckOut(a) ==
    /\ At("idle") /\ att[a].in # None /\ CheckOut(a)
    /\ UNCHANGED <<clock, config, streak, wpt, api, bot, crashes, days, early>>

AdminGrant(amount) ==
    /\ At("idle") /\ Cardinality({i \in DOMAIN wpt : wpt[i].cat = "admin"}) < MaxGrants
    /\ Award(NoAtt, "admin", amount, 0)
    /\ UNCHANGED <<clock, config, att, streak, api, bot, crashes, days>>

-----------------------------------------------------------------------------
(* The worker bot, the clock and a crash.                                  *)

BotRead(a) ==
    /\ bot = BotIdle /\ att[a].status # "NO_ROW"
    /\ \/ att[a].status # "CHECKED_IN" /\ bot' = [pc |-> "in_write", att |-> a]
       \/ att[a].status = "CHECKED_IN" /\ bot' = [pc |-> "out_write", att |-> a]
    /\ UNCHANGED <<clock, config, att, metrics, streak, wpt, api, crashes, days, early>>

BotWrite ==
    /\ \/ bot.pc = "in_write" /\ CheckIn(bot.att)
       \/ bot.pc = "out_write" /\ CheckOut(bot.att)
    /\ bot' = BotIdle
    /\ UNCHANGED <<clock, config, streak, wpt, api, crashes, days, early>>

TimePasses ==
    /\ clock + Tick <= MaxMinutes /\ clock' = clock + Tick
    /\ UNCHANGED <<config, att, metrics, streak, wpt, api, bot, crashes, days, early>>

Crash ==
    /\ crashes < MaxCrashes /\ api # Idle
    /\ crashes' = crashes + 1 /\ api' = Idle
    /\ UNCHANGED <<clock, config, att, metrics, streak, wpt, bot, days, early>>

OnAttendance(a) ==
    \/ CreateAttendance(a) \/ ApiCheckInRead(a) \/ ClaimCheckIn(a)
    \/ ApiCheckOutRead(a) \/ ClaimCheckOut(a) \/ BotRead(a)
    \/ ManualCheckIn(a) \/ ManualCheckOut(a)

ApiStep ==
    \/ ApiCheckInWrite \/ UpdateStreak \/ AwardCheckIn
    \/ ApiCheckOutWrite \/ ApiCheckOutReread \/ AwardCheckOut
    \/ Experience

Next ==
    \/ \E a \in Atts : OnAttendance(a)
    \/ ApiStep \/ BotWrite \/ TimePasses \/ Crash
    \/ \E amount \in Grants : AdminGrant(amount)

Spec == Init /\ [][Next]_vars

-----------------------------------------------------------------------------
(* Safety.                                                                 *)

RowsOf(a, cat) == {i \in DOMAIN wpt : wpt[i].att = a /\ wpt[i].cat = cat}
Working == IF api = Idle THEN 0 ELSE 1

\* No attendance is rewarded twice, although check-in and check-out each have
\* an automatic reward that looks for nothing and an endpoint that looks for
\* an earlier row, and the bot may check in again what was completed.
RewardedOnce ==
    \A a \in Atts, cat \in Categories : Cardinality(RowsOf(a, cat)) <= 1

\* The streak is the run of days that ends with the last one, over all the
\* updates there were: skipped days, second check-ins of a day and endpoint
\* calls after midnight included.
CheckInDays == {d[1] : d \in days}
RunTo(d) == Max({n \in 1..(d + 1) : \A k \in 0..(n - 1) : d - k \in CheckInDays})
StreakIsRun ==
    CheckInDays # {} =>
        /\ streak.last = Max(CheckInDays)
        /\ streak.current = RunTo(streak.last)
        /\ streak.longest = Max({RunTo(d) : d \in CheckInDays})

\* A check-in that moved the streak is paid, although the streak is committed
\* first: only a death of the process leaves one unpaid, and the endpoint then
\* still accepts it.
StreakDaysPaid ==
    Cardinality({d \in days : ~Paid(d[2], "checkin")}) <= crashes + Working

Counted == [i \in DOMAIN wpt |-> IF i <= early THEN 0 ELSE wpt[i].amount]

\* The balance is the sum of the ledger, and each row's balance_after the sum
\* up to it, but for the rows that are older than the metrics row.
LedgerExplainsBalance ==
    /\ metrics.balance = FirstSum(Counted, Len(wpt))
    /\ metrics.balance = metrics.earned - metrics.spent
    /\ \A i \in DOMAIN wpt :
          wpt[i].after = FirstSum(Counted, i - 1) + wpt[i].amount

\* What the trigger has to keep: the types, and a balance the ledger explains.
BalanceInv == TypeOK /\ LedgerExplainsBalance

ExperienceOf(row) == IF row.cat = "checkin" THEN 5 ELSE Whole(2 * row.worked)
Rewards == {i \in DOMAIN wpt : wpt[i].cat # "admin"}
Gained(S) ==
    [i \in DOMAIN wpt |-> IF i \in S THEN ExperienceOf(wpt[i]) ELSE 0]
\* Experience is that of rewards in the ledger, each counted once; at most
\* the last one's is missing, or one per death of the process, and the level
\* is the one the experience reaches.
ExperienceIsPaid ==
    /\ \E S \in SUBSET Rewards :
          /\ Cardinality(Rewards \ S) <= crashes + Working
          /\ metrics.exp = FirstSum(Gained(S), Len(wpt))
    /\ metrics.exp >= 0 => metrics.level = LevelFor(metrics.exp, 1)
=============================================================================
