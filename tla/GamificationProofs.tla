-------------------------- MODULE GamificationProofs --------------------------
(***************************************************************************)
(* For any attendances, levels, grants and bonus length, and any bounds:   *)
(* a reward is paid once, a streak is the run of days it stands for, and   *)
(* the balance and the experience are what the ledger says, whatever the   *)
(* bot writes between the transactions of a handler and wherever it dies.  *)
(*                                                                         *)
(* Typed (the types and what a handler has read that stays true) carries   *)
(* everything; each property has its own invariant on top of it: PaidInv,  *)
(* StreakInv, UnpaidInv, BalanceKept and ExperienceInv.                    *)
(***************************************************************************)
EXTENDS Gamification, SumsProofs, SequenceTheorems

-----------------------------------------------------------------------------
(* Numbers.                                                                *)

LEMMA MaxIs ==
    ASSUME NEW S \in SUBSET Int, NEW x \in S, \A y \in S : x >= y
    PROVE  Max(S) = x
  <1>1. \E m \in S : \A y \in S : m >= y
    OBVIOUS
  <1>2. Max(S) \in S /\ \A y \in S : Max(S) >= y
    <2> DEFINE m == CHOOSE m \in S : \A y \in S : m >= y
    <2>1. m \in S /\ \A y \in S : m >= y
      BY <1>1
    <2>2. Max(S) = m
      BY DEF Max
    <2> HIDE DEF m
    <2> QED BY <2>1, <2>2
  <1>3. Max(S) \in Int /\ x \in Int /\ Max(S) >= x /\ x >= Max(S)
    BY <1>2
  <1> QED BY <1>3

LEMMA MaxOfTwo ==
    ASSUME NEW x \in Nat, NEW y \in Nat
    PROVE  Max({x, y}) = IF x >= y THEN x ELSE y
  <1> DEFINE S == {x, y}
  <1>1. S \in SUBSET Int /\ x \in S /\ y \in S /\ \A z \in S : z = x \/ z = y
    OBVIOUS
  <1> HIDE DEF S
  <1>2. CASE x >= y
    <2>1. \A z \in S : x >= z
      BY <1>1, <1>2
    <2>2. Max(S) = x
      BY <1>1, <2>1, MaxIs
    <2> QED BY <1>2, <2>2 DEF S
  <1>3. CASE ~(x >= y)
    <2>1. \A z \in S : y >= z
      BY <1>1, <1>3
    <2>2. Max(S) = y
      BY <1>1, <2>1, MaxIs
    <2> QED BY <1>3, <2>2 DEF S
  <1> QED BY <1>2, <1>3

\* A level whose requirement is met is found whenever there is one.
LEMMA LevelTyped ==
    ASSUME NEW exp \in Int, NEW current \in Levels
    PROVE  LevelFor(exp, current) \in Levels
  <1> DEFINE met == {l \in Levels : RequiredExp[l] <= exp}
  <1>1. met \in SUBSET (1 .. Len(RequiredExp)) /\ Len(RequiredExp) \in Nat
    BY GamificationAssumption, LenProperties DEF Levels
  <1>2. LevelFor(exp, current) = IF met = {} THEN current ELSE Max(met)
    BY DEF LevelFor
  <1>3. ASSUME met # {} PROVE Max(met) \in met
    <2> HIDE DEF met
    <2>1. PICK x \in met : \A y \in met : x >= y
      <3> DEFINE n == Len(RequiredExp)
      <3>1. met \in SUBSET (1 .. n) /\ n \in Int /\ 1 \in Int
        BY <1>1
      <3> HIDE DEF n
      <3> QED BY <3>1, <1>3, Greatest
    <2>2. met \in SUBSET Int
      BY <1>1
    <2>3. Max(met) = x
      BY <2>1, <2>2, MaxIs
    <2> QED BY <2>1, <2>3
  <1>4. CASE met = {}
    BY <1>4, <1>2
  <1>5. CASE met # {}
    BY <1>5, <1>2, <1>3
  <1> QED BY <1>4, <1>5

\* The first level is the one of a worker without experience, and from there
\* on the current level says nothing.
LEMMA LevelZero == LevelFor(0, 1) = 1
  <1> DEFINE met == {l \in Levels : RequiredExp[l] <= 0}
  <1>1. 1 \in Levels /\ Levels \subseteq Int
    BY GamificationAssumption, LenProperties, EmptySeq DEF Levels
  <1>2. \A l \in Levels : RequiredExp[l] \in Nat
    BY GamificationAssumption, ElementOfSeq, LenProperties DEF Levels
  <1>3. met = {1}
    BY <1>1, <1>2, GamificationAssumption DEF Levels
  <1>4. Max({1}) = 1
    BY MaxIs
  <1> QED BY <1>3, <1>4 DEF LevelFor

LEMMA LevelReached ==
    ASSUME NEW exp \in Int, exp >= 0, NEW current
    PROVE  LevelFor(exp, current) = LevelFor(exp, 1)
  <1> DEFINE met == {l \in Levels : RequiredExp[l] <= exp}
  <1>1. 1 \in met
    BY GamificationAssumption, LenProperties, EmptySeq DEF Levels
  <1> QED BY <1>1 DEF LevelFor

-----------------------------------------------------------------------------
(* The job of the API and that of the bot.                                 *)

Is(pcs) == api.pc \in pcs

\* A handler has read that its attendance is there, and what is there stays:
\* a row, a check-in time, a check-out time, the metrics row.
JobInv ==
    /\ ~Is({"idle"}) => api.att \in Atts /\ metrics.has
    /\ Is({"idle"}) => api = Idle
    /\ Is({"streak", "in_award", "out_write", "reread", "out_award"}) =>
          att[api.att].in # None
    /\ Is({"reread", "out_award"}) => att[api.att].out # None
    /\ Is({"in_write"}) => att[api.att].status # "NO_ROW"
    /\ bot.pc # "idle" => bot.att \in Atts /\ att[bot.att].status # "NO_ROW"
    /\ bot.pc = "idle" => bot = BotIdle
    /\ \A a \in Atts : att[a].in # None => att[a].status # "NO_ROW"
    /\ \A a \in Atts : att[a].out # None => att[a].in # None
    /\ \A a \in Atts : att[a].status # "NO_ROW" => metrics.has
    /\ ~metrics.has => metrics = [NewMetrics EXCEPT !.has = FALSE]

Typed == TypeOK /\ JobInv

\* What a write to the attendance table leaves of the other tables.
LEMMA Writes ==
    ASSUME Typed, NEW a \in Atts, NEW row \in AttRow, WriteAtt(a, row)
    PROVE  /\ att' = [att EXCEPT ![a] = row] /\ att' \in [Atts -> AttRow]
           /\ metrics' \in MetricsRow /\ metrics'.has
           /\ metrics'.balance = metrics.balance /\ metrics'.earned = metrics.earned
           /\ metrics'.spent = metrics.spent /\ metrics'.exp = metrics.exp
           /\ metrics'.level = metrics.level
  <1>1. att' = [att EXCEPT ![a] = row] /\ att' \in [Atts -> AttRow]
    BY DEF WriteAtt, Typed, TypeOK
  <1>2. NewMetrics \in MetricsRow
    BY GamificationAssumption, LenProperties, EmptySeq DEF NewMetrics, MetricsRow, Levels
  <1>3. metrics \in MetricsRow
    BY DEF Typed, TypeOK
  <1> DEFINE base == IF metrics.has THEN metrics ELSE NewMetrics
             one == IF row.out # None THEN 1 ELSE 0
  <1>4. /\ base \in MetricsRow /\ base.has
        /\ base.balance = metrics.balance /\ base.earned = metrics.earned
        /\ base.spent = metrics.spent /\ base.exp = metrics.exp
        /\ base.level = metrics.level
    <2>1. CASE metrics.has
      BY <2>1, <1>3
    <2>2. CASE ~metrics.has
      BY <2>2, <1>2 DEF Typed, JobInv, NewMetrics
    <2> QED BY <2>1, <2>2
  <1>5. metrics' = [base EXCEPT !.total = @ + 1, !.done = @ + one]
    BY DEF WriteAtt, Touched
  <1>6. one \in Nat
    OBVIOUS
  <1> HIDE DEF base, one
  <1> DEFINE t == base.total + 1
             d == base.done + one
  <1>7. metrics' = [base EXCEPT !.total = t, !.done = d]
    BY <1>5
  <1>8. t \in Nat /\ d \in Nat
    BY <1>4, <1>6 DEF MetricsRow
  <1> HIDE DEF t, d
  <1>9. metrics' \in MetricsRow
    BY <1>4, <1>7, <1>8 DEF MetricsRow
  <1>10. /\ metrics'.has = base.has
         /\ metrics'.balance = base.balance /\ metrics'.earned = base.earned
         /\ metrics'.spent = base.spent /\ metrics'.exp = base.exp
         /\ metrics'.level = base.level
    BY <1>4, <1>7 DEF MetricsRow
  <1> QED BY <1>1, <1>4, <1>9, <1>10

\* A row of the ledger, and what the trigger does to the metrics row.
LEMMA Awards ==
    ASSUME Typed, NEW a \in Atts \cup {NoAtt}, NEW cat \in Categories \cup {"admin"},
           NEW amount \in Int, NEW worked \in Int, Award(a, cat, amount, worked)
    PROVE  LET n == Len(wpt) IN
           /\ n \in Nat /\ Len(wpt') = n + 1
           /\ DOMAIN wpt = 1 .. n /\ DOMAIN wpt' = 1 .. (n + 1)
           /\ wpt' \in Seq(LedgerRow)
           /\ \A i \in 1 .. n : wpt'[i] = wpt[i]
           /\ wpt'[n + 1].att = a /\ wpt'[n + 1].cat = cat /\ wpt'[n + 1].amount = amount
           /\ wpt'[n + 1].worked = worked
           /\ wpt'[n + 1].after = IF metrics.has THEN metrics.balance + amount ELSE amount
           /\ metrics' \in MetricsRow /\ metrics'.has = metrics.has
           /\ metrics'.exp = metrics.exp /\ metrics'.level = metrics.level
           /\ metrics'.total = metrics.total
           /\ early' = IF metrics.has THEN early ELSE early + 1
           /\ metrics.has => metrics'.balance = metrics.balance + amount
           /\ ~metrics.has => metrics' = metrics
           /\ metrics'.earned - metrics'.spent - metrics'.balance
                = metrics.earned - metrics.spent - metrics.balance
  <1> DEFINE n == Len(wpt)
             before == IF metrics.has THEN metrics.balance ELSE 0
             row == [att |-> a, cat |-> cat, amount |-> amount, after |-> before + amount,
                     worked |-> worked]
             up == IF amount > 0 THEN amount ELSE 0
             down == IF amount < 0 THEN -amount ELSE 0
  <1>1. metrics \in MetricsRow /\ wpt \in Seq(LedgerRow) /\ early \in 0 .. n
    BY DEF Typed, TypeOK
  <1>2. before \in Int
    BY <1>1 DEF MetricsRow
  <1>3. row \in LedgerRow
    BY <1>2 DEF LedgerRow
  <1>4. wpt' = Append(wpt, row)
    BY DEF Award
  <1>5. up \in Nat /\ down \in Nat /\ up - down = amount
    OBVIOUS
  <1>6. IF metrics.has
        THEN /\ metrics' = [metrics EXCEPT !.balance = @ + amount,
                              !.earned = @ + up, !.spent = @ + down]
             /\ early' = early
        ELSE early' = early + 1 /\ metrics' = metrics
    BY DEF Award
  <1>7. /\ row.att = a /\ row.cat = cat /\ row.amount = amount /\ row.worked = worked
        /\ row.after = IF metrics.has THEN metrics.balance + amount ELSE amount
    BY <1>1 DEF MetricsRow
  <1>8. /\ metrics' \in MetricsRow /\ metrics'.has = metrics.has
        /\ metrics'.exp = metrics.exp /\ metrics'.level = metrics.level
        /\ metrics'.total = metrics.total
        /\ early' = IF metrics.has THEN early ELSE early + 1
        /\ metrics.has => metrics'.balance = metrics.balance + amount
        /\ ~metrics.has => metrics' = metrics
        /\ metrics'.earned - metrics'.spent - metrics'.balance
             = metrics.earned - metrics.spent - metrics.balance
    <2> HIDE DEF up, down
    <2>1. CASE metrics.has
      <3> DEFINE b == metrics.balance + amount
                 e == metrics.earned + up
                 s == metrics.spent + down
      <3>1. metrics' = [metrics EXCEPT !.balance = b, !.earned = e, !.spent = s]
        BY <2>1, <1>6
      <3>2. /\ b \in Int /\ e \in Nat /\ s \in Nat
            /\ e - s - b = metrics.earned - metrics.spent - metrics.balance
        <4>1. metrics.balance \in Int /\ metrics.earned \in Nat /\ metrics.spent \in Nat
          BY <1>1 DEF MetricsRow
        <4> QED BY <4>1, <1>5
      <3>3. b = metrics.balance + amount
        OBVIOUS
      <3> HIDE DEF b, e, s
      <3>4. /\ metrics' \in MetricsRow /\ metrics'.has = metrics.has
            /\ metrics'.exp = metrics.exp /\ metrics'.level = metrics.level
            /\ metrics'.total = metrics.total
            /\ metrics'.balance = b /\ metrics'.earned = e /\ metrics'.spent = s
        BY <1>1, <3>1, <3>2 DEF MetricsRow
      <3> QED BY <2>1, <1>6, <3>2, <3>3, <3>4
    <2>2. CASE ~metrics.has
      BY <2>2, <1>1, <1>6 DEF MetricsRow
    <2> QED BY <2>1, <2>2
  <1> HIDE DEF row
  <1>9. /\ n \in Nat /\ Len(wpt') = n + 1 /\ DOMAIN wpt = 1 .. n /\ DOMAIN wpt' = 1 .. (n + 1)
        /\ wpt' \in Seq(LedgerRow) /\ wpt'[n + 1] = row
        /\ \A i \in 1 .. n : wpt'[i] = wpt[i]
    BY <1>1, <1>3, <1>4, AppendProperties, LenProperties
  <1> QED BY <1>7, <1>8, <1>9

\* A reading of the clock is no missing time.
LEMMA ClockTyped ==
    ASSUME TypeOK
    PROVE  /\ clock \in Nat /\ clock # None /\ clock \in Int
           /\ Today \in Nat /\ Today # None
  <1>1. clock \in Nat
    BY GamificationAssumption DEF TypeOK
  <1> QED BY <1>1 DEF None, Today

LEMMA AttTyped ==
    ASSUME TypeOK, NEW a \in Atts
    PROVE  /\ att[a] \in AttRow /\ att[a].in \in Int /\ att[a].out \in Int
  BY DEF TypeOK, AttRow

\* A check-in and a check-out write one row; what has a time keeps one.
LEMMA ChecksIn ==
    ASSUME Typed, NEW a \in Atts, CheckIn(a)
    PROVE  \E row \in AttRow :
              /\ WriteAtt(a, row)
              /\ row.status = "CHECKED_IN" /\ row.in # None /\ row.out = att[a].out
  <1>1. /\ att[a] \in AttRow /\ clock \in Int /\ clock # None
    BY ClockTyped, AttTyped DEF Typed
  <1> DEFINE row == [att[a] EXCEPT !.status = "CHECKED_IN", !.in = clock]
  <1>2. /\ row \in AttRow /\ row.status = "CHECKED_IN" /\ row.in = clock
        /\ row.out = att[a].out
    BY <1>1 DEF AttRow
  <1>3. WriteAtt(a, row)
    BY DEF CheckIn
  <1> QED BY <1>1, <1>2, <1>3

LEMMA ChecksOut ==
    ASSUME Typed, NEW a \in Atts, CheckOut(a), att[a].in # None
    PROVE  \E row \in AttRow :
              /\ WriteAtt(a, row)
              /\ row.status = "COMPLETED" /\ row.in = att[a].in /\ row.out # None
  <1>1. /\ att[a] \in AttRow /\ clock \in Int /\ clock # None
    BY ClockTyped, AttTyped DEF Typed
  <1> DEFINE row == [att[a] EXCEPT !.status = "COMPLETED", !.out = clock]
  <1>2. /\ row \in AttRow /\ row.status = "COMPLETED" /\ row.in = att[a].in
        /\ row.out = clock
    BY <1>1 DEF AttRow
  <1>3. WriteAtt(a, row)
    BY DEF CheckOut
  <1> QED BY <1>1, <1>2, <1>3

\* A check-out of a row without a check-in writes nothing.
LEMMA ChecksNothing ==
    ASSUME NEW a, CheckOut(a), att[a].in = None
    PROVE  UNCHANGED <<att, metrics>>
  BY DEF CheckOut

\* Every write keeps what the jobs have read.
Grown(a, row) ==
    /\ row.status # "NO_ROW"
    /\ att[a].in # None => row.in # None
    /\ att[a].out # None => row.out # None
    /\ row.in # None \/ row.out = None

\* The parts of the type invariant that a write to the table disturbs, and
\* the job invariant but for the job that takes the step.
LEMMA Kept ==
    ASSUME Typed, NEW a \in Atts, NEW row \in AttRow, WriteAtt(a, row), Grown(a, row)
    PROVE  /\ att' \in [Atts -> AttRow] /\ metrics' \in MetricsRow /\ metrics'.has
           /\ att'[a] = row
           /\ \A b \in Atts :
                 /\ att'[b].in # None => att'[b].status # "NO_ROW"
                 /\ att'[b].out # None => att'[b].in # None
                 /\ att[b].status # "NO_ROW" => att'[b].status # "NO_ROW"
                 /\ att[b].in # None => att'[b].in # None
                 /\ att[b].out # None => att'[b].out # None
  <1>1. /\ att' = [att EXCEPT ![a] = row] /\ att' \in [Atts -> AttRow]
        /\ metrics' \in MetricsRow /\ metrics'.has
    BY Writes
  <1>2. \A b \in Atts : att'[b] = IF b = a THEN row ELSE att[b]
    BY <1>1 DEF Typed, TypeOK
  <1> QED BY <1>1, <1>2 DEF Grown, Typed, JobInv

\* Every write to the table keeps the invariant, whoever makes it, if the
\* jobs that follow are the jobs before it or have seen it.
LEMMA WriteKeeps ==
    ASSUME Typed, NEW a \in Atts, NEW row \in AttRow, WriteAtt(a, row), Grown(a, row),
           api' \in Job, bot' \in BotJob,
           UNCHANGED <<clock, config, streak, wpt, crashes, days, early>>,
           \/ api' = api
           \/ /\ api'.pc # "idle" /\ api'.att = a
              /\ api'.pc \in {"streak", "reread"} /\ row.in # None
              /\ api'.pc = "reread" => row.out # None,
           bot' = bot \/ bot' = BotIdle
    PROVE  Typed'
  <1>1. /\ att' \in [Atts -> AttRow] /\ metrics' \in MetricsRow /\ metrics'.has
        /\ att'[a] = row
        /\ \A b \in Atts :
              /\ att'[b].in # None => att'[b].status # "NO_ROW"
              /\ att'[b].out # None => att'[b].in # None
              /\ att[b].status # "NO_ROW" => att'[b].status # "NO_ROW"
              /\ att[b].in # None => att'[b].in # None
              /\ att[b].out # None => att'[b].out # None
    BY Kept
  <1>2. TypeOK'
    BY <1>1 DEF Typed, TypeOK
  <1> USE DEF Typed
  <1> HIDE DEF Idle
  <1>3. JobInv'
    <2>1. /\ (~Is({"idle"}) => api.att \in Atts /\ metrics.has)'
          /\ (Is({"idle"}) => api = Idle)'
          /\ (Is({"streak", "in_award", "out_write", "reread", "out_award"}) =>
                att[api.att].in # None)'
          /\ (Is({"reread", "out_award"}) => att[api.att].out # None)'
          /\ (Is({"in_write"}) => att[api.att].status # "NO_ROW")'
      <3>1. CASE api' = api
        BY <3>1, <1>1 DEF JobInv, Is, Idle
      <3>2. CASE api' # api
        BY <3>2, <1>1 DEF JobInv, Is
      <3> QED BY <3>1, <3>2
    <2>2. /\ (bot.pc # "idle" => bot.att \in Atts /\ att[bot.att].status # "NO_ROW")'
          /\ (bot.pc = "idle" => bot = BotIdle)'
      BY <1>1 DEF JobInv, BotIdle
    <2> QED BY <1>1, <2>1, <2>2 DEF JobInv
  <1> QED BY <1>2, <1>3

LEMMA InitTyped == Init => Typed
  <1> SUFFICES ASSUME Init PROVE Typed
    OBVIOUS
  <1>1. NewMetrics \in MetricsRow
    BY GamificationAssumption, LenProperties, EmptySeq DEF NewMetrics, MetricsRow, Levels
  <1>2. PICK old \in BOOLEAN :
           /\ metrics = [NewMetrics EXCEPT !.has = old]
           /\ streak = [has |-> old, current |-> 0, longest |-> 0, last |-> None]
    BY DEF Init
  <1>3. metrics \in MetricsRow /\ metrics.has = old
    BY <1>1, <1>2 DEF MetricsRow
  <1>4. None \in Int
    BY DEF None
  <1>5. streak \in StreakRow
    BY <1>2, <1>4 DEF StreakRow
  <1>6. /\ att = [a \in Atts |-> [status |-> "NO_ROW", in |-> None, out |-> None]]
        /\ att \in [Atts -> AttRow]
    BY <1>4 DEF Init, AttRow
  <1>7. wpt = << >> /\ wpt \in Seq(LedgerRow) /\ Len(wpt) = 0 /\ early = 0
    BY EmptySeq DEF Init
  <1>8. clock \in 0 .. MaxMinutes /\ crashes \in 0 .. MaxCrashes
    BY GamificationAssumption DEF Init
  <1>9. TypeOK
    BY <1>3, <1>5, <1>6, <1>7, <1>8 DEF Init, TypeOK, Idle, BotIdle, Job, BotJob, ApiSteps
  <1>10. ~metrics.has => metrics = [NewMetrics EXCEPT !.has = FALSE]
    BY <1>2, <1>3
  <1>11. api.pc = "idle" /\ api = Idle /\ bot = BotIdle /\ bot.pc = "idle"
    BY DEF Init, Idle, BotIdle
  <1>12. \A a \in Atts : att[a].in = None /\ att[a].out = None /\ att[a].status = "NO_ROW"
    BY <1>6
  <1>13. JobInv
    BY <1>10, <1>11, <1>12 DEF JobInv, Is
  <1> QED BY <1>9, <1>13 DEF Typed

\* What the next step of the API is, when its tables stay.
LEMMA JobStep ==
    ASSUME Typed, api' \in Job, bot' \in BotJob, clock' \in 0 .. MaxMinutes,
           crashes' \in 0 .. MaxCrashes, streak' \in StreakRow, days' \subseteq (Nat \X Atts),
           UNCHANGED <<config, att, metrics, wpt, early>>,
           api'.pc = "idle" => api' = Idle,
           api'.pc # "idle" => api'.att \in Atts /\ metrics.has,
           api'.pc \in {"streak", "in_award", "out_write", "reread", "out_award"} =>
               att[api'.att].in # None,
           api'.pc \in {"reread", "out_award"} => att[api'.att].out # None,
           api'.pc = "in_write" => att[api'.att].status # "NO_ROW",
           bot'.pc # "idle" => bot'.att \in Atts /\ att[bot'.att].status # "NO_ROW",
           bot'.pc = "idle" => bot' = BotIdle
    PROVE  Typed'
  <1> HIDE DEF Idle, BotIdle
  <1>1. TypeOK'
    BY DEF Typed, TypeOK
  <1>2. JobInv'
    BY DEF Typed, JobInv, Is, Idle, BotIdle
  <1> QED BY <1>1, <1>2 DEF Typed

\* A job is the record of its four fields.
LEMMA Begun ==
    ASSUME NEW pc \in ApiSteps, NEW a \in Atts, NEW auto \in BOOLEAN, NEW n \in Int,
           Begin(pc, a, auto, n)
    PROVE  /\ api' \in Job /\ api'.pc = pc /\ api'.att = a
           /\ api'.n = n /\ api'.auto = auto /\ At("idle")
  BY DEF Begin, Job

LEMMA Gone ==
    ASSUME api \in Job, NEW pc \in ApiSteps, NEW n \in Int, Goto(pc, n)
    PROVE  api' \in Job /\ api'.pc = pc /\ api'.att = api.att /\ api'.n = n
           /\ api'.auto = api.auto
  BY DEF Goto, Job

LEMMA IdleTyped == Idle \in Job /\ BotIdle \in BotJob /\ Idle.pc = "idle" /\ BotIdle.pc = "idle"
  BY DEF Idle, BotIdle, Job, BotJob, ApiSteps

\* What the type invariant says of the variables that most steps leave.
LEMMA Fields ==
    ASSUME Typed
    PROVE  /\ api \in Job /\ bot \in BotJob /\ clock \in 0 .. MaxMinutes
           /\ crashes \in 0 .. MaxCrashes /\ streak \in StreakRow
           /\ days \subseteq (Nat \X Atts)
           /\ bot.pc # "idle" => bot.att \in Atts /\ att[bot.att].status # "NO_ROW"
           /\ bot.pc = "idle" => bot = BotIdle
  BY DEF Typed, TypeOK, JobInv

LEMMA HasRow ==
    ASSUME Typed, NEW a \in Atts, att[a].in # None \/ att[a].status # "NO_ROW"
    PROVE  metrics.has /\ att[a].status # "NO_ROW"
  BY DEF Typed, JobInv

LEMMA NewStreakTyped ==
    ASSUME TypeOK
    PROVE  NewStreak \in Nat
  <1>1. streak.current \in Nat /\ streak.last \in Int
    BY DEF TypeOK, StreakRow
  <1> QED BY <1>1 DEF NewStreak

\* The time of a row, whatever its ends.
LEMMA WorkedTyped ==
    ASSUME TypeOK, NEW a \in Atts
    PROVE  Worked(a) \in Int
  BY AttTyped DEF Worked

-----------------------------------------------------------------------------
(* Types, action by action.                                                *)

\* The reads of the API and of the bot, the clock and a crash.
LEMMA ReadsTyped ==
    ASSUME Typed, NEW a \in Atts,
           \/ ApiCheckInRead(a) \/ ClaimCheckIn(a) \/ ApiCheckOutRead(a)
           \/ ClaimCheckOut(a) \/ BotRead(a)
    PROVE  Typed'
  <1> HIDE DEF Idle, BotIdle
  <1>1. {"in_write", "streak", "out_write", "out_award"} \subseteq ApiSteps /\ 0 \in Int
    BY DEF ApiSteps
  <1>2. CASE ApiCheckInRead(a)
    <2>1. Begin("in_write", a, TRUE, 0)
      BY <1>2 DEF ApiCheckInRead
    <2> QED BY <1>2, <2>1, <1>1, Begun, Fields, HasRow, JobStep DEF ApiCheckInRead
  <1>3. CASE ClaimCheckIn(a)
    <2>1. Begin("streak", a, FALSE, 0)
      BY <1>3 DEF ClaimCheckIn
    <2> QED BY <1>3, <2>1, <1>1, Begun, Fields, HasRow, JobStep DEF ClaimCheckIn
  <1>4. CASE ApiCheckOutRead(a)
    <2>1. Begin("out_write", a, TRUE, 0)
      BY <1>4 DEF ApiCheckOutRead
    <2> QED BY <1>4, <2>1, <1>1, Begun, Fields, HasRow, JobStep DEF ApiCheckOutRead
  <1>5. CASE ClaimCheckOut(a)
    <2>1. Begin("out_award", a, FALSE, Worked(a))
      BY <1>5 DEF ClaimCheckOut
    <2>2. Worked(a) \in Int
      BY WorkedTyped DEF Typed
    <2>3. att[a].in # None
      BY <1>5 DEF ClaimCheckOut, Typed, JobInv
    <2> QED BY <1>5, <2>1, <2>2, <2>3, <1>1, Begun, Fields, HasRow, JobStep DEF ClaimCheckOut
  <1>6. CASE BotRead(a)
    <2>1. bot' \in BotJob /\ bot'.pc # "idle" /\ bot'.att = a
      BY <1>6 DEF BotRead, BotJob
    <2>2. api' = api /\ att[a].status # "NO_ROW"
      BY <1>6 DEF BotRead
    <2> QED BY <1>6, <2>1, <2>2, Fields, JobStep DEF BotRead, Typed, JobInv, Is
  <1> QED BY <1>2, <1>3, <1>4, <1>5, <1>6

\* What happens to the table is done by one of its writers.
LEMMA CreateTyped ==
    ASSUME Typed, NEW a \in Atts, CreateAttendance(a)
    PROVE  Typed'
  <1> DEFINE row == [att[a] EXCEPT !.status = "PENDING"]
  <1>1. att[a] \in AttRow
    BY AttTyped DEF Typed
  <1>2. /\ row \in AttRow /\ row.status = "PENDING" /\ row.in = att[a].in
        /\ row.out = att[a].out
    BY <1>1 DEF AttRow
  <1>3. WriteAtt(a, row)
    BY DEF CreateAttendance
  <1>4. Grown(a, row)
    BY <1>2 DEF Grown, Typed, JobInv
  <1> HIDE DEF row
  <1> QED BY <1>2, <1>3, <1>4, Fields, WriteKeeps DEF CreateAttendance

LEMMA CheckInTyped ==
    ASSUME Typed, NEW a \in Atts, CheckIn(a), api' \in Job, bot' \in BotJob,
           UNCHANGED <<clock, config, streak, wpt, crashes, days, early>>,
           \/ api' = api
           \/ api'.att = a /\ api'.pc = "streak",
           bot' = bot \/ bot' = BotIdle
    PROVE  Typed'
  <1>1. PICK row \in AttRow :
              /\ WriteAtt(a, row)
              /\ row.status = "CHECKED_IN" /\ row.in # None /\ row.out = att[a].out
    BY ChecksIn
  <1>2. Grown(a, row)
    BY <1>1 DEF Grown
  <1> QED BY <1>1, <1>2, WriteKeeps

LEMMA CheckOutTyped ==
    ASSUME Typed, NEW a \in Atts, CheckOut(a), att[a].in # None,
           api' \in Job, bot' \in BotJob,
           UNCHANGED <<clock, config, streak, wpt, crashes, days, early>>,
           \/ api' = api
           \/ api'.att = a /\ api'.pc = "reread",
           bot' = bot \/ bot' = BotIdle
    PROVE  Typed'
  <1>1. PICK row \in AttRow :
              /\ WriteAtt(a, row)
              /\ row.status = "COMPLETED" /\ row.in = att[a].in /\ row.out # None
    BY ChecksOut
  <1>2. Grown(a, row)
    BY <1>1 DEF Grown
  <1> QED BY <1>1, <1>2, WriteKeeps

LEMMA WritersTyped ==
    ASSUME Typed,
           \/ ApiCheckInWrite \/ ApiCheckOutWrite \/ BotWrite
           \/ \E a \in Atts : ManualCheckIn(a) \/ ManualCheckOut(a)
    PROVE  Typed'
  <1> HIDE DEF Idle, BotIdle
  <1>1. api \in Job /\ bot \in BotJob /\ BotIdle \in BotJob /\ 0 \in Int
        /\ "streak" \in ApiSteps /\ "reread" \in ApiSteps
    BY Fields, IdleTyped DEF ApiSteps
  <1>2. CASE ApiCheckInWrite
    <2>1. At("in_write") /\ CheckIn(api.att) /\ Goto("streak", 0)
      BY <1>2 DEF ApiCheckInWrite
    <2>2. api' \in Job /\ api'.pc = "streak" /\ api'.att = api.att
      BY <1>1, <2>1, Gone
    <2>3. api.att \in Atts
      BY <2>1 DEF At, Typed, JobInv, Is
    <2> QED BY <1>1, <1>2, <2>1, <2>2, <2>3, CheckInTyped DEF ApiCheckInWrite
  <1>3. CASE ApiCheckOutWrite
    <2>1. At("out_write") /\ CheckOut(api.att) /\ Goto("reread", 0)
      BY <1>3 DEF ApiCheckOutWrite
    <2>2. api' \in Job /\ api'.pc = "reread" /\ api'.att = api.att
      BY <1>1, <2>1, Gone
    <2>3. api.att \in Atts /\ att[api.att].in # None
      BY <2>1 DEF At, Typed, JobInv, Is
    <2> QED BY <1>1, <1>3, <2>1, <2>2, <2>3, CheckOutTyped DEF ApiCheckOutWrite
  <1>4. CASE BotWrite
    <2>1. bot.pc # "idle" /\ bot' = BotIdle /\ api' = api
      BY <1>4 DEF BotWrite
    <2>2. bot.att \in Atts
      BY <2>1, Fields
    <2>3. CASE CheckIn(bot.att)
      BY <1>1, <1>4, <2>1, <2>2, <2>3, CheckInTyped DEF BotWrite
    <2>4. CASE CheckOut(bot.att)
      <3>1. CASE att[bot.att].in # None
        BY <1>1, <1>4, <2>1, <2>2, <2>4, <3>1, CheckOutTyped DEF BotWrite
      <3>2. CASE att[bot.att].in = None
        <4>1. UNCHANGED <<clock, config, att, metrics, streak, wpt, api, crashes, days, early>>
          BY <1>4, <2>4, <3>2, ChecksNothing DEF BotWrite
        <4>2. BotIdle.pc = "idle"
          BY IdleTyped
        <4> QED BY <1>1, <2>1, <4>1, <4>2, Fields, JobStep DEF Typed, JobInv, Is
      <3> QED BY <3>1, <3>2
    <2> QED BY <1>4, <2>3, <2>4 DEF BotWrite
  <1>5. ASSUME NEW a \in Atts, ManualCheckIn(a) PROVE Typed'
    BY <1>1, <1>5, CheckInTyped DEF ManualCheckIn
  <1>6. ASSUME NEW a \in Atts, ManualCheckOut(a) PROVE Typed'
    BY <1>1, <1>6, CheckOutTyped DEF ManualCheckOut
  <1> QED BY <1>2, <1>3, <1>4, <1>5, <1>6

LEMMA WholeTyped ==
    ASSUME NEW n \in Int
    PROVE  Whole(n) \in Int
  BY DEF Whole

\* The amounts of rewards.
LEMMA AmountsTyped ==
    ASSUME TypeOK
    PROVE  /\ api.n \in Int
           /\ 10 + Bonus(api.n) \in Int /\ 10 + Whole(5 * api.n) \in Int /\ Whole(2 * api.n) \in Int
  <1>1. api.n \in Int
    BY DEF TypeOK, Job
  <1>2. Bonus(api.n) \in Int
    BY <1>1, GamificationAssumption DEF Bonus
  <1>3. 5 * api.n \in Int /\ 2 * api.n \in Int
    BY <1>1
  <1>4. Whole(5 * api.n) \in Int /\ Whole(2 * api.n) \in Int
    BY <1>3, WholeTyped
  <1> QED BY <1>1, <1>2, <1>4

\* A step that pays.
LEMMA AwardTyped ==
    ASSUME Typed, NEW a \in Atts \cup {NoAtt}, NEW cat \in Categories \cup {"admin"},
           NEW amount \in Int, NEW worked \in Int, Award(a, cat, amount, worked),
           UNCHANGED <<clock, config, att, streak, bot, crashes, days>>,
           \/ api' = api
           \/ api' \in Job /\ api'.pc = "exp" /\ api'.att = api.att /\ api.pc # "idle"
    PROVE  Typed'
  <1> DEFINE n == Len(wpt)
  <1>1. /\ n \in Nat /\ Len(wpt') = n + 1 /\ wpt' \in Seq(LedgerRow)
        /\ metrics' \in MetricsRow /\ metrics'.has = metrics.has
        /\ early' = IF metrics.has THEN early ELSE early + 1
        /\ ~metrics.has => metrics' = metrics
    BY Awards
  <1>2. early \in 0 .. n
    BY DEF Typed, TypeOK
  <1> HIDE DEF n, Idle, BotIdle, NewMetrics
  <1>3. early' \in 0 .. Len(wpt')
    BY <1>1, <1>2
  <1>4. TypeOK'
    BY <1>1, <1>3 DEF Typed, TypeOK
  <1>5. JobInv'
    BY <1>1 DEF Typed, JobInv, Is, Idle, BotIdle, NewMetrics
  <1> QED BY <1>4, <1>5 DEF Typed

LEMMA PayersTyped ==
    ASSUME Typed, AwardCheckIn \/ AwardCheckOut \/ \E amount \in Grants : AdminGrant(amount)
    PROVE  Typed'
  <1>1. /\ api \in Job /\ "exp" \in ApiSteps /\ 5 \in Int /\ api.n \in Int
        /\ 10 + Bonus(api.n) \in Int /\ 10 + Whole(5 * api.n) \in Int /\ Whole(2 * api.n) \in Int
    BY Fields, AmountsTyped DEF ApiSteps, Typed
  <1>2. CASE AwardCheckIn
    <2>1. At("in_award") /\ Award(api.att, "checkin", 10 + Bonus(api.n), 0) /\ Goto("exp", 5)
      BY <1>2 DEF AwardCheckIn
    <2>2. api.att \in Atts /\ "checkin" \in Categories /\ api.pc # "idle"
      BY <2>1 DEF At, Typed, JobInv, Is, Categories
    <2>3. api' \in Job /\ api'.pc = "exp" /\ api'.att = api.att
      BY <1>1, <2>1, Gone
    <2> DEFINE sum == 10 + Bonus(api.n)
    <2>4. sum \in Int /\ Award(api.att, "checkin", sum, 0)
      BY <1>1, <2>1
    <2> HIDE DEF sum
    <2> QED BY <1>2, <2>2, <2>3, <2>4, AwardTyped DEF AwardCheckIn
  <1>3. CASE AwardCheckOut
    <2> DEFINE m == Whole(2 * api.n)
               sum == 10 + Whole(5 * api.n)
    <2>1. At("out_award") /\ Award(api.att, "checkout", sum, api.n) /\ Goto("exp", m)
      BY <1>3 DEF AwardCheckOut
    <2>2. api.att \in Atts /\ "checkout" \in Categories /\ api.pc # "idle"
      BY <2>1 DEF At, Typed, JobInv, Is, Categories
    <2>3. m \in Int /\ sum \in Int
      BY <1>1
    <2> HIDE DEF m, sum
    <2>4. api' \in Job /\ api'.pc = "exp" /\ api'.att = api.att
      BY <1>1, <2>1, <2>3, Gone
    <2> QED BY <1>1, <1>3, <2>1, <2>2, <2>3, <2>4, AwardTyped DEF AwardCheckOut
  <1>4. ASSUME NEW amount \in Grants, AdminGrant(amount) PROVE Typed'
    <2>1. amount \in Int
      BY GamificationAssumption
    <2> QED BY <1>4, <2>1, AwardTyped DEF AdminGrant
  <1> QED BY <1>2, <1>3, <1>4

LEMMA ExperienceTyped ==
    ASSUME Typed, Experience
    PROVE  Typed'
  <1> DEFINE exp == metrics.exp + api.n
             level == LevelFor(exp, metrics.level)
  <1>1. metrics \in MetricsRow /\ exp \in Int /\ metrics.has
    <2>1. metrics \in MetricsRow /\ metrics.exp \in Int /\ api.n \in Int
      BY AmountsTyped DEF Typed, TypeOK, MetricsRow
    <2>2. metrics.has
      BY DEF Experience, At, Typed, JobInv, Is
    <2> QED BY <2>1, <2>2
  <1>2. level \in Levels
    <2> HIDE DEF exp
    <2> QED BY <1>1, LevelTyped DEF MetricsRow
  <1>3. metrics' = [metrics EXCEPT !.exp = exp, !.level = level]
    BY <1>1 DEF Experience, AddExperience
  <1> HIDE DEF exp, level, Idle, BotIdle
  <1>4. metrics' \in MetricsRow /\ metrics'.has
    BY <1>1, <1>2, <1>3 DEF MetricsRow
  <1>5. TypeOK'
    BY <1>4, IdleTyped DEF Experience, Typed, TypeOK
  <1>6. JobInv'
    BY <1>4, IdleTyped DEF Experience, Typed, JobInv, Is
  <1> QED BY <1>5, <1>6 DEF Typed

LEMMA UpdateStreakTyped ==
    ASSUME Typed, UpdateStreak
    PROVE  Typed'
  <1>1. /\ api \in Job /\ NewStreak \in Int /\ NewStreak \in Nat /\ "in_award" \in ApiSteps
        /\ Today \in Nat /\ streak \in StreakRow
    BY Fields, NewStreakTyped, ClockTyped DEF ApiSteps, Typed
  <1>2. /\ api.att \in Atts /\ metrics.has /\ att[api.att].in # None
    BY DEF UpdateStreak, At, Typed, JobInv, Is
  <1> HIDE DEF Idle, BotIdle
  <1>3. CASE api' = Idle /\ UNCHANGED <<streak, days>>
    BY <1>1, <1>3, Fields, IdleTyped, JobStep DEF UpdateStreak
  <1>4. CASE /\ streak' = [has |-> TRUE, current |-> NewStreak, last |-> Today,
                           longest |-> Max({streak.longest, NewStreak})]
             /\ days' = days \cup {<<Today, api.att>>}
             /\ Goto("in_award", NewStreak)
    <2>1. Max({streak.longest, NewStreak}) \in Nat
      <3> DEFINE x == streak.longest
                 y == NewStreak
      <3>1. x \in Nat /\ y \in Nat
        BY <1>1 DEF StreakRow
      <3> HIDE DEF x, y
      <3>2. Max({x, y}) \in Nat
        BY <3>1, MaxOfTwo
      <3> QED BY <3>2 DEF x, y
    <2>2. streak' \in StreakRow
      BY <1>1, <1>4, <2>1 DEF StreakRow
    <2>3. days' \subseteq (Nat \X Atts)
      BY <1>1, <1>2, <1>4, Fields
    <2>4. api' \in Job /\ api'.pc = "in_award" /\ api'.att = api.att
      BY <1>1, <1>4, Gone
    <2> QED BY <1>2, <2>2, <2>3, <2>4, Fields, JobStep DEF UpdateStreak
  <1> QED BY <1>3, <1>4 DEF UpdateStreak

LEMMA RereadTyped ==
    ASSUME Typed, ApiCheckOutReread
    PROVE  Typed'
  <1> HIDE DEF Idle, BotIdle
  <1>1. /\ api.att \in Atts /\ metrics.has /\ att[api.att].in # None /\ att[api.att].out # None
    BY DEF ApiCheckOutReread, At, Typed, JobInv, Is
  <1>2. /\ api \in Job /\ Worked(api.att) \in Int /\ "out_award" \in ApiSteps
    BY <1>1, Fields, WorkedTyped DEF ApiSteps, Typed
  <1>3. CASE api' = Idle
    BY <1>3, Fields, IdleTyped, JobStep DEF ApiCheckOutReread
  <1>4. CASE Goto("out_award", Worked(api.att))
    <2>1. api' \in Job /\ api'.pc = "out_award" /\ api'.att = api.att
      BY <1>2, <1>4, Gone
    <2> QED BY <1>1, <2>1, Fields, JobStep DEF ApiCheckOutReread
  <1> QED BY <1>3, <1>4 DEF ApiCheckOutReread

LEMMA TimePassesTyped ==
    ASSUME Typed, TimePasses
    PROVE  Typed' /\ clock' \in Nat /\ clock <= clock'
  <1>1. clock \in Nat /\ Tick \in Nat /\ clock' = clock + Tick /\ clock' <= MaxMinutes
        /\ MaxMinutes \in Nat
    BY ClockTyped, GamificationAssumption DEF TimePasses, Typed
  <1>2. clock' \in 0 .. MaxMinutes
    BY <1>1
  <1>3. api' = api /\ bot' = bot
    BY DEF TimePasses
  <1> HIDE DEF Idle, BotIdle
  <1>4. Typed'
    BY <1>2, <1>3, Fields, JobStep DEF TimePasses, Typed, JobInv, Is
  <1> QED BY <1>1, <1>4

LEMMA CrashTyped ==
    ASSUME Typed, Crash
    PROVE  Typed' /\ crashes' = crashes + 1 /\ crashes \in Nat
  <1>1. crashes \in Nat /\ crashes < MaxCrashes /\ crashes' = crashes + 1 /\ MaxCrashes \in Nat
    BY GamificationAssumption DEF Crash, Typed, TypeOK
  <1>2. crashes' \in 0 .. MaxCrashes
    BY <1>1
  <1> HIDE DEF Idle, BotIdle
  <1>3. Typed'
    BY <1>2, Fields, IdleTyped, JobStep DEF Crash
  <1> QED BY <1>1, <1>3

LEMMA TypedStep == Typed /\ [Next]_vars => Typed'
  <1> SUFFICES ASSUME Typed, [Next]_vars PROVE Typed'
    OBVIOUS
  <1>1. CASE \E a \in Atts : OnAttendance(a)
    BY <1>1, CreateTyped, ReadsTyped, WritersTyped DEF OnAttendance
  <1>2. CASE ApiStep
    BY <1>2, WritersTyped, PayersTyped, ExperienceTyped, UpdateStreakTyped, RereadTyped
       DEF ApiStep
  <1>3. CASE BotWrite
    BY <1>3, WritersTyped
  <1>4. CASE TimePasses \/ Crash
    BY <1>4, TimePassesTyped, CrashTyped
  <1>5. CASE \E amount \in Grants : AdminGrant(amount)
    BY <1>5, PayersTyped
  <1>6. CASE UNCHANGED vars
    BY <1>6 DEF vars, Typed, TypeOK, JobInv, Is
  <1> QED BY <1>1, <1>2, <1>3, <1>4, <1>5, <1>6 DEF Next

-----------------------------------------------------------------------------
(* No reward is paid twice.  Whoever pays has seen that the attendance was *)
(* not paid: the endpoint in the ledger, the automatic reward in the time  *)
(* that was missing before its own write.                                  *)

PaidInv ==
    /\ \A a \in Atts : att[a].in = None => ~Paid(a, "checkin")
    /\ \A a \in Atts : att[a].out = None => ~Paid(a, "checkout")
    /\ Is({"in_write", "streak", "in_award"}) => ~Paid(api.att, "checkin")
    /\ Is({"out_write", "reread", "out_award"}) => ~Paid(api.att, "checkout")

\* Two rows of one attendance and one category are the same row.
PaidOnce ==
    \A i, k \in DOMAIN wpt :
        wpt[i].att = wpt[k].att /\ wpt[i].cat = wpt[k].cat /\ wpt[i].cat # "admin" => i = k

RewardInv == Typed /\ PaidInv /\ PaidOnce

LEMMA InitPaid == Init => PaidInv /\ PaidOnce
  <1> SUFFICES ASSUME Init PROVE PaidInv /\ PaidOnce
    OBVIOUS
  <1>1. DOMAIN wpt = {}
    BY EmptySeq DEF Init
  <1> QED BY <1>1 DEF PaidInv, PaidOnce, Paid

\* The ledger stays and the table only gains times: all that is left to say
\* is what the job of the API has seen.
LEMMA PaidKept ==
    ASSUME Typed, PaidInv, wpt' = wpt,
           \A a \in Atts : /\ att[a].in # None => att'[a].in # None
                           /\ att[a].out # None => att'[a].out # None,
           \/ api'.pc = "idle" \/ api'.pc = "exp"
           \/ api' = api
           \/ /\ api'.att = api.att
              /\ \/ api'.pc \in {"streak", "in_award"}
                    /\ api.pc \in {"in_write", "streak", "in_award"}
                 \/ api'.pc \in {"reread", "out_award"}
                    /\ api.pc \in {"out_write", "reread", "out_award"}
           \/ api'.pc \in {"in_write", "streak"} /\ ~Paid(api'.att, "checkin")
           \/ api'.pc \in {"out_write", "out_award"} /\ ~Paid(api'.att, "checkout")
    PROVE  PaidInv'
  <1>1. \A a, cat : Paid(a, cat)' <=> Paid(a, cat)
    BY DEF Paid
  <1> QED BY <1>1 DEF PaidInv, Is

LEMMA TimesKept ==
    ASSUME Typed, NEW a \in Atts, CreateAttendance(a) \/ CheckIn(a) \/ CheckOut(a)
    PROVE  \A b \in Atts : /\ att[b].in # None => att'[b].in # None
                           /\ att[b].out # None => att'[b].out # None
  <1>1. ASSUME NEW row \in AttRow, WriteAtt(a, row), Grown(a, row)
        PROVE  \A b \in Atts : /\ att[b].in # None => att'[b].in # None
                               /\ att[b].out # None => att'[b].out # None
    BY <1>1, Kept
  <1>2. CASE CreateAttendance(a)
    <2> DEFINE row == [att[a] EXCEPT !.status = "PENDING"]
    <2>1. att[a] \in AttRow
      BY AttTyped DEF Typed
    <2>2. /\ row \in AttRow /\ row.status = "PENDING" /\ row.in = att[a].in
          /\ row.out = att[a].out
      BY <2>1 DEF AttRow
    <2>3. WriteAtt(a, row)
      BY <1>2 DEF CreateAttendance
    <2>4. Grown(a, row)
      BY <2>2 DEF Grown, Typed, JobInv
    <2> HIDE DEF row
    <2> QED BY <1>1, <2>2, <2>3, <2>4
  <1>3. CASE CheckIn(a)
    <2>1. PICK row \in AttRow :
                /\ WriteAtt(a, row)
                /\ row.status = "CHECKED_IN" /\ row.in # None /\ row.out = att[a].out
      BY <1>3, ChecksIn
    <2>2. Grown(a, row)
      BY <2>1 DEF Grown
    <2> QED BY <1>1, <2>1, <2>2
  <1>4. CASE CheckOut(a) /\ att[a].in # None
    <2>1. PICK row \in AttRow :
                /\ WriteAtt(a, row)
                /\ row.status = "COMPLETED" /\ row.in = att[a].in /\ row.out # None
      BY <1>4, ChecksOut
    <2>2. Grown(a, row)
      BY <1>4, <2>1 DEF Grown
    <2> QED BY <1>1, <2>1, <2>2
  <1>5. CASE CheckOut(a) /\ att[a].in = None
    BY <1>5, ChecksNothing
  <1> QED BY <1>2, <1>3, <1>4, <1>5

\* A payment is one more row, and nothing else is paid by it.
LEMMA PaidAfter ==
    ASSUME Typed, NEW a \in Atts \cup {NoAtt}, NEW cat \in Categories \cup {"admin"},
           NEW amount \in Int, NEW worked \in Int, Award(a, cat, amount, worked)
    PROVE  \A b, c : Paid(b, c)' <=> Paid(b, c) \/ (b = a /\ c = cat)
  <1> DEFINE n == Len(wpt)
  <1>1. /\ n \in Nat /\ DOMAIN wpt = 1 .. n /\ DOMAIN wpt' = 1 .. (n + 1)
        /\ \A i \in 1 .. n : wpt'[i] = wpt[i]
        /\ wpt'[n + 1].att = a /\ wpt'[n + 1].cat = cat
    BY Awards
  <1> HIDE DEF n
  <1>2. /\ n + 1 \in DOMAIN wpt'
        /\ \A i \in DOMAIN wpt' : i \in DOMAIN wpt \/ i = n + 1
        /\ DOMAIN wpt \subseteq DOMAIN wpt'
    BY <1>1
  <1> QED BY <1>1, <1>2 DEF Paid

LEMMA AwardPaid ==
    ASSUME Typed, PaidOnce, NEW a \in Atts \cup {NoAtt}, NEW cat \in Categories \cup {"admin"},
           NEW amount \in Int, NEW worked \in Int, Award(a, cat, amount, worked), cat = "admin" \/ ~Paid(a, cat)
    PROVE  PaidOnce'
  <1> DEFINE n == Len(wpt)
             m == n + 1
  <1>1. /\ n \in Nat /\ DOMAIN wpt = 1 .. n /\ DOMAIN wpt' = 1 .. (n + 1)
        /\ \A i \in 1 .. n : wpt'[i] = wpt[i]
        /\ wpt'[n + 1].att = a /\ wpt'[n + 1].cat = cat
    BY Awards
  <1> HIDE DEF n
  <1>2. \A i \in DOMAIN wpt' : i \in DOMAIN wpt \/ i = m
    BY <1>1
  <1>3. wpt'[m].att = a /\ wpt'[m].cat = cat /\ \A i \in DOMAIN wpt : wpt'[i] = wpt[i]
    BY <1>1
  <1> HIDE DEF m
  <1>4. cat # "admin" => \A i \in DOMAIN wpt : ~(wpt[i].att = a /\ wpt[i].cat = cat)
    BY DEF Paid
  <1> SUFFICES ASSUME NEW i \in DOMAIN wpt', NEW k \in DOMAIN wpt',
                      wpt'[i].att = wpt'[k].att, wpt'[i].cat = wpt'[k].cat,
                      wpt'[i].cat # "admin"
               PROVE  i = k
    BY DEF PaidOnce
  <1>5. CASE i \in DOMAIN wpt /\ k \in DOMAIN wpt
    BY <1>3, <1>5 DEF PaidOnce
  <1>6. CASE i = m /\ k \in DOMAIN wpt
    BY <1>3, <1>4, <1>6
  <1>7. CASE i \in DOMAIN wpt /\ k = m
    BY <1>3, <1>4, <1>7
  <1> QED BY <1>2, <1>5, <1>6, <1>7

LEMMA PayersPaid ==
    ASSUME RewardInv, AwardCheckIn \/ AwardCheckOut \/ \E amount \in Grants : AdminGrant(amount)
    PROVE  PaidInv' /\ PaidOnce'
  <1>1. /\ api \in Job /\ "exp" \in ApiSteps /\ 5 \in Int /\ api.n \in Int
        /\ 10 + Bonus(api.n) \in Int /\ 10 + Whole(5 * api.n) \in Int /\ Whole(2 * api.n) \in Int
    BY Fields, AmountsTyped DEF ApiSteps, RewardInv, Typed
  <1>2. CASE AwardCheckIn
    <2> DEFINE sum == 10 + Bonus(api.n)
    <2>1. At("in_award") /\ Award(api.att, "checkin", sum, 0) /\ Goto("exp", 5) /\ att' = att
      BY <1>2 DEF AwardCheckIn
    <2>2. sum \in Int /\ api' = [api EXCEPT !.pc = "exp", !.n = 5]
      BY <1>1, <2>1 DEF Goto
    <2>3. /\ api.att \in Atts /\ "checkin" \in Categories /\ att[api.att].in # None
          /\ ~Paid(api.att, "checkin")
      BY <2>1 DEF At, RewardInv, Typed, JobInv, PaidInv, Is, Categories
    <2> HIDE DEF sum
    <2>4. api'.pc = "exp"
      BY <1>1, <2>2 DEF Job
    <2>5. \A b, c : Paid(b, c)' <=> Paid(b, c) \/ (b = api.att /\ c = "checkin")
      BY <2>1, <2>2, <2>3, PaidAfter DEF RewardInv
    <2>6. PaidInv'
      BY <2>1, <2>3, <2>4, <2>5 DEF RewardInv, PaidInv, Is
    <2> QED BY <2>1, <2>2, <2>3, <2>6, AwardPaid DEF RewardInv
  <1>3. CASE AwardCheckOut
    <2> DEFINE sum == 10 + Whole(5 * api.n)
               m == Whole(2 * api.n)
    <2>1. At("out_award") /\ Award(api.att, "checkout", sum, api.n) /\ Goto("exp", m) /\ att' = att
      BY <1>3 DEF AwardCheckOut
    <2>2. sum \in Int /\ api' = [api EXCEPT !.pc = "exp", !.n = m]
      BY <1>1, <2>1 DEF Goto
    <2>3. /\ api.att \in Atts /\ "checkout" \in Categories /\ att[api.att].out # None
          /\ ~Paid(api.att, "checkout")
      BY <2>1 DEF At, RewardInv, Typed, JobInv, PaidInv, Is, Categories
    <2> HIDE DEF sum, m
    <2>4. api'.pc = "exp"
      BY <1>1, <2>2 DEF Job
    <2>5. \A b, c : Paid(b, c)' <=> Paid(b, c) \/ (b = api.att /\ c = "checkout")
      BY <1>1, <2>1, <2>2, <2>3, PaidAfter DEF RewardInv
    <2>6. PaidInv'
      BY <2>1, <2>3, <2>4, <2>5 DEF RewardInv, PaidInv, Is
    <2> QED BY <1>1, <2>1, <2>2, <2>3, <2>6, AwardPaid DEF RewardInv
  <1>4. ASSUME NEW amount \in Grants, AdminGrant(amount) PROVE PaidInv' /\ PaidOnce'
    <2>1. amount \in Int /\ Award(NoAtt, "admin", amount, 0) /\ UNCHANGED <<att, api>> /\ At("idle")
      BY <1>4, GamificationAssumption DEF AdminGrant
    <2>2. \A b, c : Paid(b, c)' <=> Paid(b, c) \/ (b = NoAtt /\ c = "admin")
      BY <2>1, PaidAfter DEF RewardInv
    <2>3. PaidInv'
      BY <2>1, <2>2 DEF RewardInv, PaidInv, Is, At
    <2> QED BY <2>1, <2>3, AwardPaid DEF RewardInv
  <1> QED BY <1>2, <1>3, <1>4

LEMMA JobsPaid ==
    ASSUME RewardInv, Typed',
           \/ ApiCheckInWrite \/ UpdateStreak \/ ApiCheckOutWrite \/ ApiCheckOutReread
           \/ Experience \/ BotWrite \/ TimePasses \/ Crash
    PROVE  PaidInv'
  <1>1. api \in Job /\ Idle.pc = "idle"
    BY IdleTyped DEF RewardInv, Typed, TypeOK
  <1>2. At("in_write") \/ At("out_write") => api.att \in Atts
    BY DEF RewardInv, Typed, JobInv, At, Is
  <1>3. bot.pc # "idle" => bot.att \in Atts
    BY DEF RewardInv, Typed, JobInv
  <1> HIDE DEF Idle
  <1>4. CASE ApiCheckInWrite
    <2>1. api'.pc = "streak" /\ api'.att = api.att /\ At("in_write") /\ CheckIn(api.att)
      BY <1>1, <1>4 DEF ApiCheckInWrite, Goto, Job
    <2> QED BY <1>2, <1>4, <2>1, TimesKept, PaidKept DEF ApiCheckInWrite, RewardInv, At
  <1>5. CASE UpdateStreak
    <2>1. /\ At("streak") /\ UNCHANGED <<att, wpt>>
          /\ api' = Idle \/ (api'.pc = "in_award" /\ api'.att = api.att)
      BY <1>1, <1>5 DEF UpdateStreak, Goto, Job
    <2> QED BY <1>1, <2>1, PaidKept DEF RewardInv, At
  <1>6. CASE ApiCheckOutWrite
    <2>1. api'.pc = "reread" /\ api'.att = api.att /\ At("out_write") /\ CheckOut(api.att)
      BY <1>1, <1>6 DEF ApiCheckOutWrite, Goto, Job
    <2> QED BY <1>2, <1>6, <2>1, TimesKept, PaidKept DEF ApiCheckOutWrite, RewardInv, At
  <1>7. CASE ApiCheckOutReread
    <2>1. /\ At("reread") /\ UNCHANGED <<att, wpt>>
          /\ api' = Idle \/ (api'.pc = "out_award" /\ api'.att = api.att)
      BY <1>1, <1>7 DEF ApiCheckOutReread, Goto, Job
    <2> QED BY <1>1, <2>1, PaidKept DEF RewardInv, At
  <1>8. CASE Experience \/ TimePasses \/ Crash
    <2>1. UNCHANGED <<att, wpt>> /\ (api' = Idle \/ api' = api)
      BY <1>8 DEF Experience, TimePasses, Crash
    <2> QED BY <1>1, <2>1, PaidKept DEF RewardInv
  <1>9. CASE BotWrite
    <2>1. /\ bot.pc # "idle" /\ UNCHANGED <<api, wpt>>
          /\ CheckIn(bot.att) \/ CheckOut(bot.att)
      BY <1>9 DEF BotWrite
    <2> QED BY <1>3, <2>1, TimesKept, PaidKept DEF RewardInv
  <1> QED BY <1>4, <1>5, <1>6, <1>7, <1>8, <1>9

LEMMA RequestsPaid ==
    ASSUME RewardInv, NEW a \in Atts, OnAttendance(a)
    PROVE  PaidInv'
  <1>1. ASSUME NEW pc \in ApiSteps, NEW auto \in BOOLEAN, NEW n \in Int, Begin(pc, a, auto, n)
        PROVE  api'.pc = pc /\ api'.att = a
    BY <1>1, Begun
  <1>2. CASE CreateAttendance(a) \/ ManualCheckIn(a) \/ ManualCheckOut(a)
    <2>1. UNCHANGED <<api, wpt>> /\ (CreateAttendance(a) \/ CheckIn(a) \/ CheckOut(a))
      BY <1>2 DEF CreateAttendance, ManualCheckIn, ManualCheckOut
    <2> QED BY <2>1, TimesKept, PaidKept DEF RewardInv
  <1>3. \A b, c : UNCHANGED wpt => (Paid(b, c)' <=> Paid(b, c))
    BY DEF Paid
  <1>4. CASE ApiCheckInRead(a)
    <2>1. api'.pc = "in_write" /\ api'.att = a /\ att[a].in = None /\ UNCHANGED <<att, wpt>>
      BY <1>4 DEF ApiCheckInRead, Begin
    <2>2. ~Paid(a, "checkin")
      BY <2>1 DEF RewardInv, PaidInv
    <2> QED BY <2>1, <2>2, PaidKept DEF RewardInv
  <1>5. CASE ClaimCheckIn(a)
    <2>1. api'.pc = "streak" /\ api'.att = a /\ ~Paid(a, "checkin") /\ UNCHANGED <<att, wpt>>
      BY <1>5 DEF ClaimCheckIn, Begin
    <2> QED BY <2>1, PaidKept DEF RewardInv
  <1>6. CASE ApiCheckOutRead(a)
    <2>1. api'.pc = "out_write" /\ api'.att = a /\ att[a].out = None /\ UNCHANGED <<att, wpt>>
      BY <1>6 DEF ApiCheckOutRead, Begin
    <2>2. ~Paid(a, "checkout")
      BY <2>1 DEF RewardInv, PaidInv
    <2> QED BY <2>1, <2>2, PaidKept DEF RewardInv
  <1>7. CASE ClaimCheckOut(a)
    <2>1. api'.pc = "out_award" /\ api'.att = a /\ ~Paid(a, "checkout") /\ UNCHANGED <<att, wpt>>
      BY <1>7 DEF ClaimCheckOut, Begin
    <2> QED BY <2>1, PaidKept DEF RewardInv
  <1>8. CASE BotRead(a)
    <2>1. UNCHANGED <<api, att, wpt>>
      BY <1>8 DEF BotRead
    <2> QED BY <2>1, PaidKept DEF RewardInv
  <1> QED BY <1>2, <1>4, <1>5, <1>6, <1>7, <1>8 DEF OnAttendance

\* Only a payment writes to the ledger.
LEMMA LedgerStays ==
    ASSUME [Next]_vars, ~AwardCheckIn, ~AwardCheckOut, ~\E amount \in Grants : AdminGrant(amount)
    PROVE  UNCHANGED <<wpt, early>>
  BY DEF Next, OnAttendance, ApiStep, CreateAttendance, ApiCheckInRead, ClaimCheckIn,
     ApiCheckOutRead, ClaimCheckOut, BotRead, ManualCheckIn, ManualCheckOut, ApiCheckInWrite,
     UpdateStreak, ApiCheckOutWrite, ApiCheckOutReread, Experience, BotWrite, TimePasses,
     Crash, vars

LEMMA RewardStep == RewardInv /\ [Next]_vars => RewardInv'
  <1> SUFFICES ASSUME RewardInv, [Next]_vars PROVE RewardInv'
    OBVIOUS
  <1>1. Typed'
    BY TypedStep DEF RewardInv
  <1>2. CASE AwardCheckIn \/ AwardCheckOut \/ \E amount \in Grants : AdminGrant(amount)
    BY <1>1, <1>2, PayersPaid DEF RewardInv
  <1>3. CASE ~(AwardCheckIn \/ AwardCheckOut \/ \E amount \in Grants : AdminGrant(amount))
    <2>1. wpt' = wpt
      BY <1>3, LedgerStays
    <2>2. PaidOnce'
      BY <2>1 DEF RewardInv, PaidOnce
    <2>3. PaidInv'
      <3>1. CASE UNCHANGED vars
        BY <3>1 DEF vars, RewardInv, PaidInv, Paid, Is
      <3> QED BY <1>1, <1>3, <3>1, JobsPaid, RequestsPaid DEF Next, ApiStep
    <2> QED BY <1>1, <2>2, <2>3 DEF RewardInv
  <1> QED BY <1>2, <1>3

\* Rows that agree are one row: a set of them has no two elements.
LEMMA OnceCounted ==
    ASSUME PaidOnce, TypeOK
    PROVE  RewardedOnce
  <1> SUFFICES ASSUME NEW a \in Atts, NEW cat \in Categories
               PROVE  Cardinality(RowsOf(a, cat)) <= 1
    BY DEF RewardedOnce
  <1> DEFINE S == RowsOf(a, cat)
  <1>1. \A i, k \in S : i = k
    BY DEF RowsOf, PaidOnce, Categories
  <1> HIDE DEF S
  <1>2. CASE S = {}
    BY <1>2, FS_EmptySet DEF S
  <1>3. ASSUME NEW i \in S PROVE Cardinality(S) = 1
    <2>1. S = {i}
      BY <1>1, <1>3
    <2> QED BY <2>1, FS_Singleton
  <1> QED BY <1>2, <1>3 DEF S

\* No attendance is rewarded twice, whatever the bot, the endpoints and the
\* automatic rewards do between each other's transactions.
THEOREM PaidOnlyOnce == Spec => []RewardedOnce
  <1>1. Init => RewardInv
    BY InitTyped, InitPaid DEF RewardInv
  <1>2. RewardInv => RewardedOnce
    BY OnceCounted DEF RewardInv, Typed
  <1> QED BY <1>1, <1>2, RewardStep, PTL DEF Spec

-----------------------------------------------------------------------------
(* The streak.  A run that ends with day d is n days long when the n days  *)
(* up to d are there and the one before them is not.                       *)

IsRun(C, d, n) ==
    /\ n \in Nat /\ n >= 1
    /\ \A k \in 0 .. (n - 1) : d - k \in C
    /\ d - n \notin C

RunLengths(C, d) == {n \in 1 .. (d + 1) : \A k \in 0 .. (n - 1) : d - k \in C}

\* A longer run would contain the missing day.
LEMMA RunIsLongest ==
    ASSUME NEW C \in SUBSET Nat, NEW d \in Nat, NEW n, IsRun(C, d, n)
    PROVE  Max(RunLengths(C, d)) = n
  <1> DEFINE S == RunLengths(C, d)
  <1>1. n \in Nat /\ n >= 1 /\ d - n \notin C /\ \A k \in 0 .. (n - 1) : d - k \in C
    BY DEF IsRun
  <1>2. n <= d + 1
    <2> SUFFICES ASSUME n > d + 1 PROVE FALSE
      BY <1>1
    <2>1. d - (d + 1) \in C
      BY <1>1
    <2>2. d - (d + 1) \in Nat
      BY <2>1
    <2> QED BY <2>2
  <1>3. n \in S
    BY <1>1, <1>2 DEF RunLengths
  <1>4. ASSUME NEW m \in S PROVE n >= m
    <2>1. m \in 1 .. (d + 1) /\ \A k \in 0 .. (m - 1) : d - k \in C
      BY <1>4 DEF RunLengths
    <2> SUFFICES ASSUME m > n PROVE FALSE
      BY <1>1, <2>1
    <2>2. n \in 0 .. (m - 1)
      BY <1>1, <2>1
    <2> QED BY <1>1, <2>1, <2>2
  <1>5. S \in SUBSET Int
    BY DEF RunLengths
  <1> HIDE DEF S
  <1>6. Max(S) = n
    BY <1>3, <1>4, <1>5, MaxIs
  <1> QED BY <1>6 DEF S

\* Every day that is there ends a run.
LEMMA RunExists ==
    ASSUME NEW C \in SUBSET Nat, NEW d \in C
    PROVE  \E n : IsRun(C, d, n)
  <1> DEFINE S == RunLengths(C, d)
             hi == d + 1
  <1>1. d \in Nat
    OBVIOUS
  <1>2. hi \in Int /\ 1 \in Int /\ S \in SUBSET (1 .. hi)
    BY <1>1 DEF RunLengths
  <1>3. 1 \in S
    <2>1. \A k \in 0 .. 0 : d - k \in C
      BY <1>1
    <2> QED BY <1>1, <2>1 DEF RunLengths
  <1>4. \A m \in S : m \in 1 .. hi /\ \A k \in 0 .. (m - 1) : d - k \in C
    BY DEF RunLengths
  <1>5. \A m \in 1 .. hi : (\A k \in 0 .. (m - 1) : d - k \in C) => m \in S
    BY DEF RunLengths
  <1>6. PICK n \in S : \A m \in S : n >= m
    <2> HIDE DEF S, hi
    <2> QED BY <1>2, <1>3, Greatest
  <1>7. n \in Nat /\ n >= 1 /\ n <= d + 1 /\ \A k \in 0 .. (n - 1) : d - k \in C
    BY <1>1, <1>4
  <1> HIDE DEF S
  <1>8. d - n \notin C
    <2> SUFFICES ASSUME d - n \in C PROVE FALSE
      OBVIOUS
    <2>1. d - n \in Nat
      OBVIOUS
    <2>2. n + 1 \in 1 .. hi
      BY <1>1, <1>7, <2>1
    <2>3. \A k \in 0 .. ((n + 1) - 1) : d - k \in C
      BY <1>1, <1>7
    <2>4. n + 1 \in S
      BY <1>5, <2>2, <2>3
    <2> QED BY <1>6, <1>7, <2>4
  <1> QED BY <1>7, <1>8 DEF IsRun

LEMMA RunIsOne ==
    ASSUME NEW C \in SUBSET Nat, NEW d \in Nat, NEW n, IsRun(C, d, n), NEW m, IsRun(C, d, m)
    PROVE  n = m
  BY RunIsLongest

\* What a day after all the others does to the runs.
LEMMA NextDay ==
    ASSUME NEW C \in SUBSET Nat, NEW t \in Nat, \A d \in C : d < t
    PROVE  LET D == C \cup {t} IN
           /\ D \in SUBSET Nat
           /\ \A d \in C : \A n : IsRun(D, d, n) <=> IsRun(C, d, n)
           /\ \A n : t - 1 \in C /\ IsRun(C, t - 1, n) => IsRun(D, t, n + 1)
           /\ t - 1 \notin C => IsRun(D, t, 1)
  <1> DEFINE D == C \cup {t}
  <1>1. ASSUME NEW d \in C, NEW n PROVE IsRun(D, d, n) <=> IsRun(C, d, n)
    <2>1. ASSUME NEW k \in Nat PROVE d - k \in D <=> d - k \in C
      <3>1. d \in Nat /\ d < t
        OBVIOUS
      <3>2. d - k # t
        BY <3>1, <2>1
      <3> QED BY <3>2
    <2>2. n \in Nat => \A k \in 0 .. (n - 1) : k \in Nat
      OBVIOUS
    <2> HIDE DEF D
    <2> QED BY <2>1, <2>2 DEF IsRun
  <1>2. ASSUME NEW n, t - 1 \in C, IsRun(C, t - 1, n) PROVE IsRun(D, t, n + 1)
    <2>1. n \in Nat /\ n >= 1 /\ (t - 1) - n \notin C /\ \A k \in 0 .. (n - 1) : (t - 1) - k \in C
      BY <1>2 DEF IsRun
    <2>2. ASSUME NEW k \in 0 .. ((n + 1) - 1) PROVE t - k \in D
      <3>1. CASE k = 0
        BY <3>1
      <3>2. CASE k # 0
        <4>1. k - 1 \in 0 .. (n - 1) /\ (t - 1) - (k - 1) = t - k
          BY <2>1, <2>2, <3>2
        <4>2. (t - 1) - (k - 1) \in C
          BY <2>1, <4>1
        <4> QED BY <4>1, <4>2
      <3> QED BY <3>1, <3>2
    <2>3. t - (n + 1) = (t - 1) - n /\ t - (n + 1) # t /\ n + 1 \in Nat /\ n + 1 >= 1
      BY <2>1
    <2>4. t - (n + 1) \notin D
      BY <2>1, <2>3
    <2> HIDE DEF D
    <2> QED BY <2>2, <2>3, <2>4 DEF IsRun
  <1>3. ASSUME t - 1 \notin C PROVE IsRun(D, t, 1)
    <2>1. \A k \in 0 .. (1 - 1) : t - k \in D
      OBVIOUS
    <2>2. t - 1 \notin D
      BY <1>3
    <2> HIDE DEF D
    <2> QED BY <2>1, <2>2 DEF IsRun
  <1>4. D \in SUBSET Nat
    OBVIOUS
  <1> QED BY <1>1, <1>2, <1>3, <1>4

\* The row s of the streak table belongs to the days C: it ends with the last
\* of them, and the longest run is that of one of them.
Describes(s, C) ==
    /\ s.current \in Nat /\ s.longest \in Nat
    /\ s.last = None <=> C = {}
    /\ C = {} => s.longest = 0
    /\ C # {} =>
          /\ s.has
          /\ s.last \in C /\ \A d \in C : d <= s.last
          /\ IsRun(C, s.last, s.current)
          /\ \E d \in C : IsRun(C, d, s.longest)
          /\ \A d \in C : \A n : IsRun(C, d, n) => n <= s.longest

StreakInv ==
    /\ \A d \in CheckInDays : d <= Today
    /\ Describes(streak, CheckInDays)

LEMMA LaterToday ==
    ASSUME NEW x \in Nat, NEW y \in Nat, x <= y
    PROVE  /\ x \div 1440 \in Nat /\ y \div 1440 \in Nat
           /\ x \div 1440 <= y \div 1440
  <1> DEFINE p == x \div 1440
             q == y \div 1440
  <1>1. /\ p \in Nat /\ 1440 * p <= x /\ x < 1440 * p + 1440
        /\ q \in Nat /\ 1440 * q <= y /\ y < 1440 * q + 1440
    OBVIOUS
  <1> HIDE DEF p, q
  <1>2. p <= q
    BY <1>1
  <1> QED BY <1>1, <1>2 DEF p, q

LEMMA DaysAreDays ==
    ASSUME Typed
    PROVE  CheckInDays \in SUBSET Nat
  BY DEF Typed, TypeOK, CheckInDays

\* The first day, or a day after all the others.
LEMMA LaterDay ==
    ASSUME NEW s \in StreakRow, NEW C \in SUBSET Nat, NEW t \in Nat, Describes(s, C),
           \A d \in C : d < t,
           NEW n \in Nat,
           n = IF C = {} THEN 1 ELSE IF t - s.last = 1 THEN s.current + 1 ELSE 1,
           NEW r \in StreakRow,
           r.has, r.current = n, r.last = t, r.longest = Max({s.longest, n})
    PROVE  Describes(r, C \cup {t})
  <1> DEFINE D == C \cup {t}
  <1>1. /\ D \in SUBSET Nat /\ t \in D /\ D # {} /\ \A d \in D : d \in C \/ d = t
        /\ \A d \in D : d <= t
    OBVIOUS
  <1>2. /\ \A d \in C : \A m : IsRun(D, d, m) <=> IsRun(C, d, m)
        /\ \A m : t - 1 \in C /\ IsRun(C, t - 1, m) => IsRun(D, t, m + 1)
        /\ t - 1 \notin C => IsRun(D, t, 1)
    BY NextDay
  <1> HIDE DEF D
  <1>3. IsRun(D, t, n)
    <2>1. CASE C = {}
      BY <2>1, <1>2
    <2>2. CASE C # {} /\ t - s.last = 1
      <3>1. s.last \in C /\ IsRun(C, s.last, s.current) /\ s.last = t - 1
        BY <2>2 DEF Describes, StreakRow
      <3> QED BY <1>2, <2>2, <3>1
    <2>3. CASE C # {} /\ t - s.last # 1
      <3>1. s.last \in C /\ \A d \in C : d <= s.last
        BY <2>3 DEF Describes
      <3>2. t - 1 \notin C
        <4>0. s.last \in Nat /\ s.last < t
          BY <3>1
        <4>1. s.last \in Nat /\ s.last < t /\ s.last # t - 1
          BY <2>3, <4>0
        <4>2. ~(t - 1 <= s.last)
          BY <4>1
        <4> QED BY <3>1, <4>2
      <3> QED BY <1>2, <2>3, <3>2
    <2> QED BY <2>1, <2>2, <2>3
  <1>4. s.longest \in Nat /\ r.longest = IF s.longest >= n THEN s.longest ELSE n
    BY MaxOfTwo DEF StreakRow
  <1>5. \E d \in D : IsRun(D, d, r.longest)
    <2>1. CASE r.longest = n
      BY <1>1, <1>3, <2>1
    <2>2. CASE r.longest # n
      <3>1. r.longest = s.longest /\ s.longest > n
        BY <1>4, <2>2
      <3>2. C # {}
        BY <3>1 DEF Describes
      <3>3. PICK d \in C : IsRun(C, d, s.longest)
        BY <3>2 DEF Describes
      <3>4. d \in D
        BY DEF D
      <3> QED BY <1>2, <3>1, <3>3, <3>4
    <2> QED BY <2>1, <2>2
  <1>6. ASSUME NEW d \in D, NEW m, IsRun(D, d, m) PROVE m <= r.longest
    <2>1. m \in Nat
      BY <1>6 DEF IsRun
    <2>2. CASE d = t
      <3>1. m = n
        BY <1>1, <1>3, <1>6, <2>2, RunIsOne
      <3> QED BY <1>4, <3>1
    <2>3. CASE d \in C
      <3>1. m <= s.longest
        BY <1>2, <1>6, <2>3 DEF Describes
      <3> QED BY <1>4, <2>1, <3>1
    <2> QED BY <1>1, <2>2, <2>3
  <1>7. t # None
    BY DEF None
  <1>8. r.current \in Nat /\ r.longest \in Nat
    BY DEF StreakRow
  <1> QED BY <1>1, <1>3, <1>5, <1>6, <1>7, <1>8 DEF Describes, D

\* The same day again changes nothing.
LEMMA SameDay ==
    ASSUME NEW s \in StreakRow, NEW C \in SUBSET Nat, Describes(s, C), C # {},
           NEW r \in StreakRow,
           r.has, r.current = s.current, r.last = s.last,
           r.longest = Max({s.longest, s.current})
    PROVE  Describes(r, C)
  <1>1. s.current <= s.longest /\ s.current \in Nat /\ s.longest \in Nat
    BY DEF Describes
  <1>2. r.longest = s.longest
    BY <1>1, MaxOfTwo
  <1> QED BY <1>1, <1>2 DEF Describes

LEMMA UpdateDescribes ==
    ASSUME Typed, StreakInv, UpdateStreak, days' # days \/ streak' # streak
    PROVE  StreakInv'
  <1>1. /\ streak' = [has |-> TRUE, current |-> NewStreak, last |-> Today,
                      longest |-> Max({streak.longest, NewStreak})]
        /\ days' = days \cup {<<Today, api.att>>}
        /\ clock' = clock
    BY DEF UpdateStreak
  <1> DEFINE C == CheckInDays
             t == Today
             s == streak
             n == NewStreak
  <1>2. C \in SUBSET Nat /\ t \in Nat /\ s \in StreakRow /\ n \in Nat /\ Describes(s, C)
        /\ Today # None
    BY DaysAreDays, ClockTyped, NewStreakTyped DEF Typed, TypeOK, StreakInv
  <1>3. CheckInDays' = C \cup {t} /\ Today' = t
    <2> DEFINE e == <<t, api.att>>
    <2>1. e[1] = t /\ days' = days \cup {e}
      BY <1>1
    <2>2. Today' = t
      BY <1>1 DEF Today
    <2> HIDE DEF e, t
    <2> QED BY <2>1, <2>2 DEF CheckInDays
  <1>4. streak' \in StreakRow
    BY UpdateStreakTyped DEF Typed, TypeOK
  <1>5. /\ streak'.has /\ streak'.current = n /\ streak'.last = t
        /\ streak'.longest = Max({s.longest, n})
    BY <1>1
  <1>6. \A d \in C : d <= t
    BY DEF StreakInv
  <1>7. (\A d \in CheckInDays : d <= Today)'
    BY <1>2, <1>3, <1>6
  <1>8. CASE t \notin C
    <2>1. \A d \in C : d < t
      BY <1>2, <1>6, <1>8
    <2>2. n = IF C = {} THEN 1 ELSE IF t - s.last = 1 THEN s.current + 1 ELSE 1
      <3>1. CASE C = {}
        BY <1>2, <3>1 DEF Describes, NewStreak
      <3>2. CASE C # {}
        <4>1. s.has /\ s.last # None /\ t # s.last
          BY <1>2, <1>8, <3>2 DEF Describes
        <4> QED BY <3>2, <4>1 DEF NewStreak
      <3> QED BY <3>1, <3>2
    <2> HIDE DEF C, t, s, n
    <2>3. Describes(streak', C \cup {t})
      BY <1>2, <1>4, <1>5, <2>1, <2>2, LaterDay
    <2>4. Describes(streak, CheckInDays)'
      BY <1>3, <2>3 DEF Describes
    <2> QED BY <1>7, <2>4 DEF StreakInv
  <1>9. CASE t \in C
    <2>1. C # {} /\ s.has /\ s.last # None /\ s.last = t
      <3>1. s.last \in C /\ t <= s.last /\ s.last <= t
        BY <1>2, <1>6, <1>9 DEF Describes
      <3>2. s.last \in Nat
        BY <1>2, <3>1
      <3>3. s.last = t
        BY <1>2, <3>1, <3>2
      <3> QED BY <1>2, <1>9, <3>3 DEF Describes
    <2>2. n = s.current
      <3>1. Today - streak.last # 1
        BY <1>2, <2>1
      <3> QED BY <2>1, <3>1 DEF NewStreak
    <2>3. C \cup {t} = C
      BY <1>9
    <2> HIDE DEF C, t, s, n
    <2>4. Describes(streak', C)
      BY <1>2, <1>4, <1>5, <2>1, <2>2, SameDay
    <2>5. Describes(streak, CheckInDays)'
      BY <1>3, <2>3, <2>4 DEF Describes
    <2> QED BY <1>7, <2>5 DEF StreakInv
  <1> QED BY <1>8, <1>9

LEMMA InitStreak == Init => StreakInv
  <1> SUFFICES ASSUME Init PROVE StreakInv
    OBVIOUS
  <1>1. CheckInDays = {}
    BY DEF Init, CheckInDays
  <1>2. streak.current = 0 /\ streak.longest = 0 /\ streak.last = None
    BY DEF Init
  <1> QED BY <1>1, <1>2 DEF StreakInv, Describes

\* Only UpdateStreak writes the row and the days, and the clock only advances.
LEMMA StreakStays ==
    ASSUME [Next]_vars, ~UpdateStreak
    PROVE  UNCHANGED <<streak, days>> /\ (UNCHANGED clock \/ TimePasses)
  BY DEF Next, OnAttendance, ApiStep, CreateAttendance, ApiCheckInRead, ClaimCheckIn,
     ApiCheckOutRead, ClaimCheckOut, BotRead, ManualCheckIn, ManualCheckOut, ApiCheckInWrite,
     AwardCheckIn, AwardCheckOut, AdminGrant,
     ApiCheckOutWrite, ApiCheckOutReread, Experience, BotWrite, TimePasses,
     Crash, vars

LEMMA StreakStep == Typed /\ StreakInv /\ [Next]_vars => StreakInv'
  <1> SUFFICES ASSUME Typed, StreakInv, [Next]_vars PROVE StreakInv'
    OBVIOUS
  <1>1. CASE UNCHANGED <<streak, days>>
    <2>1. Today <= Today'
      <3>1. CASE clock' = clock
        <4>1. Today' = Today /\ Today \in Nat
          BY <3>1, ClockTyped DEF Today, Typed
        <4> QED BY <4>1
      <3>2. CASE TimePasses
        <4>1. clock \in Nat /\ clock' \in Nat /\ clock <= clock'
          BY <3>2, TimePassesTyped, ClockTyped DEF Typed
        <4> DEFINE x == clock
                   y == clock'
        <4>2. x \in Nat /\ y \in Nat /\ x <= y
          BY <4>1
        <4> HIDE DEF x, y
        <4>3. x \div 1440 <= y \div 1440
          BY <4>2, LaterToday
        <4> QED BY <4>3 DEF Today, x, y
      <3> QED BY <3>1, <3>2, StreakStays DEF UpdateStreak
    <2>2. CheckInDays' = CheckInDays
      BY <1>1 DEF CheckInDays
    <2>3. Today \in Nat /\ Today' \in Nat /\ CheckInDays \in SUBSET Nat
      <3>1. Typed'
        BY TypedStep
      <3>2. clock' \in Nat
        BY <3>1, GamificationAssumption DEF Typed, TypeOK
      <3> DEFINE y == clock'
      <3>3. y \div 1440 \in Nat
        <4>1. y \in Nat /\ y <= y
          BY <3>2
        <4> HIDE DEF y
        <4> QED BY <4>1, LaterToday
      <3>4. Today' \in Nat
        BY <3>3 DEF Today
      <3> QED BY <3>4, ClockTyped, DaysAreDays DEF Typed
    <2>4. \A d \in CheckInDays' : d <= Today'
      BY <2>1, <2>2, <2>3 DEF StreakInv
    <2>5. Describes(streak, CheckInDays)'
      BY <1>1, <2>2 DEF StreakInv, Describes
    <2> QED BY <2>4, <2>5 DEF StreakInv
  <1>2. CASE ~UNCHANGED <<streak, days>>
    BY <1>2, StreakStays, UpdateDescribes
  <1> QED BY <1>1, <1>2

LEMMA StreakShown ==
    ASSUME Typed, StreakInv
    PROVE  StreakIsRun
  <1> SUFFICES ASSUME CheckInDays # {}
               PROVE  /\ streak.last = Max(CheckInDays)
                      /\ streak.current = RunTo(streak.last)
                      /\ streak.longest = Max({RunTo(d) : d \in CheckInDays})
    BY DEF StreakIsRun
  <1> DEFINE C == CheckInDays
             L == {RunTo(d) : d \in C}
  <1>1. C \in SUBSET Nat /\ C \in SUBSET Int /\ Describes(streak, C)
    BY DaysAreDays DEF StreakInv
  <1>2. \A d \in C : \A n : IsRun(C, d, n) => RunTo(d) = n
    <2>1. \A d : RunTo(d) = Max(RunLengths(C, d))
      BY DEF RunTo, RunLengths
    <2> HIDE DEF C
    <2> QED BY <1>1, <2>1, RunIsLongest
  <1>3. streak.last = Max(C)
    BY <1>1, MaxIs DEF Describes
  <1>4. streak.current = RunTo(streak.last)
    BY <1>1, <1>2 DEF Describes
  <1>5. streak.longest \in L
    <2>1. PICK d \in C : IsRun(C, d, streak.longest)
      BY <1>1 DEF Describes
    <2> QED BY <1>2, <2>1
  <1>6. ASSUME NEW x \in L PROVE x \in Int /\ streak.longest >= x
    <2>1. PICK d \in C : x = RunTo(d)
      OBVIOUS
    <2> HIDE DEF C
    <2>2. PICK n : IsRun(C, d, n)
      BY <1>1, RunExists
    <2>3. x = n /\ n <= streak.longest /\ n \in Nat /\ streak.longest \in Nat
      BY <1>1, <1>2, <2>1, <2>2 DEF Describes, IsRun
    <2> QED BY <2>3
  <1>7. Max(L) = streak.longest
    <2> HIDE DEF L
    <2> QED BY <1>5, <1>6, MaxIs
  <1> QED BY <1>3, <1>4, <1>7

\* The streak is the run of days up to the last check-in, over every gap,
\* second check-in of a day and endpoint call after midnight.
THEOREM StreakFollowsDays == Spec => []StreakIsRun
  <1>1. Init => Typed /\ StreakInv
    BY InitTyped, InitStreak
  <1>2. Typed /\ StreakInv /\ [Next]_vars => (Typed /\ StreakInv)'
    BY TypedStep, StreakStep
  <1>3. Typed /\ StreakInv => StreakIsRun
    BY StreakShown
  <1> QED BY <1>1, <1>2, <1>3, PTL DEF Spec

-----------------------------------------------------------------------------
(* A day of the streak whose check-in is not paid is either the one of the *)
(* reward in progress or was left behind by a crash.                       *)

Unpaid == {d \in days : ~Paid(d[2], "checkin")}
Paying == IF Is({"in_award"}) THEN 1 ELSE 0

UnpaidInv ==
    /\ IsFiniteSet(days)
    /\ Cardinality(Unpaid) <= crashes + Paying
    /\ Is({"in_award"}) => \E d \in days : d[2] = api.att

LEMMA InitUnpaid == Init => UnpaidInv
  <1> SUFFICES ASSUME Init PROVE UnpaidInv
    OBVIOUS
  <1>1. days = {} /\ crashes = 0 /\ ~Is({"in_award"}) /\ Unpaid = {}
    BY DEF Init, Is, Idle, Unpaid
  <1>2. Paying = 0
    BY <1>1 DEF Paying
  <1> QED BY <1>1, <1>2, FS_EmptySet DEF UnpaidInv

LEMMA UnpaidFinite ==
    ASSUME UnpaidInv
    PROVE  IsFiniteSet(Unpaid) /\ Cardinality(Unpaid) \in Nat
  <1>1. Unpaid \subseteq days
    BY DEF Unpaid
  <1> QED BY <1>1, FS_Subset, FS_CardinalityType DEF UnpaidInv

\* Who enters the payment of a check-in, and who leaves it.
LEMMA PayingStays ==
    ASSUME Typed, [Next]_vars, ~UpdateStreak, ~AwardCheckIn, ~Crash
    PROVE  /\ UNCHANGED <<days, crashes>>
           /\ Is({"in_award"})' <=> Is({"in_award"})
           /\ Is({"in_award"}) => api' = api
  <1>1. api \in Job
    BY Fields
  <1>2. CASE \E a \in Atts : OnAttendance(a)
    <2> HIDE DEF Idle
    <2> QED BY <1>2 DEF OnAttendance, CreateAttendance, ApiCheckInRead, ClaimCheckIn,
          ApiCheckOutRead, ClaimCheckOut, BotRead, ManualCheckIn, ManualCheckOut, Begin, At, Is
  <1>3. CASE ApiStep
    <2>1. Idle.pc = "idle"
      BY IdleTyped
    <2> HIDE DEF Idle
    <2> QED BY <1>1, <1>3, <2>1 DEF ApiStep, ApiCheckInWrite, ApiCheckOutWrite, ApiCheckOutReread,
          AwardCheckOut, Experience, Goto, At, Is, Job
  <1>4. CASE BotWrite \/ TimePasses \/ (\E amount \in Grants : AdminGrant(amount))
    BY <1>4 DEF BotWrite, TimePasses, AdminGrant, Is
  <1>5. CASE UNCHANGED vars
    BY <1>5 DEF vars, Is
  <1> QED BY <1>2, <1>3, <1>4, <1>5 DEF Next

\* Payments of other kinds leave the unpaid days.
LEMMA UnpaidStays ==
    ASSUME RewardInv, [Next]_vars, ~UpdateStreak, ~AwardCheckIn
    PROVE  Unpaid' = Unpaid /\ days' = days
  <1>1. days' = days
    BY StreakStays
  <1>2. \A b : Paid(b, "checkin")' <=> Paid(b, "checkin")
    <2>1. CASE AwardCheckOut
      <3> DEFINE sum == 10 + Whole(5 * api.n)
      <3>1. Award(api.att, "checkout", sum, api.n) /\ sum \in Int /\ api.n \in Int
            /\ api.att \in Atts
            /\ "checkout" \in Categories
        BY <2>1, AmountsTyped
           DEF AwardCheckOut, At, RewardInv, Typed, JobInv, Is, Categories
      <3> HIDE DEF sum
      <3> QED BY <3>1, PaidAfter DEF RewardInv
    <2>2. ASSUME NEW amount \in Grants, AdminGrant(amount)
          PROVE  \A b : Paid(b, "checkin")' <=> Paid(b, "checkin")
      <3> DEFINE zero == 0
      <3>1. /\ amount \in Int /\ zero \in Int /\ Award(NoAtt, "admin", amount, zero)
            /\ NoAtt \in Atts \cup {NoAtt}
        BY <2>2, GamificationAssumption DEF AdminGrant
      <3> HIDE DEF zero, NoAtt
      <3> QED BY <3>1, PaidAfter DEF RewardInv
    <2>3. CASE ~(AwardCheckIn \/ AwardCheckOut \/ \E amount \in Grants : AdminGrant(amount))
      BY <2>3, LedgerStays DEF Paid
    <2> QED BY <2>1, <2>2, <2>3
  <1> QED BY <1>1, <1>2 DEF Unpaid

LEMMA UnpaidStep == RewardInv /\ UnpaidInv /\ [Next]_vars => UnpaidInv'
  <1> SUFFICES ASSUME RewardInv, UnpaidInv, [Next]_vars PROVE UnpaidInv'
    OBVIOUS
  <1>1. /\ IsFiniteSet(Unpaid) /\ Cardinality(Unpaid) \in Nat /\ api \in Job /\ crashes \in Nat
        /\ Cardinality(Unpaid) <= crashes + Paying
    BY UnpaidFinite, Fields, GamificationAssumption DEF RewardInv, Typed, UnpaidInv
  <1>2. CASE UpdateStreak
    <2>1. ~Is({"in_award"}) /\ crashes' = crashes /\ wpt' = wpt
      BY <1>2 DEF UpdateStreak, At, Is
    <2>2. Cardinality(Unpaid) <= crashes
      BY <1>1, <2>1 DEF Paying
    <2>3. CASE api' = Idle /\ days' = days
      <3>1. Unpaid' = Unpaid /\ ~Is({"in_award"})'
        BY <2>1, <2>3, IdleTyped DEF Unpaid, Paid, Is
      <3> QED BY <2>1, <2>2, <2>3, <3>1, <1>1 DEF UnpaidInv, Paying
    <2>4. CASE /\ days' = days \cup {<<Today, api.att>>}
               /\ Goto("in_award", NewStreak)
      <3> DEFINE e == <<Today, api.att>>
                 n == NewStreak
      <3>1. api' = [api EXCEPT !.pc = "in_award", !.n = n]
        BY <2>4 DEF Goto
      <3> HIDE DEF n
      <3>2. api'.pc = "in_award" /\ api'.att = api.att
        BY <1>1, <3>1 DEF Job
      <3>3. e \in days' /\ e[2] = api'.att
        BY <2>4, <3>2
      <3>4. days' = days \cup {e}
        BY <2>4
      <3> HIDE DEF e
      <3>5. IsFiniteSet(days')
        BY <3>4, FS_AddElement DEF UnpaidInv
      <3>6. Unpaid' \subseteq Unpaid \cup {e}
        BY <2>1, <3>4 DEF Unpaid, Paid
      <3>7. /\ IsFiniteSet(Unpaid \cup {e})
            /\ Cardinality(Unpaid \cup {e}) <= Cardinality(Unpaid) + 1
            /\ Cardinality(Unpaid \cup {e}) \in Nat
        <4> DEFINE U == Unpaid \cup {e}
        <4>1. IsFiniteSet(U) /\ Cardinality(U) = IF e \in Unpaid THEN Cardinality(Unpaid)
                                                 ELSE Cardinality(Unpaid) + 1
          BY <1>1, FS_AddElement
        <4> HIDE DEF U
        <4>2. Cardinality(U) <= Cardinality(Unpaid) + 1 /\ Cardinality(U) \in Nat
          BY <1>1, <4>1
        <4> QED BY <4>1, <4>2 DEF U
      <3>8. Cardinality(Unpaid') <= Cardinality(Unpaid \cup {e}) /\ Cardinality(Unpaid') \in Nat
        BY <3>6, <3>7, FS_Subset, FS_CardinalityType
      <3>9. Paying' = 1
        BY <3>2 DEF Paying, Is
      <3>10. Cardinality(Unpaid)' <= crashes' + Paying'
        BY <1>1, <2>1, <2>2, <3>7, <3>8, <3>9
      <3> QED BY <3>2, <3>3, <3>5, <3>10 DEF UnpaidInv
    <2> QED BY <1>2, <2>3, <2>4 DEF UpdateStreak
  <1>3. CASE AwardCheckIn
    <2> DEFINE sum == 10 + Bonus(api.n)
    <2>1. /\ At("in_award") /\ Award(api.att, "checkin", sum, 0) /\ Goto("exp", 5)
          /\ UNCHANGED <<days, crashes>>
      BY <1>3 DEF AwardCheckIn
    <2>2. api'.pc = "exp" /\ ~Is({"in_award"})'
      BY <1>1, <2>1 DEF Goto, Job, Is
    <2>3. /\ sum \in Int /\ api.att \in Atts /\ "checkin" \in Categories /\ Is({"in_award"})
          /\ ~Paid(api.att, "checkin")
      BY <2>1, AmountsTyped DEF At, RewardInv, Typed, JobInv, PaidInv, Is, Categories
    <2> HIDE DEF sum
    <2>4. \A b : Paid(b, "checkin")' <=> Paid(b, "checkin") \/ b = api.att
      BY <2>1, <2>3, PaidAfter DEF RewardInv
    <2>5. PICK d \in days : d[2] = api.att
      BY <2>3 DEF UnpaidInv
    <2>6. d \in Unpaid /\ Unpaid' \subseteq Unpaid \ {d}
      BY <2>1, <2>3, <2>4, <2>5 DEF Unpaid
    <2>7. /\ IsFiniteSet(Unpaid \ {d})
          /\ Cardinality(Unpaid \ {d}) = Cardinality(Unpaid) - 1
      BY <1>1, <2>6, FS_RemoveElement
    <2>8. Cardinality(Unpaid') <= Cardinality(Unpaid \ {d}) /\ Cardinality(Unpaid') \in Nat
      BY <2>6, <2>7, FS_Subset, FS_CardinalityType
    <2>9. Paying = 1 /\ Paying' = 0
      BY <2>2, <2>3 DEF Paying
    <2>10. Cardinality(Unpaid)' <= crashes' + Paying'
      BY <1>1, <2>1, <2>7, <2>8, <2>9
    <2> QED BY <2>1, <2>2, <2>10 DEF UnpaidInv
  <1>4. CASE Crash
    <2>1. /\ Unpaid' = Unpaid /\ days' = days /\ crashes' = crashes + 1
          /\ ~Is({"in_award"})'
      BY <1>4, IdleTyped DEF Crash, Unpaid, Paid, Is
    <2>2. Paying \in {0, 1} /\ Paying' = 0
      BY <2>1 DEF Paying
    <2>3. Cardinality(Unpaid)' <= crashes' + Paying'
      BY <1>1, <2>1, <2>2
    <2> QED BY <2>1, <2>3 DEF UnpaidInv
  <1>5. CASE ~UpdateStreak /\ ~AwardCheckIn /\ ~Crash
    <2>1. /\ Unpaid' = Unpaid /\ days' = days
          /\ UNCHANGED crashes
          /\ Is({"in_award"})' <=> Is({"in_award"})
          /\ Is({"in_award"}) => api' = api
      BY <1>5, UnpaidStays, PayingStays DEF RewardInv
    <2>2. Paying' = Paying
      BY <2>1 DEF Paying
    <2> QED BY <2>1, <2>2 DEF UnpaidInv
  <1> QED BY <1>2, <1>3, <1>4, <1>5

\* A check-in that moved the streak is paid unless a process died over it.
THEOREM StreakIsPaid == Spec => []StreakDaysPaid
  <1>1. Init => RewardInv /\ UnpaidInv
    BY InitTyped, InitPaid, InitUnpaid DEF RewardInv
  <1>2. RewardInv /\ UnpaidInv /\ [Next]_vars => (RewardInv /\ UnpaidInv)'
    BY RewardStep, UnpaidStep
  <1>3. RewardInv /\ UnpaidInv => StreakDaysPaid
    <2> SUFFICES ASSUME RewardInv, UnpaidInv PROVE StreakDaysPaid
      OBVIOUS
    <2>1. Cardinality(Unpaid) <= crashes + Paying /\ Cardinality(Unpaid) \in Nat
          /\ crashes \in Nat
      BY UnpaidFinite, GamificationAssumption DEF UnpaidInv, RewardInv, Typed, TypeOK
    <2>2. Paying \in {0, 1} /\ Working \in {0, 1} /\ Paying <= Working
      BY IdleTyped DEF Paying, Working, Is
    <2>3. Cardinality(Unpaid) <= crashes + Working
      BY <2>1, <2>2
    <2> QED BY <2>3 DEF StreakDaysPaid, Unpaid
  <1> QED BY <1>1, <1>2, <1>3, PTL DEF Spec

-----------------------------------------------------------------------------
(* The balance.  The trigger adds every row that is written once there is  *)
(* a metrics row; the rows before are those counted by early.              *)

BalanceKept ==
    /\ LedgerExplainsBalance
    /\ ~metrics.has => early = Len(wpt)

LEMMA InitBalance == Init => BalanceKept
  <1> SUFFICES ASSUME Init PROVE BalanceKept
    OBVIOUS
  <1>1. wpt = << >> /\ early = 0 /\ Len(wpt) = 0 /\ DOMAIN wpt = {}
    BY EmptySeq DEF Init
  <1>2. PICK old \in BOOLEAN : metrics = [NewMetrics EXCEPT !.has = old]
    BY DEF Init
  <1>3. metrics.balance = 0 /\ metrics.earned = 0 /\ metrics.spent = 0
    BY <1>2 DEF NewMetrics
  <1>4. FirstSum(Counted, 0) = 0
    BY FirstSumEmpty
  <1> QED BY <1>1, <1>3, <1>4 DEF BalanceKept, LedgerExplainsBalance

\* A write to the attendance table leaves the sums of the metrics row.
LEMMA ChecksLeave ==
    ASSUME Typed, NEW a \in Atts, CreateAttendance(a) \/ CheckIn(a) \/ CheckOut(a)
    PROVE  /\ metrics'.has \/ metrics' = metrics
           /\ metrics'.balance = metrics.balance /\ metrics'.earned = metrics.earned
           /\ metrics'.spent = metrics.spent /\ metrics'.exp = metrics.exp
           /\ metrics'.level = metrics.level
  <1>1. CASE CreateAttendance(a)
    <2> DEFINE row == [att[a] EXCEPT !.status = "PENDING"]
    <2>1. att[a] \in AttRow
      BY AttTyped DEF Typed
    <2>2. row \in AttRow
      BY <2>1 DEF AttRow
    <2>3. WriteAtt(a, row)
      BY <1>1 DEF CreateAttendance
    <2> HIDE DEF row
    <2> QED BY <2>2, <2>3, Writes
  <1>2. CASE CheckIn(a)
    BY <1>2, ChecksIn, Writes
  <1>3. CASE CheckOut(a) /\ att[a].in # None
    BY <1>3, ChecksOut, Writes
  <1>4. CASE CheckOut(a) /\ att[a].in = None
    BY <1>4, ChecksNothing
  <1> QED BY <1>1, <1>2, <1>3, <1>4

\* Whatever is no payment leaves the sums, and whatever is neither a payment
\* nor the addition of experience leaves the experience.
LEMMA SumsStay ==
    ASSUME Typed, [Next]_vars,
           ~(AwardCheckIn \/ AwardCheckOut \/ \E amount \in Grants : AdminGrant(amount))
    PROVE  /\ UNCHANGED <<wpt, early>>
           /\ ~metrics'.has => ~metrics.has
           /\ metrics'.balance = metrics.balance /\ metrics'.earned = metrics.earned
           /\ metrics'.spent = metrics.spent
           /\ ~Experience => metrics'.exp = metrics.exp /\ metrics'.level = metrics.level
  <1>1. UNCHANGED <<wpt, early>>
    BY LedgerStays
  <1>2. CASE UNCHANGED metrics
    BY <1>1, <1>2
  <1>3. CASE Experience
    <2> DEFINE exp == metrics.exp + api.n
               level == LevelFor(exp, metrics.level)
    <2>1. metrics \in MetricsRow
      BY DEF Typed, TypeOK
    <2>2. metrics' = [metrics EXCEPT !.exp = exp, !.level = level] \/ metrics' = metrics
      BY <1>3 DEF Experience, AddExperience
    <2> HIDE DEF exp, level
    <2> QED BY <1>1, <1>3, <2>1, <2>2 DEF MetricsRow
  <1>4. CASE \E a \in Atts : CreateAttendance(a) \/ CheckIn(a) \/ CheckOut(a)
    <2>1. PICK a \in Atts : CreateAttendance(a) \/ CheckIn(a) \/ CheckOut(a)
      BY <1>4
    <2>2. /\ metrics'.has \/ metrics' = metrics
          /\ metrics'.balance = metrics.balance /\ metrics'.earned = metrics.earned
          /\ metrics'.spent = metrics.spent /\ metrics'.exp = metrics.exp
          /\ metrics'.level = metrics.level
      BY <2>1, ChecksLeave
    <2> QED BY <1>1, <2>2
  <1>5. \/ UNCHANGED metrics \/ Experience
        \/ \E a \in Atts : CreateAttendance(a) \/ CheckIn(a) \/ CheckOut(a)
    <2>1. CASE \E a \in Atts : OnAttendance(a)
      BY <2>1 DEF OnAttendance, ApiCheckInRead, ClaimCheckIn,
         ApiCheckOutRead, ClaimCheckOut, BotRead, ManualCheckIn, ManualCheckOut
    <2>2. CASE ApiStep
      <3>1. ApiCheckInWrite \/ ApiCheckOutWrite => api.att \in Atts
        BY DEF ApiCheckInWrite, ApiCheckOutWrite, At, Typed, JobInv, Is
      <3> QED BY <2>2, <3>1 DEF ApiStep, ApiCheckInWrite, ApiCheckOutWrite, UpdateStreak,
                ApiCheckOutReread
    <2>3. CASE BotWrite
      <3>1. bot.att \in Atts
        BY <2>3 DEF BotWrite, Typed, JobInv
      <3> QED BY <2>3, <3>1 DEF BotWrite
    <2>4. CASE TimePasses \/ Crash \/ UNCHANGED vars
      BY <2>4 DEF TimePasses, Crash, vars
    <2> QED BY <2>1, <2>2, <2>3, <2>4 DEF Next
  <1> QED BY <1>2, <1>3, <1>4, <1>5

LEMMA AwardBalance ==
    ASSUME Typed, BalanceKept, NEW a \in Atts \cup {NoAtt}, NEW cat \in Categories \cup {"admin"},
           NEW amount \in Int, NEW worked \in Int, Award(a, cat, amount, worked)
    PROVE  BalanceKept'
  <1> DEFINE n == Len(wpt)
             f == Counted
             g == Counted'
             m == n + 1
             plus == IF metrics.has THEN amount ELSE 0
  <1>1. /\ n \in Nat /\ Len(wpt') = n + 1
        /\ DOMAIN wpt = 1 .. n /\ DOMAIN wpt' = 1 .. (n + 1)
        /\ \A i \in 1 .. n : wpt'[i] = wpt[i]
        /\ wpt'[n + 1].amount = amount
        /\ wpt'[n + 1].after = IF metrics.has THEN metrics.balance + amount ELSE amount
        /\ metrics'.has = metrics.has
        /\ early' = IF metrics.has THEN early ELSE early + 1
        /\ metrics.has => metrics'.balance = metrics.balance + amount
        /\ ~metrics.has => metrics' = metrics
        /\ metrics'.earned - metrics'.spent - metrics'.balance
             = metrics.earned - metrics.spent - metrics.balance
        /\ metrics' \in MetricsRow
    BY Awards
  <1>2. /\ early \in 0 .. n /\ metrics \in MetricsRow /\ wpt \in Seq(LedgerRow)
        /\ \A i \in 1 .. n : wpt[i].amount \in Int
        /\ ~metrics.has => early = n /\ metrics.balance = 0
    <2>1. early \in 0 .. n /\ metrics \in MetricsRow /\ wpt \in Seq(LedgerRow)
      BY DEF Typed, TypeOK
    <2>2. \A i \in 1 .. n : wpt[i] \in LedgerRow
      BY <1>1, <2>1, ElementOfSeq
    <2>3. ~metrics.has => early = n /\ metrics.balance = 0
      BY DEF BalanceKept, Typed, JobInv, NewMetrics
    <2> QED BY <2>1, <2>2, <2>3 DEF LedgerRow
  <1>3. /\ \A i \in 1 .. n : f[i] = IF i <= early THEN 0 ELSE wpt[i].amount
        /\ \A i \in 1 .. m : g[i] = IF i <= early' THEN 0 ELSE wpt'[i].amount
    BY <1>1 DEF Counted
  <1> HIDE DEF n, f, g
  <1>4. \A i \in 1 .. n : g[i] = f[i] /\ f[i] \in Int
    BY <1>1, <1>2, <1>3
  <1>5. g[m] = plus
    BY <1>1, <1>2, <1>3
  <1>6. \A k \in 0 .. n : FirstSum(g, k) = FirstSum(f, k)
    <2> TAKE k \in 0 .. n
    <2>1. k \in Nat /\ \A i \in 1 .. k : g[i] = f[i]
      BY <1>1, <1>4
    <2> QED BY <2>1, FirstSumEqual
  <1>7. FirstSum(g, m) = FirstSum(f, n) + plus
    <2>1. FirstSum(g, m) = FirstSum(g, n) + g[m]
      BY <1>1, FirstSumNext
    <2>2. FirstSum(g, n) = FirstSum(f, n)
      BY <1>1, <1>6
    <2> QED BY <1>5, <2>1, <2>2
  <1>8. /\ metrics.balance = FirstSum(f, n)
        /\ metrics.balance = metrics.earned - metrics.spent
        /\ \A i \in 1 .. n : wpt[i].after = FirstSum(f, i - 1) + wpt[i].amount
    BY <1>1 DEF BalanceKept, LedgerExplainsBalance, f, n
  <1>9. metrics'.balance = metrics.balance + plus /\ metrics.balance \in Int
    <2>1. metrics.balance \in Int
      BY <1>2 DEF MetricsRow
    <2> QED BY <1>1, <2>1
  <1>10. metrics'.balance = FirstSum(g, m)
    BY <1>7, <1>8, <1>9
  <1>11. metrics'.balance = metrics'.earned - metrics'.spent
    <2>1. /\ metrics.balance \in Int /\ metrics.earned \in Int /\ metrics.spent \in Int
          /\ metrics'.balance \in Int /\ metrics'.earned \in Int /\ metrics'.spent \in Int
      BY <1>1, <1>2 DEF MetricsRow
    <2>2. /\ metrics'.earned - metrics'.spent - metrics'.balance
               = metrics.earned - metrics.spent - metrics.balance
          /\ metrics.balance = metrics.earned - metrics.spent
      BY <1>1, <1>8
    <2> QED BY <2>1, <2>2
  <1>12. ASSUME NEW i \in 1 .. m
         PROVE  wpt'[i].after = FirstSum(g, i - 1) + wpt'[i].amount
    <2>1. CASE i \in 1 .. n
      <3>1. wpt'[i] = wpt[i]
        BY <1>1, <2>1
      <3>2. i - 1 \in 0 .. n
        BY <1>1, <2>1
      <3>3. FirstSum(g, i - 1) = FirstSum(f, i - 1)
        BY <1>6, <3>2
      <3> QED BY <1>8, <2>1, <3>1, <3>3
    <2>2. CASE i = m
      <3>1. m - 1 = n
        BY <1>1
      <3>2. FirstSum(g, n) = metrics.balance
        <4>1. n \in 0 .. n
          BY <1>1
        <4>2. FirstSum(g, n) = FirstSum(f, n)
          BY <1>6, <4>1
        <4> QED BY <1>8, <4>2
      <3>3. wpt'[m].after = metrics.balance + amount
        <4>1. CASE metrics.has
          BY <1>1, <4>1
        <4>2. CASE ~metrics.has
          BY <1>1, <1>2, <4>2
        <4> QED BY <4>1, <4>2
      <3> QED BY <1>1, <2>2, <3>1, <3>2, <3>3
    <2> QED BY <1>1, <2>1, <2>2
  <1>13. ~metrics'.has => early' = Len(wpt')
    BY <1>1, <1>2
  <1>14. Len(wpt') = m /\ DOMAIN wpt' = 1 .. m
    BY <1>1
  <1> HIDE DEF m
  <1>15. LedgerExplainsBalance'
    BY <1>10, <1>11, <1>12, <1>14 DEF LedgerExplainsBalance, g
  <1> QED BY <1>13, <1>15 DEF BalanceKept

LEMMA BalanceStep == Typed /\ BalanceKept /\ [Next]_vars => BalanceKept'
  <1> SUFFICES ASSUME Typed, BalanceKept, [Next]_vars PROVE BalanceKept'
    OBVIOUS
  <1>1. CASE AwardCheckIn
    <2> DEFINE sum == 10 + Bonus(api.n)
    <2>1. /\ Award(api.att, "checkin", sum, 0) /\ sum \in Int /\ api.att \in Atts
          /\ "checkin" \in Categories
      BY <1>1, AmountsTyped DEF AwardCheckIn, At, Typed, JobInv, Is, Categories
    <2> HIDE DEF sum
    <2> QED BY <2>1, AwardBalance
  <1>2. CASE AwardCheckOut
    <2> DEFINE sum == 10 + Whole(5 * api.n)
    <2>1. /\ Award(api.att, "checkout", sum, api.n) /\ sum \in Int /\ api.n \in Int
          /\ api.att \in Atts /\ "checkout" \in Categories
      BY <1>2, AmountsTyped DEF AwardCheckOut, At, Typed, JobInv, Is, Categories
    <2> HIDE DEF sum
    <2> QED BY <2>1, AwardBalance
  <1>3. ASSUME NEW amount \in Grants, AdminGrant(amount) PROVE BalanceKept'
    <2>1. amount \in Int /\ Award(NoAtt, "admin", amount, 0)
      BY <1>3, GamificationAssumption DEF AdminGrant
    <2> QED BY <2>1, AwardBalance
  <1>4. CASE ~(AwardCheckIn \/ AwardCheckOut \/ \E amount \in Grants : AdminGrant(amount))
    <2>1. /\ UNCHANGED <<wpt, early>>
          /\ ~metrics'.has => ~metrics.has
      BY <1>4, SumsStay
    <2>2. /\ metrics'.balance = metrics.balance /\ metrics'.earned = metrics.earned
          /\ metrics'.spent = metrics.spent
      BY <1>4, SumsStay
    <2>3. Counted' = Counted
      BY <2>1 DEF Counted
    <2> QED BY <2>1, <2>2, <2>3 DEF BalanceKept, LedgerExplainsBalance
  <1> QED BY <1>1, <1>2, <1>3, <1>4

\* The balance is what the ledger says, and every row's balance_after too.
THEOREM BalanceIsLedger == Spec => []BalanceInv
  <1>1. Init => Typed /\ BalanceKept
    BY InitTyped, InitBalance
  <1>2. Typed /\ BalanceKept /\ [Next]_vars => (Typed /\ BalanceKept)'
    BY TypedStep, BalanceStep
  <1>3. Typed /\ BalanceKept => BalanceInv
    BY DEF Typed, BalanceKept, BalanceInv
  <1> QED BY <1>1, <1>2, <1>3, PTL DEF Spec

-----------------------------------------------------------------------------
(* Experience.  S is the set of the rewards whose experience was added; the *)
(* reward in progress adds its own in its last transaction.                *)

Adding == IF Is({"exp"}) THEN 1 ELSE 0

AddedFor(S) ==
    /\ S \subseteq Rewards
    /\ metrics.exp = FirstSum(Gained(S), Len(wpt))
    /\ Cardinality(Rewards \ S) <= crashes + Adding
    /\ Is({"exp"}) => \E i \in Rewards \ S : api.n = ExperienceOf(wpt[i])

LevelKept == metrics.exp >= 0 => metrics.level = LevelFor(metrics.exp, 1)

ExperienceInv == (\E S : AddedFor(S)) /\ LevelKept

LEMMA InitExperience == Init => ExperienceInv
  <1> SUFFICES ASSUME Init PROVE ExperienceInv
    OBVIOUS
  <1>1. DOMAIN wpt = {} /\ Len(wpt) = 0 /\ crashes = 0 /\ ~Is({"exp"})
    BY EmptySeq DEF Init, Is, Idle
  <1>2. PICK old \in BOOLEAN : metrics = [NewMetrics EXCEPT !.has = old]
    BY DEF Init
  <1>3. metrics.exp = 0 /\ metrics.level = 1
    BY <1>2 DEF NewMetrics
  <1>4. LevelKept
    BY <1>3, LevelZero DEF LevelKept
  <1> DEFINE none == {}
  <1>5. Rewards \ none = {} /\ none \subseteq Rewards
    BY <1>1 DEF Rewards
  <1>6. FirstSum(Gained(none), 0) = 0 /\ Cardinality({}) = 0
    BY FirstSumEmpty, FS_EmptySet
  <1> HIDE DEF none
  <1>7. Adding = 0
    BY <1>1 DEF Adding
  <1>8. FirstSum(Gained(none), Len(wpt)) = 0
    BY <1>1, <1>6
  <1>9. Cardinality(Rewards \ none) = 0
    BY <1>5, <1>6
  <1>10. Cardinality(Rewards \ none) <= crashes + Adding
    BY <1>1, <1>7, <1>9
  <1>11. AddedFor(none)
    BY <1>1, <1>3, <1>5, <1>8, <1>10 DEF AddedFor
  <1> QED BY <1>4, <1>11 DEF ExperienceInv

LEMMA RewardsFinite ==
    ASSUME Typed
    PROVE  /\ IsFiniteSet(Rewards) /\ Rewards \subseteq 1 .. Len(wpt) /\ Len(wpt) \in Nat
           /\ DOMAIN wpt = 1 .. Len(wpt)
           /\ \A S : IsFiniteSet(Rewards \ S) /\ Cardinality(Rewards \ S) \in Nat
           /\ \A i \in DOMAIN wpt : ExperienceOf(wpt[i]) \in Int
  <1> DEFINE n == Len(wpt)
  <1>1. DOMAIN wpt = 1 .. n /\ n \in Nat /\ \A i \in 1 .. n : wpt[i] \in LedgerRow
    BY LenProperties, ElementOfSeq DEF Typed, TypeOK
  <1> HIDE DEF n
  <1>2. Rewards \subseteq 1 .. n /\ IsFiniteSet(1 .. n)
    BY <1>1, FS_Interval DEF Rewards
  <1>3. IsFiniteSet(Rewards)
    BY <1>2, FS_Subset
  <1>4. ASSUME NEW S PROVE IsFiniteSet(Rewards \ S) /\ Cardinality(Rewards \ S) \in Nat
    BY <1>3, FS_Subset, FS_CardinalityType
  <1>5. ASSUME NEW i \in DOMAIN wpt PROVE ExperienceOf(wpt[i]) \in Int
    <2>1. wpt[i].worked \in Int /\ 5 \in Int
      BY <1>1 DEF LedgerRow
    <2>2. 2 * wpt[i].worked \in Int
      BY <2>1
    <2>3. Whole(2 * wpt[i].worked) \in Int
      BY <2>2, WholeTyped
    <2> QED BY <2>1, <2>3 DEF ExperienceOf
  <1> QED BY <1>1, <1>2, <1>3, <1>4, <1>5 DEF n

\* A row more in the ledger, whose experience is not added yet.
LEMMA AwardExperience ==
    ASSUME Typed, NEW S, AddedFor(S), ~Is({"exp"}),
           NEW a \in Atts \cup {NoAtt}, NEW cat \in Categories \cup {"admin"},
           NEW amount \in Int, NEW worked \in Int, Award(a, cat, amount, worked), crashes' = crashes,
           \/ cat = "admin" /\ api' = api
           \/ /\ cat # "admin" /\ api'.pc = "exp"
              /\ api'.n = IF cat = "checkin" THEN 5 ELSE Whole(2 * worked)
    PROVE  AddedFor(S)'
  <1> DEFINE n == Len(wpt)
             m == n + 1
             f == Gained(S)
             g == Gained(S)'
  <1>1. /\ n \in Nat /\ Len(wpt') = n + 1
        /\ DOMAIN wpt = 1 .. n /\ DOMAIN wpt' = 1 .. (n + 1)
        /\ \A i \in 1 .. n : wpt'[i] = wpt[i]
        /\ wpt'[n + 1].worked = worked /\ wpt'[n + 1].cat = cat
        /\ metrics'.exp = metrics.exp
    BY Awards
  <1>2. /\ S \subseteq Rewards /\ metrics.exp = FirstSum(f, n)
        /\ Cardinality(Rewards \ S) <= crashes /\ crashes \in Nat
    BY GamificationAssumption DEF AddedFor, Adding, Typed, TypeOK
  <1>3. /\ Rewards \subseteq 1 .. n /\ IsFiniteSet(Rewards \ S) /\ Cardinality(Rewards \ S) \in Nat
        /\ \A i \in 1 .. n : ExperienceOf(wpt[i]) \in Int
    BY <1>1, RewardsFinite
  <1>4. /\ \A i \in 1 .. n : f[i] = IF i \in S THEN ExperienceOf(wpt[i]) ELSE 0
        /\ \A i \in 1 .. m : g[i] = IF i \in S THEN ExperienceOf(wpt'[i]) ELSE 0
    BY <1>1 DEF Gained
  <1>5. Rewards' = IF cat # "admin" THEN Rewards \cup {m} ELSE Rewards
    BY <1>1 DEF Rewards
  <1> HIDE DEF n, f, g
  <1>6. m \notin Rewards /\ m \in 1 .. m /\ m \in Nat
    BY <1>1, <1>3
  <1>7. \A i \in 1 .. n : g[i] = f[i] /\ f[i] \in Int
    BY <1>1, <1>3, <1>4
  <1>8. g[m] = 0
    BY <1>2, <1>4, <1>6
  <1>9. FirstSum(g, m) = FirstSum(f, n)
    <2>1. FirstSum(g, m) = FirstSum(g, n) + g[m]
      BY <1>1, FirstSumNext
    <2>2. FirstSum(g, n) = FirstSum(f, n)
      BY <1>1, <1>7, FirstSumEqual
    <2>3. FirstSum(f, n) \in Int
      BY <1>1, <1>7, FirstSumType
    <2> QED BY <1>8, <2>1, <2>2, <2>3
  <1>10. metrics'.exp = FirstSum(Gained(S), Len(wpt))'
    BY <1>1, <1>2, <1>9 DEF g
  <1>11. S \subseteq Rewards'
    BY <1>2, <1>5
  <1>12. CASE cat = "admin"
    <2>1. Rewards' = Rewards /\ ~Is({"exp"})' /\ api' = api
      BY <1>5, <1>12 DEF Is
    <2>2. Adding' = 0
      BY <2>1 DEF Adding
    <2> QED BY <1>2, <1>3, <1>10, <1>11, <2>1, <2>2 DEF AddedFor
  <1>13. CASE cat # "admin"
    <2> DEFINE R == Rewards \ S
               Q == Rewards' \ S
    <2>1. Q = R \cup {m} /\ m \notin R
      BY <1>2, <1>5, <1>6, <1>13
    <2>2. IsFiniteSet(R) /\ Cardinality(R) \in Nat /\ Cardinality(R) <= crashes
      BY <1>2, <1>3
    <2> HIDE DEF R, Q, m
    <2>3. Cardinality(Q) = Cardinality(R) + 1
      BY <2>1, <2>2, FS_AddElement
    <2>4. Is({"exp"})' /\ Adding' = 1
      BY <1>13 DEF Is, Adding
    <2>5. Cardinality(Q) <= crashes' + Adding'
      BY <1>2, <2>2, <2>3, <2>4
    <2>6. m \in Q /\ api'.n = ExperienceOf(wpt'[m])
      <3>1. wpt'[m].cat = cat /\ wpt'[m].worked = worked
        BY <1>1 DEF m
      <3> QED BY <1>13, <2>1, <3>1 DEF ExperienceOf
    <2> QED BY <1>10, <1>11, <2>5, <2>6 DEF AddedFor, Q
  <1> QED BY <1>12, <1>13

\* The last transaction of a reward adds its experience.
LEMMA AddsExperience ==
    ASSUME Typed, NEW S, AddedFor(S), LevelKept, Experience
    PROVE  ExperienceInv'
  <1> DEFINE n == Len(wpt)
             f == Gained(S)
             R == Rewards \ S
             e == api.n
  <1>1. /\ Is({"exp"}) /\ wpt' = wpt /\ crashes' = crashes /\ api' = Idle /\ ~Is({"exp"})'
        /\ AddExperience(api.n)
    BY IdleTyped DEF Experience, At, Is
  <1>2. /\ S \subseteq Rewards /\ metrics.exp = FirstSum(f, n)
        /\ Cardinality(R) <= crashes + 1 /\ crashes \in Nat
    BY <1>1, GamificationAssumption DEF AddedFor, Adding, Typed, TypeOK
  <1>3. PICK i \in R : e = ExperienceOf(wpt[i])
    BY <1>1 DEF AddedFor
  <1>4. /\ Rewards \subseteq 1 .. n /\ IsFiniteSet(R) /\ Cardinality(R) \in Nat /\ n \in Nat
        /\ DOMAIN wpt = 1 .. n
        /\ \A j \in 1 .. n : ExperienceOf(wpt[j]) \in Int
    BY RewardsFinite
  <1> DEFINE Q == S \cup {i}
             g == Gained(Q)
  <1>5. i \in 1 .. n /\ i \notin S /\ e \in Int
    BY <1>3, <1>4
  <1>6. \A j \in 1 .. n : f[j] = IF j \in S THEN ExperienceOf(wpt[j]) ELSE 0
    BY <1>4 DEF Gained
  <1>7. \A j \in 1 .. n : g[j] = IF j \in Q THEN ExperienceOf(wpt[j]) ELSE 0
    BY <1>4 DEF Gained
  <1> HIDE DEF f, g, n, e
  <1>8. \A j \in 1 .. n : f[j] \in Int
    BY <1>4, <1>6
  <1>9. \A j \in 1 .. n : g[j] = IF j = i THEN f[j] + e ELSE f[j]
    <2> TAKE j \in 1 .. n
    <2>1. CASE j = i
      BY <1>3, <1>5, <1>6, <1>7, <2>1
    <2>2. CASE j # i
      BY <1>6, <1>7, <2>2
    <2> QED BY <2>1, <2>2
  <1>10. FirstSum(g, n) = FirstSum(f, n) + e /\ FirstSum(f, n) \in Int
    <2>1. FirstSum(f, n) \in Int
      BY <1>4, <1>8, FirstSumType
    <2>2. FirstSum(g, n) = FirstSum(f, n) + e
      <3>1. n \in Nat /\ i \in 1 .. n /\ e \in Int
        BY <1>4, <1>5
      <3> HIDE DEF R, Q
      <3>2. \A j \in 1 .. n : g[j] = IF j = i THEN f[j] + e ELSE f[j]
        BY <1>9
      <3> QED BY <1>8, <3>1, <3>2, FirstSumChange, ZenonT(30)
    <2> QED BY <2>1, <2>2
  <1> DEFINE exp == metrics.exp + e
             level == LevelFor(exp, metrics.level)
  <1>11. metrics' = [metrics EXCEPT !.exp = exp, !.level = level]
    BY <1>1 DEF AddExperience, Typed, JobInv, Is, e
  <1>12. metrics \in MetricsRow /\ exp = FirstSum(g, n) /\ exp \in Int
    <2>1. metrics \in MetricsRow
      BY DEF Typed, TypeOK
    <2> QED BY <1>2, <1>5, <1>10, <2>1
  <1>13. exp >= 0 => level = LevelFor(exp, 1)
    <2>1. exp \in Int
      BY <1>12
    <2> HIDE DEF exp
    <2> QED BY <2>1, LevelReached
  <1> HIDE DEF exp, level
  <1>14. metrics'.exp = exp /\ metrics'.level = level
    BY <1>11, <1>12 DEF MetricsRow
  <1>15. Rewards' = Rewards /\ Gained(Q)' = Gained(Q)
    BY <1>1 DEF Rewards, Gained
  <1>16. Q \subseteq Rewards /\ Rewards \ Q = R \ {i}
    BY <1>2, <1>3
  <1>17. Cardinality(R \ {i}) <= crashes
    <2> HIDE DEF R
    <2>1. Cardinality(R \ {i}) = Cardinality(R) - 1
      BY <1>3, <1>4, FS_RemoveElement
    <2> QED BY <1>2, <1>4, <2>1
  <1> HIDE DEF R, Q
  <1>18. Adding' = 0
    BY <1>1 DEF Adding
  <1>19. (Cardinality(Rewards \ Q) <= crashes + Adding)'
    BY <1>1, <1>2, <1>15, <1>16, <1>17, <1>18
  <1>20. (metrics.exp = FirstSum(Gained(Q), Len(wpt)))'
    BY <1>1, <1>12, <1>14, <1>15 DEF g, n
  <1>21. AddedFor(Q)'
    BY <1>1, <1>15, <1>16, <1>19, <1>20 DEF AddedFor
  <1>22. LevelKept'
    BY <1>13, <1>14 DEF LevelKept
  <1> QED BY <1>21, <1>22 DEF ExperienceInv

\* Only the payment of a reward is followed by its experience.
LEMMA AddingStays ==
    ASSUME Typed, [Next]_vars, ~AwardCheckIn, ~AwardCheckOut, ~Experience, ~Crash
    PROVE  /\ crashes' = crashes
           /\ Is({"exp"})' <=> Is({"exp"})
           /\ Is({"exp"}) => api' = api
  <1>1. api \in Job
    BY Fields
  <1>2. CASE \E a \in Atts : OnAttendance(a)
    <2> HIDE DEF Idle
    <2> QED BY <1>2 DEF OnAttendance, CreateAttendance, ApiCheckInRead, ClaimCheckIn,
          ApiCheckOutRead, ClaimCheckOut, BotRead, ManualCheckIn, ManualCheckOut, Begin, At, Is
  <1>3. CASE ApiStep
    <2>1. Idle.pc = "idle"
      BY IdleTyped
    <2> DEFINE n == NewStreak
    <2>2. CASE UpdateStreak
      <3>1. api' = Idle \/ api' = [api EXCEPT !.pc = "in_award", !.n = n]
        BY <2>2 DEF UpdateStreak, Goto
      <3>2. At("streak") /\ crashes' = crashes
        BY <2>2 DEF UpdateStreak
      <3> HIDE DEF Idle, n
      <3> QED BY <1>1, <2>1, <3>1, <3>2 DEF At, Is, Job
    <2> HIDE DEF Idle
    <2> QED BY <1>1, <1>3, <2>1, <2>2 DEF ApiStep, ApiCheckInWrite, ApiCheckOutWrite, ApiCheckOutReread,
          Goto, At, Is, Job
  <1>4. CASE BotWrite \/ TimePasses \/ (\E amount \in Grants : AdminGrant(amount))
    BY <1>4 DEF BotWrite, TimePasses, AdminGrant, Is
  <1>5. CASE UNCHANGED vars
    BY <1>5 DEF vars, Is
  <1> QED BY <1>2, <1>3, <1>4, <1>5 DEF Next

LEMMA ExperienceStep == Typed /\ ExperienceInv /\ [Next]_vars => ExperienceInv'
  <1> SUFFICES ASSUME Typed, ExperienceInv, [Next]_vars PROVE ExperienceInv'
    OBVIOUS
  <1>1. PICK S : AddedFor(S)
    BY DEF ExperienceInv
  <1>2. LevelKept /\ api \in Job
    BY Fields DEF ExperienceInv
  <1>3. CASE Experience
    BY <1>1, <1>2, <1>3, AddsExperience
  <1>4. CASE AwardCheckIn
    <2> DEFINE sum == 10 + Bonus(api.n)
               five == 5
    <2>1. /\ At("in_award") /\ Award(api.att, "checkin", sum, 0) /\ Goto("exp", five)
          /\ crashes' = crashes
      BY <1>4 DEF AwardCheckIn
    <2>2. /\ sum \in Int /\ api.att \in Atts /\ "checkin" \in Categories /\ ~Is({"exp"})
      BY <2>1, AmountsTyped DEF At, Typed, JobInv, Is, Categories
    <2> HIDE DEF sum
    <2>3. metrics'.exp = metrics.exp /\ metrics'.level = metrics.level
      BY <2>1, <2>2, Awards
    <2>4. five = 5 /\ "checkin" # "admin"
      OBVIOUS
    <2> HIDE DEF five
    <2>5. api'.pc = "exp" /\ api'.n = five
      BY <1>2, <2>1 DEF Goto, Job
    <2>6. AddedFor(S)'
      BY <1>1, <2>1, <2>2, <2>4, <2>5, AwardExperience
    <2> QED BY <1>2, <2>3, <2>6 DEF ExperienceInv, LevelKept
  <1>5. CASE AwardCheckOut
    <2> DEFINE sum == 10 + Whole(5 * api.n)
               gain == Whole(2 * api.n)
    <2>1. /\ At("out_award") /\ Award(api.att, "checkout", sum, api.n) /\ Goto("exp", gain)
          /\ crashes' = crashes
      BY <1>5 DEF AwardCheckOut
    <2>2. /\ sum \in Int /\ api.att \in Atts /\ "checkout" \in Categories /\ ~Is({"exp"})
      BY <2>1, AmountsTyped DEF At, Typed, JobInv, Is, Categories
    <2>3. gain = Whole(2 * api.n) /\ "checkout" # "admin" /\ "checkout" # "checkin"
          /\ api.n \in Int
      BY <1>2 DEF Job
    <2> HIDE DEF sum, gain
    <2>4. metrics'.exp = metrics.exp /\ metrics'.level = metrics.level
      BY <2>1, <2>2, <2>3, Awards
    <2>5. api'.pc = "exp" /\ api'.n = gain
      BY <1>2, <2>1 DEF Goto, Job
    <2>6. AddedFor(S)'
      BY <1>1, <2>1, <2>2, <2>3, <2>5, AwardExperience
    <2> QED BY <1>2, <2>4, <2>6 DEF ExperienceInv, LevelKept
  <1>6. ASSUME NEW amount \in Grants, AdminGrant(amount) PROVE ExperienceInv'
    <2> DEFINE cat == "admin"
    <2>1. /\ amount \in Int /\ 0 \in Int /\ Award(NoAtt, cat, amount, 0) /\ ~Is({"exp"}) /\ api' = api
          /\ crashes' = crashes
      BY <1>6, GamificationAssumption DEF AdminGrant, At, Is
    <2>2. cat \in Categories \cup {"admin"} /\ cat = "admin" /\ NoAtt \in Atts \cup {NoAtt}
      OBVIOUS
    <2> HIDE DEF cat, NoAtt
    <2>3. metrics'.exp = metrics.exp /\ metrics'.level = metrics.level
      BY <2>1, <2>2, Awards
    <2>4. AddedFor(S)'
      BY <1>1, <2>1, <2>2, AwardExperience
    <2> QED BY <1>2, <2>3, <2>4 DEF ExperienceInv, LevelKept
  <1>7. ASSUME ~(AwardCheckIn \/ AwardCheckOut \/ \E amount \in Grants : AdminGrant(amount)),
               ~Experience
        PROVE  ExperienceInv'
    <2>1. wpt' = wpt /\ metrics'.exp = metrics.exp /\ metrics'.level = metrics.level
      BY <1>7, SumsStay
    <2>2. Rewards' = Rewards /\ Gained(S)' = Gained(S)
      BY <2>1 DEF Rewards, Gained
    <2>3. /\ S \subseteq Rewards
          /\ Cardinality(Rewards \ S) <= crashes + Adding /\ crashes \in Nat
          /\ Cardinality(Rewards \ S) \in Nat
      <3>1. Cardinality(Rewards \ S) \in Nat
        BY RewardsFinite
      <3>2. crashes \in Nat
        BY GamificationAssumption DEF Typed, TypeOK
      <3> QED BY <1>1, <3>1, <3>2 DEF AddedFor
    <2>4. (metrics.exp = FirstSum(Gained(S), Len(wpt)))'
      BY <1>1, <2>1, <2>2 DEF AddedFor
    <2>5. /\ (Is({"exp"}) => \E i \in Rewards \ S : api.n = ExperienceOf(wpt[i]))'
          /\ crashes' + Adding' >= crashes + Adding
      <3>1. CASE Crash
        <4>1. ~Is({"exp"})' /\ crashes' = crashes + 1
          BY <3>1, IdleTyped DEF Crash, Is
        <4>2. Adding' = 0 /\ Adding \in {0, 1}
          BY <4>1 DEF Adding
        <4> QED BY <2>3, <4>1, <4>2
      <3>2. CASE ~Crash
        <4>1. /\ crashes' = crashes
              /\ Is({"exp"})' <=> Is({"exp"})
              /\ Is({"exp"}) => api' = api
          BY <1>7, <3>2, AddingStays
        <4>2. Adding' = Adding /\ Adding \in {0, 1}
          BY <4>1 DEF Adding
        <4>3. Is({"exp"}) => \E i \in Rewards \ S : api.n = ExperienceOf(wpt[i])
          BY <1>1 DEF AddedFor
        <4>4. (Is({"exp"}) => \E i \in Rewards \ S : api.n = ExperienceOf(wpt[i]))'
          BY <2>1, <2>2, <4>1, <4>3
        <4> QED BY <2>3, <4>1, <4>2, <4>4
      <3> QED BY <3>1, <3>2
    <2>6. (Cardinality(Rewards \ S) <= crashes + Adding)'
      <3>1. crashes' + Adding' \in Int /\ crashes + Adding \in Int
        <4>1. crashes' \in Nat /\ crashes \in Nat
          BY <2>3, TypedStep, GamificationAssumption DEF Typed, TypeOK
        <4>2. Adding \in Int /\ Adding' \in Int
          BY DEF Adding
        <4> QED BY <4>1, <4>2
      <3> QED BY <2>2, <2>3, <2>5, <3>1
    <2>7. AddedFor(S)'
      BY <2>2, <2>3, <2>4, <2>5, <2>6 DEF AddedFor
    <2> QED BY <1>2, <2>1, <2>7 DEF ExperienceInv, LevelKept
  <1> QED BY <1>3, <1>4, <1>5, <1>6, <1>7

\* Experience is never lost, but what a crash cut off, and never counted twice.
THEOREM ExperienceOfRewards == Spec => []ExperienceIsPaid
  <1>1. Init => Typed /\ ExperienceInv
    BY InitTyped, InitExperience
  <1>2. Typed /\ ExperienceInv /\ [Next]_vars => (Typed /\ ExperienceInv)'
    BY TypedStep, ExperienceStep
  <1>3. Typed /\ ExperienceInv => ExperienceIsPaid
    <2> SUFFICES ASSUME Typed, ExperienceInv PROVE ExperienceIsPaid
      OBVIOUS
    <2>1. PICK S : AddedFor(S)
      BY DEF ExperienceInv
    <2>2. Is({"exp"}) => api # Idle
      BY IdleTyped DEF Is
    <2>3. Adding <= Working /\ Adding \in Int /\ Working \in Int /\ crashes \in Nat
      BY <2>2, GamificationAssumption DEF Adding, Working, Typed, TypeOK
    <2>4. Cardinality(Rewards \ S) \in Nat
      BY RewardsFinite
    <2>5. Cardinality(Rewards \ S) <= crashes + Working
      BY <2>1, <2>3, <2>4 DEF AddedFor
    <2> QED BY <2>1, <2>5 DEF AddedFor, ExperienceInv, LevelKept, ExperienceIsPaid
  <1> QED BY <1>1, <1>2, <1>3, PTL DEF Spec
=============================================================================
