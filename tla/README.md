# WorkProof Chain: a TLA+ verification project

WorkProof Chain hires day workers for events, records their attendance, anchors
finished work on a blockchain and pays them in WPT credits. This directory
holds TLA+ models of the parts of it in which several processes, a database, a
blockchain and two chats have to agree, the TLC runs that check them, and TLAPS
proofs of every safety property that the runs check.

## 1. The system

Three Python processes share one PostgreSQL database (`src/db.py`), and two of
them talk to two Polygon contracts from one platform account.

| process | code | how it runs handlers |
|---|---|---|
| API (`api`) | `src/api/` (FastAPI, one uvicorn process) | `async` handlers that never await, so one at a time; the exception is `upload_my_photo`, which awaits the request's body |
| worker bot (`wbot`) | `src/worker_bot.py` | one Telegram update at a time, plus one thread per signup bonus |
| admin bot (`abot`) | `src/admin_bot.py` | one Telegram update at a time |

Every method of `Database` opens a connection, runs its statements and commits:
a handler is a sequence of transactions, and the other processes run between
them. `systemd` restarts a process that dies, without what it had in memory.

### Inventory

| component | state it keeps | operations | hard behaviour | what makes it correct | module |
|---|---|---|---|---|---|
| Applications, confirmation, event deletion | `events`, `applications` | apply, cancel, confirm, reject, wait-list, open, close, delete | two bots and the API decide on the same row; status and attendance row are two transactions | no row points at a deleted one; a confirmed worker has a code; what a worker was told is true | `WorkLifecycle` |
| Check-in and check-out | `attendance` | check in, check out (worker or administrator) | read-then-update in `db.check_out`, stale codes | what is anchored was committed first | `WorkLifecycle` |
| Work-log registry | `chain_logs`, `WorkLogRegistry` | `record_work_log`, `create_chain_log`, `update_chain_log_tx` | receipts that time out, transactions that are mined late or never | a `chain_logs` row names a recorded log; anchored work is permanent | `WorkLifecycle` |
| Credits (WPT) | `workers.tokens`, `credit_history`, `daily_checkins`, `monthly_bonuses`, `WorkProofToken` | mint, burn, daily check-in, monthly bonus, paid certificate | chain call and tables disagree half-way; one account, one nonce; retries; midnight | the column covers what the chain holds; the history explains the column | `Credits` |
| Registration, profile, withdrawal | `workers` | last registration step, profile update, photo upload, deletion | bonus threads racing with the deletion of an account | no credit rows without a worker; a bonus is given once | `Credits` |
| Gamification | `wpt_transactions`, `worker_metrics`, `worker_streaks`, two triggers | rewards of check-in and check-out, automatic or claimed, grants, levels | a reward committed in three pieces, automatic and claimed rewards of one row, triggers that fire on every write | no row is rewarded twice; the streak is the run of days; the ledger explains the balance | `Gamification` |
| Badges and NFT batches | `worker_badges`, `project_nft_batches`, `audit_logs` | award by counts, issue a batch for an event | loops of transactions cut short; deletions meanwhile; a UNIQUE constraint the check does not ask about | a project badge stands for work that is still there; levels have no gaps | `Badges` |
| Payroll and reports | files made of `events` and `attendance` rows | payroll sheet, event report, payment statement, certificate | event and rows are read in different transactions; three ways of rounding 3.3 % | no one who worked is missing; the documents agree; a settlement adds up | `Earnings` |
| Statistics | `worker_monthly_stats`, columns of `workers` | monthly and cumulative calculation, batches, pages | statements with a snapshot each; dates that cannot be cast; status against check-out time | stored sums agree with each other and with the pages | `Earnings` |
| Administrator's chat | `user_data` and states of the admin bot, messages with buttons | menus, registration of an event, eight corrections, administrators | old buttons, two dialogues at once, restarts, the API changing events meanwhile | every answer is stored as the answer to its question | `AdminDesk` |
| Worker's chat | `user_data` and states of the worker bot, photo files | nine registration questions, corrections, attendance codes | the same, and the same account used on the web | only complete rows; a row names a photo that exists, or one whose replacement was cut off | `WorkerChat` |
| Approvals, GPS, QR | `attendance_approvals`, `worker_locations` | request, approve | | | not modelled (section 13) |
| Administrator requests | `pending_admin_requests` | approve, reject | no request can be made | | not modelled (section 13) |
| E-mail codes, JWT, Telegram login | `email_verifications`, tokens | send, verify | | | not modelled (section 13) |
| Parser, matching, notifications, contract links | little or none | pure functions and queries | | | not modelled (section 13) |
| Work OS backend | a database of its own | follow, apply, review | | | not modelled (section 13) |

Components interact through rows: the bot confirms what the API will show, the
API checks in what the bot confirmed, both bots and the API send transactions
from the same account. No component calls another directly except handler to
`db.py`, `chain.py` and `wpt_service.py`. The modules cut the system along
these rows: each has the tables its properties are about as state, and takes
what other components write to them as actions of its own.

The hazards of this code, each with its line and the properties aimed at it, are
listed under `hazards` in `PROJECT.json`; those without a property say why.

## 2. Modules

| module | what it is |
|---|---|
| `WorkRecord` | abstract specification: the life of one worker's record for one event, as a partner of the platform sees it |
| `WorkLifecycle` | the core: three processes, the hiring and attendance tables, the registry and its mempool |
| `WorkLifecycleProofs` | the theorems about `WorkLifecycle` |
| `MCWorkLifecycle` | model values and symmetry for the runs of the core |
| `Sums` | sums over the rows of a table, in their order (`FirstSum`) or over a set of them (`SumOver`) |
| `SumsProofs` | what such a sum is and how it changes, induction over numbers and over finite sets, and a few facts about sequences and cardinalities |
| `Credits`, `CreditsProofs` | credits on the chain and in the tables, with threads, retries and crashes, and the theorems about them |
| `Gamification`, `GamificationProofs` | the reward of a check-in or check-out, a transaction at a time, with the triggers, and the theorems about payments, streaks and the ledger |
| `Badges`, `BadgesProofs` | the two loops that award badges, and the theorems about project badges, their records and levels |
| `Earnings`, `EarningsProofs` | documents of pay and statistics of work, and the theorems about both |
| `AdminDesk`, `AdminDeskProofs` | the administrator's chat with the admin bot, and the theorems about its dialogues |
| `WorkerChat`, `WorkerChatProofs` | a person's chat with the worker bot, and the theorems about its answers and photos |
| `MCCredits`, `MCGamification`, `MCBadges`, `MCEarnings`, `MCAdminDesk`, `MCWorkerChat` | model values, symmetry and small instances for the runs of these |

Operators named `Faulty...` (and `Endless...`, `Stopping...`, `Unsigned...`)
are plausible mistakes, never used by a specification: for every property of a
passing run, `PROJECT.json` names one that breaks it when it takes the place of
the operation it stands beside.

The typing invariant of a module is a part of one of its checked invariants
(`DeskInv`, `ChatInv`, `BalanceInv`, `IssueRecorded`, `ReportInv`, `ColumnInv`), or
checked by itself in `WorkLifecycle`. Variables and fields whose comment says
"history" record what happened for the properties and guide no action.

## 3. The core: `WorkLifecycle`

### State

`event`, `apps`, `att` and `chain` are the tables `events`, `applications`,
`attendance` (at most one row per application) and `chain_logs` (at most one per
attendance). `ledger` holds the hashes in `WorkLogRegistry`, `mempool` the
submitted transactions that no block holds yet, `notices` what workers were
told. `job[p]` is the program counter of process `p` with the local variables
its handler still needs. `checkouts`, `stranded` and `crashes` only record
history for the properties.

A hash is the record of the fields it is computed from. The API and the bot
encode the same row differently, hence its field `fmt`. Time 0 stands for NULL.
`CLOSED` stands for `COMPLETED` too, since every guard asks only whether the
event is open.

### Actions

One action is one committed transaction, one Telegram message or one call to
the node. For example `UpdRead`, `UpdWrite`, `UpdLook`, `UpdCreate` and
`UpdNotify` are `update_application_status` of the API; `BotConfirmRead` to
`BotConfirmMark` are `app_confirm` of the admin bot; `CheckOutSelect`,
`CheckOutUpdate` and `CheckOutReread` are `db.check_out`, whose two statements
other processes may come between at READ COMMITTED, and the handler's third
read; `RecordSend`, `RecordReceipt`, `RecordTimeout`, `ChainInsert` and
`ChainTx` are the anchoring that follows. `Mine` and `Drop` are the network and
`Crash(p)` is the death of a process.

Choices that a reader should know of:

- `db.check_in` takes its time and updates in one step; the deletion of an event
  is one transaction, hence one action.
- The mempool is a set: it allows more than one account's nonces do.
- Serial ids are never used again. When the bounded `AppIds` are used up an
  INSERT has no effect.
- Deleting a worker is not here: the database refuses it for anyone who has
  applied. `Credits` models it.
- Handlers that fail before they change anything are left out: in the worker
  bot `cancel_application`, `do_checkin`, `do_checkout` and
  `attendance_detail`, in the admin bot `manual_checkin`, `manual_checkout` and
  `attendance_detail` (all build `dict` from a tuple), and in
  `attendance.py` `approve_attendance`, `batch_approve` and
  `admin_check_in_worker`/`admin_check_out_worker` (no key `admin`).
  `db.cancel_application` and `db.mark_no_show` have no callers.
- The rewards that the API pays after a check-in or check-out are in
  `Gamification`, what documents and statistics make of the rows in `Earnings`.
- `app_unconfirm` of the admin bot is missing: its button is only drawn by
  `app_detail` for a confirmed application, for which `app_detail` raises.

### Runs

| run | bounds | shows |
|---|---|---|
| `life_crash` | 1 event, 1 worker, 1 id, all four decisions, 2 ticks, 1 crash | `TypeOK`, `NoOrphans`, `ConfirmedHasCode`, `ToldHasCode`, `LedgerBacked`, `RowsOnLedger`, `HandlerFacts` |
| `life_refine` | 1 event, 2 workers, 2 ids, no crash | `ImplementsRecord`, `AnchoredIsPermanent` |
| `life_live` | 1 event, 1 worker, 1 crash, fairness | `HandlersReturn`, `RowsGetTx` |

One application is enough for the hazards of `life_crash`, which are about three
processes that hold the id of one row; deleting an event is what couples
applications, and `life_refine` has two of them. Two ticks allow a check-in and
a check-out, and a third check-in overwriting them needs `MaxTime` 3, as in
`life_v_checkin.cfg`. The proofs remove all of these bounds.

Statements of documents that the code contradicts are in section 11. Others are
contradicted by a single missing guard or call, which the
actions show as they stand: an administrator's manual check-out
completes a record that is never sent to the registry (`ManualCheckOut`;
`api/routes/admin.py:203`); a code outlives the confirmation it was issued for
(`ApiCheckIn`, `BotCheckIn`); the bot's reject button tells nobody
(`BotSetStatus`; `admin_bot.py:1632`); an old apply button still works after the
event was closed (`BotApply`; `worker_bot.py:1097`).

### Fairness

`FairSpec` asks for weak fairness of each process: a running process goes on
with the handler it is in. Nothing is asked of requests, of Telegram, of miners
or of restarts. `RecordTimeout` is what makes the wait end: `web3` raises
`TimeExhausted` after 120 s.

## 4. Credits: `Credits`

### State and actions

A handler or signup thread is a script, the sequence of chain calls and
transactions that `Script(op)` lists in the order of the code. `job[a]` says how
far it is; the API is one actor and the signup thread of each worker another. The
order differs between handlers, and between a configured token contract
(`Enabled`) and a missing one: with it `mint_credits` writes the history before
the column, without it after.

`Send`, `Receipt`, `Timeout`, `Mine` and `Drop` are the calls of
`wpt_service.py`: the nonce counts mined transactions only, so at most one
transaction is pending, and a later one replaces it or is refused. `AddTokens`,
`UseTokens`, `RecordHistory`, `InsertCheckin`, `CheckMonth`, `InsertBonus` and
`DeleteWorker` are one transaction of `db.py` each. `NextDay` may come between
any two steps; the streak is therefore worked out twice, for the reward and for
the row, as in the code.

Amounts are any integers, as in `MintRequest` and `BurnRequest`. With the token
contract a negative one fails before anything is sent, since it does not encode
as `uint256` (`Send`). Without it a negative mint takes credits without asking
for a balance, and a negative burn adds some: `use_token` only refuses more than
the column holds. So the column may be below zero. `ColumnInv` says by how much:
by no more than what the history's negative mints of that worker add up to
(`Taken`), whenever nobody is at work for the worker and no handler was cut off.

`lost` counts the credits that were minted for a handler which did not see the
receipt, `broken` the workers whose column a dead or failing handler left
unexplained. Both are history variables that make the invariants exact instead
of vacuous.

Not modelled: `balance_after`; wallet addresses (derived from the worker's id,
always the same); the certificate's check of `chain_logs`; the contract's owner
functions. `Week` and `MonthDays` are 7 and the calendar's
in the code and 2 in the runs, so that streaks and full months fit into five
days.

### Runs

| run | bounds | shows |
|---|---|---|
| `credits_retry` | 1 worker, amounts 1 and -1, 2 requests, 1 crash, token contract, fairness | `CreditsAccounted`, `HistoryOnChain`, `NoRowsWithoutWorker`, `HandlersEnd`, `SignupSettled` |
| `credits_db` | 1 worker, amounts 2 and -4, 3 requests, 2 uploads, 5 days, 1 crash, no token contract | `ColumnInv`, `HistoryExplainsTokens`, `ProfileBonusOnce`, `RewardMatchesStreak`, `MonthlyBonusEarned` |
| `credits_v_reward` | 1 worker, 2 requests | against `OneRewardPerDay`: a retry after a missed receipt mints again |

Two requests are a retry, or two operations that meet on one balance. One worker
brings two actors that share the account's nonce, its signup thread and the API;
what a second worker adds is another such thread. Three check-ins are a full
month and the day that pays for it, and five days leave room for gaps. Requests
are bounded, so the system comes to rest at the end of a behaviour: these
configurations do not check for deadlock.

The bonus thread of an e-mail signup never gets as far as a step
(`EmailBonus`): it calls `Database()` without the URL it needs
(`api/routes/auth.py:29`).

`FairSpec` is weak fairness of every handler and thread that has begun. A mint
that is never mined ends in `Timeout`, so `SignupSettled` needs no assumption
on the chain.

## 5. Rewards: `Gamification`

Time is in minutes. The state is that of one worker, since the rows of different workers never meet:
the attendance rows, `worker_metrics`, `worker_streaks` and the ledger
`wpt_transactions`. `api` is the handler in progress. A check-in
(`ApiCheckInRead`, `ApiCheckInWrite`) is followed by its reward: `UpdateStreak`,
`AwardCheckIn` and `Experience`, each a transaction; a check-out in the same way.
`ClaimCheckIn` and `ClaimCheckOut` are the endpoints where a worker asks for a
reward that was not paid. They look for an earlier payment, the automatic
rewards do not. The bot (`BotRead`, `BotWrite`) and an administrator check in
and out as well and pay nothing. `Touched` and `Award` contain the two triggers.

What the code does and a reader may not expect:

- The migration stores the setting `wpt_rewards` as JSONB, and the code decodes
  it again. With that row (`config`) every reward fails after the check-in;
  both values of `config` are initial states.
- The second check-in of a day ends the automatic reward, and not the
  endpoint's. A claim counts for the day of the claim.
- `total_events` counts every write of an attendance row. Points granted before
  the metrics row exists stay out of the balance (`early`).
- A check-out pays `int(work_hours * 5)` points and `int(work_hours * 2)`
  experience: each is truncated by itself (`Whole`), so the one does not follow
  from the other. An hour and a half is 7 points and 3 experience. The history
  field `worked` of a ledger row keeps the minutes it was paid for, from which
  `ExperienceOf` says what experience goes with it.
- A check-in by the bot after a check-out makes the hours, and so the reward,
  negative; `int` truncates towards zero.
- `spend_wpt` has no caller; rankings and competitions only read.

| run | bounds | shows |
|---|---|---|
| `game` | 2 attendance rows, three looks at the clock, 1545 minutes (a day, an hour and three quarters) apart, 5 writes of rows, 1 grant, 1 crash | `RewardedOnce`, `StreakIsRun`, `StreakDaysPaid`, `BalanceInv`, `ExperienceIsPaid` |

Two rows are two check-ins of one day or of two. Three days make runs, gaps and
claims on a later day; `BonusEvery` is 3 in the code and 2 here so that a bonus
is paid. Of 1545 minutes, the points are 128.75 and the experience 51.5 before they
are truncated. Five writes are two full attendances and one repeated check-in.

## 6. Badges: `Badges`

`run` is the loop in progress. `Check` to `CheckEnds` are
`check_and_award_badges`: counts, the worker's row, and then one transaction per
level reached. `Issue` to `CountBatch` are `issue_project_badges`: the batch, and
for each worker picked a look at the attendance, the badge and the audit entry;
the batch's count comes last. `UNIQUE(worker_id, badge_type, badge_level)` is a
guard of both inserts. Other processes confirm, reject, complete, anchor and
delete in between, and the process may die after any step. `revoke_badge` and
`get_event_batches` have no callers.

| run | bounds | shows |
|---|---|---|
| `badges` | 2 workers, one of them at both of 2 events, 2 loops, 1 crash, requests of two and of three with a repetition | `IssuedWereEligible`, `IssueRecorded`, `LevelsWithoutGaps` |

One worker at two events reaches the second level and meets the UNIQUE
constraint with a second project badge. Two loops are two batches, two checks
or one of each.

`IssuedWereEligible` rests on three foreign keys at once: the event of a batch
cannot be deleted, so the attendance that was looked at is still there when the
badge is inserted, in a later transaction, and ever after.

## 7. Pay and statistics: `Earnings`

`event` and `att` are the rows as other handlers change them (`Confirm` to
`DeleteEvent`). The rest is what is made of them.

*Documents.* `Export` reads the event and `ListAttendance`, a transaction later,
its rows; the admin bot makes payroll sheets in the same way. `DownloadStatement`
and `DownloadCertificate` are one transaction each. The four kinds of document
take 3.3 % off in three ways: `SheetNet` (`payroll.py:80` and `:502`),
`CertificateNet` (`chain.py:366`), `StatementNet` (`attendance.py:562`). They are
computed in floating point; for every pay up to three million won the results
are the exact floors that the operators say. `FillIn` is a person who types into
the blank cells of a report, whose settlement consists of formulas.

A report is made for an event without attendance rows, too (`admin.py:397`
refuses nothing, unlike the payroll sheet). The sums of its labour section are
then written into the first row that they sum (`payroll.py:529-555`), a circular
reference, and the expenditure, the profit and the net profit refer to it
(`:613`, `:629`, `:648`). `LabourTotal` and `Settlement` have no value there
(`Circular`). `ReportInv` says when that may happen (`ReportsAreWhole`): a report
has everyone who had worked when it was begun, or no one because the event was
deleted between its two transactions; and that every other one settles
(`SettlementBalances`).

*Statistics.* A calculation is two statements (`ReadCounts`, `ReadEarnings`), each
with a snapshot of its own, and an upsert on a second connection; a batch goes
over all workers and the cumulative columns follow in the same way. An event's
date is a text. The admin bot writes `01월 25일`, which the statements cannot cast:
they fail for workers at such an event and, depending on the plan, for others
(`MustFail`, `MayFail`), and the batch goes on (`SkipWorker`). `SummaryRevenue`,
`CompletedPay`, `AnalyticsPage` and `Grade` are the pages.

`fresh` and `clean` record which stored statistics nothing has changed since:
the properties compare those only.

| run | bounds | shows |
|---|---|---|
| `earnings` | 2 workers, 2 events, 2 months, 2 pays, works of 90 minutes, 1 change; two documents, two calculations of one worker, or one with all rows; fairness | `NetsWithinTwoWon`, `WorkDoneIsOnSheet`, `ReportInv`, `MonthsAddUp`, `EarningsMatchRevenue`, `JobsEnd` |
| `earnings_v_batch` | the same | against `BatchCoversEveryone`: an event whose date the bot wrote takes its workers out of the batch |

Documents and statistics read the same tables and write apart, hence the three
budgets instead of their product. For one of the two pays the three ways of
rounding differ. Two works of 90 minutes in two months are three hours in total
and one hour a month, the rounding of `MonthsAddUp`. `JobsEnd` assumes weak
fairness of the API's steps: a calculation waits for nothing but its database.

Left out: rates and averages other than those of `Grade`, ratings and skills
(never written), `event_monthly_stats` and `regional_stats` (never written),
`get_event_analytics` (always fails), `batch/calculate_stats.py` (takes a file
path for a database URL and never connects), `utils.calculate_net_pay`
(no caller), the layout of the files. The page of workers multiplies worked
minutes by the number of applications (`admin.py:686`); it stores nothing, and
only its grades are modelled.

## 8. The chats: `AdminDesk` and `WorkerChat`

Both modules model one person's chat with a bot of `python-telegram-bot`. What
they rely on of that library: handlers are tried in the order in which `main()`
adds them; each `ConversationHandler` has a state of its own, and its entry points
are only tried when it has none, unless `allow_reentry` is given; a handler that
raises, or returns `None`, leaves the state; all of them share `user_data`;
nothing is persisted, so a restart forgets states and answers and leaves
messages and their buttons.

`AdminDesk` has the messages of the chat with what each shows (`msgs`), the
registration's `step`, the corrections that wait for a text (`editing`), the
answers (`draft`) and the event being edited (`target`). Every button and every
text is an action, named after its handler. The API creates, changes and
deletes the same events. `WorkerChat` has the nine questions of the registration,
the correction of a field, the two commands that ask for a code, and the photo
files; the same person may register, withdraw and upload a photo on the web.

The photo is where bot and web meet. The bot's correction removes the old file,
awaits Telegram twice and then writes the row: `EditPhotoBegin`, `PhotoSaved`,
and `PhotoStored` or `PhotoFails`. The bot takes one update at a time (`Update`),
so between these steps it takes none; but it may be restarted, and the web acts.
The upload is `UploadBegin` and `UploadEnd`, with the request's body awaited in
between. The withdrawal never awaits, so only the bot comes between the removal
of its file and the deletion of the row (`WithdrawBegin`, `WithdrawEnd`). `fetch`,
`upload` and `leaving` say which of these is under way. The history variable `cut`
says that the last replacement was cut off: by a restart or a failure, or because
the web removed the file that the bot had just saved and then stored. The next
replacement that ends makes up for it. `PhotoOnDisk` allows a row with a missing
file in these cases only.

A text is abstracted to its shape and to the question it answers, the one the
bot asked last (`asked`). With two dialogues open at once (`mixed`) the code does
store answers in the wrong place. What is checked is what it does when they
have the chat to themselves: whatever happened before, the answers are complete
(`DeskInv`, `ChatInv`) and stored as what they are (`AloneIsRight`).

| run | bounds | shows |
|---|---|---|
| `desk` | 2 events, 3 messages of which 2 are old menus, 8 corrections | `DeskInv`, `AloneIsRight` |
| `chat` | 1 person, 1 failure of a download, rename, upload or withdrawal; restarts at any time | `ChatInv`, `AloneIsRight`, `PhotoOnDisk` |

Two old menus are what two dialogues at once take, and two events let an answer
reach the wrong one. Restarts, cancellations and refused texts are not bounded.

Not modelled: screens that only list (applications, work logs, job search), the
buttons of handlers that always fail (section 3), and administrator requests.

## 9. What is proved

### Hiring and anchoring

`WorkLifecycleProofs` proves, for every value of the constants (any number of
events, workers, ids, ticks and crashes):

| theorem | statement |
|---|---|
| `TypeCorrect` | `Spec => []TypeOK` |
| `NoOrphansHold` | `Spec => []NoOrphans` |
| `ConfirmedHolds` | `Spec => []ConfirmedHasCode` |
| `ToldHolds` | `Spec => []ToldHasCode` |
| `LedgerHolds` | `Spec => []LedgerBacked` |
| `RowsHold` | `Spec => []RowsOnLedger` |
| `FactsHold` | `Spec => []HandlerFacts` |
| `AnchoredHolds` | `Spec => AnchoredIsPermanent` |
| `RecordRefined` | `Spec => ImplementsRecord` |

The only assumption is `BoundsAssumption`, which says that the bounds are
numbers and that decisions are application statuses.

The argument has three parts.

1. *How rows move.* `RowMove` lists the ten kinds of change that a step can make
   to the four tables, and `NextMoves` shows that every action is one of them.
   `NoOrphans` (the foreign keys), `AnchoredIsPermanent` and the refinement are
   then proved per kind of change instead of per action.
2. *What a handler still relies on.* The other invariants are not inductive
   alone: between two steps a handler carries a row id, a hash or a pending
   notification, and other processes change the tables meanwhile.
   `HandlerFacts` says what stays true of these. It survives the steps of others
   because ids are never issued again, an attendance row only disappears with
   its application, and `checkouts`, `ledger` and `notices` only grow
   (`RowMoveMonotone`, `HistoryGrows`, `FactsSurvive`). It is established by the
   handler's own steps (`AttendanceFacts`, `ApiFacts`, `AdminBotFacts`,
   `RequestFacts`).
3. *The inductive invariant* `IInv` is `TypeOK`, `NoOrphans`,
   `ConfirmedHasCode`, `ToldHasCode`, `LedgerBacked`, `RowsOnLedger` and
   `HandlerFacts` together; the run `life_crash` checks exactly these.
   `InitIInv` and `IInvKept` are the two halves of the induction.

`RecordRefined` maps each kind of change to a step of `WorkRecord` or to a
stutter. The deletion of an event maps to `EraseEvent` of all its applications,
which needs that none of them is anchored: the foreign key that makes the
deletion fail (`DeletionDeletes` in section 11) is also what keeps anchored
records permanent.

### Credits

`CreditsProofs` proves, from `CreditsAssumption`, for any workers, amounts,
requests, days and crashes and any length of a week and a month, with and
without the token contract:

| theorem | statement |
|---|---|
| `RowsHaveWorkers` | `Spec => []NoRowsWithoutWorker` |
| `OneProfileBonus` | `Spec => []ProfileBonusOnce` |
| `ColumnKept` | `Spec => []ColumnInv` |
| `ChainIsCovered` | `Spec => []CreditsAccounted` |
| `RowsAreOnChain` | `Spec => []HistoryOnChain` |
| `HistoryExplains` | `Spec => []HistoryExplainsTokens` |
| `RewardsMatch` | `Spec => []RewardMatchesStreak` |
| `BonusesAreEarned` | `Spec => []MonthlyBonusEarned` |

A handler is a script, so the proofs speak of what it still has before it:
`Ahead(j)` is the set of steps that job `j` has not taken, and `Onward` says that
a step takes itself out of that set and leaves the rest of the job alone.
`ScriptFacts` says that no step occurs twice in a script, and which handlers have
which. Each invariant then says what the tables lack while a step is ahead:

- `TypeOK` needs `JobInv`: a job is at a step of its own script, signup threads
  only pay the signup bonus of their worker, and the worker of a job has a row or
  has had one.
- `Overdrafts`, for the rest of `ColumnInv`: the column is at least what the
  history's negative mints take and what a negative mint has taken and not
  recorded yet (`Taking`). A burn keeps it, because `use_token` leaves at least
  zero or adds, and nothing that was taken is positive.
- `TableInv` (`NoRowsWithoutWorker`, `ApiServesMembers`): the worker of the API's
  handler exists, because only a withdrawal deletes one, as its last step, and
  the API serves one handler at a time; the bonus thread's statements do nothing
  for a worker who is gone.
- `ProfileInv` (`ProfileUnpaid`, `ProfileBonusOnce`): a profile bonus on its way
  has not been recorded.
- `Accounted`: the balance on the chain is at most the column, plus `lost`, plus
  `Flow` of the two actors that may work for the worker: what is mined and still
  to be written, less what is burnt and still to be taken off. `TxInv` says that
  a job's transaction is its own, with the job's worker and amount, and that
  only workers with a row hold anything on the chain.
- `ChainInv`: `Named`, the property with amounts and distinctness, and `Unnamed`:
  while a handler has its history row before it, no row names its transaction.
- `Ledger`: `Explained` is an equation between the column, the sum of the history
  and `Lead`, the amounts that a handler has written in one place and not yet in
  the other.
- `EarnedInv`: `RewardCurrent` (the amount a check-in carries is that of its day,
  as long as the day lasts) and `MonthAttended` (what the monthly bonus saw of a
  month that is over stays true: check-ins are only inserted for today).

### Rewards

`GamificationProofs` proves, from `GamificationAssumption`, for any rows, grants,
times, bonuses and table of levels in which every level but the first takes some
experience:

| theorem | statement |
|---|---|
| `PaidOnlyOnce` | `Spec => []RewardedOnce` |
| `StreakFollowsDays` | `Spec => []StreakIsRun` |
| `StreakIsPaid` | `Spec => []StreakDaysPaid` |
| `BalanceIsLedger` | `Spec => []BalanceInv` |
| `ExperienceOfRewards` | `Spec => []ExperienceIsPaid` |

`Typed` (`TypeOK` and `JobInv`: what a handler has read of its row still holds)
carries all of them. `PaidInv` says when a row cannot have been paid yet: before
its time is set, and until the automatic reward in progress has paid. That is
why the automatic reward may do without the look at the ledger that a claim
takes. `StreakInv` describes the streak by the set of days on which it was updated
(`Describes`); `NextDay` says what a new day does to the runs of a set, and
`LaterDay` and `SameDay` what an update makes of the row. `UnpaidInv` counts the
days without a payment: at most one per crash, and one more in the middle of a
reward.
`ExperienceInv` says that there is a set of rewards whose experience, as truncated
from the minutes each was paid for, the column holds (`AddedFor`), and bounds the
number of the others in the same way.

### Badges

`BadgesProofs` proves, from `BadgesAssumption` (thresholds do not decrease, and
the events are finitely many):

| theorem | statement |
|---|---|
| `IssuedHold` | `Spec => []IssuedWereEligible` |
| `IssuesRecorded` | `Spec => []IssueRecorded` |
| `NoGapsInLevels` | `Spec => []LevelsWithoutGaps` |

The first is not inductive: a badge is inserted one transaction after the
attendance was looked at. `BadgeInv` adds what holds in between: `BatchesStand` (no
event of a batch has been deleted) and `LoopFacts` (the loop's batch is the last
one and names its event; at the insert, the worker it is about still has the
attendance). `DeleteStep` is where the foreign keys are needed. For the second,
`AuditInv` counts the badges without an audit row and `CountInv` ties the loop's
own count to the badges of its batch. For the third, the levels that a check
finds are the first ones, since thresholds do not decrease (`LevelsReached`);
`StairInv` says that below every level that the loop has still to insert, each
level is held or comes earlier in the loop.

### Documents and statistics

`EarningsProofs` proves, from `EarningsAssumption` (workers, events and months are
finitely many, and there is a worker and a month):

| theorem | statement |
|---|---|
| `NetsAgree` | `Spec => []NetsWithinTwoWon` |
| `SheetsLeaveNoOneOut` | `Spec => []WorkDoneIsOnSheet` |
| `ReportsBalance` | `Spec => []ReportInv` |
| `StatisticsAddUp` | `Spec => []MonthsAddUp` |
| `RevenuesMatch` | `Spec => []EarningsMatchRevenue` |

`NetsAgree` rests on `NetsOfOnePay`, which compares the three ways of rounding for
every natural number, and on `PapersNetted`: every document holds the net of its
kind. `SheetsLeaveNoOneOut` needs what stays true of an export between its two
transactions (`DueListed`): whoever had worked when the event was read still has
a row when the rows are listed, or the event is gone with all of them. The same
makes a report whole, or empty and of an event that is gone, which then stays
gone (`WholeStays`). All of this is in `PaperInv`. `GoInv` has the types and what a
job must hold at each of its statements, and `PapersBalance`: what a report's
workers receive and what is deducted make up their pay, from which
`ReportsBalance` takes the settlement for any amounts typed in.

For the statistics, `CountInv` says that whatever is stored and current equals
what a calculation would find now (`MonthsCurrent`, `TotalsCurrent`), and the
same of what a calculation has read but not yet written (`ReadCurrent`).
A current month of a worker implies that none of the worker's events has a date
that the bot wrote, so that the rows of the worker fall into the months
(`RowsByMonth`), and the sums over months are sums over rows. `SumOfFloors` and
`HoursOfParts` bound what the rounding of each month loses.

### The chats

`AdminDeskProofs` and `WorkerChatProofs` prove, from `DeskAssumption` and
`ChatAssumption`, for any number of messages, events and failures:

| theorem | statement |
|---|---|
| `DialoguesKeepData` | `Spec => []DeskInv` of `AdminDesk` |
| `TextsGoWhereAsked` | `Spec => AloneIsRight` of `AdminDesk` |
| `BotRowsAreComplete` | `Spec => []ChatInv` of `WorkerChat` |
| `AnswersGoWhereAsked` | `Spec => []AloneIsRight` of `WorkerChat` |
| `PhotosExist` | `Spec => []PhotoOnDisk` of `WorkerChat` |

`SoleDialogue` and `OneDialogue` say what the state is while one dialogue is open:
it is the one that asked last, and the answers are those of the questions before
it. `AnswersKept` says which answers there can be whatever cleared them in
between: with the first one, all others. `Fetching` says that the dialogue which
awaits a photo waits for it, so that its end stores it where it was asked for.
`PhotoInv` narrows the exception of `PhotoOnDisk` to replacements whose account
still exists, since one that was withdrawn meanwhile leaves no trace for the next
account, and says that a file the bot has saved is there until the web takes it.

### Sums, and induction without its theorems

The library's induction theorems take an operator, which the provers cannot
instantiate. `SumsProofs` states the same principle with sets: a set of numbers
that contains 0 and with every number the next is all of `Nat` (`Induction`), and
a family of sets that contains the empty set and with every set those with one
more element contains every finite set (`SetInduction`). A definition by
recursion is shown to exist by taking the set of `n` for which it does
(`SumExists`, `SumOverExists`), and is then known by its equations (`FirstSumNext`,
`SumOverAdd`, `SumOverDrop`). `FirstSum` and `SumOver` are recursive functions, and not
folds of an operator, for this reason; streaks and levels need no recursion, being
cardinalities and maxima of sets.

## 10. What is model-checked only

- Liveness (`HandlersReturn`, `RowsGetTx`, `HandlersEnd`, `SignupSettled`, `JobsEnd`)
  under the fairness of each module, which is outside the reach of TLAPS.
- The statements that the code contradicts.

Every invariant and every action property of a passing run is a theorem, for
every value of the constants that the named assumption of its module admits. The
assumptions say that bounds are numbers and inputs have their types, and in
addition what sections 3 to 8 and the tables above name.

## 11. Statements that the code contradicts

Two of them are runs of the project, `credits_v_reward` and `earnings_v_batch`,
and findings in `PROJECT.json`. The others are stated at the end of their modules,
each with the document, comment or message it comes from, and have a
configuration of their own that is not among the runs. Each takes a moment:

    tlc -config life_v_cancel.cfg MCWorkLifecycle

| configuration | module | statement | what happens |
|---|---|---|---|
| `life_v_delete` | `MCWorkLifecycle` | `DeletionDeletes` | one anchored record makes the deletion of its event fail as a whole |
| `life_v_cancel` | `MCWorkLifecycle` | `OnlyPendingCancelled` | the bot confirms between the API's check and its DELETE |
| `life_v_checkin` | `MCWorkLifecycle` | `WorkerChecksInOnce` | the code of a completed row checks in again and overwrites the time that was anchored |
| `credits_v_streak` | `MCCredits` | `StreakIsConsecutive` | days 1, 3 and 4 count as three in a row |
| `credits_v_withdraw` | `MCCredits` | `WithdrawalDeletes` | a foreign key refuses the deletion after the burn |
| `desk_v_menu` | `MCAdminDesk` | `MainMenuComes` | the menu's message is deleted, then its statistics raise |
| `desk_v_answer` | `MCAdminDesk` | `AnswersInPlace` | with two dialogues open, an answer is stored in another field |
| `chat_v_code` | `MCWorkerChat` | `CodeIsTakenAsCode` | with a registration open, what is typed after the bot asked for a code is stored as its answer |
| `badges_v_event` | `MCBadges` | `ProjectBadgePerEvent` | the UNIQUE constraint leaves room for one project badge per worker; a second event's ends the loop |
| `earnings_v_profit` | `MCEarnings` | `NetProfitBeforeTax` | the net profit starts from the billing with VAT; the comment at `payroll.py:647` says before tax |
| `earnings_v_grade` | `MCEarnings` | `NewcomersAreNew` | a rate of nothing is 100 %, so a worker without attendance is graded C and N cannot be reached |

Others need no model to be seen: three nets of one pay, although each document
says 3.3 %; the flat pay of every attendance row, where
`docs/TECHNICAL_SPECIFICATION.md` multiplies an hourly wage by the hours;
`payroll_exports`, which `README.md` mentions and nothing writes; the comment
that a check-in is rewarded only the first time of a day, which the endpoint does
not ask; the trust badge, whose label excludes no-shows and whose count does not
look at them.

## 12. Plan

1. A specification of what the wallet promises (every credit is given for one
   reason, once), which `Credits` would implement up to `lost` and `broken`.
2. The bot's taking back of a confirmation, as soon as a screen offers it.
3. Attendance approvals and administrator requests, as soon as they can be
   created (section 13).

## 13. Not modelled, and why

- *Event parser*: regular expressions over free text, a function without state
  whose inputs do not abstract to a small set.
- *AI matching*: floating-point scores that nothing reads back.
- *In-app notifications, contract links*: single statements and string
  formatting.
- *Attendance approvals*: `create_attendance_approval` inserts an attendance row
  without the `application_id` that the table requires, and the approving
  endpoints read a key that the administrator's record does not have; no request
  is ever created.
- *Administrator requests*: `create_admin_request` has no caller, so none is ever
  pending. Its approval would call `add_admin`, a transaction of its own, before
  its own commits.
- *E-mail codes*: one row per address, replaced by every new code and marked
  once; the order in which mails arrive is the only state.
- *Web frontend*: a client without state of record. Its requests are the
  requests of the models, in any order.
- *Work OS backend* (`backend/app`): its handlers that create organisations,
  events and applications name columns that its models do not have
  (`Organization(representative_name=...)`, `Event(event_date=...)`,
  `Application(note=...)`, `org.follower_count`) and fail before they commit, so
  there is no reachable state to check.
- *Cryptography* (JWT, Telegram signatures, password hashes, contract
  bytecode): libraries.
- *Schema, migrations, deployment, contract tooling*: run once by hand. Their
  constraints are guards of the modules, and the restart by `systemd` is the modules' `Crash`.
