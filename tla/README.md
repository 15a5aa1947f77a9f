# A verification of the reconciliation system DROP

The repository implements DROP, the daily reconciliation of payments with bank deposits for
SBC (Service BC) locations. This directory holds TLA+ models of its backend
(`src/apps/backend/src`), the TLC runs that check them on small instances, and TLAPS proofs of
the properties that matter most for any number of rows, locations, dates and crashes.

## 1. The system

Files arrive over SFTP or an API upload in S3 and flow through four lambdas:

    S3 event --> parser --SNS--> reconciler --SNS--> reports
    cron     --> dailyFileCheck (alerts)        batch-reconcile --SNS--> reconciler

| Component | State it keeps | Operations | Talks to |
|---|---|---|---|
| Parser (`lambdas/parser.ts`, `parse/`) | file_uploaded, program_daily_upload, and the rows | dedupe by file name, parse, save file, save rows, trigger | S3, database, SNS, mail |
| Reconciler (`lambdas/reconcile.ts`) | date of the run; in-memory lists | file gate, POS rounds, POS exceptions, cash, report trigger | database, SNS |
| POS matching (`pos-reconciliation.service.ts`, `ministryHeuristics.ts`) | pending and matched lists, round | four heuristic rounds, in progress, exceptions | payment and POS deposit services |
| Cash matching (`cash-reconciliation.service.ts`) | none between calls | per deposit date: aggregate, match, in progress, exceptions | payment and cash deposit services |
| Tables payment, pos_deposit, cash_deposit | status PENDING, IN_PROGRESS, MATCH, EXCEPTION; links | inserts by the parser, saves by the reconciler | - |
| Batch reconcile | - | one message per day of a period | SNS |
| Daily file check, notification | upload record per program and day, alert log | status of the day, alerts, summary | mail |
| Reports | - | summary, details, CAS | database, S3, mail |
| Seeding, locations | master data | updateTxnsAndDeposits | database |
| `common/promises.ts` mapLimit | one shared counter | at most ten saves at once | all services |

What is hard here:

- **Interleaving.** Parser and reconciler are separate lambdas on one database. The reconciler
  reads all rows once and writes them location by location, many awaits later.
- **Crashes.** A run is a series of small transactions; the lambda has a timeout of 900 s. What
  is committed stays, and the in-memory lists are gone.
- **Delivery.** Triggers are SNS messages: repeated, late, and for days in any order.
- **Greedy matching.** First fit over several rounds and buckets, with equal amounts competing.
- **Boundaries.** Five minutes, business days, two deposit dates, thirty days, sums of zero.
- **Progress.** Every row that waits should end as MATCH or EXCEPTION.

Reserved concurrency 1 (`src/terraform/lambda_reconciler.tf:11`) means one reconciler run at a
time; the models rely on it.

What makes each component correct:

- POS matching: one deposit settles one payment; no pair a round would accept is left; money
  is settled against equal money; it returns.
- POS run: nothing is written from a stale copy; statuses never go back; links agree; old
  rows become exceptions; a repeated run does nothing.
- Cash: a deposit takes the payments of one close date with exactly its sum; exceptions
  come after two later deposit dates and not before.
- Parser: each file's rows once and all of them; a file counts for the day only when they
  are there. Gate: no run on an incomplete day.
- Alerts: each missing file reaches each of its destinations. Reports: each row once.
- mapLimit: every element exactly once, never more than ten under way.
- Parsing: a damaged file is refused, and what is accepted can be saved.

## 2. Modules

| Module | Models |
|---|---|
| `BusinessDays` | what the code uses of date-fns (external) |
| `Settlement` | abstract: open sums are closed against equal sums |
| `PosMatching` | `filterAndSetMatch`, the rounds ONE to FOUR; implements `Settlement` |
| `Lifecycle` | abstract: the moves a status may make |
| `PosReconciliation` | `reconcilePos` and `findPosExceptions` over the tables; instantiates `PosMatching`, implements `Lifecycle` |
| `CashReconciliation` | `reconcileCash` over the tables; implements `Lifecycle` |
| `MapLimit` | `common/promises.ts`: any number of calls, each a record |
| `Uploads` | abstract: what the parser promises to those who read the database after it |
| `FileIngestion` | the parser lambda, from the S3 event to the message; the saves are calls of `MapLimit`; implements `Uploads` |
| `DailyFileCheck` | the daily check of missing files, beside `FileIngestion` |
| `RecordParsing` | from the lines of a file to the entities: TDI17, TDI34, GARMS, DTOs |
| `Reports` | the report lambda's queries and pages, the reports of the console |
| `Pipeline` | parser (as `Uploads`), batch lambda, gate, reconciler and `Reports` on the same tables |
| `*Proofs` | the theorems about the module they name; `FileIngestionProofs` also those about `DailyFileCheck` |
| `SumTheorems` | facts about sums and counts over finite sets, for `RecordParsingProofs` and `PipelineProofs` |
| `MC*` | rows, files, locations and dates of the TLC runs |

How they fit together:

    RecordParsing          what FileIngestion takes as Malformed, Invalid or good
    MapLimit --> FileIngestion --> DailyFileCheck
                      | implements
                   Uploads --> Pipeline <-- Reports
                                  ^  its Outcomes are the moves of
                               Lifecycle <-- implemented by PosReconciliation, CashReconciliation
                                                   ^ PosMatching --> implements Settlement

**PosMatching.** The computation is synchronous. A step is one visit of a payment
(`PairPayment`, `SkipPayment`) or of a bucket (`SettleBucket`, `LeaveBucket`), or the recursive
call (`NextRound`). `paymentRound` is `heuristic_match_round`, with NONE for a row that is not
MATCH. Dates are day numbers with day 0 a Monday, times are seconds, amounts integers. Rows come
in the order of the SQL query (`Earlier`, `First`); ties are nondeterministic. The dictionaries
are not kept: their keys `PaymentKey`, `DepositKey` say who shares a bucket.

**PosReconciliation.** `status`, `depositOf` (`pos_deposit_match`) and `joined`
(`round_four_matches`) are the tables; `payments` and `deposits` are the arrays as read, each
row with the status it had; `pc` names the await the lambda is at. A database transaction is one
step. `Insert` is the parser at any time, `Crash` a kill or failed query at any await. The
UNIQUE constraint on `pos_deposit_match` is `DepositTaken`. A transaction of several payments
is inserted row by row here, which allows more than the code does. `Ids` are distinct rows, each
with the location its `location_id`, or the merchant of the deposit, belongs to. `quiet` and
`crashes` are history. Saving a row with `round_four_matches` replaces its join rows, on both sides:
`UpdateMatchedPayments` replaces those of a payment, `UpdateMatchedDeposits` those of a deposit
(`Rejoined`), also the rows a killed run had left for other payments.

**CashReconciliation.** The same tables for cash, with `cashDepositMatch`. `dates` are the
deposit dates begun for the location and `datesLeft` those to come, so `PreviousDate` is
`filtered[idx - 2] ?? minDate`. A bucket is a pair of close date and status, as in
`aggregatePayments`; `Total` is its sum. The deposits are saved one at a time in any order
(`SaveDeposit`), which is what `Promise.all` over separate saves allows at a crash. Runs reach
cash only after the POS half; that the POS half may abort is a run that never starts here.

In the reconciliation modules statuses are strings as in `MatchStatus`, and "ABSENT" is a row not
yet inserted. `reconciled_on` and `in_progress_on` are left out there, since reconciliation does
not read them; `Pipeline` has them, as `stamp`, because the reports do. The conservation checks
`pos-reconciliation.service.ts:114-126` compare lists that partition each other in the model.

**MapLimit.** `call` is a function from the names of the calls to records: the shared counter
(`next`), the elements whose `fn` is under way (`inFlight`), those that threw, and whether the
process died (`frozen`). `TakeNext(c)` is what a worker of call `c` does between two awaits. A caller
instantiates the module with a variable of its own for `call` and its own names for `Calls`.

**FileIngestion.** `tries` is the SNS message of an S3 event with the invocations Lambda still
has for it, `sends` counts how often it came. `fileRows`, `daily`, `createdOn`, `locations` are
tables; `call` holds the `mapLimit` call that saves the entities of each file (`ML`, an instance of
`MapLimit` with the files as names), so that what is `Saved` is what those calls have done. `pc`,
`event`, `parseList` and `position` are the invocation: filter of known names, fetch of the objects,
then per file parse, daily records, file row, mark of the day (before the entities), entities, and
`validationAlert`, in the `catch` of `saveFile` ("saveAlert") or of `parseFile` ("alert"); then the
message. `validationAlert` ends in one of four ways, and `alerts` has the last one of each file: the
mail is sent ("mailed"), nobody is to get it ("nobody", a silent return), the mail fails, which is
only logged ("lost", `AlertMailFails`), or the query of the destinations fails: from the `catch` of
`saveFile` that leads to the other `catch` (`SaveAlertFails`), and from there out of the loop
(`ValidationAlertFails`). The addresses of a required file get these mails only if the whole key is
its name (`ValidationDestinations`), which no key with a folder and a date is. The query of locations
is outside of the inner `try`, so `HandlerFails` may end the loop at any file, as a message that
fails ends it after the last. `parseList` is kept as the positions of
the event that are in it, and `Rest` is what the loop has yet to come to.
`Fail` leaves the message in the queue, `Return` takes it out, which is also what the outer `catch`
does. Workers of a rejected `mapLimit` go on in `EntitySaved` until the process is gone
(`Recycle`). `messages` is what was sent; `alerts`, `crashes`, `faults`, `killed` and
`unannounced` are history. It is the deployed lambda with automatic reconciliation on: with
`RUNTIME_ENV=local` or `DISABLE_AUTOMATED_RECONCILIATION` no message is sent at all (`parser.ts:43`). What a file is (of no program, of no type, malformed, with an invalid
line) is a constant; `RecordParsing` says when the code finds it so.

**DailyFileCheck.** One record `check`: what the query of the last days found, the rules not yet
taken (as positions of the list of rules), the mails made. `FileMails` are those of the un-awaited `map`, `RuleErrors` is the list the
summary is made from before that `map` has got to push to it.

**RecordParsing.** Operators, from columns to entities: the setters in the order of the decorators
(`ConvertToJson`; the sign of an amount hangs on what was set before it), header and trailer, DTOs,
exchange rates. The setters run one after another in the code; each value depends on its own column
and on the columns before it, which is how `ConvertToJson` states it, without the loop. The state is
a file, and steps damage it. A column holds a value, is `Blank`, or is
`Other` text, which is what the trailer's columns give when the last line is no trailer.

**Reports.** `report` is an invocation: period, next query, rows with the status they were read
with, deposits of the month. One query is one step. `Summary`, `DetailsReportData`, `CasCash` and
`CasPos` are the pages; the SQL of the console's reports are operators over the tables. `resting`
is history: what nobody has written since the report began. `CasPos` adds up what its join with the
master data returns, a deposit as often as its merchant has rows there for the method. `locations.csv`
has a merchant with two, so `CasAgrees` is stated for the deposits of merchants with at most one.

**Pipeline.** The parser is `Uploads`; `Reconcile(x)` is one row in a transaction of a run that is
past the gate: what it may become is `Outcomes`, what its modules show of every write. A deposit is
matched after its payments and in the same run, as there. `messages` may be taken any number of
times in any order; `BatchPublish` is the batch lambda, which starts over after a failure.

## 3. Runs

| Run | Instance | Shows |
|---|---|---|
| `pos_matching` | every choice of 3 payments and 2 deposits from a set of rows | `OneToOne`, `NothingLeftToPair`, `RoundTwoIsLate`, refinement of `Settlement`, `Returns` |
| `pos_matching_refund` | 2 payments, 1 deposit with refunds | finding 1 |
| `pos_reconciliation` | 4 payments, 3 deposits of which one is a refund, 2 locations, runs for 2 dates, up to 1 crash | `ReadsStayTrue`, `DepositHasItsPayment`, `LinksAgree`, `NoOverdueInProgress`, `ForwardOnly`, `MatchIsFinal`, `RerunChangesNothing`, liveness `InProgressEndsUnlessKilled` |
| `pos_reconciliation_poison` | 3 payments, 1 deposit, 1 crash | finding 2 |
| `cash_reconciliation` | 3 payments, 5 deposits on 3 dates, 2 locations, runs for 2 dates, up to 1 crash | `CashSettled`, `NothingLeftToMatch`, `NoOverdueInProgress`, `TwoDatesOfGrace`, `ForwardOnly`, `MatchIsFinal`, `DepositHasItsPayments` |
| `cash_crash` | the same | finding 3 |
| `cash_split`, `cash_expire` | the same without crashes | findings 4 and 5 |
| `file_ingestion` | an event of 4 files, one of them malformed, one with a clash of locations; an event of one refused key; 2 failures, one of which may be a kill, the daily check at any time | `OnceRecorded`, `WholeOrTold`, `SavesInParallel`, `DayMarked`, `MissingFilesReported`, liveness `AnnouncedUnlessFault`, refinement of `Uploads` |
| `daily_summary` | the same without failures | finding 6 |
| `pipeline` | 3 files of a row each, messages of parser and batch for one day, everything at the same time | `GateIsSound`, `ReportedOnce`, `RestingRowsAreReported`, `MatchedDepositShowsItsPayment`, `ReportsAgree` |
| `record_parsing` | TDI17 and TDI34 files of up to 2 lines with one damage; sales with up to 2 payments | `RefusedOrComplete`, `AcceptedIsStorable`, `PaymentsKeepTheirValue` |

**Bounds.** In `PosMatching` three payments and two deposits are the least where a payment loses
its deposit to another and two more still form a bucket; the rows cover both sides of five
minutes, of the weekend, of two methods and of equal amounts. The rows of `MCPosReconciliation`
can settle in rounds ONE, TWO, THREE or FOUR depending on what has arrived; two dates give runs out
of order and a date two business days later. Its refund gives a bucket of deposits that make up 0,
and two payments of which each fits the same two deposits in round FOUR: after a kill the second one
takes the join rows of the first. `MCCashReconciliation` has three deposit dates, the
least for an exception, two equal deposits on one of them, a close date with two payments, and a
run thirty days later whose range cuts off the first date. Any number of runs is allowed: the
state space is finite because rows are. The theorems lift the bound on crashes.

`MCDailyFileCheck` has `Limit` 2 with a file of three lines, the least where a worker takes an
element from the counter while another is at work and one may be left out; `MaxTries` 2, so a
failed invocation is repeated and may be dropped; two failures (`MaxFaults`: a kill, or a query,
save, mail or message that fails), in any order, the least for a half-saved file whose mail is lost,
and one kill among them (`MaxCrashes`), for a message has two tries; two days (`Dates`), so the check
reads records of an earlier day. One address wants all alerts, so a file nobody is told of for want of
destinations is left to the theorem. `MCPipeline` has a row in each file, one day and
its batch: that is enough for every order of insert, gate, write and query, and any number of runs
and reports. In `MCRecordParsing` `MaxFaults` is 1: two damages that make up for one another, such
as a line lost and an equal one doubled, pass the trailer, which is all there is to notice them. A
blanked `transaction_code` is left out for the same reason: the trailer of a TDI34 file adds up
absolute amounts, and a lost sign cannot be seen from it.

`CHECK_DEADLOCK FALSE` appears for `PosMatching`, which ends; for `file_ingestion` and
`daily_summary`, where events come a bounded number of times; and for `record_parsing`, where a
file is damaged at most once.

**Fairness.** `PosMatching` has weak fairness of `Next`: the call is synchronous.
`PosReconciliation` has weak fairness of the steps of a run (an awaited query returns or the run
is killed, which is `Crash`) and strong fairness of `StartRun` for each date in `Days`: the parser
triggers a run after each invocation and failed files are uploaded again, so a date is asked for
again and again. `Days` stands for the dates on which runs keep happening. `FileIngestion` has weak
fairness of the steps of an invocation and of `Invoke` for each event: Lambda goes on with what it
has begun and keeps a message until it is handled or out of tries. Nothing else is fair: inserts,
uploads, clock, crashes, faults and the daily check promise nothing. `CashReconciliation`,
`Pipeline` and `RecordParsing` state no liveness, so no fairness.

**Findings** (each a run TLC refutes):

1. `MatchedHasCounterpart`: a payment and its refund alone in a bucket sum to 0, and so does the
   missing deposit side (`?? new Decimal(0)`): both become MATCH with no deposit.
2. `InProgressEnds` after one crash: between the two transactions of a location the payment holds
   the deposit and the deposit is open. Once another payment fits that deposit, each run is
   refused by the UNIQUE constraint and aborts before the exceptions, for every location.
3. `OneCloseDatePerDeposit` after one crash: cash has no UNIQUE constraint, so the open deposit is
   given to a second close date.
4. `WholeCloseDate`: aggregates are split by status, so a close date that arrives in two parts
   around a run is not added up as a whole. (All of it is IN_PROGRESS after that run, so a
   further run may match what this one did not: cash runs, unlike POS runs, are not idempotent.)
5. `UnmatchedDepositsExpire`: a deposit with no open payment in its window is skipped as PENDING,
   and only IN_PROGRESS rows become exceptions. The early return of the POS half
   (`pos-reconciliation.service.ts:95`) has the same effect for a location with one side only.
6. `SummaryIsComplete`: the summary is made before the un-awaited `map` has pushed the files that
   have destinations of their own, so it leaves them out. `MissingFilesReported` is what still
   holds: each of them reaches its own destinations.

`LinksAgree` and `CashSettled` are claims about systems without crashes for the reasons in
findings 2 and 3. `InProgressEndsUnlessKilled` is finding 2 without the kill, said of all rows at
once: from some point on none waits. It follows from there that each one ends, for statuses only
move forward. `MatchIsFinal` of the POS half has a condition for the same kill: it leaves a MATCH payment
joined to deposits that are open, and when a later run matches those with another payment in round
FOUR, their join rows are written anew and the first payment is left without. What never changes
is `pos_deposit_match`, and the join rows to deposits that are MATCH.

`WholeOrTold` says what holds of a file that failed half way: a mail was sent, unless nobody is to get
one, or the parser died or gave up, or the mail was lost to a second failure, which the code only
logs. The file stays half saved: its row comes first, so every later event for that name is
filtered out. For the same reason `GateIsSound` speaks of files recorded, not of rows saved: the gate
looks at the types of files of the business day before, neither at their entities nor at the mark of
the day.

## 4. Proofs

All theorems hold for any constants that satisfy the module's named assumption, and any number of
crashes, faults, retries and runs:

- POS and cash: ids of payments and deposits are disjoint, the NULL is none of them, every row has
  a location, dates, times and amounts are integers; cash: also that the deposits are finitely many.
- `MapLimit`: the limit is at least 1, lengths are natural numbers.
- `Pipeline`: each row comes from one file, a deposit is paid by rows of its own kind, rows and
  locations are finitely many, amounts are integers, a bank or a merchant belongs to one location,
  and the month a period begins in began by the period's first day.
- `FileIngestion`: an event names a key once. `_.difference` (`upload.service.ts`) does not remove
  doubles and `source_file_name` is not UNIQUE; an S3 event of one object, and the list of a
  bucket's keys, cannot have them. Events, keys and rows are finitely many.
  Every rule requires a file, as the seeded ones do (`database/database.service.ts:216-239`).
- `DailyFileCheck`: no name in the templates of the mails is that of a rule.
- `RecordParsing`: the bank and the tills write what their formats say (`Written`, `RungUp`): amounts in
  the columns of amounts, a rate or none with a payment, and nowhere one of the values that stand
  for what could not be read. What a column holds otherwise, and how many lines there are, is open.

The arguments, by module:

- **PosMatchingProofs.** `PairingIsOneToOne`: the invariant relates the two round columns: a
  payment of rounds ONE to THREE and its deposit carry the same round, and round FOUR touches only
  rows of round NONE. `PairingIsMaximal`: candidates only shrink
  (`CandidatesShrink`), and a visited payment has none left, so each finished round stays
  exhausted; the invariant says so for all rounds before the current one and for the payments
  already visited. Its second half, that no bucket left has equal sums, is `Weighed`: a bucket weighed
  and left keeps its rows, because buckets are disjoint (`OtherBuckets`). `RoundTwoPairsAreLate` follows from exhaustion of round ONE.
  `MoneyIsBalanced` is the refinement of `Settlement`: `PairPayment` closes one payment and one
  deposit of the same amount, `SettleBucket` a bucket whose two sums agree. The sums of the two
  modules are folds of two instances over two domains; `SameSum` says a sum depends only on the
  amounts of the set summed (the folds are equal functions, by extensionality), `SumOfOne` what a
  single row sums to, and `BucketTotals` carries a bucket's sums to the ledger's.
- **PosReconciliationProofs.** `NoStaleWrite` is the core: a row that is read and not yet
  written (`Unwritten`) still has its status, because the parser only touches absent rows and
  each location's rows are written once, by the run itself. `ImplementsLifecycle` (a refinement of
  `Lifecycle`) follows from it. `ExceptionsAreComplete` needs that every
  overdue row is still ahead of the loop (`OverdueAhead`). `LinksAlwaysAgree` needs two more:
  `WellPaired`, what the rounds leave in memory (a deposit is linked once or joined, never both), and
  `Books`, `LinksAgree` at every await, where a deposit given out is MATCH or about to be. What a
  run matches was open, so no earlier match refers to it. `MatchedDepositsArePaid` holds through
  crashes: a deposit in memory is matched with a payment (`PaidWith`), or by a bucket of deposits that
  make up 0 (`PairedOff`), such as a sale and its refund: round FOUR takes the payments that are not
  there for 0, which is finding 1 with the sides exchanged. When it is saved, so is its payment
  (`PaidBefore`), for the payments' transaction comes first; and the payments that lose their join
  rows to it lose them to those it is matched with. `MatchesAreFinal` needs `Joined` besides: the join
  rows of the deposits about to be saved are there already, and without a kill there are no others.
  `RepeatedRunsAreIdle` compares two runs. The first one leaves each location behind its loop
  `AtRest`: one of its lists is empty, or all of it is IN_PROGRESS and nothing in it matches. The
  latter is what `PosMatchingProofs` shows of the rounds, by INSTANCE (`Written` follows its lists
  through the four transactions), provided the arrays hold every row that waits (`Complete`). The
  exceptions of the same run keep it: a bucket is of one date, so overdue rows leave whole buckets.
  From there (`Calm`) the second run finds nothing to pair, to weigh or to expire (`Idling`), and
  what it saves as IN_PROGRESS is so already. (`quiet` forgets a rejected run too: it may have saved
  one location before it was refused at the next.)
- **CashReconciliationProofs.** `Fresh` plays the part of `ReadsStayTrue`; `OverdueAtHand` says what
  `setExceptions` holds is exactly what is overdue; `Ascending` says the dates grow, which gives
  the two later dates of `GraceIsGiven`, with the finite set theorems for the count.
  `MatchingIsMaximal`: a deposit that was visited has no bucket left (`NoneLeft`), and buckets only
  get used up (`CandidatesShrink`). `MatchedDepositsArePaid`: a deposit waits to be saved only once
  the payments linked to it are MATCH (`PaidBefore`, from `WellMatched`), crash or not.
  `CashIsSettled`: in memory a match is a whole bucket with the deposit's sum (`WellMatched`), and
  saving it makes the deposit's links exactly that bucket (`Books`), for the deposit had none before.
  `Total` is an operator of a set of ids, so equal sets have equal totals and no sum is computed.
- **MapLimitProofs.** `MapLimitIsSound`: of any calls, every element below the counter was called
  once, no other was, and workers are at most `Limit`, because each one leaves an element before it
  takes one. That it is inductive (`IInv`) is what the parser's proofs use, by INSTANCE.
- **FileIngestionProofs.** `IInv` has these parts. `Loop`: a file being worked on is the first of
  `parseList`, which holds no refused key. `Fresh`: a file still to come has no row and its call has not
  begun, which is what the filter at the start of the invocation is worth later; with it
  `RecordedOnce` is inductive. `MP!IInv`, the invariant of `MapLimitProofs` for the parser's calls, gives
  `SavesAreBounded`, and that a call which resolved has saved everything. `Abandoned`: workers nobody
  waits for are those of a rejected call. A file at hand leaves it whole, with an alert, or with the
  parser (`HandStays`), and one that is alerted on after it was recorded has met a failure already
  (`AfterFailure`), so that a lost mail is the second: `RecordedIsWholeOrTold`. `DaysMade` and `DayDone`: the day of a recorded file has the records of
  all rules, and is marked before the file's entities are saved if it can be: `DayIsMarked`.
  `CallsAreMapLimit`: every step of the parser is a step of `MapLimit` or leaves the calls alone.
  `UploadsImplemented` is the refinement of `Uploads`, by which `Pipeline` reads the database.
  `MissingIsReported` is about the daily check: after each rule, the mails made name each of its
  missing files, and the check works on what its one query read (`CheckTypeOK`).
  `CheckKeepsIngestion`: the check writes nothing of the parser's, so what is proved of
  `FileIngestion` holds beside it.
- **PipelineProofs.** The queries of a table are made against the direction statuses move (decided
  rows first, pending rows last). So a row that was read has only moved to statuses that were asked
  for before (`ReadBehind`), and cannot be read again: `RowsAreReportedOnce`. A deposit matched on
  the report had its payments matched with the same stamp (`PaidFirst`), and they are asked for later
  with the same window: `MatchedDepositsShowTheirPayments`. `RestingRowsShow`: what rests is found by
  the query of its status. `GateHolds`: a file row is never removed, so the check, made once before a
  run, holds to its end (`GateOpen`). `ReportedDecisionsAreFinal` is a part of `ReadBehind`.
  `RowsFollowTheLifecycle` puts the parser's inserts and the reconciler's writes together.
  `ReportsAlwaysAgree` compares totals of any number of rows. The rows of a location are one part of
  the decided rows (`SummaryAddsUp`), the deposits of a group one part of those read for page three
  (`PageThreeAddsUp`, where lines of 0 may be left out), the rows of a date or a status one part of a
  table (`CountByDate`, `CountByStatus`), and parts that have nothing in common add up to the whole.
  That page three has each pending cash deposit of the details page is about time: it needs
  `MonthRead`, a second invariant above `IInv`. A pending row was read for its date in the period, the
  month begins no later than the period, and a row that was there when the details were read is there
  when the month is read, whatever became of its status.
- **SumTheorems.** The library's induction theorems cannot be used, but a least counterexample of a
  well-founded relation (`WFMin`) gives induction over a set (`Induction`, `SubsetInduction`), from
  which a fold exists (`FoldExists`) and a sum may be taken apart anywhere (`SumsSplit`). From there:
  a sum is the sum of the sums of its parts (`SumOfParts`), may leave out what is 0 (`SumOfNonzero`),
  does not change under a one-to-one renaming (`SumOfImages`), and to count is to add up ones.
- **RecordParsingProofs.** Files and sales have any length, so totals and filters are folds over any
  number of elements, which `SumTheorems` is about; the filter keeps its places (`PaidComesFrom`). The
  invariant is `FileOK`, every line is one the bank wrote with columns blanked at most, and `Damaged`,
  what a single damage can have done. `AcceptedFilesAreStorable` and `AcceptedFilesAddUp` (count and
  total are the bank's: `AcceptedFile`) hold after any number of damages. `DamagedFilesAreRefused` has
  the hypothesis `MaxFaults \in 0 .. 1`, for the reason given in section 3: one damage that leaves the
  count has blanked one column, the lines beside it add up as they did, so the amount of its line is
  the bank's too (`DifferNowhere`). `PaymentsAreSavedInFull` is by induction on the payments, with
  `RoundedIsNear` for the rate.

Only model-checked:

- Liveness (`Returns`, `InProgressEndsUnlessKilled`, `AnnouncedUnlessFault`): out of the prover's
  reach. Every other property of a run that passes is also a theorem.

## 5. Not modelled

- **Seeding** (`database.service.ts`, `updateTxnsAndDeposits`, `transaction.service.ts:46`): run once
  by hand, before the system is, to load master data and link rows that are there to it. Its
  swallowed errors leave rows without a link; the models start from linked rows. Migrations are SQL;
  their UNIQUE and NOT NULL constraints are in the models.
- **REST controllers, authentication, S3, SNS and mail clients, configuration, logging**: I/O with no
  state of its own. An API upload is `Upload`; a query, mail or message of the parser that fails is a
  fault, and the mails of the daily check are taken to arrive.
- **The workbook**: styling, filters, the round count that is logged, the saved file and the mailed
  link (`excelexport/`, `reporting.service.ts:146`). The values on the pages are modelled.
- **`transactionJson`, the `void_indicator` column**: carried along, read by no lambda.
  `void_indicator === ' '` (`parseGarms.ts:69`) stores true for a sale whose indicator is blank; as
  nothing reads it no property is about it.
- **Frontend and the rest of Terraform**: presentation and infrastructure. Reserved concurrency and
  timeouts are in the models.

Hazards without a property, and why, are listed with a note in `PROJECT.json`: the early return for
locations with one side only, the seeder, a refused key that takes its event with it, the off day of
the daily check, the mailed link to a report that was not saved, the join of the CAS page with the
master data, the filter of the summary page.

What could be taken further: `Pipeline` with the detailed reconcilers in the place of `Outcomes`, which
needs far larger runs.
