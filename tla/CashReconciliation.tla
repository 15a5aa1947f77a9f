------------------------- MODULE CashReconciliation -------------------------
(***************************************************************************)
(* The cash half of the reconcile lambda (reconcileCash, then              *)
(* CashReconciliationService) over the payment and cash_deposit tables,    *)
(* while the parser lambda inserts rows.  Every await is a step boundary.  *)
(* A location is reconciled once for each of its deposit dates: the cash   *)
(* payments are added up per fiscal close date and status, and each sum    *)
(* is compared with the deposits of the date.                              *)
(***************************************************************************)
EXTENDS Integers, Sequences, FiniteSets, FiniteSetsExt

CONSTANTS
  Payments, Deposits,  \* ids of the rows that may come
  PaymentRow,          \* their [date, amount]: date is fiscal_close_date for a
  DepositRow,          \*   payment and deposit_date for a deposit
  Locations, LocationOf,
  Days,                \* dates a run can be asked to reconcile
  NoDeposit,           \* the NULL of payment.cash_deposit_match
  MaxCrashes           \* bound on how often the lambda is killed

Ids == Payments \cup Deposits
Row == [date: Int, amount: Int]

ASSUME CashReconciliationAssumption ==
  /\ Payments \cap Deposits = {} /\ NoDeposit \notin Deposits
  /\ PaymentRow \in [Payments -> Row] /\ DepositRow \in [Deposits -> Row]
  /\ IsFiniteSet(Deposits)
  /\ LocationOf \in [Ids -> Locations]
  /\ Days \subseteq Nat
  /\ MaxCrashes \in Nat

VARIABLES
  status,              \* status of every row, "ABSENT" before its insert
  cashDepositMatch,    \* payment.cash_deposit_match
  pc,                  \* what the lambda awaits next, "idle" between two runs
  maxDate,             \* dateRange.maxDate of the run
  locationsLeft,       \* locations the loop has not reached
  location,            \* the one at hand
  datesLeft, dates,    \* its deposit dates: to come, and begun in this order
  payments, deposits,  \* rows as read for the date: their ids with their status
  matches,             \* payments of the aggregate each deposit is matched to
  todo,                \* deposits the loop or Promise.all under way has left
  crashes

database == <<status, cashDepositMatch>>
loops == <<maxDate, locationsLeft, location, datesLeft, dates>>
reads == <<payments, deposits>>
vars == <<database, pc, loops, reads, matches, todo, crashes>>

Open == {"PENDING", "IN_PROGRESS"}
Unread == [x \in {} |-> "ABSENT"]
NoMatches == [d \in Deposits |-> {}]
DateOf(x) == IF x \in Payments THEN PaymentRow[x].date ELSE DepositRow[x].date
-----------------------------------------------------------------------------
NumDaysToReconcile == 30
MinDate == maxDate - NumDaysToReconcile

CurrentDate == dates[Len(dates)]

\* Mutant of PreviousDate: the deposit date before, not the one before that.
PreviousDateOne == IF Len(dates) > 1 THEN dates[Len(dates) - 1] ELSE MinDate

\* filtered[filtered.indexOf(date) - 2] ?? dateRange.minDate
PreviousDate == IF Len(dates) > 2 THEN dates[Len(dates) - 2] ELSE MinDate

\* The rows of the location, of some statuses, in a closed interval of dates.
Find(ids, statuses, from, to) ==
  LET found(x) == /\ status[x] \in statuses /\ LocationOf[x] = location
                  /\ from <= DateOf(x) /\ DateOf(x) <= to
  IN  [x \in {y \in ids : found(y)} |-> status[x]]

\* The same query without a lower bound.
FindUpTo(ids, statuses, to) ==
  LET found(x) == status[x] \in statuses /\ LocationOf[x] = location /\ DateOf(x) <= to
  IN  [x \in {y \in ids : found(y)} |-> status[x]]

\* aggregatePayments: one aggregate per close date and status.
Aggregate(k) == {p \in DOMAIN payments : <<PaymentRow[p].date, payments[p]>> = k}
Aggregates == {<<PaymentRow[p].date, payments[p]>> : p \in DOMAIN payments}
Total(ids) == LET paid(p) == PaymentRow[p].amount IN MapThenSumSet(paid, ids)
Amount(k) == Total(Aggregate(k))

Settled == UNION {matches[d] : d \in Deposits}

\* Mutant of CheckMatch: the status of the aggregate is not looked at.
CheckMatchTaken(k, d) == matches[d] = {} /\ Amount(k) = DepositRow[d].amount

\* checkMatch.  checkPaymentCashMatch holds of every row as read: the query
\* does not load the relation.
CheckMatch(k, d) ==
  /\ Aggregate(k) \cap Settled = {} /\ matches[d] = {}
  /\ Amount(k) = DepositRow[d].amount

Candidates(d) == {k \in Aggregates : CheckMatch(k, d)}

\* Deposits come in descending amount; aggregates of one amount keep the order
\* of the query, by close date.
Largest(S) == {d \in S : \A e \in S : DepositRow[e].amount <= DepositRow[d].amount}
Earliest(K) == {k \in K : \A j \in K : k[1] <= j[1]}

\* What a save or a transaction makes of the status column.
SetStatus(ids, s) == status' = [x \in Ids |-> IF x \in ids THEN s ELSE status[x]]

EndOfRun ==
  /\ pc' = "idle" /\ locationsLeft' = {} /\ datesLeft' = {} /\ dates' = <<>>
  /\ payments' = Unread /\ deposits' = Unread /\ matches' = NoMatches /\ todo' = {}
  /\ UNCHANGED <<database, maxDate, location>>
-----------------------------------------------------------------------------
Init ==
  /\ status = [x \in Ids |-> "ABSENT"]
  /\ cashDepositMatch = [p \in Payments |-> NoDeposit]
  /\ pc = "idle" /\ maxDate \in Days /\ location \in Locations
  /\ locationsLeft = {} /\ datesLeft = {} /\ dates = <<>>
  /\ payments = Unread /\ deposits = Unread /\ matches = NoMatches /\ todo = {}
  /\ crashes = 0

\* The parser lambda saves a row; it does not wait for the reconciler.
Insert(x) ==
  /\ status[x] = "ABSENT"
  /\ status' = [status EXCEPT ![x] = "PENDING"]
  /\ UNCHANGED <<cashDepositMatch, pc, loops, reads, matches, todo, crashes>>

\* The run comes to reconcileCash.
StartRun(date) ==
  /\ pc = "idle" /\ pc' = "locations"
  /\ maxDate' = date /\ locationsLeft' = Locations
  /\ UNCHANGED <<database, location, datesLeft, dates, reads, matches, todo, crashes>>

\* findAllCashDepositDatesPerLocation, filtered by the range of the run.
ReadDates(l) ==
  /\ pc = "locations" /\ l \in locationsLeft
  /\ LET stored == {d \in Deposits : status[d] # "ABSENT" /\ LocationOf[d] = l}
         all == {DepositRow[d].date : d \in stored}
     IN  datesLeft' = {t \in all : MinDate <= t /\ t <= maxDate}
  /\ location' = l /\ locationsLeft' = locationsLeft \ {l}
  /\ dates' = <<>> /\ pc' = "dates"
  /\ UNCHANGED <<database, maxDate, reads, matches, todo, crashes>>

\* reconcileCash for the next date: its open deposits.
ReadPendingDeposits ==
  /\ pc = "dates"
  /\ \E date \in datesLeft :
       /\ \A later \in datesLeft : date <= later
       /\ datesLeft' = datesLeft \ {date} /\ dates' = Append(dates, date)
       /\ deposits' = Find(Deposits, Open, date, date)
  /\ pc' = "readPayments"
  /\ UNCHANGED <<database, maxDate, locationsLeft, location, payments, matches, todo,
                 crashes>>

\* Mutant of ReadPendingPayments: statuses left to their default, MatchStatusAll.
ReadPendingPaymentsOfAnyStatus ==
  /\ pc = "readPayments" /\ pc' = "matching"
  /\ payments' = Find(Payments, {"PENDING", "IN_PROGRESS", "MATCH", "EXCEPTION"},
                      PreviousDate, CurrentDate)
  /\ matches' = NoMatches /\ todo' = DOMAIN deposits
  /\ UNCHANGED <<database, loops, deposits, crashes>>

\* getAggregatedCashPaymentsByCashDepositDates.
ReadPendingPayments ==
  /\ pc = "readPayments" /\ pc' = "matching"
  /\ payments' = Find(Payments, Open, PreviousDate, CurrentDate)
  /\ matches' = NoMatches /\ todo' = DOMAIN deposits
  /\ UNCHANGED <<database, loops, deposits, crashes>>

NothingToMatch == DOMAIN payments = {} \/ DOMAIN deposits = {}

\* reconcileCash returns at once: not even IN_PROGRESS is saved.
SkipDate ==
  /\ pc = "matching" /\ NothingToMatch
  /\ pc' = "readPaymentExceptions" /\ todo' = {}
  /\ UNCHANGED <<database, loops, reads, matches, crashes>>

\* matchPaymentsToDeposits: the deposit takes the first aggregate that matches.
MatchDeposit(d) ==
  /\ pc = "matching" /\ ~NothingToMatch /\ d \in Largest(todo)
  /\ \E k \in Earliest(Candidates(d)) : matches' = [matches EXCEPT ![d] = Aggregate(k)]
  /\ todo' = todo \ {d}
  /\ UNCHANGED <<database, pc, loops, reads, crashes>>

\* Mutant of LeaveDeposit: given up after the smallest aggregate (the break
\* outside of the if).
LeaveDepositEarly(d) ==
  /\ pc = "matching" /\ ~NothingToMatch /\ d \in Largest(todo)
  /\ \E k \in Aggregates : ~CheckMatch(k, d) /\ \A j \in Aggregates : Amount(k) <= Amount(j)
  /\ todo' = todo \ {d}
  /\ UNCHANGED <<database, pc, loops, reads, matches, crashes>>

LeaveDeposit(d) ==
  /\ pc = "matching" /\ ~NothingToMatch /\ d \in Largest(todo)
  /\ Candidates(d) = {}
  /\ todo' = todo \ {d}
  /\ UNCHANGED <<database, pc, loops, reads, matches, crashes>>

\* Mutant of UpdatePayments: an update of the columns, without the relation.
UpdatePaymentsUnlinked ==
  /\ pc = "matching" /\ ~NothingToMatch /\ todo = {}
  /\ status' = [x \in Ids |-> IF x \in Settled THEN "MATCH"
                              ELSE IF x \in DOMAIN payments THEN "IN_PROGRESS" ELSE status[x]]
  /\ pc' = "saveDeposits" /\ todo' = DOMAIN deposits
  /\ UNCHANGED <<cashDepositMatch, loops, reads, matches, crashes>>

\* updatePayments: the matched payments with their deposit and all the others,
\* as IN_PROGRESS, in one transaction.
UpdatePayments ==
  /\ pc = "matching" /\ ~NothingToMatch /\ todo = {}
  /\ status' = [x \in Ids |-> IF x \in Settled THEN "MATCH"
                              ELSE IF x \in DOMAIN payments THEN "IN_PROGRESS" ELSE status[x]]
  /\ cashDepositMatch' = [p \in Payments |->
       IF p \in Settled THEN CHOOSE d \in Deposits : p \in matches[d] ELSE cashDepositMatch[p]]
  /\ pc' = "saveDeposits" /\ todo' = DOMAIN deposits
  /\ UNCHANGED <<loops, reads, matches, crashes>>

\* cashDepositService.updateDeposits: one save per deposit, in no transaction
\* and in any order, under one Promise.all.
SaveDeposit(d) ==
  /\ pc = "saveDeposits" /\ d \in todo
  /\ SetStatus({d}, IF matches[d] # {} THEN "MATCH" ELSE "IN_PROGRESS")
  /\ todo' = todo \ {d}
  /\ pc' = IF todo' = {} THEN "readPaymentExceptions" ELSE pc
  /\ UNCHANGED <<cashDepositMatch, loops, reads, matches, crashes>>

\* Mutant of ReadPaymentExceptions: the open payments, pending ones included.
ReadPaymentExceptionsOpen ==
  /\ pc = "readPaymentExceptions" /\ pc' = "readDepositExceptions"
  /\ payments' = FindUpTo(Payments, {"PENDING", "IN_PROGRESS"}, PreviousDate)
  /\ UNCHANGED <<database, loops, deposits, matches, todo, crashes>>

\* setExceptions(previousCashDepositDate) reads what is IN_PROGRESS anew.
ReadPaymentExceptions ==
  /\ pc = "readPaymentExceptions" /\ pc' = "readDepositExceptions"
  /\ payments' = FindUpTo(Payments, {"IN_PROGRESS"}, PreviousDate)
  /\ UNCHANGED <<database, loops, deposits, matches, todo, crashes>>

\* Mutant of ReadDepositExceptions: the query of the payments once more.
ReadDepositExceptionsWrongTable ==
  /\ pc = "readDepositExceptions" /\ pc' = "paymentExceptions"
  /\ deposits' = FindUpTo(Payments, {"IN_PROGRESS"}, PreviousDate)
  /\ UNCHANGED <<database, loops, payments, matches, todo, crashes>>

ReadDepositExceptions ==
  /\ pc = "readDepositExceptions" /\ pc' = "paymentExceptions"
  /\ deposits' = FindUpTo(Deposits, {"IN_PROGRESS"}, PreviousDate)
  /\ UNCHANGED <<database, loops, payments, matches, todo, crashes>>

\* The payments in one transaction, then the deposits one by one.
PaymentExceptions ==
  /\ pc = "paymentExceptions" /\ pc' = "depositExceptions"
  /\ SetStatus(DOMAIN payments, "EXCEPTION")
  /\ todo' = DOMAIN deposits
  /\ UNCHANGED <<cashDepositMatch, loops, reads, matches, crashes>>

SaveDepositException(d) ==
  /\ pc = "depositExceptions" /\ d \in todo
  /\ SetStatus({d}, "EXCEPTION")
  /\ todo' = todo \ {d}
  /\ UNCHANGED <<cashDepositMatch, pc, loops, reads, matches, crashes>>

\* Mutant of NextDate: the saves of the exceptions are not awaited to the end.
NextDateEarly ==
  /\ pc = "depositExceptions" /\ pc' = "dates"
  /\ payments' = Unread /\ deposits' = Unread /\ matches' = NoMatches /\ todo' = {}
  /\ UNCHANGED <<database, loops, crashes>>

NextDate ==
  /\ pc = "depositExceptions" /\ todo = {} /\ pc' = "dates"
  /\ payments' = Unread /\ deposits' = Unread /\ matches' = NoMatches
  /\ UNCHANGED <<database, loops, todo, crashes>>

LeaveLocation ==
  /\ pc = "dates" /\ datesLeft = {}
  /\ pc' = "locations"
  /\ UNCHANGED <<database, loops, reads, matches, todo, crashes>>

FinishRun == pc = "locations" /\ locationsLeft = {} /\ EndOfRun /\ UNCHANGED crashes

\* The lambda is killed, or a query fails: what is saved stays, the run is over.
Crash == pc # "idle" /\ crashes < MaxCrashes /\ EndOfRun /\ crashes' = crashes + 1

Next ==
  \/ \E x \in Ids : Insert(x)
  \/ \E date \in Days : StartRun(date)
  \/ \E l \in Locations : ReadDates(l)
  \/ ReadPendingDeposits \/ ReadPendingPayments
  \/ SkipDate
  \/ \E d \in Deposits : MatchDeposit(d) \/ LeaveDeposit(d)
  \/ UpdatePayments
  \/ \E d \in Deposits : SaveDeposit(d)
  \/ ReadPaymentExceptions \/ ReadDepositExceptions
  \/ PaymentExceptions
  \/ \E d \in Deposits : SaveDepositException(d)
  \/ NextDate \/ LeaveLocation \/ FinishRun
  \/ Crash

Spec == Init /\ [][Next]_vars
-----------------------------------------------------------------------------
TypeOK ==
  /\ status \in [Ids -> {"ABSENT", "PENDING", "IN_PROGRESS", "MATCH", "EXCEPTION"}]
  /\ cashDepositMatch \in [Payments -> Deposits \cup {NoDeposit}]
  /\ pc \in {"idle", "locations", "dates", "readPayments", "matching", "saveDeposits",
             "readPaymentExceptions", "readDepositExceptions", "paymentExceptions",
             "depositExceptions"}
  /\ maxDate \in Days /\ location \in Locations /\ locationsLeft \subseteq Locations
  /\ datesLeft \subseteq Int /\ dates \in Seq(Int)
  /\ DOMAIN payments \subseteq Payments /\ DOMAIN deposits \subseteq Deposits
  /\ matches \in [Deposits -> SUBSET Payments] /\ todo \subseteq Deposits
  /\ crashes \in 0 .. MaxCrashes

\* Statuses only move forward, crashes and repeated runs included.
StatusLifecycle == INSTANCE Lifecycle WITH Items <- Ids
ForwardOnly == StatusLifecycle!Spec

\* As long as no run is killed, money agrees between two runs: a deposit is
\* MATCH exactly if payments refer to it; these are MATCH, of its location, of
\* one close date that is not after the deposit, and add up to its amount.
CashSettled ==
  pc = "idle" /\ crashes = 0 =>
    \A d \in Deposits :
      LET refs == {p \in Payments : cashDepositMatch[p] = d}
      IN  /\ status[d] = "MATCH" <=> refs # {}
          /\ refs # {} => Total(refs) = DepositRow[d].amount
          /\ \A p, q \in refs :
               /\ status[p] = "MATCH" /\ LocationOf[p] = LocationOf[d]
               /\ PaymentRow[p].date = PaymentRow[q].date
               /\ PaymentRow[p].date <= DepositRow[d].date

\* A cash deposit is MATCH only if a MATCH payment refers to it, whenever the
\* lambda is killed: payments are saved first.
DepositHasItsPayments ==
  \A d \in Deposits : status[d] = "MATCH" =>
    \E p \in Payments : status[p] = "MATCH" /\ cashDepositMatch[p] = d

\* A payment that is MATCH keeps the deposit it was matched to.
MatchIsFinal ==
  [][\A p \in Payments : status[p] = "MATCH" =>
       cashDepositMatch'[p] = cashDepositMatch[p]]_vars

\* First fit misses nothing: when the matching of a date ends, no aggregate
\* that is left equals a deposit that is left.
NothingLeftToMatch ==
  pc = "matching" /\ ~NothingToMatch /\ todo = {} =>
    \A d \in DOMAIN deposits : Candidates(d) = {}

\* When the dates of a location are through, nothing as old as the deposit
\* date two before the last is IN_PROGRESS there.
NoOverdueInProgress ==
  pc = "dates" /\ datesLeft = {} /\ dates # <<>> =>
    ~\E x \in Ids : /\ status[x] = "IN_PROGRESS" /\ LocationOf[x] = location
                    /\ DateOf(x) <= PreviousDate

\* Deposit dates in the tables that follow the row's date, up to the run's date.
LaterDates(x) ==
  {DepositRow[d].date : d \in {e \in Deposits :
     /\ status[e] # "ABSENT" /\ LocationOf[e] = LocationOf[x]
     /\ DateOf(x) < DateOf(e) /\ DateOf(e) <= maxDate}}

\* Nothing becomes an EXCEPTION before two later deposit dates of its location
\* were reconciled, or 30 days have passed.
TwoDatesOfGrace ==
  [][\A x \in Ids : status[x] # "EXCEPTION" /\ status'[x] = "EXCEPTION" =>
       DateOf(x) <= MinDate \/ Cardinality(LaterDates(x)) >= 2]_vars

\* docs/reconciliation.md: each deposit must have only one corresponding
\* fiscal close date.  A run killed between updatePayments and the save of the
\* deposit leaves the deposit open, and a later run gives it to another date.
OneCloseDatePerDeposit ==
  \A p, q \in Payments :
    cashDepositMatch[p] = cashDepositMatch[q] /\ cashDepositMatch[p] # NoDeposit =>
      PaymentRow[p].date = PaymentRow[q].date

\* docs/reconciliation.md: the sum of all cash payments from one fiscal close
\* date is matched to the deposit.  Of the payments read together, those of one
\* date that differ in status are matched separately.
WholeCloseDate ==
  [][\A p, q \in DOMAIN payments :
       /\ PaymentRow[p].date = PaymentRow[q].date
       /\ status[p] # "MATCH" /\ status'[p] = "MATCH"
       => status'[q] = "MATCH"]_vars

\* docs/reconciliation.md: a deposit that finds no payments after two
\* subsequent deposit dates is an EXCEPTION.  SkipDate leaves it PENDING.
UnmatchedDepositsExpire ==
  pc = "dates" /\ datesLeft = {} =>
    \A d \in Deposits, i \in 1 .. Len(dates) - 2 :
      LocationOf[d] = location /\ DepositRow[d].date = dates[i]
        => status[d] \in {"ABSENT", "MATCH", "EXCEPTION"}
=============================================================================
