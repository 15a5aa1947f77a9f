------------------------- MODULE PosReconciliation --------------------------
(***************************************************************************)
(* The POS half of the reconcile lambda (reconcilePos, findPosExceptions)  *)
(* over the payment and pos_deposit tables, while the parser lambda        *)
(* inserts rows.  Between two awaits the lambda runs alone; every await is *)
(* a step boundary here, and a place where the lambda may be killed.  The  *)
(* reserved concurrency of the lambda is 1: there is one run at a time.    *)
(***************************************************************************)
EXTENDS BusinessDays

CONSTANTS
  Payments, Deposits,  \* ids of the rows that may come
  PaymentRow,          \* their date, time, amount and method
  DepositRow,
  Locations,           \* locations of the program
  LocationOf,          \* location of a payment; of the merchant of a deposit
  Days,                \* dates a run can be asked to reconcile
  NoDeposit,           \* the NULL of payment.pos_deposit_match
  MaxCrashes           \* bound on how often the lambda is killed

VARIABLES
  \* the database
  status,              \* status of every row, "ABSENT" before its insert
  depositOf,           \* payment.pos_deposit_match, a UNIQUE column
  joined,              \* join table of round_four_matches
  \* the lambda
  pc,                  \* what it awaits next, "idle" between two runs
  currentDate,         \* reconciliationMaxDate of the run
  payments, deposits,  \* rows as read: their ids with their status
  locationsLeft,       \* locations the loop has not reached
  pendingPayments, pendingDeposits, round, todo,   \* PosReconciliationService
  paymentRound, depositRound, posDepositMatch, roundFourMatches,
  \* history
  crashes,
  quiet                \* see RerunChangesNothing

Ids == Payments \cup Deposits
matching == <<pendingPayments, pendingDeposits, round, todo, paymentRound,
              depositRound, posDepositMatch, roundFourMatches>>
database == <<status, depositOf, joined>>
reads == <<payments, deposits>>
vars == <<database, pc, currentDate, reads, locationsLeft, matching, crashes, quiet>>

M == INSTANCE PosMatching WITH
  Rows <- {PaymentRow[p] : p \in Payments} \cup {DepositRow[d] : d \in Deposits},
  payment <- PaymentRow, deposit <- DepositRow

Open == {"PENDING", "IN_PROGRESS"}
Unread == [x \in {} |-> "ABSENT"]
DateOf(x) == IF x \in Payments THEN PaymentRow[x].date ELSE DepositRow[x].date

\* The values of quiet that are no dates.
DIRTY == -1
UNKNOWN == -2

ASSUME PosReconciliationAssumption ==
  /\ M!PosMatchingAssumption
  /\ PaymentRow \in [Payments -> [date : Int, time : Nat, amount : Int, method : STRING]]
  /\ DepositRow \in [Deposits -> [date : Int, time : Nat, amount : Int, method : STRING]]
  /\ LocationOf \in [Ids -> Locations]
  /\ Days \subseteq Nat
  /\ MaxCrashes \in Nat
-----------------------------------------------------------------------------
\* find with status In(statuses) and transaction_date LessThanOrEqual(date).
Find(ids, statuses, date) ==
  [x \in {y \in ids : status[y] \in statuses /\ DateOf(y) <= date} |-> status[x]]

\* Mutant of AtLocation: the filter on the location is missing.
AtLocationAnywhere(rows, l) == DOMAIN rows

\* The filter of a location's rows out of the arrays read for all locations.
AtLocation(rows, l) == {x \in DOMAIN rows : LocationOf[x] = l}

\* One database transaction that saves the status of some rows.
SetStatus(ids, s) == status' = [x \in Ids |-> IF x \in ids THEN s ELSE status[x]]

\* What a run leaves behind in memory is never read by the next one.
EndOfRun ==
  /\ pc' = "idle" /\ payments' = Unread /\ deposits' = Unread /\ locationsLeft' = {}
  /\ pendingPayments' = {} /\ pendingDeposits' = {} /\ round' = M!DONE /\ todo' = {}
  /\ paymentRound' = [p \in Payments |-> M!NONE]
  /\ depositRound' = [d \in Deposits |-> M!NONE]
  /\ posDepositMatch' = [p \in Payments |-> NoDeposit]
  /\ roundFourMatches' = [p \in Payments |-> {}]

Init ==
  /\ status = [x \in Ids |-> "ABSENT"]
  /\ depositOf = [p \in Payments |-> NoDeposit]
  /\ joined = [p \in Payments |-> {}]
  /\ pc = "idle" /\ payments = Unread /\ deposits = Unread /\ locationsLeft = {}
  /\ currentDate = 0
  /\ pendingPayments = {} /\ pendingDeposits = {} /\ round = M!DONE /\ todo = {}
  /\ paymentRound = [p \in Payments |-> M!NONE]
  /\ depositRound = [d \in Deposits |-> M!NONE]
  /\ posDepositMatch = [p \in Payments |-> NoDeposit]
  /\ roundFourMatches = [p \in Payments |-> {}]
  /\ crashes = 0 /\ quiet = UNKNOWN

\* The parser lambda saves a row; it does not wait for the reconciler.
Insert(x) ==
  /\ status[x] = "ABSENT"
  /\ status' = [status EXCEPT ![x] = "PENDING"]
  /\ quiet' = DIRTY
  /\ UNCHANGED <<depositOf, joined, pc, currentDate, reads, locationsLeft, matching, crashes>>

\* The handler is invoked for a date: by the parser with today's date, by a
\* retry or by the batch lambda with another one.
StartRun(date) ==
  /\ pc = "idle"
  /\ pc' = "readPayments" /\ currentDate' = date
  /\ quiet' = IF quiet = DIRTY THEN UNKNOWN ELSE quiet
  /\ UNCHANGED <<database, reads, locationsLeft, matching, crashes>>

\* Mutant of ReadPayments: statuses left to their default, MatchStatusAll.
ReadPaymentsOfAnyStatus ==
  /\ pc = "readPayments" /\ pc' = "readDeposits"
  /\ payments' = Find(Payments, {"PENDING", "IN_PROGRESS", "MATCH", "EXCEPTION"}, currentDate)
  /\ UNCHANGED <<database, currentDate, deposits, locationsLeft, matching, crashes, quiet>>

\* reconcilePos reads the payments, then the deposits, once for all locations.
ReadPayments ==
  /\ pc = "readPayments" /\ pc' = "readDeposits"
  /\ payments' = Find(Payments, Open, currentDate)
  /\ UNCHANGED <<database, currentDate, deposits, locationsLeft, matching, crashes, quiet>>

\* Mutant of ReadDeposits: the query of the payments once more.
ReadDepositsWrongTable ==
  /\ pc = "readDeposits" /\ pc' = "locations"
  /\ deposits' = Find(Payments, Open, currentDate)
  /\ locationsLeft' = Locations
  /\ UNCHANGED <<database, currentDate, payments, matching, crashes, quiet>>

ReadDeposits ==
  /\ pc = "readDeposits" /\ pc' = "locations"
  /\ deposits' = Find(Deposits, Open, currentDate)
  /\ locationsLeft' = Locations
  /\ UNCHANGED <<database, currentDate, payments, matching, crashes, quiet>>

\* reconcile() returns at once when one of the two lists is empty.
SkipLocation(l) ==
  /\ pc = "locations" /\ l \in locationsLeft
  /\ AtLocation(payments, l) = {} \/ AtLocation(deposits, l) = {}
  /\ locationsLeft' = locationsLeft \ {l}
  /\ UNCHANGED <<database, pc, currentDate, reads, matching, crashes, quiet>>

OpenLocation(l) ==
  /\ pc = "locations" /\ l \in locationsLeft
  /\ AtLocation(payments, l) # {} /\ AtLocation(deposits, l) # {}
  /\ locationsLeft' = locationsLeft \ {l}
  /\ pc' = "matching"
  /\ M!StartMatching(AtLocation(payments, l), AtLocation(deposits, l))
  /\ UNCHANGED <<database, currentDate, reads, crashes, quiet>>

\* filterAndSetMatch: no await in it, and nothing but locals written.
Match ==
  /\ pc = "matching"
  /\ M!Next
  /\ UNCHANGED <<database, pc, currentDate, reads, locationsLeft, crashes, quiet>>

MatchedPayments == pendingPayments \ M!UnmatchedPayments
MatchedDeposits == pendingDeposits \ M!UnmatchedDeposits

\* The row another payment already holds the deposit in: the UNIQUE constraint
\* on pos_deposit_match refuses the transaction.
DepositTaken ==
  \E p \in MatchedPayments, q \in Payments :
    p # q /\ posDepositMatch[p] # NoDeposit /\ depositOf[q] = posDepositMatch[p]

\* updatePayments(matchedPayments): status and relations in one transaction.
\* save() replaces the join rows of a payment that brings round_four_matches.
UpdateMatchedPayments ==
  /\ pc = "matching" /\ round = M!DONE
  /\ ~DepositTaken
  /\ SetStatus(MatchedPayments, "MATCH")
  /\ depositOf' = [p \in Payments |->
       IF p \in MatchedPayments /\ posDepositMatch[p] # NoDeposit
       THEN posDepositMatch[p] ELSE depositOf[p]]
  /\ joined' = [p \in Payments |->
       IF p \in MatchedPayments /\ roundFourMatches[p] # {}
       THEN roundFourMatches[p] ELSE joined[p]]
  /\ pc' = "matchDeposits"
  /\ UNCHANGED <<currentDate, reads, locationsLeft, matching, crashes, quiet>>

\* Mutant of RejectMatchedPayments: the error is logged and swallowed.
RejectMatchedPaymentsSwallowed ==
  /\ pc = "matching" /\ round = M!DONE
  /\ DepositTaken
  /\ pc' = "matchDeposits"
  /\ UNCHANGED <<database, currentDate, reads, locationsLeft, matching, crashes, quiet>>

\* The transaction is rolled back, updatePayments throws, and the catch of the
\* handler ends the run: no further location, exception or cash.
RejectMatchedPayments ==
  /\ pc = "matching" /\ round = M!DONE
  /\ DepositTaken
  /\ EndOfRun
  /\ quiet' = UNKNOWN
  /\ UNCHANGED <<database, currentDate, crashes>>

\* The deposits that bring round_four_matches: their bucket has payments too.
Rejoined == UNION {roundFourMatches[p] : p \in Payments}

\* updateDeposits(matchedDeposits).  save() replaces the join rows of each of
\* these deposits, whatever payment the rows were of.
UpdateMatchedDeposits ==
  /\ pc = "matchDeposits" /\ pc' = "paymentsInProgress"
  /\ SetStatus(MatchedDeposits, "MATCH")
  /\ joined' = [p \in Payments |-> (joined[p] \ Rejoined) \cup roundFourMatches[p]]
  /\ UNCHANGED <<depositOf, currentDate, reads, locationsLeft, matching, crashes, quiet>>

\* The unmatched rows that were read as PENDING become IN_PROGRESS, payments in
\* one transaction and deposits in the next.
PaymentsInProgress ==
  /\ pc = "paymentsInProgress" /\ pc' = "depositsInProgress"
  /\ SetStatus({p \in M!UnmatchedPayments : payments[p] = "PENDING"}, "IN_PROGRESS")
  /\ UNCHANGED <<depositOf, joined, currentDate, reads, locationsLeft, matching, crashes, quiet>>

\* Mutant of DepositsInProgress: every pending deposit, the matched ones too.
DepositsInProgressAll ==
  /\ pc = "depositsInProgress" /\ pc' = "locations"
  /\ SetStatus({d \in pendingDeposits : deposits[d] = "PENDING"}, "IN_PROGRESS")
  /\ UNCHANGED <<depositOf, joined, currentDate, reads, locationsLeft, matching, crashes, quiet>>

DepositsInProgress ==
  /\ pc = "depositsInProgress" /\ pc' = "locations"
  /\ SetStatus({d \in M!UnmatchedDeposits : deposits[d] = "PENDING"}, "IN_PROGRESS")
  /\ UNCHANGED <<depositOf, joined, currentDate, reads, locationsLeft, matching, crashes, quiet>>

\* Mutant of ReadPaymentExceptions: statuses left to their default.
ReadPaymentExceptionsOfAnyStatus ==
  /\ pc = "locations" /\ locationsLeft = {}
  /\ pc' = "readDepositExceptions"
  /\ payments' = Find(Payments, {"PENDING", "IN_PROGRESS", "MATCH", "EXCEPTION"},
                      ExceptionsDate(currentDate))
  /\ UNCHANGED <<database, currentDate, deposits, locationsLeft, matching, crashes, quiet>>

\* findPosExceptions: what is IN_PROGRESS and two business days old is read
\* anew, payments and then deposits.
ReadPaymentExceptions ==
  /\ pc = "locations" /\ locationsLeft = {}
  /\ pc' = "readDepositExceptions"
  /\ payments' = Find(Payments, {"IN_PROGRESS"}, ExceptionsDate(currentDate))
  /\ UNCHANGED <<database, currentDate, deposits, locationsLeft, matching, crashes, quiet>>

ReadDepositExceptions ==
  /\ pc = "readDepositExceptions" /\ pc' = "exceptions"
  /\ deposits' = Find(Deposits, {"IN_PROGRESS"}, ExceptionsDate(currentDate))
  /\ locationsLeft' = Locations
  /\ UNCHANGED <<database, currentDate, payments, matching, crashes, quiet>>

\* setExceptions: the payments of a location in one transaction, then its
\* deposits in another; nothing to do only if both lists are empty.
PaymentExceptions(l) ==
  /\ pc = "exceptions" /\ l \in locationsLeft
  /\ locationsLeft' = locationsLeft \ {l}
  /\ pendingPayments' = AtLocation(payments, l) /\ pendingDeposits' = AtLocation(deposits, l)
  /\ pendingPayments' \cup pendingDeposits' # {}
  /\ SetStatus(pendingPayments', "EXCEPTION")
  /\ pc' = "depositExceptions"
  /\ UNCHANGED <<depositOf, joined, currentDate, reads, round, todo, paymentRound,
                 depositRound, posDepositMatch, roundFourMatches, crashes, quiet>>

\* Mutant of DepositExceptions: updateDepositStatus forgotten.
DepositExceptionsUnsaved ==
  /\ pc = "depositExceptions" /\ pc' = "exceptions"
  /\ UNCHANGED <<database, currentDate, reads, locationsLeft, matching, crashes, quiet>>

DepositExceptions ==
  /\ pc = "depositExceptions" /\ pc' = "exceptions"
  /\ SetStatus(pendingDeposits, "EXCEPTION")
  /\ UNCHANGED <<depositOf, joined, currentDate, reads, locationsLeft, matching, crashes, quiet>>

\* Mutant of SkipExceptions: skipped if either list is empty, as in reconcile().
SkipExceptionsEither(l) ==
  /\ pc = "exceptions" /\ l \in locationsLeft
  /\ AtLocation(payments, l) = {} \/ AtLocation(deposits, l) = {}
  /\ locationsLeft' = locationsLeft \ {l}
  /\ UNCHANGED <<database, pc, currentDate, reads, matching, crashes, quiet>>

SkipExceptions(l) ==
  /\ pc = "exceptions" /\ l \in locationsLeft
  /\ AtLocation(payments, l) \cup AtLocation(deposits, l) = {}
  /\ locationsLeft' = locationsLeft \ {l}
  /\ UNCHANGED <<database, pc, currentDate, reads, matching, crashes, quiet>>

\* The POS half of the run is over.
FinishRun ==
  /\ pc = "exceptions" /\ locationsLeft = {}
  /\ EndOfRun
  /\ quiet' = IF quiet = DIRTY THEN DIRTY ELSE currentDate
  /\ UNCHANGED <<database, currentDate, crashes>>

\* The lambda is killed (its timeout, its memory) or a query fails: an open
\* transaction is rolled back, those committed stay, the run is over.
Crash ==
  /\ pc # "idle" /\ crashes < MaxCrashes
  /\ EndOfRun
  /\ crashes' = crashes + 1 /\ quiet' = UNKNOWN
  /\ UNCHANGED <<database, currentDate>>

Reconciler ==
  \/ ReadPayments \/ ReadDeposits
  \/ \E l \in Locations : SkipLocation(l) \/ OpenLocation(l)
  \/ Match
  \/ UpdateMatchedPayments \/ RejectMatchedPayments \/ UpdateMatchedDeposits
  \/ PaymentsInProgress \/ DepositsInProgress
  \/ ReadPaymentExceptions \/ ReadDepositExceptions
  \/ \E l \in Locations : PaymentExceptions(l) \/ SkipExceptions(l)
  \/ DepositExceptions
  \/ FinishRun

Next ==
  \/ \E x \in Ids : Insert(x)
  \/ \E date \in Days : StartRun(date)
  \/ Reconciler
  \/ Crash

\* A run that has begun goes on (it is killed or it ends), and each date is
\* reconciled again and again: the parser triggers a run after every
\* invocation, with the date of the day.
Fairness ==
  /\ WF_vars(Reconciler)
  /\ \A date \in Days : SF_vars(StartRun(date))

Spec == Init /\ [][Next]_vars /\ Fairness
-----------------------------------------------------------------------------
TypeOK ==
  /\ status \in [Ids -> {"ABSENT", "PENDING", "IN_PROGRESS", "MATCH", "EXCEPTION"}]
  /\ depositOf \in [Payments -> Deposits \cup {NoDeposit}]
  /\ joined \in [Payments -> SUBSET Deposits]
  /\ pc \in {"idle", "readPayments", "readDeposits", "locations", "matching",
             "matchDeposits", "paymentsInProgress", "depositsInProgress",
             "readDepositExceptions", "exceptions", "depositExceptions"}
  /\ currentDate \in Days \cup {0}
  /\ DOMAIN payments \subseteq Payments /\ DOMAIN deposits \subseteq Deposits
  /\ locationsLeft \subseteq Locations
  /\ pendingPayments \subseteq Payments /\ pendingDeposits \subseteq Deposits
  /\ round \in M!ONE .. M!DONE
  /\ paymentRound \in [Payments -> M!NONE .. M!FOUR]
  /\ depositRound \in [Deposits -> M!NONE .. M!FOUR]
  /\ posDepositMatch \in [Payments -> Deposits \cup {NoDeposit}]
  /\ roundFourMatches \in [Payments -> SUBSET Deposits]
  /\ crashes \in 0 .. MaxCrashes /\ quiet \in Days \cup {0, DIRTY, UNKNOWN}

\* Rows the run has read and not yet written: those of the locations still to
\* come and of the location at hand, up to its transaction.
Unwritten(x) ==
  \/ pc \in {"readDeposits", "readDepositExceptions"} /\ x \in Payments
  \/ LocationOf[x] \in locationsLeft
  \/ pc = "matching" /\ x \in pendingPayments \cup pendingDeposits
  \/ pc \in {"matchDeposits", "depositExceptions"} /\ x \in pendingDeposits
  \/ pc = "matchDeposits" /\ x \in M!UnmatchedPayments
  \/ pc = "paymentsInProgress"
       /\ x \in M!UnmatchedPayments \cup M!UnmatchedDeposits
  \/ pc = "depositsInProgress" /\ x \in M!UnmatchedDeposits

\* The arrays read once at the start stay true: a row the run is yet to write
\* still has the status the run read, however long the run takes.
ReadsStayTrue ==
  /\ \A p \in DOMAIN payments : Unwritten(p) => status[p] = payments[p]
  /\ \A d \in DOMAIN deposits : Unwritten(d) => status[d] = deposits[d]

\* Statuses only move forward, crashes and repeated runs included.
StatusLifecycle == INSTANCE Lifecycle WITH Items <- Ids
ForwardOnly == StatusLifecycle!Spec

\* A MATCH payment keeps its deposit of rounds ONE to THREE, and its join rows
\* change no more: neither to a deposit that is MATCH too, nor to any other as
\* long as no run was killed.  A kill between the two transactions leaves MATCH
\* payments joined to open deposits, and a later match of those in round FOUR
\* takes the join rows away.
MatchIsFinal ==
  [][\A p \in Payments : status[p] = "MATCH" =>
       /\ depositOf'[p] = depositOf[p]
       /\ \A d \in Deposits : status[d] = "MATCH" \/ crashes = 0 =>
            (d \in joined'[p] <=> d \in joined[p])]_vars

\* Deposits whose amounts make up 0, a sale and its refund.
MakeZero(D) == LET deposited(d) == DepositRow[d].amount IN MapThenSumSet(deposited, D) = 0

\* The rows of D fall into one bucket of one location.
OneBucket(D) ==
  \A d, e \in D : LocationOf[d] = LocationOf[e] /\ M!DepositKey(d) = M!DepositKey(e)

Refers(p, d) == depositOf[p] = d \/ d \in joined[p]
HasPayment(d) == \E p \in Payments : status[p] = "MATCH" /\ Refers(p, d)
NeedsNoPayment(d) ==
  \E D \in SUBSET Deposits :
    d \in D /\ OneBucket(D) /\ MakeZero(D) /\ \A e \in D : status[e] = "MATCH"

\* A deposit is MATCH only if a MATCH payment refers to it, or if it and other
\* MATCH deposits of its bucket make up 0.  Payments are updated first, so a
\* kill between the two leaves the deposit open, and a payment loses a deposit
\* only to the payments that deposit is matched with.
DepositHasItsPayment ==
  \A d \in Deposits : status[d] = "MATCH" => HasPayment(d) \/ NeedsNoPayment(d)

\* Between two runs a payment and the deposits it refers to agree, and no
\* deposit is referred to in two ways.  Holds as long as no run is killed.
LinksAgree ==
  pc = "idle" /\ crashes = 0 =>
    \A p \in Payments :
      /\ depositOf[p] # NoDeposit =>
           /\ status[p] = "MATCH" /\ status[depositOf[p]] = "MATCH"
           /\ \A q \in Payments \ {p} : depositOf[q] # depositOf[p]
           /\ \A q \in Payments : depositOf[p] \notin joined[q]
      /\ \A d \in joined[p] : status[p] = "MATCH" /\ status[d] = "MATCH"

\* When a run is through with its exceptions, nothing two business days old is
\* IN_PROGRESS any more.
NoOverdueInProgress ==
  pc = "exceptions" /\ locationsLeft = {} =>
    ~\E x \in Ids : status[x] = "IN_PROGRESS" /\ DateOf(x) <= ExceptionsDate(currentDate)

\* A run for a date that was reconciled to the end, with nothing inserted since
\* that run began, changes no row: a duplicated or repeated trigger is harmless.
\* quiet is the date of the last complete run, UNKNOWN after a run that was cut
\* short, DIRTY after an insert that the run under way may have missed.
RerunChangesNothing ==
  [][currentDate = quiet /\ quiet' = quiet => status' = status]_vars

\* A row that waits as IN_PROGRESS, old enough for the last date that is
\* reconciled.
WaitsForDecision(x) ==
  status[x] = "IN_PROGRESS" /\ \E date \in Days : DateOf(x) <= ExceptionsDate(date)

\* It ends as MATCH or EXCEPTION.
InProgressEnds ==
  \A x \in Ids : WaitsForDecision(x) ~> status[x] \in {"MATCH", "EXCEPTION"}

\* So it is as long as no run is killed: in the end no row waits for a decision.
\* (A row begins to wait once and stops by being decided, by ForwardOnly.)
InProgressEndsUnlessKilled ==
  [](crashes = 0) => <>[](\A x \in Ids : ~WaitsForDecision(x))
=============================================================================
