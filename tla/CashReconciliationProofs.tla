---------------------- MODULE CashReconciliationProofs ----------------------
(***************************************************************************)
(* Proofs about CashReconciliation, for any rows, locations and dates and  *)
(* any number of crashes.                                                  *)
(***************************************************************************)
EXTENDS CashReconciliation, FiniteSetTheorems, TLAPS

Statuses == {"ABSENT", "PENDING", "IN_PROGRESS", "MATCH", "EXCEPTION"}

\* What the lambda is about to save to a row follows from the status it read,
\* and the row still has that status.
Fresh ==
  /\ pc \in {"readPayments", "matching"} => \A d \in DOMAIN deposits : status[d] \in Open
  /\ pc = "matching" =>
       /\ todo \subseteq DOMAIN deposits
       /\ \A p \in DOMAIN payments : status[p] \in Open
       /\ \A d \in Deposits : matches[d] \subseteq DOMAIN payments
  /\ pc = "saveDeposits" => \A d \in todo : status[d] \in Open
  /\ pc \in {"readDepositExceptions", "paymentExceptions"} =>
       \A p \in DOMAIN payments : status[p] = "IN_PROGRESS"
  /\ pc = "paymentExceptions" => \A d \in DOMAIN deposits : status[d] = "IN_PROGRESS"
  /\ pc = "depositExceptions" => \A d \in todo : status[d] = "IN_PROGRESS"

Old(x) == LocationOf[x] = location /\ DateOf(x) <= PreviousDate
Overdue(x) == status[x] = "IN_PROGRESS" /\ Old(x)

\* What setExceptions has read and not yet saved is just what is overdue.
OverdueAtHand ==
  /\ pc \in {"readDepositExceptions", "paymentExceptions"} =>
       /\ \A p \in DOMAIN payments : Old(p)
       /\ \A p \in Payments : Overdue(p) => p \in DOMAIN payments
  /\ pc = "paymentExceptions" =>
       /\ \A d \in DOMAIN deposits : Old(d)
       /\ \A d \in Deposits : Overdue(d) => d \in DOMAIN deposits
  /\ pc = "depositExceptions" =>
       /\ \A d \in todo : Old(d)
       /\ \A x \in Ids : Overdue(x) => x \in todo
  /\ pc = "dates" /\ dates # <<>> => \A x \in Ids : ~Overdue(x)

\* A date that some deposit of the location has, in the range of the run.
DepositDate(t) ==
  /\ t <= maxDate
  /\ \E d \in Deposits : /\ status[d] # "ABSENT" /\ LocationOf[d] = location
                         /\ DepositRow[d].date = t

\* The dates of the location come in ascending order.
Ascending ==
  /\ pc = "idle" => datesLeft = {} /\ dates = <<>>
  /\ \A t \in datesLeft : DepositDate(t)
  /\ \A i \in 1 .. Len(dates) :
       /\ DepositDate(dates[i])
       /\ \A t \in datesLeft : dates[i] < t
       /\ \A j \in 1 .. Len(dates) : i < j => dates[i] < dates[j]

Inv == TypeOK /\ Fresh /\ OverdueAtHand /\ Ascending
-----------------------------------------------------------------------------
LEMMA RowTypes ==
  /\ Payments \cap Deposits = {} /\ NoDeposit \notin Deposits
  /\ \A x \in Ids : DateOf(x) \in Int /\ LocationOf[x] \in Locations
  /\ \A d \in Deposits : DepositRow[d].date \in Int /\ DateOf(d) = DepositRow[d].date
BY CashReconciliationAssumption DEF Ids, Row, DateOf

LEMMA StatusType ==
  ASSUME NEW ids, NEW s \in {"PENDING", "IN_PROGRESS", "MATCH", "EXCEPTION"},
         TypeOK, SetStatus(ids, s)
  PROVE  /\ status' \in [Ids -> Statuses]
         /\ \A x \in Ids : x \in ids => status'[x] = s
         /\ \A x \in Ids : x \notin ids => status'[x] = status[x]
BY DEF SetStatus, TypeOK, Statuses

LEMMA EndOfRunType ==
  ASSUME TypeOK, EndOfRun, crashes' \in 0 .. MaxCrashes
  PROVE  TypeOK'
BY DEF EndOfRun, TypeOK, Unread, NoMatches, database

LEMMA TypeInit == Init => TypeOK
BY CashReconciliationAssumption DEF Init, TypeOK, Unread, NoMatches

LEMMA TypeStep == TypeOK /\ [Next]_vars => TypeOK'
<1>. SUFFICES ASSUME TypeOK, [Next]_vars PROVE TypeOK'
  OBVIOUS
<1>. USE DEF TypeOK, database, loops, reads
<1>1. ASSUME NEW x \in Ids, Insert(x) PROVE TypeOK'
  BY <1>1 DEF Insert
<1>2. ASSUME NEW date \in Days, StartRun(date) PROVE TypeOK'
  BY <1>2 DEF StartRun
<1>3. ASSUME NEW l \in Locations, ReadDates(l) PROVE TypeOK'
  BY <1>3, RowTypes DEF ReadDates
<1>4. CASE ReadPendingDeposits
  <2>1. PICK date \in datesLeft : /\ datesLeft' = datesLeft \ {date}
                                 /\ dates' = Append(dates, date)
                                 /\ deposits' = Find(Deposits, Open, date, date)
    BY <1>4 DEF ReadPendingDeposits
  <2>2. dates' \in Seq(Int)
    BY <2>1, date \in Int
  <2>3. DOMAIN deposits' \subseteq Deposits
    BY <2>1 DEF Find
  <2>. QED
    BY <1>4, <2>1, <2>2, <2>3 DEF ReadPendingDeposits
<1>5. CASE ReadPendingPayments
  BY <1>5 DEF ReadPendingPayments, Find, NoMatches
<1>6. CASE SkipDate
  BY <1>6 DEF SkipDate
<1>7. ASSUME NEW d \in Deposits, MatchDeposit(d) PROVE TypeOK'
  BY <1>7 DEF MatchDeposit, Aggregate
<1>8. ASSUME NEW d \in Deposits, LeaveDeposit(d) PROVE TypeOK'
  BY <1>8 DEF LeaveDeposit
<1>9. CASE UpdatePayments
  <2>1. status' \in [Ids -> {"ABSENT", "PENDING", "IN_PROGRESS", "MATCH", "EXCEPTION"}]
    BY <1>9 DEF UpdatePayments
  <2>2. cashDepositMatch' \in [Payments -> Deposits \cup {NoDeposit}]
    <3>1. ASSUME NEW p \in Settled
          PROVE  (CHOOSE d \in Deposits : p \in matches[d]) \in Deposits
      BY <3>1 DEF Settled
    <3>. QED
      BY <1>9, <3>1 DEF UpdatePayments
  <2>. QED
    BY <1>9, <2>1, <2>2 DEF UpdatePayments
<1>10. ASSUME NEW d \in Deposits, SaveDeposit(d) PROVE TypeOK'
  <2>1. status' \in [Ids -> {"ABSENT", "PENDING", "IN_PROGRESS", "MATCH", "EXCEPTION"}]
    BY <1>10 DEF SaveDeposit, SetStatus
  <2>. QED
    BY <1>10, <2>1 DEF SaveDeposit
<1>11. CASE ReadPaymentExceptions
  BY <1>11 DEF ReadPaymentExceptions, FindUpTo
<1>12. CASE ReadDepositExceptions
  BY <1>12 DEF ReadDepositExceptions, FindUpTo
<1>13. CASE PaymentExceptions
  BY <1>13, StatusType DEF PaymentExceptions, Statuses
<1>14. ASSUME NEW d \in Deposits, SaveDepositException(d) PROVE TypeOK'
  BY <1>14, StatusType DEF SaveDepositException, Statuses
<1>15. CASE NextDate
  BY <1>15 DEF NextDate, Unread, NoMatches
<1>16. CASE LeaveLocation
  BY <1>16 DEF LeaveLocation
<1>17. CASE FinishRun
  BY <1>17, EndOfRunType DEF FinishRun
<1>18. CASE Crash
  <2>1. crashes' \in 0 .. MaxCrashes
    BY <1>18, CashReconciliationAssumption DEF Crash
  <2>. QED
    BY <1>18, <2>1, EndOfRunType DEF Crash
<1>19. CASE UNCHANGED vars
  BY <1>19 DEF vars
<1>. QED
  BY <1>1, <1>2, <1>3, <1>4, <1>5, <1>6, <1>7, <1>8, <1>9, <1>10, <1>11, <1>12, <1>13,
     <1>14, <1>15, <1>16, <1>17, <1>18, <1>19 DEF Next

\* Rows, arrays and loops keep their shape through runs, crashes and inserts.
THEOREM TypeCorrect == Spec => []TypeOK
BY TypeInit, TypeStep, PTL DEF Spec
-----------------------------------------------------------------------------
LEMMA InvInit == Init => Inv
BY TypeInit DEF Init, Inv, Fresh, OverdueAtHand, Ascending

\* No row leaves the tables.
LEMMA NeverAbsentAgain ==
  TypeOK /\ [Next]_vars => \A x \in Ids : status[x] # "ABSENT" => status'[x] # "ABSENT"
<1>. SUFFICES ASSUME TypeOK, [Next]_vars, NEW x \in Ids, status[x] # "ABSENT"
              PROVE  status'[x] # "ABSENT"
  OBVIOUS
<1>. QED
  BY DEF TypeOK, Next, vars, database, Insert, StartRun, ReadDates, ReadPendingDeposits,
     ReadPendingPayments, SkipDate, MatchDeposit, LeaveDeposit, UpdatePayments, SaveDeposit,
     SetStatus, ReadPaymentExceptions, ReadDepositExceptions, PaymentExceptions,
     SaveDepositException, NextDate, LeaveLocation, FinishRun, Crash, EndOfRun

\* As long as the loops stand still, so does what they define.
LEMMA LoopsStill ==
  ASSUME TypeOK, [Next]_vars, UNCHANGED loops
  PROVE  /\ PreviousDate' = PreviousDate
         /\ \A x : Old(x)' <=> Old(x)
         /\ \A t : DepositDate(t) => DepositDate(t)'
<1>1. PreviousDate' = PreviousDate
  BY DEF PreviousDate, MinDate, loops
<1>. QED
  BY <1>1, NeverAbsentAgain DEF Old, DepositDate, loops, Ids

LEMMA FreshStep == Inv /\ [Next]_vars => Fresh'
<1>. SUFFICES ASSUME Inv, [Next]_vars PROVE Fresh'
  OBVIOUS
<1>. USE RowTypes DEF Inv, TypeOK, Fresh, Open, database, loops, reads
<1>1. ASSUME NEW x \in Ids, Insert(x) PROVE Fresh'
  BY <1>1 DEF Insert, Ids
<1>2. ASSUME NEW date \in Days, StartRun(date) PROVE Fresh'
  BY <1>2 DEF StartRun
<1>3. ASSUME NEW l \in Locations, ReadDates(l) PROVE Fresh'
  BY <1>3 DEF ReadDates
<1>4. CASE ReadPendingDeposits
  BY <1>4 DEF ReadPendingDeposits, Find
<1>5. CASE ReadPendingPayments
  BY <1>5 DEF ReadPendingPayments, Find, NoMatches
<1>6. CASE SkipDate \/ LeaveLocation \/ NextDate
  BY <1>6 DEF SkipDate, LeaveLocation, NextDate
<1>7. ASSUME NEW d \in Deposits, MatchDeposit(d) PROVE Fresh'
  BY <1>7 DEF MatchDeposit, Aggregate
<1>8. ASSUME NEW d \in Deposits, LeaveDeposit(d) PROVE Fresh'
  BY <1>8 DEF LeaveDeposit
<1>9. CASE UpdatePayments
  BY <1>9 DEF UpdatePayments, Settled, Ids
<1>10. ASSUME NEW d \in Deposits, SaveDeposit(d) PROVE Fresh'
  BY <1>10 DEF SaveDeposit, SetStatus, Ids
<1>11. CASE ReadPaymentExceptions
  BY <1>11 DEF ReadPaymentExceptions, FindUpTo
<1>12. CASE ReadDepositExceptions
  BY <1>12 DEF ReadDepositExceptions, FindUpTo
<1>13. CASE PaymentExceptions
  <2>1. \A d \in DOMAIN deposits : status'[d] = status[d]
    BY <1>13 DEF PaymentExceptions, SetStatus, Ids
  <2>. QED
    BY <1>13, <2>1 DEF PaymentExceptions
<1>14. ASSUME NEW d \in Deposits, SaveDepositException(d) PROVE Fresh'
  <2>1. \A e \in todo' : status'[e] = status[e]
    BY <1>14 DEF SaveDepositException, SetStatus, Ids
  <2>. QED
    BY <1>14, <2>1 DEF SaveDepositException
<1>15. CASE FinishRun \/ Crash
  BY <1>15 DEF FinishRun, Crash, EndOfRun
<1>16. CASE UNCHANGED vars
  BY <1>16 DEF vars
<1>. QED
  BY <1>1, <1>2, <1>3, <1>4, <1>5, <1>6, <1>7, <1>8, <1>9, <1>10, <1>11, <1>12, <1>13,
     <1>14, <1>15, <1>16 DEF Next

\* setExceptions has saved what it read of the payments: its deposits are all
\* that is still overdue.
LEMMA OverdueDepositsLeft == Inv /\ [Next]_vars /\ PaymentExceptions => OverdueAtHand'
<1>. SUFFICES ASSUME Inv, [Next]_vars, PaymentExceptions PROVE OverdueAtHand'
  OBVIOUS
<1>1. \A x \in Ids : status'[x] = IF x \in DOMAIN payments THEN "EXCEPTION" ELSE status[x]
  BY DEF PaymentExceptions, SetStatus
<1>2. pc = "paymentExceptions" /\ pc' = "depositExceptions" /\ todo' = DOMAIN deposits
  BY DEF PaymentExceptions
<1>3. \A x : Old(x)' <=> Old(x)
  BY LoopsStill DEF PaymentExceptions, Inv
<1>4. \A d \in todo' : Old(d)'
  BY <1>2, <1>3 DEF Inv, OverdueAtHand
<1>5. ASSUME NEW x \in Ids, Overdue(x)' PROVE x \in todo'
  <2>1. x \notin DOMAIN payments /\ Overdue(x)
    BY <1>1, <1>3, <1>5 DEF Overdue
  <2>. QED
    BY <1>2, <2>1 DEF Inv, OverdueAtHand, Ids
<1>. QED
  BY <1>2, <1>4, <1>5 DEF OverdueAtHand

LEMMA OverdueStep == Inv /\ [Next]_vars => OverdueAtHand'
<1>. SUFFICES ASSUME Inv, [Next]_vars PROVE OverdueAtHand'
  OBVIOUS
<1>. USE RowTypes, LoopsStill DEF Inv, TypeOK, OverdueAtHand, Overdue, database, loops, reads
<1>1. ASSUME NEW x \in Ids, Insert(x) PROVE OverdueAtHand'
  BY <1>1 DEF Insert, Ids
<1>2. CASE \/ \E date \in Days : StartRun(date)
           \/ \E l \in Locations : ReadDates(l)
           \/ ReadPendingDeposits \/ ReadPendingPayments \/ SkipDate
           \/ \E d \in Deposits : MatchDeposit(d) \/ LeaveDeposit(d)
           \/ UpdatePayments
           \/ LeaveLocation \/ FinishRun \/ Crash
  BY <1>2 DEF StartRun, ReadDates, ReadPendingDeposits, ReadPendingPayments, SkipDate,
     MatchDeposit, LeaveDeposit, UpdatePayments, LeaveLocation, FinishRun, Crash, EndOfRun
<1>3. ASSUME NEW d \in Deposits, SaveDeposit(d) PROVE OverdueAtHand'
  BY <1>3 DEF SaveDeposit
<1>4. CASE ReadPaymentExceptions
  BY <1>4 DEF ReadPaymentExceptions, FindUpTo, Old, Ids
<1>5. CASE ReadDepositExceptions
  BY <1>5 DEF ReadDepositExceptions, FindUpTo, Old, Ids
<1>6. CASE PaymentExceptions
  BY <1>6, OverdueDepositsLeft
<1>7. ASSUME NEW d \in Deposits, SaveDepositException(d) PROVE OverdueAtHand'
  <2>1. status'[d] # "IN_PROGRESS" /\ \A x \in Ids : x # d => status'[x] = status[x]
    BY <1>7 DEF SaveDepositException, SetStatus, Ids
  <2>. QED
    BY <1>7, <2>1 DEF SaveDepositException
<1>8. CASE NextDate
  BY <1>8 DEF NextDate
<1>9. CASE UNCHANGED vars
  BY <1>9 DEF vars
<1>. QED
  BY <1>1, <1>2, <1>3, <1>4, <1>5, <1>6, <1>7, <1>8, <1>9 DEF Next

LEMMA AscendingStep == Inv /\ [Next]_vars => Ascending'
<1>. SUFFICES ASSUME Inv, [Next]_vars PROVE Ascending'
  OBVIOUS
<1>. USE RowTypes DEF Inv, TypeOK, Ascending
<1>1. ASSUME NEW date \in Days, StartRun(date) PROVE Ascending'
  <2>1. datesLeft' = {} /\ dates' = <<>> /\ pc' # "idle"
    BY <1>1 DEF StartRun
  <2>. QED
    BY <2>1
<1>2. ASSUME NEW l \in Locations, ReadDates(l) PROVE Ascending'
  BY <1>2 DEF ReadDates, DepositDate, database
<1>3. CASE ReadPendingDeposits
  <2>1. PICK date \in datesLeft : /\ \A later \in datesLeft : date <= later
                                  /\ datesLeft' = datesLeft \ {date}
                                  /\ dates' = Append(dates, date)
    BY <1>3 DEF ReadPendingDeposits
  <2>2. \A t : DepositDate(t) => DepositDate(t)'
    BY <1>3 DEF ReadPendingDeposits, DepositDate, database
  <2>3. /\ Len(dates') = Len(dates) + 1 /\ Len(dates) \in Nat
        /\ dates'[Len(dates) + 1] = date
        /\ \A i \in 1 .. Len(dates) : dates'[i] = dates[i]
    BY <2>1
  <2>4. \A t \in datesLeft' : date < t /\ t \in datesLeft
    BY <2>1
  <2>5. ASSUME NEW i \in 1 .. Len(dates')
        PROVE  /\ DepositDate(dates[i])'
               /\ \A t \in datesLeft' : dates'[i] < t
               /\ \A j \in 1 .. Len(dates') : i < j => dates'[i] < dates'[j]
    <3>1. CASE i = Len(dates) + 1
      <4>1. dates'[i] = date /\ DepositDate(date)
        BY <2>3, <3>1
      <4>. QED
        BY <2>2, <2>3, <2>4, <3>1, <4>1
    <3>2. CASE i \in 1 .. Len(dates)
      BY <2>1, <2>2, <2>3, <2>4, <3>2
    <3>. QED
      BY <2>3, <3>1, <3>2
  <2>. QED
    BY <1>3, <2>2, <2>4, <2>5 DEF ReadPendingDeposits
<1>4. CASE FinishRun \/ Crash
  BY <1>4 DEF FinishRun, Crash, EndOfRun
<1>5. CASE UNCHANGED loops /\ (pc' = "idle" => pc = "idle")
  BY <1>5, LoopsStill DEF loops
<1>6. CASE UNCHANGED vars
  BY <1>6, LoopsStill DEF vars, loops
<1>. QED
  BY <1>1, <1>2, <1>3, <1>4, <1>5, <1>6 DEF Next, Insert, ReadPendingPayments, SkipDate,
     MatchDeposit, LeaveDeposit, UpdatePayments, SaveDeposit, ReadPaymentExceptions,
     ReadDepositExceptions, PaymentExceptions, SaveDepositException, NextDate,
     LeaveLocation

LEMMA Invariance == Spec => []Inv
<1>1. Inv /\ [Next]_vars => Inv'
  BY TypeStep, FreshStep, OverdueStep, AscendingStep DEF Inv
<1>. QED
  BY InvInit, <1>1, PTL DEF Spec

\* When the dates of a location are through, no row of it as old as the last
\* date but two is IN_PROGRESS, after any crashes before.
THEOREM ExceptionsAreComplete == Spec => []NoOverdueInProgress
<1>1. Inv => NoOverdueInProgress
  BY DEF Inv, OverdueAtHand, Overdue, Old, NoOverdueInProgress
<1>. QED
  BY <1>1, Invariance, PTL
-----------------------------------------------------------------------------
LEMMA ForwardStep == Inv /\ [Next]_vars => [StatusLifecycle!Save]_status
<1>. SUFFICES ASSUME Inv, [Next]_vars, status' # status PROVE StatusLifecycle!Save
  OBVIOUS
<1>. USE DEF StatusLifecycle!Save, StatusLifecycle!Statuses, StatusLifecycle!Moves,
       Inv, TypeOK, Fresh, Open
<1>1. ASSUME NEW x \in Ids, Insert(x) PROVE StatusLifecycle!Save
  BY <1>1 DEF Insert
<1>2. CASE UpdatePayments
  BY <1>2, RowTypes DEF UpdatePayments, Settled, Ids
<1>3. ASSUME NEW d \in Deposits, SaveDeposit(d) PROVE StatusLifecycle!Save
  BY <1>3 DEF SaveDeposit, SetStatus, Ids
<1>4. CASE PaymentExceptions
  BY <1>4 DEF PaymentExceptions, SetStatus, Ids
<1>5. ASSUME NEW d \in Deposits, SaveDepositException(d) PROVE StatusLifecycle!Save
  BY <1>5 DEF SaveDepositException, SetStatus, Ids
<1>. QED
  BY <1>1, <1>2, <1>3, <1>4, <1>5 DEF Next, vars, database, StartRun, ReadDates,
     ReadPendingDeposits, ReadPendingPayments, SkipDate, MatchDeposit, LeaveDeposit,
     ReadPaymentExceptions, ReadDepositExceptions, NextDate, LeaveLocation, FinishRun,
     Crash, EndOfRun

\* The cash half implements the abstract life cycle of a row as well: no
\* status is taken back, whatever part of a Promise.all a crash lets through.
THEOREM ImplementsLifecycle == Spec => ForwardOnly
<1>1. Init => StatusLifecycle!Init
  BY DEF Init, StatusLifecycle!Init
<1>. QED
  BY <1>1, ForwardStep, Invariance, PTL DEF Spec, ForwardOnly, StatusLifecycle!Spec

\* Only open payments are linked.
LEMMA LinkStays ==
  ASSUME Inv, [Next]_vars, NEW p \in Payments, status[p] = "MATCH"
  PROVE  cashDepositMatch'[p] = cashDepositMatch[p]
<1>1. CASE UpdatePayments
  <2>1. p \notin Settled
    BY <1>1 DEF UpdatePayments, Inv, Fresh, Settled, Open
  <2>. QED
    BY <1>1, <2>1 DEF UpdatePayments
<1>2. CASE ~UpdatePayments
  BY <1>2 DEF Next, vars, database, Insert, StartRun, ReadDates,
     ReadPendingDeposits, ReadPendingPayments, SkipDate, MatchDeposit, LeaveDeposit,
     SaveDeposit, ReadPaymentExceptions, ReadDepositExceptions, PaymentExceptions,
     SaveDepositException, NextDate, LeaveLocation, FinishRun, Crash, EndOfRun
<1>. QED
  BY <1>1, <1>2

\* A matched cash payment keeps its deposit, whatever runs follow.
THEOREM MatchesAreFinal == Spec => MatchIsFinal
<1>1. Inv /\ [Next]_vars =>
        [\A p \in Payments : status[p] = "MATCH" =>
           cashDepositMatch'[p] = cashDepositMatch[p]]_vars
  BY LinkStays
<1>. QED
  BY <1>1, Invariance, PTL DEF Spec, MatchIsFinal
-----------------------------------------------------------------------------
\* Two deposit dates after a row's own suffice for two later dates.
LEMMA TwoLaterDates ==
  ASSUME Inv, NEW x \in Ids, LocationOf[x] = location, DateOf(x) <= PreviousDate,
         ~(DateOf(x) <= MinDate)
  PROVE  Cardinality(LaterDates(x)) >= 2
<1>. DEFINE n == Len(dates)
<1>1. n \in Nat /\ n > 2 /\ DateOf(x) <= dates[n - 2] /\ DateOf(x) \in Int
  BY RowTypes DEF PreviousDate, Inv, TypeOK
<1>2. /\ n - 2 \in 1 .. n /\ n - 1 \in 1 .. n /\ n \in 1 .. n
      /\ dates[n - 2] \in Int /\ dates[n - 1] \in Int /\ dates[n] \in Int
  BY <1>1 DEF Inv, TypeOK
<1>3. dates[n - 2] < dates[n - 1] /\ dates[n - 1] < dates[n]
  BY <1>1, <1>2 DEF Inv, Ascending
<1>4. DepositDate(dates[n - 1]) /\ DepositDate(dates[n])
  BY <1>2 DEF Inv, Ascending
<1>5. \A t \in Int : DepositDate(t) /\ DateOf(x) < t => t \in LaterDates(x)
  BY RowTypes DEF DepositDate, LaterDates
<1>6. {dates[n - 1], dates[n]} \subseteq LaterDates(x)
  BY <1>1, <1>2, <1>3, <1>4, <1>5
<1>7. IsFiniteSet(LaterDates(x))
  <2>. DEFINE S == {e \in Deposits : /\ status[e] # "ABSENT" /\ LocationOf[e] = LocationOf[x]
                                     /\ DateOf(x) < DateOf(e) /\ DateOf(e) <= maxDate}
  <2>1. IsFiniteSet(S)
    BY CashReconciliationAssumption, FS_Subset
  <2>. DEFINE date == [e \in S |-> DepositRow[e].date]
  <2>2. date \in Surjection(S, LaterDates(x))
    BY DEF Surjection, LaterDates
  <2>. QED
    BY <2>1, <2>2, FS_Surjection
<1>8. Cardinality({dates[n - 1], dates[n]}) = 2
  <2>1. {dates[n - 1], dates[n]} = {dates[n - 1]} \cup {dates[n]}
        /\ dates[n] \notin {dates[n - 1]}
    BY <1>2, <1>3
  <2>2. IsFiniteSet({dates[n - 1]}) /\ Cardinality({dates[n - 1]}) = 1
    BY FS_Singleton
  <2>3. Cardinality({dates[n - 1]} \cup {dates[n]}) = Cardinality({dates[n - 1]}) + 1
    BY <2>1, <2>2, FS_AddElement, Zenon
  <2>4. Cardinality({dates[n - 1]}) + 1 = 2
    BY <2>2
  <2>. QED
    BY <2>1, <2>3, <2>4, Zenon
<1>9. /\ Cardinality({dates[n - 1], dates[n]}) <= Cardinality(LaterDates(x))
      /\ Cardinality(LaterDates(x)) \in Nat
  BY <1>6, <1>7, FS_Subset, FS_CardinalityType
<1>. QED
  BY <1>8, <1>9

\* Whatever dates the tables hold and whenever deposits arrive, a cash row has
\* two later deposit dates, or thirty days, before it becomes an EXCEPTION.
THEOREM GraceIsGiven == Spec => TwoDatesOfGrace
<1>1. ASSUME Inv, [Next]_vars, NEW x \in Ids,
             status[x] # "EXCEPTION", status'[x] = "EXCEPTION"
      PROVE  DateOf(x) <= MinDate \/ Cardinality(LaterDates(x)) >= 2
  <2>1. LocationOf[x] = location /\ DateOf(x) <= PreviousDate
    <3>1. CASE PaymentExceptions
      BY <1>1, <3>1 DEF PaymentExceptions, SetStatus, Inv, TypeOK, OverdueAtHand, Old
    <3>2. CASE \E d \in Deposits : SaveDepositException(d)
      BY <1>1, <3>2 DEF SaveDepositException, SetStatus, Inv, TypeOK, OverdueAtHand, Old
    <3>. QED
      BY <1>1, <3>1, <3>2 DEF Next, vars, database, Inv, TypeOK, Insert, StartRun, ReadDates,
         ReadPendingDeposits, ReadPendingPayments, SkipDate, MatchDeposit, LeaveDeposit,
         UpdatePayments, SaveDeposit, SetStatus, ReadPaymentExceptions,
         ReadDepositExceptions, NextDate, LeaveLocation, FinishRun, Crash, EndOfRun
  <2>. QED
    BY <1>1, <2>1, TwoLaterDates
<1>2. Inv /\ [Next]_vars =>
        [\A x \in Ids : status[x] # "EXCEPTION" /\ status'[x] = "EXCEPTION" =>
           DateOf(x) <= MinDate \/ Cardinality(LaterDates(x)) >= 2]_vars
  BY <1>1
<1>. QED
  BY <1>2, Invariance, PTL DEF Spec, TwoDatesOfGrace
-----------------------------------------------------------------------------
\* While a date is matched, the deposits that were visited have no candidate.
NoneLeft ==
  pc = "matching" /\ ~NothingToMatch =>
    \A d \in DOMAIN deposits : d \notin todo => Candidates(d) = {}

\* As more is settled, no deposit gains a candidate.
LEMMA CandidatesShrink ==
  ASSUME UNCHANGED payments, Settled \subseteq Settled', NEW d,
         matches'[d] = {} => matches[d] = {}
  PROVE  Candidates(d)' \subseteq Candidates(d)
<1>1. Aggregates' = Aggregates
  BY DEF Aggregates
<1>2. \A k : Aggregate(k)' = Aggregate(k)
  BY DEF Aggregate
<1>3. \A k : Amount(k)' = Amount(k)
  BY <1>2 DEF Amount
<1>. QED
  BY <1>1, <1>2, <1>3 DEF Candidates, CheckMatch

\* A deposit that takes an aggregate takes payments that none has taken.
LEMMA Matched ==
  ASSUME Inv, NEW d \in Deposits, MatchDeposit(d)
  PROVE  /\ matches[d] = {} /\ matches'[d] # {} /\ matches'[d] \cap Settled = {}
         /\ \A e \in Deposits : e # d => matches'[e] = matches[e]
         /\ \E k \in Aggregates : matches'[d] = Aggregate(k) /\ Amount(k) = DepositRow[d].amount
<1>1. PICK k \in Earliest(Candidates(d)) : matches' = [matches EXCEPT ![d] = Aggregate(k)]
  BY DEF MatchDeposit
<1>2. k \in Aggregates /\ CheckMatch(k, d)
  BY DEF Earliest, Candidates
<1>3. Aggregate(k) # {}
  BY <1>2 DEF Aggregates, Aggregate
<1>. QED
  BY <1>1, <1>2, <1>3 DEF CheckMatch, Inv, TypeOK

LEMMA NoneLeftStep == Inv /\ NoneLeft /\ [Next]_vars => NoneLeft'
<1>. SUFFICES ASSUME Inv, NoneLeft, [Next]_vars, pc' = "matching", ~NothingToMatch'
              PROVE  \A d \in DOMAIN deposits' : d \notin todo' => Candidates(d)' = {}
  BY DEF NoneLeft
<1>1. ASSUME NEW d \in Deposits, MatchDeposit(d), NEW e \in DOMAIN deposits', e \notin todo'
      PROVE  Candidates(e)' = {}
  <2>1. e \in Deposits /\ UNCHANGED reads /\ (e # d => Candidates(e) = {})
    BY <1>1 DEF MatchDeposit, NoneLeft, Inv, TypeOK, reads
  <2>2. CASE e = d
    BY <1>1, <2>2, Matched DEF Candidates, CheckMatch
  <2>3. CASE e # d
    <3>1. \A c \in Deposits : matches[c] \subseteq matches'[c]
      BY <1>1, Matched
    <3>2. Settled \subseteq Settled'
      BY <3>1 DEF Settled
    <3>3. matches'[e] = matches[e]
      BY <1>1, <2>1, <2>3, Matched
    <3>. QED
      BY <2>1, <2>3, <3>2, <3>3, CandidatesShrink DEF reads
  <2>. QED
    BY <2>2, <2>3
<1>2. ASSUME NEW d \in Deposits, LeaveDeposit(d), NEW e \in DOMAIN deposits', e \notin todo'
      PROVE  Candidates(e)' = {}
  <2>1. /\ UNCHANGED <<reads, matches>> /\ todo' = todo \ {d}
        /\ Candidates(d) = {} /\ ~NothingToMatch /\ pc = "matching"
    BY <1>2 DEF LeaveDeposit
  <2>2. Candidates(e) = {}
    BY <1>2, <2>1 DEF NoneLeft, reads
  <2>3. Settled' = Settled
    BY <2>1 DEF Settled
  <2>. QED
    BY <2>1, <2>2, <2>3, CandidatesShrink DEF reads
<1>3. CASE ReadPendingPayments
  BY <1>3 DEF ReadPendingPayments
<1>4. ASSUME UNCHANGED <<pc, reads, matches, todo>>, NEW e \in DOMAIN deposits', e \notin todo'
      PROVE  Candidates(e)' = {}
  <2>1. Candidates(e) = {}
    BY <1>4 DEF NoneLeft, NothingToMatch, reads
  <2>2. Settled' = Settled
    BY <1>4 DEF Settled
  <2>. QED
    BY <1>4, <2>1, <2>2, CandidatesShrink DEF reads
<1>5. \/ \E d \in Deposits : MatchDeposit(d) \/ LeaveDeposit(d)
      \/ ReadPendingPayments
      \/ UNCHANGED <<pc, reads, matches, todo>>
  BY DEF Next, vars, Insert, StartRun, ReadDates, ReadPendingDeposits, SkipDate, UpdatePayments,
     SaveDeposit, ReadPaymentExceptions, ReadDepositExceptions, PaymentExceptions,
     SaveDepositException, NextDate, LeaveLocation, FinishRun, Crash, EndOfRun, Inv, TypeOK
<1>. QED
  BY <1>1, <1>2, <1>3, <1>4, <1>5

\* First fit misses nothing, whatever aggregates and deposits compete.
THEOREM MatchingIsMaximal == Spec => []NothingLeftToMatch
<1>1. Init => NoneLeft
  BY DEF Init, NoneLeft
<1>2. NoneLeft => NothingLeftToMatch
  BY DEF NoneLeft, NothingLeftToMatch
<1>. QED
  BY <1>1, <1>2, NoneLeftStep, Invariance, PTL DEF Spec
-----------------------------------------------------------------------------
\* Deposits are matched with whole aggregates of their location, none after
\* their date, and no two share a payment.
WellMatched ==
  /\ pc \in {"readPayments", "matching"} => \A d \in DOMAIN deposits :
       dates # <<>> /\ LocationOf[d] = location /\ DepositRow[d].date = CurrentDate
  /\ pc = "matching" =>
       /\ \A p \in DOMAIN payments : LocationOf[p] = location /\ PaymentRow[p].date <= CurrentDate
       /\ \A d, e \in Deposits : d # e => matches[d] \cap matches[e] = {}
       /\ \A d \in Deposits : matches[d] # {} =>
            /\ d \in DOMAIN deposits
            /\ \E k \in Aggregates : matches[d] = Aggregate(k) /\ Amount(k) = DepositRow[d].amount

LEMMA WellMatchedStep == Inv /\ WellMatched /\ [Next]_vars => WellMatched'
<1>. SUFFICES ASSUME Inv, WellMatched, [Next]_vars PROVE WellMatched'
  OBVIOUS
<1>. USE DEF WellMatched
<1>1. CASE ReadPendingDeposits
  <2>1. PICK date \in datesLeft : dates' = Append(dates, date) /\ deposits' = Find(Deposits, Open, date, date)
    BY <1>1 DEF ReadPendingDeposits
  <2>2. dates' # <<>> /\ CurrentDate' = date /\ date \in Int
    BY <2>1 DEF CurrentDate, Inv, TypeOK
  <2>3. \A d \in DOMAIN deposits' : LocationOf[d] = location /\ DepositRow[d].date = date
    BY <2>1, <2>2, RowTypes DEF Find, Ids
  <2>. QED
    BY <1>1, <2>2, <2>3 DEF ReadPendingDeposits
<1>2. CASE ReadPendingPayments
  <2>1. \A p \in DOMAIN payments' : LocationOf[p] = location /\ PaymentRow[p].date <= CurrentDate
    BY <1>2 DEF ReadPendingPayments, Find, DateOf
  <2>. QED
    BY <1>2, <2>1 DEF ReadPendingPayments, NoMatches, CurrentDate, loops
<1>3. ASSUME NEW d \in Deposits, MatchDeposit(d) PROVE WellMatched'
  <2>1. UNCHANGED <<pc, loops, reads>> /\ pc = "matching" /\ d \in DOMAIN deposits
    BY <1>3 DEF MatchDeposit, Largest, Inv, Fresh
  <2>2. CurrentDate' = CurrentDate /\ Aggregates' = Aggregates /\ (\A k : Aggregate(k)' = Aggregate(k))
    BY <2>1 DEF CurrentDate, Aggregates, Aggregate, loops, reads
  <2>3. \A k : Amount(k)' = Amount(k)
    BY <2>2 DEF Amount
  <2>4. \A e \in Deposits : e # d => matches'[e] \cap matches'[d] = {}
    BY <1>3, Matched DEF Settled
  <2>5. \A e, f \in Deposits : e # f => matches'[e] \cap matches'[f] = {}
    BY <1>3, <2>1, <2>4, Matched
  <2>6. ASSUME NEW e \in Deposits, matches'[e] # {}
        PROVE  /\ e \in DOMAIN deposits
               /\ \E k \in Aggregates : matches'[e] = Aggregate(k) /\ Amount(k) = DepositRow[e].amount
    BY <1>3, <2>1, <2>6, Matched
  <2>. QED
    BY <2>1, <2>2, <2>3, <2>5, <2>6 DEF loops, reads
<1>4. CASE UNCHANGED <<pc, loops, reads, matches>>
  <2>1. CurrentDate' = CurrentDate /\ Aggregates' = Aggregates /\ (\A k : Aggregate(k)' = Aggregate(k))
    BY <1>4 DEF CurrentDate, Aggregates, Aggregate, loops, reads
  <2>2. \A k : Amount(k)' = Amount(k)
    BY <2>1 DEF Amount
  <2>. QED
    BY <1>4, <2>1, <2>2 DEF loops, reads
<1>5. \/ ReadPendingDeposits \/ ReadPendingPayments
      \/ \E d \in Deposits : MatchDeposit(d)
      \/ UNCHANGED <<pc, loops, reads, matches>>
      \/ pc' \notin {"readPayments", "matching"}
  BY DEF Next, vars, Insert, StartRun, ReadDates, SkipDate, LeaveDeposit, UpdatePayments, SaveDeposit,
     ReadPaymentExceptions, ReadDepositExceptions, PaymentExceptions, SaveDepositException,
     NextDate, LeaveLocation, FinishRun, Crash, EndOfRun
<1>. QED
  BY <1>1, <1>2, <1>3, <1>4, <1>5

LEMMA WellMatchedAlways == Spec => []WellMatched
<1>1. Init => WellMatched
  BY DEF Init, WellMatched
<1>. QED
  BY <1>1, WellMatchedStep, Invariance, PTL DEF Spec

\* updatePayments links a payment to the deposit that took it, and no other.
LEMMA Linked ==
  ASSUME Inv, WellMatched, UpdatePayments, NEW d \in Deposits, NEW p \in Payments
  PROVE  /\ p \in Settled => status'[p] = "MATCH" /\ (cashDepositMatch'[p] = d <=> p \in matches[d])
         /\ p \notin Settled => p \notin matches[d] /\ cashDepositMatch'[p] = cashDepositMatch[p]
<1>1. CASE p \in Settled
  <2>1. PICK e \in Deposits : p \in matches[e]
    BY <1>1 DEF Settled
  <2>2. \A c \in Deposits : p \in matches[c] => c = e
    BY <2>1 DEF WellMatched, UpdatePayments
  <2>3. cashDepositMatch'[p] = CHOOSE c \in Deposits : p \in matches[c]
    BY <1>1 DEF UpdatePayments
  <2>4. cashDepositMatch'[p] = e
    BY <2>1, <2>2, <2>3
  <2>. QED
    BY <1>1, <2>1, <2>2, <2>4 DEF UpdatePayments, Ids
<1>2. CASE p \notin Settled
  BY <1>2 DEF UpdatePayments, Settled
<1>. QED
  BY <1>1, <1>2

\* What is MATCH stays so, and a deposit becomes it only when it is saved.
LEMMA MatchStays ==
  ASSUME Inv, [Next]_vars, NEW x \in Ids
  PROVE  /\ status[x] = "MATCH" => status'[x] = "MATCH"
         /\ x \in Deposits /\ status'[x] = "MATCH" /\ status[x] # "MATCH" =>
              SaveDeposit(x) /\ matches[x] # {}
<1>1. status[x] = "MATCH" => status'[x] = "MATCH"
  BY ForwardStep DEF StatusLifecycle!Save, StatusLifecycle!Moves, Inv, TypeOK
<1>2. ASSUME x \in Deposits, status'[x] = "MATCH", status[x] # "MATCH"
      PROVE  SaveDeposit(x) /\ matches[x] # {}
  <2>1. ASSUME NEW d \in Deposits, SaveDeposit(d) PROVE d = x /\ matches[x] # {}
    BY <1>2, <2>1 DEF SaveDeposit, SetStatus, Ids
  <2>2. ~UpdatePayments
    BY <1>2, RowTypes DEF UpdatePayments, Settled, Inv, TypeOK, Ids
  <2>3. ~PaymentExceptions /\ ~\E d \in Deposits : SaveDepositException(d)
    BY <1>2 DEF PaymentExceptions, SaveDepositException, SetStatus, Ids
  <2>4. ~\E y \in Ids : Insert(y)
    BY <1>2 DEF Insert, Inv, TypeOK
  <2>. QED
    BY <1>2, <2>1, <2>2, <2>3, <2>4 DEF Next, vars, database, StartRun, ReadDates,
       ReadPendingDeposits, ReadPendingPayments, SkipDate, MatchDeposit, LeaveDeposit,
       ReadPaymentExceptions, ReadDepositExceptions, NextDate, LeaveLocation, FinishRun,
       Crash, EndOfRun
<1>. QED
  BY <1>1, <1>2
-----------------------------------------------------------------------------
HasPayment(d) == \E p \in Payments : status[p] = "MATCH" /\ cashDepositMatch[p] = d

\* A deposit that is matched, or about to be saved as it, has payments.
PaidBefore ==
  \A d \in Deposits :
    status[d] = "MATCH" \/ (pc = "saveDeposits" /\ d \in todo /\ matches[d] # {}) => HasPayment(d)

LEMMA PaidBeforeStep == Inv /\ WellMatched /\ PaidBefore /\ [Next]_vars => PaidBefore'
<1>. SUFFICES ASSUME Inv, WellMatched, PaidBefore, [Next]_vars, NEW d \in Deposits,
                     \/ status'[d] = "MATCH"
                     \/ pc' = "saveDeposits" /\ d \in todo' /\ matches'[d] # {}
              PROVE  HasPayment(d)'
  BY DEF PaidBefore
<1>1. HasPayment(d) => HasPayment(d)'
  <2>. SUFFICES ASSUME NEW p \in Payments, status[p] = "MATCH", cashDepositMatch[p] = d
                PROVE  HasPayment(d)'
    BY DEF HasPayment
  <2>. QED
    BY MatchStays, LinkStays DEF HasPayment, Ids
<1>2. CASE status'[d] = "MATCH"
  <2>1. status[d] = "MATCH" \/ (SaveDeposit(d) /\ matches[d] # {})
    BY <1>2, MatchStays DEF Ids
  <2>. QED
    BY <1>1, <2>1 DEF PaidBefore, SaveDeposit
<1>3. CASE pc' = "saveDeposits" /\ d \in todo' /\ matches'[d] # {}
  <2>1. CASE UpdatePayments
    <3>1. PICK p \in Payments : p \in matches[d]
      BY <1>3, <2>1 DEF UpdatePayments, Inv, TypeOK
    <3>2. p \in Settled
      BY <3>1 DEF Settled
    <3>. QED
      BY <2>1, <3>1, <3>2, Linked DEF HasPayment
  <2>2. CASE pc = "saveDeposits" /\ d \in todo /\ matches[d] # {}
    BY <1>1, <2>2 DEF PaidBefore
  <2>. QED
    BY <1>3, <2>1, <2>2 DEF Next, vars, Insert, StartRun, ReadDates, ReadPendingDeposits,
       ReadPendingPayments, SkipDate, MatchDeposit, LeaveDeposit, SaveDeposit,
       ReadPaymentExceptions, ReadDepositExceptions, PaymentExceptions, SaveDepositException,
       NextDate, LeaveLocation, FinishRun, Crash, EndOfRun
<1>. QED
  BY <1>2, <1>3

\* A cash deposit is MATCH only if a MATCH payment refers to it, wherever runs
\* are killed.
THEOREM MatchedDepositsArePaid == Spec => []DepositHasItsPayments
<1>1. Init => PaidBefore
  BY DEF Init, PaidBefore, Ids
<1>2. PaidBefore => DepositHasItsPayments
  BY DEF PaidBefore, HasPayment, DepositHasItsPayments
<1>. QED
  BY <1>1, <1>2, PaidBeforeStep, WellMatchedAlways, Invariance, PTL DEF Spec
-----------------------------------------------------------------------------
Refs(d) == {p \in Payments : cashDepositMatch[p] = d}

\* The payments that refer to a deposit are its own, of one date, and matched.
Agrees(d) ==
  /\ Refs(d) # {} => Total(Refs(d)) = DepositRow[d].amount
  /\ \A p, q \in Refs(d) :
       /\ status[p] = "MATCH" /\ LocationOf[p] = LocationOf[d]
       /\ PaymentRow[p].date = PaymentRow[q].date
       /\ PaymentRow[p].date <= DepositRow[d].date

\* Unless a run was killed: a deposit is referred to when it is MATCH, or will
\* be saved as it next.
Books ==
  crashes = 0 => \A d \in Deposits :
    /\ Agrees(d)
    /\ status[d] = "MATCH" => Refs(d) # {}
    /\ Refs(d) # {} => status[d] = "MATCH" \/ (pc = "saveDeposits" /\ d \in todo)
    /\ pc = "saveDeposits" /\ d \in todo => (matches[d] # {} <=> Refs(d) # {})

\* As long as the links stand still, what agrees goes on to agree.
LEMMA AgreesStill ==
  ASSUME Inv, [Next]_vars, UNCHANGED cashDepositMatch, NEW d \in Deposits, Agrees(d)
  PROVE  Refs(d)' = Refs(d) /\ Agrees(d)'
<1>1. Refs(d)' = Refs(d) /\ Refs(d) \subseteq Ids
  BY DEF Refs, Ids
<1>. QED
  BY <1>1, MatchStays DEF Agrees

LEMMA BooksOfUpdate ==
  ASSUME Inv, WellMatched, Books, UpdatePayments, crashes = 0, NEW d \in Deposits
  PROVE  /\ Agrees(d)' /\ (status'[d] = "MATCH" => Refs(d)' # {})
         /\ matches[d] # {} => d \in DOMAIN deposits
         /\ Refs(d)' # {} <=> status'[d] = "MATCH" \/ matches[d] # {}
<1>1. pc = "matching" /\ status'[d] = status[d] /\ d \notin Settled
  BY RowTypes DEF UpdatePayments, Settled, Inv, TypeOK, Ids
<1>2. \A p \in Refs(d) : status[p] = "MATCH" /\ p \notin Settled
  BY <1>1 DEF Books, Agrees, Settled, Inv, Fresh, Open
<1>3. Refs(d)' = Refs(d) \cup matches[d]
  <2>1. \A p \in Payments : p \in Refs(d)' <=> p \in Refs(d) \/ p \in matches[d]
    BY <1>2, Linked DEF Refs
  <2>. QED
    BY <2>1 DEF Refs, Inv, TypeOK
<1>4. CASE matches[d] = {}
  <2>1. Refs(d)' = Refs(d)
    BY <1>3, <1>4
  <2>2. \A p \in Refs(d) : p \in Ids /\ status'[p] = "MATCH"
    BY <1>2 DEF UpdatePayments, Refs, Ids, Inv, Fresh, Open
  <2>3. Agrees(d)'
    BY <2>1, <2>2 DEF Books, Agrees
  <2>. QED
    BY <1>1, <1>4, <2>1, <2>3 DEF Books
<1>5. CASE matches[d] # {}
  <2>1. PICK k \in Aggregates : matches[d] = Aggregate(k) /\ Amount(k) = DepositRow[d].amount
    BY <1>1, <1>5 DEF WellMatched
  <2>2. d \in DOMAIN deposits /\ status[d] # "MATCH"
    BY <1>1, <1>5 DEF WellMatched, Inv, Fresh, Open
  <2>3. Refs(d) = {}
    BY <1>1, <2>2 DEF Books
  <2>4. Refs(d)' = matches[d] /\ Total(matches[d]) = DepositRow[d].amount
    BY <1>3, <2>1, <2>3 DEF Amount
  <2>5. ASSUME NEW p \in matches[d]
        PROVE  /\ p \in Payments /\ status'[p] = "MATCH" /\ LocationOf[p] = LocationOf[d]
               /\ PaymentRow[p].date = k[1] /\ PaymentRow[p].date <= DepositRow[d].date
    <3>1. p \in DOMAIN payments /\ PaymentRow[p].date = k[1]
      BY <2>1 DEF Aggregate
    <3>2. p \in Payments /\ p \in Settled
      BY <3>1 DEF Settled, Inv, TypeOK
    <3>3. status'[p] = "MATCH"
      BY <3>2, Linked
    <3>. QED
      BY <1>1, <2>2, <3>1, <3>2, <3>3 DEF WellMatched
  <2>6. Agrees(d)'
    BY <2>4, <2>5 DEF Agrees
  <2>. QED
    BY <1>5, <2>2, <2>4, <2>6
<1>. QED
  BY <1>4, <1>5

LEMMA BooksStep == Inv /\ WellMatched /\ Books /\ [Next]_vars => Books'
<1>. SUFFICES ASSUME Inv, WellMatched, Books, [Next]_vars, crashes' = 0, NEW d \in Deposits
              PROVE  /\ Agrees(d)'
                     /\ status'[d] = "MATCH" => Refs(d)' # {}
                     /\ Refs(d)' # {} => status'[d] = "MATCH" \/ (pc' = "saveDeposits" /\ d \in todo')
                     /\ pc' = "saveDeposits" /\ d \in todo' => (matches'[d] # {} <=> Refs(d)' # {})
  BY DEF Books
<1>1. crashes = 0 /\ ~Crash
  <2>1. crashes \in Nat
    BY CashReconciliationAssumption DEF Inv, TypeOK
  <2>2. ~Crash
    BY <2>1 DEF Crash
  <2>3. crashes' = crashes
    BY <2>2 DEF Next, vars, Insert, StartRun, ReadDates, ReadPendingDeposits,
       ReadPendingPayments, SkipDate, MatchDeposit, LeaveDeposit, UpdatePayments, SaveDeposit,
       ReadPaymentExceptions, ReadDepositExceptions, PaymentExceptions, SaveDepositException,
       NextDate, LeaveLocation, FinishRun
  <2>. QED
    BY <2>2, <2>3
<1>2. CASE UpdatePayments
  <2>1. pc' = "saveDeposits" /\ todo' = DOMAIN deposits /\ matches' = matches /\ status'[d] = status[d]
        /\ \A e \in DOMAIN deposits : status[e] # "MATCH"
    BY <1>2, RowTypes DEF UpdatePayments, Settled, Inv, TypeOK, Fresh, Open, Ids
  <2>. QED
    BY <1>1, <1>2, <2>1, BooksOfUpdate
<1>3. ASSUME NEW c \in Deposits, SaveDeposit(c)
      PROVE  /\ Agrees(d)'
             /\ status'[d] = "MATCH" => Refs(d)' # {}
             /\ Refs(d)' # {} => status'[d] = "MATCH" \/ (pc' = "saveDeposits" /\ d \in todo')
             /\ pc' = "saveDeposits" /\ d \in todo' => (matches'[d] # {} <=> Refs(d)' # {})
  <2>1. /\ pc = "saveDeposits" /\ c \in todo /\ todo' = todo \ {c}
        /\ UNCHANGED <<cashDepositMatch, matches>> /\ (todo' # {} => pc' = pc)
    BY <1>3 DEF SaveDeposit
  <2>2. Agrees(d)' /\ Refs(d)' = Refs(d)
    BY <1>1, <2>1, AgreesStill DEF Books
  <2>3. CASE d = c
    BY <1>1, <1>3, <2>1, <2>2, <2>3 DEF Books, SaveDeposit, SetStatus, Ids
  <2>4. CASE d # c
    <3>1. status'[d] = status[d] /\ (d \in todo => d \in todo' /\ pc' = pc)
      BY <1>3, <2>1, <2>4 DEF SaveDeposit, SetStatus, Inv, TypeOK, Ids
    <3>. QED
      BY <1>1, <2>1, <2>2, <3>1 DEF Books
  <2>. QED
    BY <2>3, <2>4
<1>4. CASE ~UpdatePayments /\ ~\E c \in Deposits : SaveDeposit(c)
  <2>1. UNCHANGED cashDepositMatch /\ (UNCHANGED <<pc, todo, matches>> \/
                                       "saveDeposits" \notin {pc, pc'})
    BY <1>1, <1>4 DEF Next, vars, database, Insert, StartRun, ReadDates, ReadPendingDeposits,
       ReadPendingPayments, SkipDate, MatchDeposit, LeaveDeposit, ReadPaymentExceptions,
       ReadDepositExceptions, PaymentExceptions, SaveDepositException, NextDate, LeaveLocation,
       FinishRun, EndOfRun
  <2>2. Agrees(d)' /\ Refs(d)' = Refs(d)
    BY <1>1, <2>1, AgreesStill DEF Books
  <2>3. status'[d] = "MATCH" <=> status[d] = "MATCH"
    BY <1>4, MatchStays DEF Ids
  <2>. QED
    BY <1>1, <2>1, <2>2, <2>3 DEF Books
<1>. QED
  BY <1>2, <1>3, <1>4

\* Without a kill, money agrees between two runs: for any number of deposits and
\* payments, a matched deposit is the sum of one close date.
THEOREM CashIsSettled == Spec => []CashSettled
<1>1. Init => Books
  BY RowTypes DEF Init, Books, Agrees, Refs, Ids
<1>2. Books => CashSettled
  <2>. SUFFICES ASSUME Books, pc = "idle", crashes = 0, NEW d \in Deposits
                PROVE  (status[d] = "MATCH" <=> Refs(d) # {}) /\ Agrees(d)
    BY DEF CashSettled, Agrees, Refs
  <2>. QED
    BY DEF Books
<1>. QED
  BY <1>1, <1>2, BooksStep, WellMatchedAlways, Invariance, PTL DEF Spec
=============================================================================
