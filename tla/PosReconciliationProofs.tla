---------------------- MODULE PosReconciliationProofs -----------------------
(***************************************************************************)
(* Proofs about PosReconciliation, for any rows, locations and dates and   *)
(* any number of crashes.  Only the links and a repeated run need to know  *)
(* what the rounds pair (WellPaired, MP); for the statuses a step of M     *)
(* only has to leave the two pending lists alone.                          *)
(***************************************************************************)
EXTENDS PosReconciliation, TLAPS

USE DEF M!NONE, M!ONE, M!TWO, M!THREE, M!FOUR, M!DONE

\* What the arrays hold: open rows, and IN_PROGRESS rows for the exceptions.
ReadsOpen ==
  /\ \A p \in DOMAIN payments : payments[p] \in Open
  /\ \A d \in DOMAIN deposits : deposits[d] \in Open
  /\ pc \in {"readDepositExceptions", "exceptions", "depositExceptions"} =>
       \A p \in DOMAIN payments : payments[p] = "IN_PROGRESS"
  /\ pc \in {"exceptions", "depositExceptions"} =>
       \A d \in DOMAIN deposits : deposits[d] = "IN_PROGRESS"

\* The lists of the location at hand are taken from the arrays, and no location
\* still to come owns a row of them.
AtHand ==
  pc \in {"matching", "matchDeposits", "paymentsInProgress", "depositsInProgress",
          "depositExceptions"} =>
    /\ pendingPayments \subseteq DOMAIN payments
    /\ pendingDeposits \subseteq DOMAIN deposits
    /\ \A x \in pendingPayments \cup pendingDeposits : LocationOf[x] \notin locationsLeft

Overdue(x) == status[x] = "IN_PROGRESS" /\ DateOf(x) <= ExceptionsDate(currentDate)

\* Every overdue row is still ahead of the loop over the locations.
OverdueAhead ==
  /\ pc = "readDepositExceptions" => \A p \in Payments : Overdue(p) => p \in DOMAIN payments
  /\ pc \in {"exceptions", "depositExceptions"} => \A x \in Ids : Overdue(x) =>
       /\ x \in DOMAIN payments \cup DOMAIN deposits
       /\ \/ LocationOf[x] \in locationsLeft
          \/ pc = "depositExceptions" /\ x \in pendingDeposits

Inv == TypeOK /\ ReadsOpen /\ AtHand /\ ReadsStayTrue /\ OverdueAhead

LEMMA Disjoint == Payments \cap Deposits = {} /\ NoDeposit \notin Deposits
BY PosReconciliationAssumption DEF M!PosMatchingAssumption

\* A matching step writes matching variables of the right type only.
LEMMA MatchType ==
  ASSUME TypeOK, M!Next
  PROVE  /\ pendingPayments' = pendingPayments /\ pendingDeposits' = pendingDeposits
         /\ round' \in M!ONE .. M!DONE
         /\ paymentRound' \in [Payments -> M!NONE .. M!FOUR]
         /\ depositRound' \in [Deposits -> M!NONE .. M!FOUR]
         /\ posDepositMatch' \in [Payments -> Deposits \cup {NoDeposit}]
         /\ roundFourMatches' \in [Payments -> SUBSET Deposits]
<1>. DEFINE Goal == /\ pendingPayments' = pendingPayments /\ pendingDeposits' = pendingDeposits
                    /\ round' \in M!ONE .. M!DONE
                    /\ paymentRound' \in [Payments -> M!NONE .. M!FOUR]
                    /\ depositRound' \in [Deposits -> M!NONE .. M!FOUR]
                    /\ posDepositMatch' \in [Payments -> Deposits \cup {NoDeposit}]
                    /\ roundFourMatches' \in [Payments -> SUBSET Deposits]
<1>1. ASSUME NEW p \in Payments, M!PairPayment(p) PROVE Goal
  <2>1. PICK d \in M!First(M!Candidates(p, round), DepositRow) :
          /\ paymentRound' = [paymentRound EXCEPT ![p] = round]
          /\ depositRound' = [depositRound EXCEPT ![d] = round]
          /\ posDepositMatch' = [posDepositMatch EXCEPT ![p] = d]
    BY <1>1 DEF M!PairPayment
  <2>2. d \in Deposits
    BY <2>1 DEF M!First, M!Candidates, TypeOK
  <2>. QED
    BY <1>1, <2>1, <2>2 DEF M!PairPayment, TypeOK, M!inputs
<1>2. ASSUME NEW p \in Payments, M!SkipPayment(p) PROVE Goal
  BY <1>2 DEF M!SkipPayment, TypeOK, M!inputs
<1>3. CASE M!NextRound
  BY <1>3 DEF M!NextRound, M!EnterRound, TypeOK, M!inputs
<1>4. ASSUME NEW k \in todo, M!SettleBucket(k) PROVE Goal
  <2>1. M!BucketDeposits(k) \in SUBSET Deposits
    BY DEF M!BucketDeposits, M!UnmatchedDeposits, TypeOK
  <2>. QED
    BY <1>4, <2>1 DEF M!SettleBucket, TypeOK, M!inputs
<1>5. ASSUME NEW k \in todo, M!LeaveBucket(k) PROVE Goal
  BY <1>5 DEF M!LeaveBucket, TypeOK, M!inputs
<1>6. CASE M!Return
  BY <1>6 DEF M!Return, TypeOK, M!inputs
<1>. QED
  BY <1>1, <1>2, <1>3, <1>4, <1>5, <1>6 DEF M!Next

LEMMA TypeInit == Init => TypeOK
BY PosReconciliationAssumption DEF Init, TypeOK, Unread, UNKNOWN

LEMMA StatusType ==
  ASSUME NEW ids, NEW s \in {"PENDING", "IN_PROGRESS", "MATCH", "EXCEPTION"},
         TypeOK, SetStatus(ids, s)
  PROVE  /\ status' \in [Ids -> {"ABSENT", "PENDING", "IN_PROGRESS", "MATCH", "EXCEPTION"}]
         /\ \A x \in Ids : x \in ids => status'[x] = s
         /\ \A x \in Ids : x \notin ids => status'[x] = status[x]
BY DEF SetStatus, TypeOK

LEMMA EndOfRunType ==
  ASSUME TypeOK, EndOfRun, UNCHANGED <<database, currentDate>>,
         crashes' \in 0 .. MaxCrashes, quiet' \in Days \cup {0, DIRTY, UNKNOWN}
  PROVE  TypeOK'
BY DEF EndOfRun, TypeOK, Unread, database

LEMMA TypeStep == TypeOK /\ [Next]_vars => TypeOK'
<1>. SUFFICES ASSUME TypeOK, [Next]_vars PROVE TypeOK'
  OBVIOUS
<1>. USE DEF TypeOK, reads, database, matching
<1>1. ASSUME NEW x \in Ids, Insert(x) PROVE TypeOK'
  BY <1>1 DEF Insert
<1>2. ASSUME NEW date \in Days, StartRun(date) PROVE TypeOK'
  BY <1>2 DEF StartRun
<1>3. CASE ReadPayments
  BY <1>3 DEF ReadPayments, Find
<1>4. CASE ReadDeposits
  BY <1>4 DEF ReadDeposits, Find
<1>5. ASSUME NEW l \in Locations, SkipLocation(l) PROVE TypeOK'
  BY <1>5 DEF SkipLocation
<1>6. ASSUME NEW l \in Locations, OpenLocation(l) PROVE TypeOK'
  <2>1. AtLocation(payments, l) \subseteq Payments /\ AtLocation(deposits, l) \subseteq Deposits
    BY DEF AtLocation
  <2>. QED
    BY <1>6, <2>1 DEF OpenLocation, M!StartMatching
<1>7. CASE Match
  BY <1>7, MatchType DEF Match
<1>8. CASE UpdateMatchedPayments
  <2>1. status' \in [Ids -> {"ABSENT", "PENDING", "IN_PROGRESS", "MATCH", "EXCEPTION"}]
    BY <1>8, StatusType DEF UpdateMatchedPayments
  <2>. QED
    BY <1>8, <2>1 DEF UpdateMatchedPayments
<1>9. CASE RejectMatchedPayments
  BY <1>9, EndOfRunType DEF RejectMatchedPayments
<1>10. CASE UpdateMatchedDeposits
  BY <1>10, StatusType DEF UpdateMatchedDeposits
<1>11. CASE PaymentsInProgress
  BY <1>11, StatusType DEF PaymentsInProgress
<1>12. CASE DepositsInProgress
  BY <1>12, StatusType DEF DepositsInProgress
<1>13. CASE ReadPaymentExceptions
  BY <1>13 DEF ReadPaymentExceptions, Find
<1>14. CASE ReadDepositExceptions
  BY <1>14 DEF ReadDepositExceptions, Find
<1>15. ASSUME NEW l \in Locations, PaymentExceptions(l) PROVE TypeOK'
  <2>1. AtLocation(payments, l) \subseteq Payments /\ AtLocation(deposits, l) \subseteq Deposits
    BY DEF AtLocation
  <2>. QED
    BY <1>15, <2>1, StatusType DEF PaymentExceptions
<1>16. ASSUME NEW l \in Locations, SkipExceptions(l) PROVE TypeOK'
  BY <1>16 DEF SkipExceptions
<1>17. CASE DepositExceptions
  BY <1>17, StatusType DEF DepositExceptions
<1>18. CASE FinishRun
  <2>1. quiet' \in Days \cup {0, DIRTY, UNKNOWN}
    BY <1>18 DEF FinishRun
  <2>. QED
    BY <1>18, EndOfRunType DEF FinishRun
<1>19. CASE Crash
  <2>1. crashes' \in 0 .. MaxCrashes
    BY <1>19, PosReconciliationAssumption DEF Crash
  <2>. QED
    BY <1>19, <2>1, EndOfRunType DEF Crash
<1>20. CASE UNCHANGED vars
  BY <1>20 DEF vars
<1>. QED
  BY <1>1, <1>2, <1>3, <1>4, <1>5, <1>6, <1>7, <1>8, <1>9, <1>10, <1>11, <1>12, <1>13,
     <1>14, <1>15, <1>16, <1>17, <1>18, <1>19, <1>20 DEF Next, Reconciler

\* Rows, arrays and locals keep their shape through runs, crashes and inserts.
THEOREM TypeCorrect == Spec => []TypeOK
BY TypeInit, TypeStep, PTL DEF Spec
-----------------------------------------------------------------------------
\* The part of Inv that is about the arrays of the run.
ArraysOK == ReadsOpen /\ AtHand /\ ReadsStayTrue /\ OverdueAhead

LEMMA InvInit == Init => Inv
BY TypeInit DEF Init, Inv, ReadsOpen, AtHand, ReadsStayTrue, OverdueAhead, Unread

LEMMA EndOfRunArrays == ASSUME EndOfRun PROVE ArraysOK'
BY DEF EndOfRun, ArraysOK, ReadsOpen, AtHand, ReadsStayTrue, OverdueAhead, Unread

\* Inserts, the start of a run and its reads.
LEMMA ReadSteps ==
  ASSUME Inv, \/ \E x \in Ids : Insert(x)
              \/ \E date \in Days : StartRun(date)
              \/ ReadPayments \/ ReadDeposits
              \/ ReadPaymentExceptions \/ ReadDepositExceptions
  PROVE  ArraysOK'
<1>. USE Disjoint DEF Inv, TypeOK, ArraysOK, ReadsOpen, AtHand, ReadsStayTrue, Unwritten,
       OverdueAhead, Overdue, Open, database, reads, matching,
       M!UnmatchedPayments, M!UnmatchedDeposits
<1>1. ASSUME NEW x \in Ids, Insert(x) PROVE ArraysOK'
  BY <1>1 DEF Insert, Ids
<1>2. ASSUME NEW date \in Days, StartRun(date) PROVE ArraysOK'
  BY <1>2 DEF StartRun, Ids
<1>3. CASE ReadPayments
  BY <1>3 DEF ReadPayments, Find, Ids
<1>4. CASE ReadDeposits
  BY <1>4 DEF ReadDeposits, Find, Ids
<1>5. CASE ReadPaymentExceptions
  BY <1>5 DEF ReadPaymentExceptions, Find, Ids
<1>6. CASE ReadDepositExceptions
  BY <1>6, PosReconciliationAssumption DEF ReadDepositExceptions, Find, Ids
<1>. QED
  BY <1>1, <1>2, <1>3, <1>4, <1>5, <1>6

\* The loop of reconcilePos.
LEMMA MatchSteps ==
  ASSUME Inv, \/ \E l \in Locations : SkipLocation(l) \/ OpenLocation(l)
              \/ Match \/ UpdateMatchedPayments \/ UpdateMatchedDeposits
              \/ PaymentsInProgress \/ DepositsInProgress
  PROVE  ArraysOK'
<1>. USE Disjoint DEF Inv, TypeOK, ArraysOK, ReadsOpen, AtHand, ReadsStayTrue, Unwritten,
       OverdueAhead, Overdue, Open, database, reads, matching,
       M!UnmatchedPayments, M!UnmatchedDeposits
<1>1. ASSUME NEW l \in Locations, SkipLocation(l) PROVE ArraysOK'
  BY <1>1 DEF SkipLocation, Ids
<1>2. ASSUME NEW l \in Locations, OpenLocation(l) PROVE ArraysOK'
  BY <1>2 DEF OpenLocation, AtLocation, M!StartMatching, Ids
<1>3. CASE Match
  BY <1>3, MatchType DEF Match, Ids
<1>4. CASE UpdateMatchedPayments
  BY <1>4, StatusType DEF UpdateMatchedPayments, MatchedPayments, Ids
<1>5. CASE UpdateMatchedDeposits
  BY <1>5, StatusType DEF UpdateMatchedDeposits, MatchedDeposits, Ids
<1>6. CASE PaymentsInProgress
  BY <1>6, StatusType DEF PaymentsInProgress, Ids
<1>7. CASE DepositsInProgress
  BY <1>7, StatusType DEF DepositsInProgress, Ids
<1>. QED
  BY <1>1, <1>2, <1>3, <1>4, <1>5, <1>6, <1>7

\* The loop of findPosExceptions.
LEMMA ExceptionSteps ==
  ASSUME Inv, \/ \E l \in Locations : PaymentExceptions(l) \/ SkipExceptions(l)
              \/ DepositExceptions
  PROVE  ArraysOK'
<1>. USE Disjoint DEF Inv, TypeOK, ArraysOK, ReadsOpen, AtHand, ReadsStayTrue, Unwritten,
       OverdueAhead, Overdue, Open, database, reads, matching,
       M!UnmatchedPayments, M!UnmatchedDeposits, AtLocation
<1>1. ASSUME NEW l \in Locations, PaymentExceptions(l) PROVE ArraysOK'
  BY <1>1, StatusType DEF PaymentExceptions, Ids
<1>2. ASSUME NEW l \in Locations, SkipExceptions(l) PROVE ArraysOK'
  BY <1>2 DEF SkipExceptions, Ids
<1>3. CASE DepositExceptions
  BY <1>3, StatusType DEF DepositExceptions, Ids
<1>. QED
  BY <1>1, <1>2, <1>3

LEMMA InvStep == Inv /\ [Next]_vars => Inv'
<1>. SUFFICES ASSUME Inv, [Next]_vars PROVE ArraysOK'
  BY TypeStep DEF Inv, ArraysOK
<1>1. CASE RejectMatchedPayments \/ FinishRun \/ Crash
  BY <1>1, EndOfRunArrays DEF RejectMatchedPayments, FinishRun, Crash
<1>2. CASE UNCHANGED vars
  BY <1>2 DEF vars, Inv, ArraysOK, ReadsOpen, AtHand, ReadsStayTrue, Unwritten, OverdueAhead,
     Overdue, database, reads, matching, M!UnmatchedPayments, M!UnmatchedDeposits
<1>. QED
  BY <1>1, <1>2, ReadSteps, MatchSteps, ExceptionSteps DEF Next, Reconciler

LEMMA Invariance == Spec => []Inv
BY InvInit, InvStep, PTL DEF Spec

\* No row is written on the strength of a status that is no longer its status,
\* although the arrays of a run are as old as the run and the parser inserts
\* rows all the while.
THEOREM NoStaleWrite == Spec => []ReadsStayTrue
BY Invariance, PTL DEF Inv

\* When the loop of findPosExceptions is through, no row two business days old
\* is IN_PROGRESS, for any number of locations and after any crashes.
THEOREM ExceptionsAreComplete == Spec => []NoOverdueInProgress
<1>1. Inv => NoOverdueInProgress
  BY DEF Inv, OverdueAhead, Overdue, NoOverdueInProgress
<1>. QED
  BY <1>1, Invariance, PTL
-----------------------------------------------------------------------------
\* What a run may write to a row it has read follows from the status it read:
\* by ReadsStayTrue that is the status the row still has.
LEMMA ForwardStep == Inv /\ [Next]_vars => [StatusLifecycle!Save]_status
<1>. SUFFICES ASSUME Inv, [Next]_vars, status' # status PROVE StatusLifecycle!Save
  OBVIOUS
<1>. USE Disjoint DEF StatusLifecycle!Save, StatusLifecycle!Statuses, StatusLifecycle!Moves,
       Inv, TypeOK, ReadsOpen, AtHand, ReadsStayTrue, Unwritten, Open,
       database, M!UnmatchedPayments, M!UnmatchedDeposits
<1>1. ASSUME NEW x \in Ids, Insert(x) PROVE StatusLifecycle!Save
  BY <1>1 DEF Insert
<1>2. CASE UpdateMatchedPayments
  BY <1>2, StatusType DEF UpdateMatchedPayments, MatchedPayments, Ids
<1>3. CASE UpdateMatchedDeposits
  BY <1>3, StatusType DEF UpdateMatchedDeposits, MatchedDeposits, Ids
<1>4. CASE PaymentsInProgress
  BY <1>4, StatusType DEF PaymentsInProgress, Ids
<1>5. CASE DepositsInProgress
  BY <1>5, StatusType DEF DepositsInProgress, Ids
<1>6. ASSUME NEW l \in Locations, PaymentExceptions(l) PROVE StatusLifecycle!Save
  BY <1>6, StatusType DEF PaymentExceptions, AtLocation, Ids
<1>7. CASE DepositExceptions
  BY <1>7, StatusType DEF DepositExceptions, Ids
<1>. QED
  BY <1>1, <1>2, <1>3, <1>4, <1>5, <1>6, <1>7 DEF Next, Reconciler, vars, database,
     StartRun, ReadPayments, ReadDeposits, SkipLocation, OpenLocation, Match,
     RejectMatchedPayments, ReadPaymentExceptions, ReadDepositExceptions, SkipExceptions,
     FinishRun, Crash

\* The reconciler implements the abstract life cycle of a row: no status is
\* ever taken back, through repeated runs and crashes at any await.
THEOREM ImplementsLifecycle == Spec => ForwardOnly
<1>1. Init => StatusLifecycle!Init
  BY DEF Init, StatusLifecycle!Init
<1>. QED
  BY <1>1, ForwardStep, Invariance, PTL DEF Spec, ForwardOnly, StatusLifecycle!Spec

\* Only payments read as open are linked, and only the transaction of the
\* deposits touches the join rows of others.
LEMMA LinksStay ==
  ASSUME Inv, [Next]_vars, NEW p \in Payments, status[p] = "MATCH"
  PROVE  depositOf'[p] = depositOf[p] /\ (~UpdateMatchedDeposits => joined'[p] = joined[p])
<1>1. CASE UpdateMatchedPayments
  <2>1. p \notin MatchedPayments
    BY <1>1 DEF UpdateMatchedPayments, Inv, TypeOK, ReadsOpen, AtHand, ReadsStayTrue,
       Unwritten, Open, MatchedPayments
  <2>. QED
    BY <1>1, <2>1 DEF UpdateMatchedPayments, Inv, TypeOK
<1>2. CASE UpdateMatchedDeposits
  BY <1>2 DEF UpdateMatchedDeposits
<1>3. CASE ~UpdateMatchedPayments /\ ~UpdateMatchedDeposits
  <2>1. UNCHANGED <<depositOf, joined>>
    BY <1>3 DEF Next, Reconciler, vars, database, Insert,
       StartRun, ReadPayments, ReadDeposits, SkipLocation, OpenLocation, Match,
       RejectMatchedPayments, PaymentsInProgress,
       DepositsInProgress, ReadPaymentExceptions, ReadDepositExceptions,
       PaymentExceptions, DepositExceptions, SkipExceptions, FinishRun, Crash
  <2>. QED
    BY <2>1
<1>. QED
  BY <1>1, <1>2, <1>3

-----------------------------------------------------------------------------
\* What matching leaves in memory: a deposit is linked to one payment of rounds
\* ONE to THREE, or joined to payments of round FOUR, and never both.
WellPaired ==
  pc \in {"matching", "matchDeposits"} => \A p \in Payments :
    /\ posDepositMatch[p] # NoDeposit =>
         /\ p \in MatchedPayments /\ posDepositMatch[p] \in MatchedDeposits
         /\ depositRound[posDepositMatch[p]] # M!FOUR
         /\ \A q \in Payments \ {p} : posDepositMatch[q] # posDepositMatch[p]
    /\ \A d \in roundFourMatches[p] :
         p \in MatchedPayments /\ d \in MatchedDeposits /\ depositRound[d] = M!FOUR

\* Rounds ONE to THREE visit pending payments.
TodoPending == pc = "matching" /\ round < M!FOUR => todo \subseteq pendingPayments

LEMMA TodoByMatch ==
  ASSUME TypeOK, TodoPending, pc = "matching", pc' = "matching", M!Next
  PROVE  TodoPending'
<1>. USE DEF TypeOK, TodoPending, M!inputs
<1>1. ASSUME NEW p \in Payments, M!PairPayment(p) \/ M!SkipPayment(p) PROVE TodoPending'
  BY <1>1 DEF M!PairPayment, M!SkipPayment
<1>2. CASE M!NextRound
  BY <1>2 DEF M!NextRound, M!EnterRound, M!UnmatchedPayments
<1>3. ASSUME NEW k \in todo, M!SettleBucket(k) \/ M!LeaveBucket(k) PROVE TodoPending'
  BY <1>3 DEF M!SettleBucket, M!LeaveBucket
<1>4. CASE M!Return
  BY <1>4 DEF M!Return
<1>. QED
  BY <1>1, <1>2, <1>3, <1>4 DEF M!Next

LEMMA PairedByMatch ==
  ASSUME TypeOK, TodoPending, WellPaired, pc = "matching", pc' = "matching", M!Next
  PROVE  WellPaired'
<1>. USE Disjoint DEF TypeOK, WellPaired, MatchedPayments, MatchedDeposits,
       M!UnmatchedPayments, M!UnmatchedDeposits, M!inputs
<1>1. ASSUME NEW p \in Payments, M!PairPayment(p) PROVE WellPaired'
  <2>1. PICK d \in M!First(M!Candidates(p, round), DepositRow) :
          /\ paymentRound' = [paymentRound EXCEPT ![p] = round]
          /\ depositRound' = [depositRound EXCEPT ![d] = round]
          /\ posDepositMatch' = [posDepositMatch EXCEPT ![p] = d]
    BY <1>1 DEF M!PairPayment
  <2>2. /\ d \in pendingDeposits /\ depositRound[d] = M!NONE
        /\ p \in pendingPayments
        /\ round \in M!ONE .. M!THREE
    BY <1>1, <2>1 DEF M!First, M!Candidates, M!CheckMatch, M!PairPayment, TodoPending
  <2>3. \A q \in Payments : posDepositMatch[q] # d /\ d \notin roundFourMatches[q]
    BY <2>2
  <2>4. UNCHANGED <<pendingPayments, pendingDeposits, roundFourMatches>>
    BY <1>1 DEF M!PairPayment
  <2>5. /\ p \in MatchedPayments' /\ d \in MatchedDeposits' /\ depositRound'[d] # M!FOUR
        /\ MatchedPayments \subseteq MatchedPayments'
        /\ MatchedDeposits \subseteq MatchedDeposits'
    BY <2>1, <2>2, <2>4
  <2>6. \A e \in Deposits : e # d => depositRound'[e] = depositRound[e]
    BY <2>1
  <2>7. /\ posDepositMatch'[p] = d
        /\ \A q \in Payments : q # p => posDepositMatch'[q] = posDepositMatch[q]
    BY <2>1
  <2>8. ASSUME NEW q \in Payments, posDepositMatch'[q] # NoDeposit
        PROVE  /\ q \in MatchedPayments' /\ posDepositMatch'[q] \in MatchedDeposits'
               /\ depositRound'[posDepositMatch'[q]] # M!FOUR
               /\ \A s \in Payments \ {q} : posDepositMatch'[s] # posDepositMatch'[q]
    <3>1. CASE q = p
      BY <2>3, <2>5, <2>7, <3>1
    <3>2. CASE q # p
      <4>1. /\ posDepositMatch'[q] = posDepositMatch[q] /\ posDepositMatch[q] # d
            /\ posDepositMatch[q] \in Deposits
        BY <2>3, <2>7, <2>8, <3>2
      <4>2. /\ q \in MatchedPayments /\ posDepositMatch[q] \in MatchedDeposits
            /\ depositRound[posDepositMatch[q]] # M!FOUR
            /\ \A s \in Payments \ {q} : posDepositMatch[s] # posDepositMatch[q]
        BY <2>8, <4>1
      <4>. QED
        BY <2>5, <2>6, <2>7, <4>1, <4>2
    <3>. QED
      BY <3>1, <3>2
  <2>9. ASSUME NEW q \in Payments, NEW e \in roundFourMatches'[q]
        PROVE  q \in MatchedPayments' /\ e \in MatchedDeposits' /\ depositRound'[e] = M!FOUR
    BY <2>3, <2>4, <2>5, <2>6, <2>9
  <2>. QED
    BY <2>8, <2>9
<1>2. ASSUME NEW k \in todo, M!SettleBucket(k) PROVE WellPaired'
  <2>1. /\ UNCHANGED <<pendingPayments, pendingDeposits, posDepositMatch>>
        /\ \A p \in Payments : paymentRound'[p] =
             IF p \in M!BucketPayments(k) THEN M!FOUR ELSE paymentRound[p]
        /\ \A d \in Deposits : depositRound'[d] =
             IF d \in M!BucketDeposits(k) THEN M!FOUR ELSE depositRound[d]
        /\ \A p \in Payments : roundFourMatches'[p] =
             IF p \in M!BucketPayments(k) THEN M!BucketDeposits(k) ELSE roundFourMatches[p]
    BY <1>2 DEF M!SettleBucket
  <2>2. /\ \A p \in M!BucketPayments(k) : p \in pendingPayments
        /\ \A d \in M!BucketDeposits(k) : d \in pendingDeposits /\ depositRound[d] = M!NONE
    BY DEF M!BucketPayments, M!BucketDeposits
  <2>3. /\ MatchedPayments \subseteq MatchedPayments'
        /\ MatchedDeposits \subseteq MatchedDeposits'
        /\ M!BucketPayments(k) \subseteq MatchedPayments'
        /\ M!BucketDeposits(k) \subseteq MatchedDeposits'
    BY <2>1, <2>2
  <2>4. ASSUME NEW q \in Payments, posDepositMatch'[q] # NoDeposit
        PROVE  /\ q \in MatchedPayments' /\ posDepositMatch'[q] \in MatchedDeposits'
               /\ depositRound'[posDepositMatch'[q]] # M!FOUR
               /\ \A s \in Payments \ {q} : posDepositMatch'[s] # posDepositMatch'[q]
    BY <2>1, <2>2, <2>3, <2>4
  <2>5. ASSUME NEW q \in Payments, NEW e \in roundFourMatches'[q]
        PROVE  q \in MatchedPayments' /\ e \in MatchedDeposits' /\ depositRound'[e] = M!FOUR
    BY <2>1, <2>2, <2>3, <2>5
  <2>. QED
    BY <2>4, <2>5
<1>3. CASE UNCHANGED <<pendingPayments, pendingDeposits, paymentRound, depositRound,
                       posDepositMatch, roundFourMatches>>
  BY <1>3
<1>4. \/ \E p \in Payments : M!PairPayment(p)
      \/ \E k \in todo : M!SettleBucket(k)
      \/ UNCHANGED <<pendingPayments, pendingDeposits, paymentRound, depositRound,
                     posDepositMatch, roundFourMatches>>
  BY DEF M!Next, M!SkipPayment, M!NextRound, M!EnterRound, M!LeaveBucket, M!Return
<1>. QED
  BY <1>1, <1>2, <1>3, <1>4

\* A deposit some payment refers to is MATCH or about to be.
Settled(d) == status[d] = "MATCH" \/ (pc = "matchDeposits" /\ d \in MatchedDeposits)

\* LinksAgree at every await of a run.
Books ==
  crashes = 0 => \A p \in Payments :
    /\ depositOf[p] # NoDeposit =>
         /\ status[p] = "MATCH" /\ Settled(depositOf[p])
         /\ \A q \in Payments \ {p} : depositOf[q] # depositOf[p]
         /\ \A q \in Payments : depositOf[p] \notin joined[q]
    /\ \A d \in joined[p] : status[p] = "MATCH" /\ Settled(d)

\* Before the transaction of the deposits their join rows are there already and,
\* unless a run was killed, there are no others.
Joined ==
  pc = "matchDeposits" => \A p \in Payments :
    /\ roundFourMatches[p] \subseteq joined[p]
    /\ crashes = 0 => joined[p] \cap MatchedDeposits \subseteq roundFourMatches[p]

PInv == Inv /\ TodoPending /\ WellPaired /\ Books /\ Joined

LEMMA PInvInit == Init => PInv
BY InvInit DEF Init, PInv, TodoPending, WellPaired, Books, Joined

LEMMA MatchStays ==
  ASSUME Inv, [Next]_vars, NEW x \in Ids, status[x] = "MATCH"
  PROVE  status'[x] = "MATCH"
BY ForwardStep DEF Inv, TypeOK, StatusLifecycle!Save, StatusLifecycle!Moves,
   StatusLifecycle!Statuses

LEMMA TodoStep == PInv /\ [Next]_vars => TodoPending'
<1>. SUFFICES ASSUME PInv, [Next]_vars PROVE TodoPending'
  OBVIOUS
<1>1. CASE Match
  BY <1>1, TodoByMatch DEF Match, PInv, Inv
<1>2. ASSUME NEW l \in Locations, OpenLocation(l) PROVE TodoPending'
  BY <1>2 DEF OpenLocation, M!StartMatching, TodoPending
<1>3. CASE UNCHANGED vars
  BY <1>3 DEF vars, matching, PInv, TodoPending
<1>4. CASE \E x \in Ids : Insert(x)
  BY <1>4 DEF Insert, matching, PInv, TodoPending
<1>5. CASE pc' # "matching"
  BY <1>5 DEF TodoPending
<1>6. \/ Match \/ (\E l \in Locations : OpenLocation(l)) \/ UNCHANGED vars
      \/ (\E x \in Ids : Insert(x)) \/ pc' # "matching"
  BY DEF Next, Reconciler, StartRun, ReadPayments, ReadDeposits, SkipLocation,
     UpdateMatchedPayments, RejectMatchedPayments, UpdateMatchedDeposits, PaymentsInProgress,
     DepositsInProgress, ReadPaymentExceptions, ReadDepositExceptions, PaymentExceptions,
     SkipExceptions, DepositExceptions, FinishRun, Crash, EndOfRun
<1>. QED
  BY <1>1, <1>2, <1>3, <1>4, <1>5, <1>6

LEMMA PairedStep == PInv /\ [Next]_vars => WellPaired'
<1>. SUFFICES ASSUME PInv, [Next]_vars PROVE WellPaired'
  OBVIOUS
<1>1. CASE Match
  BY <1>1, PairedByMatch DEF Match, PInv, Inv
<1>2. ASSUME NEW l \in Locations, OpenLocation(l) PROVE WellPaired'
  BY <1>2 DEF OpenLocation, M!StartMatching, WellPaired
<1>3. CASE UNCHANGED matching /\ pc' = pc
  BY <1>3 DEF matching, PInv, WellPaired, MatchedPayments, MatchedDeposits,
     M!UnmatchedPayments, M!UnmatchedDeposits
<1>4. CASE UpdateMatchedPayments
  BY <1>4 DEF UpdateMatchedPayments, matching, PInv, WellPaired, MatchedPayments,
     MatchedDeposits, M!UnmatchedPayments, M!UnmatchedDeposits
<1>5. CASE pc' \notin {"matching", "matchDeposits"}
  BY <1>5 DEF WellPaired
<1>6. \/ Match \/ (\E l \in Locations : OpenLocation(l)) \/ (UNCHANGED matching /\ pc' = pc)
      \/ UpdateMatchedPayments \/ pc' \notin {"matching", "matchDeposits"}
  BY DEF Next, Reconciler, vars, Insert, StartRun, ReadPayments, ReadDeposits, SkipLocation,
     RejectMatchedPayments, UpdateMatchedDeposits, PaymentsInProgress,
     DepositsInProgress, ReadPaymentExceptions, ReadDepositExceptions, PaymentExceptions,
     SkipExceptions, DepositExceptions, FinishRun, Crash, EndOfRun
<1>. QED
  BY <1>1, <1>2, <1>3, <1>4, <1>5, <1>6

\* The payments and deposits a run matches were open, so no earlier match
\* refers to them.
LEMMA BooksByPayments == PInv /\ UpdateMatchedPayments => Books'
<1>. SUFFICES ASSUME PInv, UpdateMatchedPayments, crashes' = 0,
                     \A p \in Payments :
                       /\ depositOf[p] # NoDeposit =>
                            /\ status[p] = "MATCH" /\ Settled(depositOf[p])
                            /\ \A q \in Payments \ {p} : depositOf[q] # depositOf[p]
                            /\ \A q \in Payments : depositOf[p] \notin joined[q]
                       /\ \A d \in joined[p] : status[p] = "MATCH" /\ Settled(d)
              PROVE  Books'
  BY DEF PInv, Books, UpdateMatchedPayments
<1>. USE Disjoint DEF PInv, Inv, TypeOK
<1>1. /\ pc = "matching" /\ pc' = "matchDeposits" /\ UNCHANGED matching
      /\ MatchedPayments \subseteq Payments /\ MatchedDeposits \subseteq Deposits
      /\ MatchedDeposits' = MatchedDeposits
  BY DEF UpdateMatchedPayments, matching, MatchedPayments, MatchedDeposits,
     M!UnmatchedPayments, M!UnmatchedDeposits
<1>2. /\ \A p \in MatchedPayments : status[p] # "MATCH"
      /\ \A d \in MatchedDeposits : status[d] # "MATCH"
  BY <1>1 DEF ReadsOpen, AtHand, ReadsStayTrue, Unwritten, Open, MatchedPayments, MatchedDeposits
<1>3. /\ \A p \in MatchedPayments : depositOf[p] = NoDeposit /\ joined[p] = {}
      /\ \A p \in Payments : depositOf[p] # NoDeposit => status[depositOf[p]] = "MATCH"
      /\ \A p \in Payments : \A d \in joined[p] : status[d] = "MATCH"
  BY <1>1, <1>2 DEF Settled
<1>4. /\ \A p \in Payments : status'[p] = IF p \in MatchedPayments THEN "MATCH" ELSE status[p]
      /\ \A d \in Deposits : status'[d] = status[d]
  BY <1>1 DEF UpdateMatchedPayments, SetStatus, Ids
<1>5. \A p \in Payments :
        /\ depositOf'[p] = IF p \in MatchedPayments THEN posDepositMatch[p] ELSE depositOf[p]
        /\ joined'[p] = IF p \in MatchedPayments THEN roundFourMatches[p] ELSE joined[p]
  <2>1. ASSUME NEW p \in Payments
        PROVE  depositOf'[p] = IF p \in MatchedPayments THEN posDepositMatch[p] ELSE depositOf[p]
    BY <1>3 DEF UpdateMatchedPayments
  <2>2. ASSUME NEW p \in Payments
        PROVE  joined'[p] = IF p \in MatchedPayments THEN roundFourMatches[p] ELSE joined[p]
    <3>1. joined'[p] = IF p \in MatchedPayments /\ roundFourMatches[p] # {}
                       THEN roundFourMatches[p] ELSE joined[p]
      BY DEF UpdateMatchedPayments
    <3>2. p \in MatchedPayments => joined[p] = {}
      BY <1>3
    <3>. QED
      BY <3>1, <3>2
  <2>. QED
    BY <2>1, <2>2
<1>6. \A p \in MatchedPayments :
        /\ posDepositMatch[p] # NoDeposit =>
             /\ posDepositMatch[p] \in MatchedDeposits
             /\ depositRound[posDepositMatch[p]] # M!FOUR
             /\ \A q \in Payments \ {p} : posDepositMatch[q] # posDepositMatch[p]
        /\ \A d \in roundFourMatches[p] : d \in MatchedDeposits /\ depositRound[d] = M!FOUR
  BY <1>1 DEF WellPaired
<1>7. \A d \in Deposits : Settled(d)' <=> (status[d] = "MATCH" \/ d \in MatchedDeposits)
  BY <1>1, <1>4 DEF Settled
<1>8. ASSUME NEW p \in Payments, depositOf'[p] # NoDeposit
      PROVE  /\ status'[p] = "MATCH" /\ Settled(depositOf[p])'
             /\ \A q \in Payments \ {p} : depositOf'[q] # depositOf'[p]
             /\ \A q \in Payments : depositOf'[p] \notin joined'[q]
  <2>1. depositOf'[p] \in Deposits
    BY <1>5, <1>8
  <2>2. CASE p \in MatchedPayments
    <3>1. depositOf'[p] = posDepositMatch[p] /\ posDepositMatch[p] # NoDeposit
      BY <1>5, <1>8, <2>2
    <3>2. /\ depositOf'[p] \in MatchedDeposits /\ depositRound[depositOf'[p]] # M!FOUR
          /\ \A q \in Payments \ {p} : posDepositMatch[q] # depositOf'[p]
      BY <1>6, <2>2, <3>1
    <3>3. ASSUME NEW q \in Payments \ {p} PROVE depositOf'[q] # depositOf'[p]
      BY <1>2, <1>3, <1>5, <3>2, <2>1
    <3>4. ASSUME NEW q \in Payments PROVE depositOf'[p] \notin joined'[q]
      BY <1>2, <1>3, <1>5, <1>6, <3>2
    <3>5. Settled(depositOf[p])' /\ status'[p] = "MATCH"
      BY <1>4, <1>7, <2>1, <2>2, <3>2
    <3>. QED
      BY <3>3, <3>4, <3>5
  <2>3. CASE p \notin MatchedPayments
    <3>1. depositOf'[p] = depositOf[p] /\ depositOf[p] # NoDeposit
      BY <1>5, <1>8, <2>3
    <3>2. /\ status[p] = "MATCH" /\ status[depositOf[p]] = "MATCH"
          /\ \A q \in Payments \ {p} : depositOf[q] # depositOf[p]
          /\ \A q \in Payments : depositOf[p] \notin joined[q]
      BY <1>3, <3>1
    <3>3. depositOf[p] \notin MatchedDeposits
      BY <1>2, <3>2
    <3>4. ASSUME NEW q \in Payments \ {p} PROVE depositOf'[q] # depositOf'[p]
      <4>1. CASE q \in MatchedPayments
        BY <1>5, <1>6, <3>1, <3>3, <4>1
      <4>2. CASE q \notin MatchedPayments
        BY <1>5, <3>1, <3>2, <4>2
      <4>. QED
        BY <4>1, <4>2
    <3>5. ASSUME NEW q \in Payments PROVE depositOf'[p] \notin joined'[q]
      <4>1. CASE q \in MatchedPayments
        BY <1>5, <1>6, <3>1, <3>3, <4>1
      <4>2. CASE q \notin MatchedPayments
        BY <1>5, <3>1, <3>2, <4>2
      <4>. QED
        BY <4>1, <4>2
    <3>6. Settled(depositOf[p])' /\ status'[p] = "MATCH"
      BY <1>4, <1>7, <2>1, <2>3, <3>1, <3>2
    <3>. QED
      BY <3>4, <3>5, <3>6
  <2>. QED
    BY <2>2, <2>3
<1>9. ASSUME NEW p \in Payments, NEW d \in joined'[p]
      PROVE  status'[p] = "MATCH" /\ Settled(d)'
  <2>1. CASE p \in MatchedPayments
    BY <1>1, <1>4, <1>5, <1>6, <1>7, <1>9, <2>1
  <2>2. CASE p \notin MatchedPayments
    <3>1. d \in joined[p] /\ d \in Deposits /\ status[p] = "MATCH" /\ status[d] = "MATCH"
      BY <1>3, <1>5, <1>9, <2>2
    <3>. QED
      BY <1>4, <1>7, <2>2, <3>1
  <2>. QED
    BY <2>1, <2>2
<1>. QED
  BY <1>8, <1>9 DEF Books

\* The deposits about to be saved are open.
LEMMA MatchedAreOpen ==
  ASSUME Inv, pc \in {"matching", "matchDeposits"}, NEW d \in MatchedDeposits
  PROVE  d \in Deposits /\ status[d] # "MATCH"
BY DEF Inv, TypeOK, ReadsOpen, AtHand, ReadsStayTrue, Unwritten, Open, MatchedDeposits

LEMMA JoinedStep == PInv /\ [Next]_vars => Joined'
<1>. SUFFICES ASSUME PInv, [Next]_vars, pc' = "matchDeposits", NEW p \in Payments
              PROVE  /\ roundFourMatches'[p] \subseteq joined'[p]
                     /\ crashes' = 0 =>
                          joined'[p] \cap MatchedDeposits' \subseteq roundFourMatches'[p]
  BY DEF Joined
<1>1. CASE UpdateMatchedPayments
  <2>1. /\ pc = "matching" /\ roundFourMatches' = roundFourMatches /\ crashes' = crashes
        /\ MatchedDeposits' = MatchedDeposits
        /\ joined'[p] = IF p \in MatchedPayments /\ roundFourMatches[p] # {}
                        THEN roundFourMatches[p] ELSE joined[p]
    BY <1>1 DEF UpdateMatchedPayments, matching, MatchedDeposits, M!UnmatchedDeposits
  <2>2. roundFourMatches[p] # {} => p \in MatchedPayments
    BY <2>1 DEF PInv, WellPaired
  <2>3. ASSUME crashes = 0, NEW d \in joined[p] PROVE d \notin MatchedDeposits
    BY <2>1, <2>3, MatchedAreOpen DEF PInv, Books, Settled
  <2>. QED
    BY <2>1, <2>2, <2>3
<1>2. CASE pc = "matchDeposits" /\ UNCHANGED <<matching, joined, crashes>>
  BY <1>2 DEF matching, MatchedDeposits, M!UnmatchedDeposits, PInv, Joined
<1>3. UpdateMatchedPayments \/ (pc = "matchDeposits" /\ UNCHANGED <<matching, joined, crashes>>)
  BY DEF Next, Reconciler, vars, database, Insert, StartRun, ReadPayments, ReadDeposits,
     SkipLocation, OpenLocation, Match, RejectMatchedPayments, UpdateMatchedDeposits,
     PaymentsInProgress, DepositsInProgress, ReadPaymentExceptions, ReadDepositExceptions,
     PaymentExceptions, SkipExceptions, DepositExceptions, FinishRun, Crash, EndOfRun
<1>. QED
  BY <1>1, <1>2, <1>3

\* Only the join rows of the deposits that are saved are replaced.
LEMMA RejoinedAreMatched ==
  ASSUME PInv, UpdateMatchedDeposits, NEW d \in Rejoined
  PROVE  d \in MatchedDeposits
BY DEF Rejoined, UpdateMatchedDeposits, PInv, WellPaired

\* Unless a run was killed, the deposits bring the join rows that are there.
LEMMA SameRows == ASSUME PInv, UpdateMatchedDeposits, crashes = 0 PROVE joined' = joined
<1>1. ASSUME NEW p \in Payments
      PROVE  (joined[p] \ Rejoined) \cup roundFourMatches[p] = joined[p]
  <2>1. roundFourMatches[p] \subseteq joined[p]
    BY DEF UpdateMatchedDeposits, PInv, Joined
  <2>2. joined[p] \cap MatchedDeposits \subseteq roundFourMatches[p]
    BY DEF UpdateMatchedDeposits, PInv, Joined
  <2>. QED
    BY <2>1, <2>2, RejoinedAreMatched
<1>2. joined = [p \in Payments |-> joined[p]]
  BY DEF PInv, Inv, TypeOK
<1>3. joined' = [p \in Payments |-> (joined[p] \ Rejoined) \cup roundFourMatches[p]]
  BY DEF UpdateMatchedDeposits
<1>. QED
  BY <1>1, <1>2, <1>3

LEMMA BooksStep == PInv /\ [Next]_vars => Books'
<1>. SUFFICES ASSUME PInv, [Next]_vars, ~UpdateMatchedPayments, crashes' = 0 PROVE Books'
  BY BooksByPayments DEF Books
<1>1. UNCHANGED <<depositOf, joined, crashes>>
  <2>1. CASE Crash
    BY <2>1 DEF Crash, PInv, Inv, TypeOK
  <2>2. CASE UpdateMatchedDeposits
    BY <2>2, SameRows DEF UpdateMatchedDeposits
  <2>3. CASE ~Crash /\ ~UpdateMatchedDeposits
    BY <2>3 DEF Next, Reconciler, vars, database, Insert, StartRun, ReadPayments, ReadDeposits,
       SkipLocation, OpenLocation, Match, RejectMatchedPayments,
       PaymentsInProgress, DepositsInProgress, ReadPaymentExceptions, ReadDepositExceptions,
       PaymentExceptions, DepositExceptions, SkipExceptions, FinishRun
  <2>. QED
    BY <2>1, <2>2, <2>3
<1>2. \A x \in Ids : status[x] = "MATCH" => status'[x] = "MATCH"
  BY MatchStays DEF PInv
<1>3. ASSUME NEW d \in Deposits, Settled(d) PROVE Settled(d)'
  <2>1. CASE status[d] = "MATCH"
    BY <1>2, <2>1 DEF Settled, Ids
  <2>2. CASE pc = "matchDeposits" /\ d \in MatchedDeposits
    <3>1. CASE UpdateMatchedDeposits
      BY <2>2, <3>1, StatusType DEF UpdateMatchedDeposits, Settled, PInv, Inv, Ids
    <3>2. CASE \/ UNCHANGED vars
               \/ \E x \in Ids : Insert(x)
      BY <2>2, <3>2 DEF vars, Insert, matching, Settled, MatchedDeposits, M!UnmatchedDeposits
    <3>3. UpdateMatchedDeposits \/ UNCHANGED vars \/ (\E x \in Ids : Insert(x))
      <4>1. CASE Crash
        BY <1>1, <4>1 DEF Crash, PInv, Inv, TypeOK
      <4>2. CASE ~Crash
        BY <2>2, <4>2 DEF Next, Reconciler, StartRun, ReadPayments, ReadDeposits,
           SkipLocation, OpenLocation, Match, UpdateMatchedPayments, RejectMatchedPayments,
           PaymentsInProgress, DepositsInProgress, ReadPaymentExceptions,
           ReadDepositExceptions, PaymentExceptions, DepositExceptions, SkipExceptions,
           FinishRun
      <4>. QED
        BY <4>1, <4>2
    <3>. QED
      BY <3>1, <3>2, <3>3
  <2>. QED
    BY <1>3, <2>1, <2>2 DEF Settled
<1>4. ASSUME NEW p \in Payments, depositOf'[p] # NoDeposit
      PROVE  /\ status'[p] = "MATCH" /\ Settled(depositOf[p])'
             /\ \A q \in Payments \ {p} : depositOf'[q] # depositOf'[p]
             /\ \A q \in Payments : depositOf'[p] \notin joined'[q]
  <2>1. /\ depositOf[p] \in Deposits /\ status[p] = "MATCH" /\ Settled(depositOf[p])
        /\ \A q \in Payments \ {p} : depositOf[q] # depositOf[p]
        /\ \A q \in Payments : depositOf[p] \notin joined[q]
    BY <1>1, <1>4 DEF PInv, Inv, TypeOK, Books
  <2>2. Settled(depositOf[p])'
    BY <1>1, <1>3, <2>1 DEF Settled
  <2>. QED
    BY <1>1, <1>2, <2>1, <2>2 DEF Ids
<1>5. ASSUME NEW p \in Payments, NEW d \in joined'[p]
      PROVE  status'[p] = "MATCH" /\ Settled(d)'
  <2>1. d \in Deposits /\ status[p] = "MATCH" /\ Settled(d)
    BY <1>1, <1>5 DEF PInv, Inv, TypeOK, Books
  <2>. QED
    BY <1>2, <1>3, <2>1 DEF Ids
<1>. QED
  BY <1>4, <1>5 DEF Books

LEMMA PInvariance == Spec => []PInv
<1>1. PInv /\ [Next]_vars => PInv'
  BY InvStep, TodoStep, PairedStep, BooksStep, JoinedStep DEF PInv
<1>. QED
  BY <1>1, PInvInit, PTL DEF Spec

\* As long as no run is killed, the link columns of payment and pos_deposit and
\* the join table agree with the statuses after each run, and no deposit is
\* given out twice: within one run because matching pairs one to one, between
\* runs because a deposit that was given out is no longer open.
THEOREM LinksAlwaysAgree == Spec => []LinksAgree
<1>1. PInv => LinksAgree
  BY DEF PInv, Books, Settled, LinksAgree
<1>. QED
  BY <1>1, PInvariance, PTL

\* A payment and a deposit that are both MATCH stay joined, or apart.
LEMMA JoinStays ==
  ASSUME PInv, [Next]_vars, NEW p \in Payments, NEW d \in Deposits,
         status[p] = "MATCH", status[d] = "MATCH"
  PROVE  d \in joined'[p] <=> d \in joined[p]
<1>1. CASE UpdateMatchedDeposits
  <2>1. joined'[p] = (joined[p] \ Rejoined) \cup roundFourMatches[p]
    BY <1>1 DEF UpdateMatchedDeposits
  <2>2. d \notin MatchedDeposits
    BY <1>1, MatchedAreOpen DEF UpdateMatchedDeposits, PInv
  <2>3. d \notin Rejoined /\ d \notin roundFourMatches[p]
    BY <1>1, <2>2, RejoinedAreMatched DEF Rejoined
  <2>. QED
    BY <2>1, <2>3
<1>2. CASE ~UpdateMatchedDeposits
  BY <1>2, LinksStay DEF PInv
<1>. QED
  BY <1>1, <1>2

\* What a payment was matched to in rounds ONE to THREE it keeps.  Its join rows
\* to deposits that are MATCH are final too: what a run saves was open when it
\* was read, and still is.  Join rows to open deposits exist between the two
\* transactions only, unless a run was killed there.
THEOREM MatchesAreFinal == Spec => MatchIsFinal
<1>1. ASSUME PInv, [Next]_vars, NEW p \in Payments, NEW d \in Deposits,
             status[p] = "MATCH", status[d] = "MATCH" \/ crashes = 0
      PROVE  d \in joined'[p] <=> d \in joined[p]
  <2>1. CASE status[d] = "MATCH"
    BY <1>1, <2>1, JoinStays
  <2>2. CASE crashes = 0 /\ UpdateMatchedDeposits
    BY <1>1, <2>2, SameRows
  <2>3. CASE ~UpdateMatchedDeposits
    BY <1>1, <2>3, LinksStay DEF PInv
  <2>. QED
    BY <1>1, <2>1, <2>2, <2>3
<1>2. PInv /\ [Next]_vars =>
        [\A p \in Payments : status[p] = "MATCH" =>
           /\ depositOf'[p] = depositOf[p]
           /\ \A d \in Deposits : status[d] = "MATCH" \/ crashes = 0 =>
                (d \in joined'[p] <=> d \in joined[p])]_vars
  BY <1>1, LinksStay DEF PInv
<1>. QED
  BY <1>2, PInvariance, PTL DEF Spec, MatchIsFinal
-----------------------------------------------------------------------------
\* What matching has settled it has settled with payments, or as a bucket of
\* deposits that make up 0.
PaidWith(d) == \E p \in MatchedPayments : posDepositMatch[p] = d \/ d \in roundFourMatches[p]
PairedOff(d) == \E D \in SUBSET MatchedDeposits : d \in D /\ OneBucket(D) /\ MakeZero(D)
PaidInMemory ==
  pc \in {"matching", "matchDeposits"} =>
    \A d \in MatchedDeposits : PaidWith(d) \/ PairedOff(d)

\* The deposits of one call of reconcile() are of one location.
OneLocation ==
  pc \in {"matching", "matchDeposits"} =>
    \A d, e \in pendingDeposits : LocationOf[d] = LocationOf[e]

\* The payments are saved before the deposits.
PaidBefore ==
  pc = "matchDeposits" => \A p \in MatchedPayments :
    /\ status[p] = "MATCH"
    /\ posDepositMatch[p] # NoDeposit => depositOf[p] = posDepositMatch[p]

DInv == PInv /\ OneLocation /\ PaidInMemory /\ PaidBefore /\ DepositHasItsPayment

LEMMA LonelyDeposits ==
  ASSUME NEW k, M!BucketPayments(k) = {}, M!SumsAgree(k)
  PROVE  MakeZero(M!BucketDeposits(k))
BY DEF M!SumsAgree, M!MapThenSumSet, M!MapThenFoldSet, MakeZero, MapThenSumSet, MapThenFoldSet

LEMMA LocationStep == DInv /\ [Next]_vars => OneLocation'
<1>. SUFFICES ASSUME DInv, [Next]_vars PROVE OneLocation'
  OBVIOUS
<1>1. ASSUME NEW l \in Locations, OpenLocation(l) PROVE OneLocation'
  BY <1>1 DEF OpenLocation, M!StartMatching, AtLocation, OneLocation
<1>2. CASE pc \in {"matching", "matchDeposits"} /\ pendingDeposits' = pendingDeposits
  BY <1>2 DEF DInv, OneLocation
<1>3. CASE pc' \notin {"matching", "matchDeposits"}
  BY <1>3 DEF OneLocation
<1>4. CASE Match
  BY <1>2, <1>4, MatchType DEF Match, DInv, PInv, Inv
<1>5. \/ Match \/ (\E l \in Locations : OpenLocation(l)) \/ pc' \notin {"matching", "matchDeposits"}
      \/ (pc \in {"matching", "matchDeposits"} /\ pendingDeposits' = pendingDeposits)
  BY DEF Next, Reconciler, vars, matching, Insert, StartRun, ReadPayments, ReadDeposits,
     SkipLocation, UpdateMatchedPayments, RejectMatchedPayments, UpdateMatchedDeposits,
     PaymentsInProgress, DepositsInProgress, ReadPaymentExceptions, ReadDepositExceptions,
     PaymentExceptions, SkipExceptions, DepositExceptions, FinishRun, Crash, EndOfRun
<1>. QED
  BY <1>1, <1>2, <1>3, <1>4, <1>5

LEMMA PaidByMatch ==
  ASSUME TypeOK, TodoPending, WellPaired, OneLocation, PaidInMemory,
         pc = "matching", pc' = "matching", M!Next
  PROVE  PaidInMemory'
<1>. USE Disjoint DEF TypeOK, MatchedPayments, MatchedDeposits, M!UnmatchedPayments,
       M!UnmatchedDeposits, M!inputs
<1>1. \A d \in MatchedDeposits : PaidWith(d) \/ PairedOff(d)
  BY DEF PaidInMemory
<1>2. \A p \in Payments : p \notin MatchedPayments =>
        posDepositMatch[p] = NoDeposit /\ roundFourMatches[p] = {}
  BY DEF WellPaired
<1>3. ASSUME MatchedDeposits \subseteq MatchedDeposits', NEW d, PairedOff(d) PROVE PairedOff(d)'
  BY <1>3 DEF PairedOff
<1>4. ASSUME NEW p \in Payments, M!PairPayment(p) PROVE PaidInMemory'
  <2>1. PICK d \in M!First(M!Candidates(p, round), DepositRow) :
          /\ paymentRound' = [paymentRound EXCEPT ![p] = round]
          /\ depositRound' = [depositRound EXCEPT ![d] = round]
          /\ posDepositMatch' = [posDepositMatch EXCEPT ![p] = d]
    BY <1>4 DEF M!PairPayment
  <2>2. /\ d \in pendingDeposits /\ p \in pendingPayments /\ paymentRound[p] = M!NONE
        /\ round \in M!ONE .. M!THREE
        /\ UNCHANGED <<pendingPayments, pendingDeposits, roundFourMatches>>
    BY <1>4, <2>1 DEF M!First, M!Candidates, M!CheckMatch, M!PairPayment, TodoPending
  <2>3. PaidWith(d)'
    <3>1. p \in MatchedPayments' /\ posDepositMatch'[p] = d
      BY <2>1, <2>2
    <3>. QED
      BY <3>1 DEF PaidWith
  <2>4. MatchedDeposits \subseteq MatchedDeposits'
    BY <2>1, <2>2
  <2>5. ASSUME NEW e \in MatchedDeposits, PaidWith(e) PROVE PaidWith(e)'
    <3>1. PICK q \in MatchedPayments : posDepositMatch[q] = e \/ e \in roundFourMatches[q]
      BY <2>5 DEF PaidWith
    <3>2. q # p /\ q \in MatchedPayments'
      BY <2>1, <2>2, <3>1
    <3>3. posDepositMatch'[q] = posDepositMatch[q] /\ roundFourMatches'[q] = roundFourMatches[q]
      BY <2>1, <2>2, <3>2
    <3>. QED
      BY <3>1, <3>2, <3>3 DEF PaidWith
  <2>6. ASSUME NEW e \in MatchedDeposits', e # d PROVE e \in MatchedDeposits
    BY <2>1, <2>2, <2>6
  <2>. QED
    BY <1>1, <1>3, <2>3, <2>4, <2>5, <2>6 DEF PaidInMemory
<1>5. ASSUME NEW k \in todo, M!SettleBucket(k) PROVE PaidInMemory'
  <2>1. /\ UNCHANGED <<pendingPayments, pendingDeposits, posDepositMatch>>
        /\ \A p \in Payments : paymentRound'[p] =
             IF p \in M!BucketPayments(k) THEN M!FOUR ELSE paymentRound[p]
        /\ \A d \in Deposits : depositRound'[d] =
             IF d \in M!BucketDeposits(k) THEN M!FOUR ELSE depositRound[d]
        /\ \A p \in Payments : roundFourMatches'[p] =
             IF p \in M!BucketPayments(k) THEN M!BucketDeposits(k) ELSE roundFourMatches[p]
    BY <1>5 DEF M!SettleBucket
  <2>2. /\ M!BucketPayments(k) \subseteq M!UnmatchedPayments
        /\ M!BucketDeposits(k) \subseteq M!UnmatchedDeposits
    BY DEF M!BucketPayments, M!BucketDeposits
  <2>3. /\ M!BucketPayments(k) \subseteq MatchedPayments'
        /\ MatchedPayments \subseteq MatchedPayments'
        /\ MatchedDeposits \subseteq MatchedDeposits'
        /\ M!BucketDeposits(k) \subseteq MatchedDeposits'
        /\ MatchedDeposits' \subseteq MatchedDeposits \cup M!BucketDeposits(k)
    BY <2>1, <2>2
  <2>4. ASSUME NEW e \in M!BucketDeposits(k) PROVE PaidWith(e)' \/ PairedOff(e)'
    <3>1. CASE M!BucketPayments(k) = {}
      <4>1. MakeZero(M!BucketDeposits(k))
        BY <1>5, <3>1, LonelyDeposits DEF M!SettleBucket
      <4>2. OneBucket(M!BucketDeposits(k))
        BY <2>2 DEF OneBucket, OneLocation, M!BucketDeposits
      <4>. QED
        BY <2>3, <2>4, <4>1, <4>2 DEF PairedOff
    <3>2. CASE M!BucketPayments(k) # {}
      <4>1. PICK q \in M!BucketPayments(k) : q \in Payments
        BY <2>2, <3>2
      <4>. QED
        BY <2>1, <2>3, <2>4, <4>1 DEF PaidWith
    <3>. QED
      BY <3>1, <3>2
  <2>5. ASSUME NEW e \in MatchedDeposits, PaidWith(e) PROVE PaidWith(e)'
    <3>1. PICK q \in MatchedPayments : posDepositMatch[q] = e \/ e \in roundFourMatches[q]
      BY <2>5 DEF PaidWith
    <3>2. q \in Payments /\ q \notin M!BucketPayments(k)
      BY <2>2
    <3>. QED
      BY <2>1, <2>3, <3>1, <3>2 DEF PaidWith
  <2>. QED
    BY <1>1, <1>3, <2>3, <2>4, <2>5 DEF PaidInMemory
<1>6. CASE UNCHANGED <<pendingPayments, pendingDeposits, paymentRound, depositRound,
                       posDepositMatch, roundFourMatches>>
  BY <1>1, <1>6 DEF PaidInMemory, PaidWith, PairedOff
<1>7. \/ \E p \in Payments : M!PairPayment(p)
      \/ \E k \in todo : M!SettleBucket(k)
      \/ UNCHANGED <<pendingPayments, pendingDeposits, paymentRound, depositRound,
                     posDepositMatch, roundFourMatches>>
  BY DEF M!Next, M!SkipPayment, M!NextRound, M!EnterRound, M!LeaveBucket, M!Return
<1>. QED
  BY <1>4, <1>5, <1>6, <1>7

LEMMA MemoryStep == DInv /\ [Next]_vars => PaidInMemory'
<1>. SUFFICES ASSUME DInv, [Next]_vars PROVE PaidInMemory'
  OBVIOUS
<1>1. CASE Match
  BY <1>1, PaidByMatch DEF Match, DInv, PInv, Inv
<1>2. ASSUME NEW l \in Locations, OpenLocation(l) PROVE PaidInMemory'
  <2>1. MatchedDeposits' = {}
    BY <1>2 DEF OpenLocation, M!StartMatching, MatchedDeposits, M!UnmatchedDeposits, AtLocation,
       DInv, PInv, Inv, TypeOK
  <2>. QED
    BY <2>1 DEF PaidInMemory
<1>3. CASE UNCHANGED matching /\ (pc' = pc \/ UpdateMatchedPayments)
  BY <1>3 DEF UpdateMatchedPayments, matching, DInv, PaidInMemory, PaidWith, PairedOff,
     MatchedPayments, MatchedDeposits, M!UnmatchedPayments, M!UnmatchedDeposits
<1>4. CASE pc' \notin {"matching", "matchDeposits"}
  BY <1>4 DEF PaidInMemory
<1>5. \/ Match \/ (\E l \in Locations : OpenLocation(l))
      \/ (UNCHANGED matching /\ (pc' = pc \/ UpdateMatchedPayments))
      \/ pc' \notin {"matching", "matchDeposits"}
  BY DEF Next, Reconciler, vars, Insert, StartRun, ReadPayments, ReadDeposits, SkipLocation,
     UpdateMatchedPayments, RejectMatchedPayments, UpdateMatchedDeposits, PaymentsInProgress,
     DepositsInProgress, ReadPaymentExceptions, ReadDepositExceptions, PaymentExceptions,
     SkipExceptions, DepositExceptions, FinishRun, Crash, EndOfRun
<1>. QED
  BY <1>1, <1>2, <1>3, <1>4, <1>5

LEMMA BeforeStep == DInv /\ [Next]_vars => PaidBefore'
<1>. SUFFICES ASSUME DInv, [Next]_vars, pc' = "matchDeposits", NEW p \in MatchedPayments'
              PROVE  /\ status'[p] = "MATCH"
                     /\ posDepositMatch'[p] # NoDeposit => depositOf'[p] = posDepositMatch'[p]
  BY DEF PaidBefore
<1>. USE DEF DInv, PInv, Inv
<1>1. CASE UpdateMatchedPayments
  <2>1. p \in MatchedPayments /\ p \in Payments /\ posDepositMatch' = posDepositMatch
    BY <1>1 DEF UpdateMatchedPayments, matching, MatchedPayments, M!UnmatchedPayments, TypeOK
  <2>2. status'[p] = "MATCH"
    BY <1>1, <2>1, StatusType DEF UpdateMatchedPayments, Ids
  <2>3. posDepositMatch[p] # NoDeposit => depositOf'[p] = posDepositMatch[p]
    BY <1>1, <2>1 DEF UpdateMatchedPayments
  <2>. QED
    BY <2>1, <2>2, <2>3
<1>2. CASE pc = "matchDeposits" /\ UNCHANGED matching
  <2>1. p \in MatchedPayments /\ p \in Payments /\ posDepositMatch' = posDepositMatch
    BY <1>2 DEF matching, MatchedPayments, M!UnmatchedPayments, TypeOK
  <2>2. status[p] = "MATCH" /\ (posDepositMatch[p] # NoDeposit => depositOf[p] = posDepositMatch[p])
    BY <1>2, <2>1 DEF PaidBefore
  <2>. QED
    BY <2>1, <2>2, MatchStays, LinksStay DEF Ids
<1>3. UpdateMatchedPayments \/ (pc = "matchDeposits" /\ UNCHANGED matching)
  BY DEF Next, Reconciler, vars, Insert, StartRun, ReadPayments, ReadDeposits, SkipLocation,
     OpenLocation, Match, RejectMatchedPayments, UpdateMatchedDeposits, PaymentsInProgress,
     DepositsInProgress, ReadPaymentExceptions, ReadDepositExceptions, PaymentExceptions,
     SkipExceptions, DepositExceptions, FinishRun, Crash, EndOfRun
<1>. QED
  BY <1>1, <1>2, <1>3

LEMMA NewMatch ==
  ASSUME TypeOK, [Next]_vars, NEW d \in Deposits, status[d] # "MATCH", status'[d] = "MATCH"
  PROVE  UpdateMatchedDeposits
<1>1. CASE \E x \in Ids : Insert(x)
  BY <1>1 DEF Insert, TypeOK, Ids
<1>2. CASE UpdateMatchedPayments
  BY <1>2, Disjoint, StatusType DEF UpdateMatchedPayments, MatchedPayments, TypeOK, Ids
<1>3. CASE PaymentsInProgress \/ DepositsInProgress
  BY <1>3 DEF PaymentsInProgress, DepositsInProgress, SetStatus, Ids
<1>4. CASE DepositExceptions \/ \E l \in Locations : PaymentExceptions(l)
  BY <1>4 DEF PaymentExceptions, DepositExceptions, SetStatus, Ids
<1>. QED
  BY <1>1, <1>2, <1>3, <1>4 DEF Next, Reconciler, vars, database, StartRun, ReadPayments,
     ReadDeposits, SkipLocation, OpenLocation, Match, RejectMatchedPayments,
     ReadPaymentExceptions, ReadDepositExceptions, SkipExceptions, FinishRun, Crash

\* The transaction of the deposits: what was settled in memory is in the tables.
LEMMA PaidByDeposits ==
  ASSUME DInv, [Next]_vars, UpdateMatchedDeposits, NEW d \in MatchedDeposits
  PROVE  HasPayment(d)' \/ NeedsNoPayment(d)'
<1>. USE DEF DInv, PInv, Inv
<1>0. pc = "matchDeposits" /\ MatchedDeposits \subseteq Deposits /\ MatchedPayments \subseteq Payments
  BY DEF UpdateMatchedDeposits, MatchedDeposits, MatchedPayments, TypeOK
<1>1. CASE PaidWith(d)
  <2>1. PICK p \in MatchedPayments : posDepositMatch[p] = d \/ d \in roundFourMatches[p]
    BY <1>1 DEF PaidWith
  <2>2. p \in Payments /\ d \in Deposits /\ d # NoDeposit
    BY <1>0, Disjoint
  <2>3. status[p] = "MATCH" /\ status'[p] = "MATCH" /\ depositOf'[p] = depositOf[p]
    BY <1>0, <2>2, MatchStays, LinksStay DEF PaidBefore, Ids
  <2>4. CASE posDepositMatch[p] = d
    <3>1. depositOf'[p] = d
      BY <1>0, <2>2, <2>3, <2>4 DEF PaidBefore
    <3>. QED
      BY <2>2, <2>3, <3>1 DEF HasPayment, Refers
  <2>5. CASE d \in roundFourMatches[p]
    <3>1. d \in joined'[p]
      BY <2>2, <2>5 DEF UpdateMatchedDeposits
    <3>. QED
      BY <2>2, <2>3, <3>1 DEF HasPayment, Refers
  <2>. QED
    BY <2>1, <2>4, <2>5
<1>2. CASE PairedOff(d)
  <2>1. PICK D \in SUBSET MatchedDeposits : d \in D /\ OneBucket(D) /\ MakeZero(D)
    BY <1>2 DEF PairedOff
  <2>2. D \in SUBSET Deposits
    BY <1>0, <2>1
  <2>3. \A e \in D : status'[e] = "MATCH"
    BY <1>0, <2>1, StatusType DEF UpdateMatchedDeposits, Ids
  <2>. QED
    BY <2>1, <2>2, <2>3 DEF NeedsNoPayment
<1>. QED
  BY <1>0, <1>1, <1>2 DEF PaidInMemory

LEMMA PaidStep == DInv /\ [Next]_vars => DepositHasItsPayment'
<1>. SUFFICES ASSUME DInv, [Next]_vars, NEW d \in Deposits, status'[d] = "MATCH"
              PROVE  HasPayment(d)' \/ NeedsNoPayment(d)'
  BY DEF DepositHasItsPayment
<1>. USE DEF DInv, PInv, Inv
<1>1. CASE status[d] = "MATCH"
  <2>1. CASE HasPayment(d)
    <3>1. PICK p \in Payments : status[p] = "MATCH" /\ Refers(p, d)
      BY <2>1 DEF HasPayment
    <3>2. /\ status'[p] = "MATCH" /\ depositOf'[p] = depositOf[p]
          /\ d \in joined'[p] <=> d \in joined[p]
      BY <1>1, <3>1, MatchStays, LinksStay, JoinStays DEF Ids
    <3>. QED
      BY <3>1, <3>2 DEF HasPayment, Refers
  <2>2. CASE NeedsNoPayment(d)
    <3>1. PICK D \in SUBSET Deposits :
            d \in D /\ OneBucket(D) /\ MakeZero(D) /\ \A e \in D : status[e] = "MATCH"
      BY <2>2 DEF NeedsNoPayment
    <3>2. \A e \in D : status'[e] = "MATCH"
      BY <3>1, MatchStays DEF Ids
    <3>. QED
      BY <3>1, <3>2 DEF NeedsNoPayment
  <2>. QED
    BY <1>1, <2>1, <2>2 DEF DepositHasItsPayment
<1>2. CASE status[d] # "MATCH"
  <2>1. UpdateMatchedDeposits
    BY <1>2, NewMatch
  <2>2. d \in MatchedDeposits
    BY <1>2, <2>1, StatusType DEF UpdateMatchedDeposits, Ids
  <2>. QED
    BY <2>1, <2>2, PaidByDeposits
<1>. QED
  BY <1>1, <1>2

\* Wherever runs are killed, a deposit is MATCH only if a MATCH payment refers to
\* it, or if it and other MATCH deposits of its bucket make up 0.
THEOREM MatchedDepositsArePaid == Spec => []DepositHasItsPayment
<1>1. Init => DInv
  BY PInvInit DEF Init, DInv, OneLocation, PaidInMemory, PaidBefore, DepositHasItsPayment, Ids
<1>2. DInv /\ [Next]_vars => DInv'
  <2>1. PInv /\ [Next]_vars => PInv'
    BY InvStep, TodoStep, PairedStep, BooksStep, JoinedStep DEF PInv
  <2>. QED
    BY <2>1, LocationStep, MemoryStep, BeforeStep, PaidStep DEF DInv
<1>3. DInv => DepositHasItsPayment
  BY DEF DInv
<1>. QED
  BY <1>1, <1>2, <1>3, PTL DEF Spec
-----------------------------------------------------------------------------
\* A repeated run.  What the matching of a location leaves is final by the
\* invariant of PosMatchingProofs.
MP == INSTANCE PosMatchingProofs WITH
  Rows <- {PaymentRow[p] : p \in Payments} \cup {DepositRow[d] : d \in Deposits},
  payment <- PaymentRow, deposit <- DepositRow

\* Rows a run for currentDate asks for, and those that will still wait after it.
Waits(x) == status[x] \in Open /\ DateOf(x) <= currentDate
Rest(ids, l) == {x \in ids : LocationOf[x] = l /\ Waits(x) /\ ~Overdue(x)}

\* What the rounds of matching would accept, of payments P and deposits Q.
Fits(p, d, r) ==
  /\ M!PaymentKey(p, r) = M!DepositKey(d)
  /\ M!SameAmount(p, d)
  /\ r = M!ONE => M!WithinMinutes(p, d, 5)
BucketsOf(P, Q) == {M!PaymentKey(p, M!FOUR) : p \in P} \cup {M!DepositKey(d) : d \in Q}
PaidIn(P, k) == {p \in P : M!PaymentKey(p, M!FOUR) = k}
DepositedIn(Q, k) == {d \in Q : M!DepositKey(d) = k}
Agree(P, Q) ==
  LET paid(p) == PaymentRow[p].amount
      deposited(d) == DepositRow[d].amount
  IN  MapThenSumSet(paid, P) = MapThenSumSet(deposited, Q)

NothingToMatch(P, Q) ==
  /\ \A p \in P, d \in Q, r \in M!ONE .. M!THREE : ~Fits(p, d, r)
  /\ \A k \in BucketsOf(P, Q) : ~Agree(PaidIn(P, k), DepositedIn(Q, k))

\* A location another run would leave alone: one of its lists is empty, or all
\* of it is in progress and nothing in it matches.
AtRest(l) ==
  LET P == Rest(Payments, l)
      Q == Rest(Deposits, l) IN
  \/ P = {} \/ Q = {}
  \/ /\ \A x \in P \cup Q : status[x] = "IN_PROGRESS"
     /\ NothingToMatch(P, Q)

\* Between two runs, and through a repeated one, nothing is left to do.
Calm ==
  /\ pc = "idle" /\ quiet \notin {DIRTY, UNKNOWN} => quiet = currentDate
  /\ quiet = currentDate =>
       (\A l \in Locations : AtRest(l)) /\ (\A x \in Ids : ~Overdue(x))

Hand == {"matching", "matchDeposits", "paymentsInProgress", "depositsInProgress"}
Exceptions == {"readDepositExceptions", "exceptions", "depositExceptions"}

\* The arrays hold all rows that wait, and no others.
Complete ==
  /\ pc \in {"readDeposits", "locations"} \cup Hand =>
       /\ \A p \in DOMAIN payments : DateOf(p) <= currentDate
       /\ quiet # DIRTY => \A p \in Payments : Waits(p) => p \in DOMAIN payments
  /\ pc \in {"locations"} \cup Hand =>
       /\ \A d \in DOMAIN deposits : DateOf(d) <= currentDate
       /\ quiet # DIRTY => \A d \in Deposits : Waits(d) => d \in DOMAIN deposits
  /\ pc \in Exceptions =>
       \A p \in DOMAIN payments : DateOf(p) <= ExceptionsDate(currentDate)
  /\ pc \in Exceptions \ {"readDepositExceptions"} =>
       \A d \in DOMAIN deposits : DateOf(d) <= ExceptionsDate(currentDate)

\* How far the rows of the location at hand have been written.
Written ==
  /\ pc \in Hand => MP!Inv /\ MP!Weighed
  /\ pc \in Hand \ {"matching"} =>
       round = M!DONE /\ \A p \in MatchedPayments : status[p] = "MATCH"
  /\ pc \in {"paymentsInProgress", "depositsInProgress"} =>
       \A d \in MatchedDeposits : status[d] = "MATCH"
  /\ pc = "depositsInProgress" =>
       \A p \in M!UnmatchedPayments : status[p] = "IN_PROGRESS"

\* The locations behind the loop are at rest.
Behind ==
  quiet # DIRTY =>
    /\ pc = "locations" => \A l \in Locations \ locationsLeft : AtRest(l)
    /\ pc \in Hand => \E h \in Locations \ locationsLeft :
         /\ pendingPayments = AtLocation(payments, h)
         /\ pendingDeposits = AtLocation(deposits, h)
         /\ \A l \in Locations \ (locationsLeft \cup {h}) : AtRest(l)
    /\ pc \in Exceptions => \A l \in Locations : AtRest(l)

\* A repeated run finds nothing to match and nothing overdue.
Idling ==
  quiet = currentDate =>
    /\ pc \in Hand =>
         /\ \A p \in Payments : paymentRound[p] = M!NONE
         /\ \A d \in Deposits : depositRound[d] = M!NONE
         /\ NothingToMatch(pendingPayments, pendingDeposits)
         /\ \A p \in pendingPayments : payments[p] = "IN_PROGRESS"
         /\ \A d \in pendingDeposits : deposits[d] = "IN_PROGRESS"
    /\ pc \in Exceptions => DOMAIN payments = {}
    /\ pc \in Exceptions \ {"readDepositExceptions"} => DOMAIN deposits = {}
    /\ pc = "depositExceptions" => pendingDeposits = {}

RInv == Inv /\ Calm /\ Complete /\ Written /\ Behind /\ Idling

-----------------------------------------------------------------------------
\* Matching here is matching there.
LEMMA SameAssumption == MP!PosMatchingAssumption
BY PosReconciliationAssumption DEF M!PosMatchingAssumption, MP!PosMatchingAssumption

LEMMA SameStep == [M!Next]_(M!vars) => [MP!Next]_(MP!vars)
BY DEF M!Next, M!vars, MP!Next, MP!vars,
  M!PairPayment, M!SkipPayment, M!NextRound, M!SettleBucket, M!LeaveBucket, M!Return,
  MP!PairPayment, MP!SkipPayment, MP!NextRound, MP!SettleBucket, MP!LeaveBucket, MP!Return,
  M!EnterRound, MP!EnterRound, M!inputs, MP!inputs, M!First, MP!First, M!Earlier, MP!Earlier,
  M!Candidates, MP!Candidates, M!CheckMatch, MP!CheckMatch, M!SameAmount, MP!SameAmount,
  M!WithinMinutes, MP!WithinMinutes, M!MinutesApart, MP!MinutesApart,
  M!PaymentKey, MP!PaymentKey, M!DepositKey, MP!DepositKey, M!PrevBusinessDay,
  MP!PrevBusinessDay,
  M!Buckets, MP!Buckets, M!BucketPayments, MP!BucketPayments, M!BucketDeposits,
  MP!BucketDeposits,
  M!UnmatchedPayments, MP!UnmatchedPayments, M!UnmatchedDeposits, MP!UnmatchedDeposits,
  M!SumsAgree, MP!SumsAgree, M!MapThenSumSet, MP!MapThenSumSet, M!MapThenFoldSet,
  MP!MapThenFoldSet,
  M!Max, MP!Max, M!IsWeekend, MP!IsWeekend,
  MP!NONE, MP!ONE, MP!TWO, MP!THREE, MP!FOUR, MP!DONE

LEMMA MatchedSoFar == MP!Inv /\ MP!Weighed /\ M!Next => (MP!Inv /\ MP!Weighed)'
<1>1. MP!Inv /\ [MP!Next]_(MP!vars) => MP!Inv'
  BY SameAssumption, MP!InvStep
<1>2. MP!Inv /\ MP!Weighed /\ [MP!Next]_(MP!vars) => MP!Weighed'
  BY SameAssumption, MP!WeighedStep
<1>. QED
  BY <1>1, <1>2, SameStep

\* StartMatching begins where Init of the matching does.
LEMMA MatchingBegins ==
  ASSUME TypeOK, NEW P \in SUBSET Payments, NEW Q \in SUBSET Deposits, M!StartMatching(P, Q)
  PROVE  (MP!Inv /\ MP!Weighed)'
<1>. USE PosReconciliationAssumption, Disjoint DEF M!StartMatching,
       MP!NONE, MP!ONE, MP!TWO, MP!THREE, MP!FOUR, MP!DONE
<1>1. MP!TypeOK'
  BY DEF MP!TypeOK
<1>2. MP!OneToOne' /\ MP!LinksInPlace' /\ MP!RoundTwoIsLate'
  BY DEF MP!OneToOne, MP!LinksInPlace, MP!RoundTwoIsLate, MP!Rounds
<1>3. MP!Exhausted'
  BY DEF MP!Exhausted, MP!UnmatchedPayments, MP!Rounds
<1>4. MP!Weighed'
  BY DEF MP!Weighed
<1>. QED
  BY <1>1, <1>2, <1>3, <1>4 DEF MP!Inv

\* When the rounds are over, nothing that is left matches.
LEMMA NothingLeft ==
  ASSUME TypeOK, MP!Inv, MP!Weighed, round = M!DONE
  PROVE  NothingToMatch(M!UnmatchedPayments, M!UnmatchedDeposits)
<1>. USE DEF MP!NONE, MP!ONE, MP!TWO, MP!THREE, MP!FOUR, MP!DONE
<1>1. ASSUME NEW p \in M!UnmatchedPayments, NEW d \in M!UnmatchedDeposits,
             NEW r \in M!ONE .. M!THREE, Fits(p, d, r)
      PROVE  FALSE
  <2>1. p \in MP!UnmatchedPayments /\ r \in MP!Rounds /\ r < round
    BY <1>1 DEF M!UnmatchedPayments, MP!UnmatchedPayments, MP!Rounds
  <2>2. MP!Candidates(p, r) = {}
    BY <2>1 DEF MP!Inv, MP!Exhausted
  <2>3. d \in M!Candidates(p, r)
    BY <1>1 DEF Fits, M!Candidates, M!CheckMatch, M!UnmatchedPayments, M!UnmatchedDeposits
  <2>4. M!Candidates(p, r) = MP!Candidates(p, r)
    BY DEF M!Candidates, MP!Candidates, M!CheckMatch, MP!CheckMatch, M!SameAmount,
       MP!SameAmount,
       M!WithinMinutes, MP!WithinMinutes, M!MinutesApart, MP!MinutesApart, M!PaymentKey,
       MP!PaymentKey, M!DepositKey, MP!DepositKey, M!PrevBusinessDay, MP!PrevBusinessDay,
       M!Max, MP!Max, M!IsWeekend, MP!IsWeekend
  <2>. QED
    BY <2>2, <2>3, <2>4
<1>2. ASSUME NEW k \in BucketsOf(M!UnmatchedPayments, M!UnmatchedDeposits)
      PROVE  ~Agree(PaidIn(M!UnmatchedPayments, k), DepositedIn(M!UnmatchedDeposits, k))
  <2>1. k \in MP!Buckets
    BY <1>2 DEF BucketsOf, MP!Buckets, M!UnmatchedPayments, MP!UnmatchedPayments,
       M!UnmatchedDeposits, MP!UnmatchedDeposits, M!PaymentKey, MP!PaymentKey, M!DepositKey,
       MP!DepositKey
  <2>2. ~MP!SumsAgree(k)
    BY <2>1 DEF MP!Weighed
  <2>3. Agree(PaidIn(M!UnmatchedPayments, k), DepositedIn(M!UnmatchedDeposits, k))
          = MP!SumsAgree(k)
    BY DEF Agree, MapThenSumSet, MapThenFoldSet, PaidIn, DepositedIn, MP!SumsAgree,
       MP!MapThenSumSet, MP!MapThenFoldSet, MP!BucketPayments, MP!BucketDeposits,
       M!UnmatchedPayments, MP!UnmatchedPayments, M!UnmatchedDeposits, MP!UnmatchedDeposits,
       M!PaymentKey, MP!PaymentKey, M!DepositKey, MP!DepositKey
  <2>. QED
    BY <2>2, <2>3
<1>. QED
  BY <1>1, <1>2 DEF NothingToMatch

\* Nor does anything of what is left of it when the rows of some dates are gone:
\* a bucket is of one date.
LEMMA NothingOfLess ==
  ASSUME NEW P \in SUBSET Payments, NEW Q \in SUBSET Deposits, NothingToMatch(P, Q), NEW date
  PROVE  NothingToMatch({p \in P : ~(DateOf(p) <= date)}, {d \in Q : ~(DateOf(d) <= date)})
<1>. DEFINE A == {p \in P : ~(DateOf(p) <= date)}
            B == {d \in Q : ~(DateOf(d) <= date)}
<1>1. ASSUME NEW k \in BucketsOf(A, B) PROVE ~Agree(PaidIn(A, k), DepositedIn(B, k))
  <2>1. ~(k[1] <= date) /\ k \in BucketsOf(P, Q)
    BY Disjoint DEF BucketsOf, DateOf, M!PaymentKey, M!DepositKey
  <2>2. PaidIn(A, k) = PaidIn(P, k)
    BY <2>1 DEF PaidIn, DateOf, M!PaymentKey
  <2>3. DepositedIn(B, k) = DepositedIn(Q, k)
    BY <2>1, Disjoint DEF DepositedIn, DateOf, M!DepositKey
  <2>. QED
    BY <2>1, <2>2, <2>3 DEF NothingToMatch
<1>. QED
  BY <1>1 DEF NothingToMatch
-----------------------------------------------------------------------------
\* The steps that write no status, and those that write some.
LEMMA WritersOnly ==
  ASSUME [Next]_vars
  PROVE  \/ UNCHANGED status
         \/ \E x \in Ids : Insert(x)
         \/ UpdateMatchedPayments \/ UpdateMatchedDeposits
         \/ PaymentsInProgress \/ DepositsInProgress
         \/ \E l \in Locations : PaymentExceptions(l)
         \/ DepositExceptions
BY DEF Next, Reconciler, vars, database, StartRun, ReadPayments, ReadDeposits, SkipLocation,
   OpenLocation, Match, RejectMatchedPayments, ReadPaymentExceptions, ReadDepositExceptions,
   SkipExceptions, FinishRun, Crash

\* Only an insert makes a row wait that did not.
LEMMA NoNewRows ==
  ASSUME Inv, [Next]_vars, quiet' # DIRTY, NEW x \in Ids, status'[x] \in Open
  PROVE  status[x] \in Open
<1>. USE Disjoint DEF Inv, TypeOK, ReadsOpen, AtHand, ReadsStayTrue, Unwritten, Open
<1>1. CASE \E y \in Ids : Insert(y)
  BY <1>1 DEF Insert
<1>2. CASE UpdateMatchedPayments
  BY <1>2, StatusType DEF UpdateMatchedPayments
<1>3. CASE UpdateMatchedDeposits
  BY <1>3, StatusType DEF UpdateMatchedDeposits
<1>4. CASE PaymentsInProgress
  BY <1>4, StatusType DEF PaymentsInProgress, M!UnmatchedPayments, Ids
<1>5. CASE DepositsInProgress
  BY <1>5, StatusType DEF DepositsInProgress, M!UnmatchedDeposits, Ids
<1>6. ASSUME NEW l \in Locations, PaymentExceptions(l) PROVE status[x] \in Open
  BY <1>6, StatusType DEF PaymentExceptions
<1>7. CASE DepositExceptions
  BY <1>7, StatusType DEF DepositExceptions
<1>. QED
  BY <1>1, <1>2, <1>3, <1>4, <1>5, <1>6, <1>7, WritersOnly

\* Where a step that reads nothing comes from.
LEMMA Moves ==
  ASSUME [Next]_vars
  PROVE  \/ ReadPayments \/ ReadDeposits \/ ReadPaymentExceptions \/ ReadDepositExceptions
         \/ \E date \in Days : StartRun(date)
         \/ RejectMatchedPayments \/ FinishRun \/ Crash
         \/ /\ UNCHANGED <<currentDate, payments, deposits>>
            /\ quiet' = quiet \/ quiet' = DIRTY
            /\ pc' = "readDeposits" => pc = "readDeposits"
            /\ pc' \in {"locations"} \cup Hand => pc \in {"locations"} \cup Hand
            /\ pc' \in Exceptions => pc \in Exceptions
            /\ pc' \in Exceptions \ {"readDepositExceptions"} =>
                 pc \in Exceptions \ {"readDepositExceptions"}
BY DEF Next, Reconciler, vars, reads, Hand, Exceptions, Insert, SkipLocation, OpenLocation,
   Match,
   UpdateMatchedPayments, UpdateMatchedDeposits, PaymentsInProgress, DepositsInProgress,
   PaymentExceptions, SkipExceptions, DepositExceptions

LEMMA CompleteStep == Inv /\ Complete /\ [Next]_vars => Complete'
<1>. SUFFICES ASSUME Inv, Complete, [Next]_vars PROVE Complete'
  OBVIOUS
<1>1. CASE ReadPayments
  BY <1>1 DEF ReadPayments, Complete, Hand, Exceptions, Find, Waits, DateOf, database
<1>2. CASE ReadDeposits
  BY <1>2 DEF ReadDeposits, Complete, Hand, Exceptions, Find, Waits, DateOf, database
<1>3. CASE ReadPaymentExceptions
  BY <1>3 DEF ReadPaymentExceptions, Complete, Hand, Exceptions, Find, DateOf
<1>4. CASE ReadDepositExceptions
  BY <1>4 DEF ReadDepositExceptions, Complete, Hand, Exceptions, Find, DateOf
<1>5. ASSUME NEW date \in Days, StartRun(date) PROVE Complete'
  BY <1>5 DEF StartRun, Complete, Hand, Exceptions
<1>6. CASE RejectMatchedPayments \/ FinishRun \/ Crash
  BY <1>6 DEF RejectMatchedPayments, FinishRun, Crash, EndOfRun, Complete, Hand, Exceptions
<1>7. CASE /\ UNCHANGED <<currentDate, payments, deposits>>
           /\ quiet' = quiet \/ quiet' = DIRTY
           /\ pc' = "readDeposits" => pc = "readDeposits"
           /\ pc' \in {"locations"} \cup Hand => pc \in {"locations"} \cup Hand
           /\ pc' \in Exceptions => pc \in Exceptions
           /\ pc' \in Exceptions \ {"readDepositExceptions"} =>
                pc \in Exceptions \ {"readDepositExceptions"}
  <2>1. quiet' # DIRTY => \A x \in Ids : Waits(x)' => Waits(x)
    BY <1>7, NoNewRows DEF Waits, DateOf
  <2>2. \A x : DateOf(x)' = DateOf(x)
    BY DEF DateOf
  <2>. QED
    BY <1>7, <2>1, <2>2 DEF Complete, Ids
<1>. QED
  BY <1>1, <1>2, <1>3, <1>4, <1>5, <1>6, <1>7, Moves
-----------------------------------------------------------------------------
\* The steps to an await at which a location is at hand.
LEMMA IntoHand ==
  ASSUME Inv, [Next]_vars, pc' \in Hand
  PROVE  \/ \E l \in Locations : OpenLocation(l)
         \/ /\ pc \in Hand
            /\ Match \/ UNCHANGED matching
            /\ UNCHANGED <<currentDate, payments, deposits, locationsLeft, pendingPayments,
                           pendingDeposits>>
            /\ quiet' = quiet \/ quiet' = DIRTY
BY MatchType DEF Inv, Next, Reconciler, vars, reads, matching, Hand, EndOfRun,
   Insert, StartRun, ReadPayments, ReadDeposits, SkipLocation, Match, UpdateMatchedPayments,
   RejectMatchedPayments, UpdateMatchedDeposits, PaymentsInProgress, DepositsInProgress,
   ReadPaymentExceptions, ReadDepositExceptions, PaymentExceptions, SkipExceptions,
   DepositExceptions, FinishRun, Crash

\* The steps to an await of findPosExceptions.
LEMMA IntoExceptions ==
  ASSUME [Next]_vars, pc' \in Exceptions
  PROVE  /\ pc # "idle" /\ UNCHANGED currentDate
         /\ quiet' = quiet \/ quiet' = DIRTY
         /\ \/ ReadPaymentExceptions
            \/ ReadDepositExceptions
            \/ \E l \in Locations : PaymentExceptions(l)
            \/ /\ pc \in Exceptions /\ (pc' = pc \/ DepositExceptions)
               /\ UNCHANGED <<payments, deposits, pendingDeposits>>
BY DEF Next, Reconciler, vars, reads, matching, Exceptions, EndOfRun,
   Insert, StartRun, ReadPayments, ReadDeposits, SkipLocation, OpenLocation, Match,
   UpdateMatchedPayments, RejectMatchedPayments, UpdateMatchedDeposits, PaymentsInProgress,
   DepositsInProgress, ReadPaymentExceptions, ReadDepositExceptions, PaymentExceptions,
   SkipExceptions, DepositExceptions, FinishRun, Crash

LEMMA MatchingAtHand ==
  ASSUME Inv, Written, [Next]_vars, pc' \in Hand
  PROVE  (MP!Inv /\ MP!Weighed)'
<1>1. ASSUME NEW l \in Locations, OpenLocation(l) PROVE (MP!Inv /\ MP!Weighed)'
  <2>1. PICK P \in SUBSET Payments, Q \in SUBSET Deposits :
          P = AtLocation(payments, l) /\ Q = AtLocation(deposits, l)
    BY DEF AtLocation, Inv, TypeOK
  <2>2. M!StartMatching(P, Q)
    BY <1>1, <2>1 DEF OpenLocation
  <2>. QED
    BY <2>2, MatchingBegins DEF Inv
<1>2. CASE Match
  BY <1>2, MatchedSoFar DEF Match, Written, Hand
<1>3. CASE pc \in Hand /\ UNCHANGED matching
  <2>1. MP!Inv /\ MP!Weighed /\ UNCHANGED MP!vars
    BY <1>3 DEF Written, matching, MP!vars
  <2>. QED
    BY <2>1, SameAssumption, MP!InvStep, MP!WeighedStep
<1>. QED
  BY <1>1, <1>2, <1>3, IntoHand

LEMMA WrittenStep == Inv /\ Written /\ [Next]_vars => Written'
<1>. SUFFICES ASSUME Inv, Written, [Next]_vars PROVE Written'
  OBVIOUS
<1>. USE MatchingAtHand, Disjoint DEF Written, Hand, MatchedPayments, MatchedDeposits,
       M!UnmatchedPayments, M!UnmatchedDeposits
<1>1. CASE pc' \notin Hand \/ pc' = "matching"
  BY <1>1
<1>2. CASE UpdateMatchedPayments
  BY <1>2, StatusType DEF UpdateMatchedPayments, matching, Inv, TypeOK, Ids
<1>3. CASE UpdateMatchedDeposits
  BY <1>3, StatusType DEF UpdateMatchedDeposits, matching, Inv, TypeOK, Ids
<1>4. CASE PaymentsInProgress
  <2>1. \A p \in M!UnmatchedPayments : status'[p] = "IN_PROGRESS"
    BY <1>4, StatusType DEF PaymentsInProgress, Inv, TypeOK, ReadsOpen, AtHand, ReadsStayTrue,
       Unwritten, Open, Ids
  <2>. QED
    BY <1>4, <2>1, StatusType DEF PaymentsInProgress, matching, Inv, TypeOK, Ids
<1>5. CASE (\E x \in Ids : Insert(x)) \/ UNCHANGED vars
  BY <1>5 DEF Insert, vars, database, matching, Inv, TypeOK, Ids
<1>. QED
  BY <1>1, <1>2, <1>3, <1>4, <1>5 DEF Next, Reconciler, vars, StartRun, ReadPayments,
     ReadDeposits,
     SkipLocation, OpenLocation, Match, RejectMatchedPayments, DepositsInProgress,
     ReadPaymentExceptions, ReadDepositExceptions, PaymentExceptions, SkipExceptions,
     DepositExceptions, FinishRun, Crash, EndOfRun
-----------------------------------------------------------------------------
\* A location stays at rest while others are written, and while what is overdue
\* becomes an exception.
LEMMA StaysAtRest ==
  ASSUME NEW l \in Locations, AtRest(l), UNCHANGED currentDate,
         \A x \in Ids : LocationOf[x] = l =>
           status'[x] = status[x] \/ (Overdue(x) /\ status'[x] = "EXCEPTION")
  PROVE  AtRest(l)'
<1>1. Rest(Payments, l)' = Rest(Payments, l) /\ Rest(Deposits, l)' = Rest(Deposits, l)
  BY DEF Rest, Waits, Overdue, Open, DateOf, Ids
<1>2. \A x \in Rest(Payments, l) \cup Rest(Deposits, l) : status'[x] = status[x]
  BY DEF Rest, Ids
<1>. QED
  BY <1>1, <1>2 DEF AtRest

\* A location one of whose lists was empty.
LEMMA SkippedAtRest ==
  ASSUME TypeOK, Complete, quiet # DIRTY, NEW l \in Locations, SkipLocation(l)
  PROVE  AtRest(l)
<1>1. /\ \A p \in Rest(Payments, l) : p \in AtLocation(payments, l)
      /\ \A d \in Rest(Deposits, l) : d \in AtLocation(deposits, l)
  BY DEF SkipLocation, Complete, Rest, AtLocation
<1>. QED
  BY <1>1 DEF SkipLocation, AtRest

\* The location at hand, when the last of its rows has been written.
LEMMA SettledAtRest ==
  ASSUME Inv, Complete, Written, quiet # DIRTY, DepositsInProgress, [Next]_vars,
         NEW h \in Locations,
         pendingPayments = AtLocation(payments, h), pendingDeposits = AtLocation(deposits, h)
  PROVE  AtRest(h)'
<1>. DEFINE P == M!UnmatchedPayments
            Q == M!UnmatchedDeposits
            E == ExceptionsDate(currentDate)
<1>1. P \subseteq Payments /\ Q \subseteq Deposits /\ quiet' # DIRTY /\ UNCHANGED currentDate
  BY DEF M!UnmatchedPayments, M!UnmatchedDeposits, Inv, TypeOK, DepositsInProgress
<1>2. /\ \A p \in Payments : status'[p] = status[p]
      /\ \A p \in MatchedPayments : status[p] = "MATCH"
      /\ \A p \in P : status[p] = "IN_PROGRESS"
  BY StatusType, Disjoint DEF DepositsInProgress, Written, Hand, Inv, TypeOK,
     M!UnmatchedDeposits, Ids
<1>3. /\ \A d \in MatchedDeposits : status'[d] = "MATCH"
      /\ \A d \in Q : status'[d] = "IN_PROGRESS"
  BY StatusType, Disjoint DEF DepositsInProgress, Written, Hand, Inv, TypeOK, ReadsOpen,
     AtHand,
     ReadsStayTrue, Unwritten, Open, MatchedDeposits, M!UnmatchedDeposits, Ids
<1>4. /\ \A p \in Rest(Payments, h)' : Waits(p) /\ LocationOf[p] = h
      /\ \A d \in Rest(Deposits, h)' : Waits(d) /\ LocationOf[d] = h
  BY <1>1, NoNewRows DEF Rest, Waits, DateOf, Ids
<1>5. /\ \A p \in Rest(Payments, h)' : p \in pendingPayments
      /\ \A d \in Rest(Deposits, h)' : d \in pendingDeposits
  BY <1>4 DEF Complete, Hand, DepositsInProgress, AtLocation, Rest
<1>6. Rest(Payments, h)' = {p \in P : ~(DateOf(p) <= E)}
  <2>1. ASSUME NEW p \in Rest(Payments, h)' PROVE p \in P /\ ~(DateOf(p) <= E)
    <3>1. p \in Payments /\ status'[p] \in Open
      BY DEF Rest, Waits
    <3>2. p \in P
      BY <1>2, <1>5, <3>1 DEF MatchedPayments, Open
    <3>. QED
      BY <1>1, <1>2, <3>1, <3>2 DEF Rest, Overdue, DateOf
  <2>2. ASSUME NEW p \in P, ~(DateOf(p) <= E) PROVE p \in Rest(Payments, h)'
    <3>1. /\ LocationOf[p] = h /\ p \in DOMAIN payments /\ p \in Payments
          /\ status'[p] = "IN_PROGRESS"
      BY <1>1, <1>2 DEF M!UnmatchedPayments, AtLocation
    <3>2. DateOf(p) <= currentDate
      BY <3>1 DEF Complete, Hand, DepositsInProgress
    <3>. QED
      BY <1>1, <2>2, <3>1, <3>2 DEF Rest, Waits, Overdue, DateOf, Open
  <2>. QED
    BY <2>1, <2>2
<1>7. Rest(Deposits, h)' = {d \in Q : ~(DateOf(d) <= E)}
  <2>1. ASSUME NEW d \in Rest(Deposits, h)' PROVE d \in Q /\ ~(DateOf(d) <= E)
    <3>1. d \in Deposits /\ status'[d] \in Open
      BY DEF Rest, Waits
    <3>2. d \in Q
      BY <1>3, <1>5, <3>1 DEF MatchedDeposits, Open
    <3>. QED
      BY <1>1, <1>3, <3>1, <3>2 DEF Rest, Overdue, DateOf
  <2>2. ASSUME NEW d \in Q, ~(DateOf(d) <= E) PROVE d \in Rest(Deposits, h)'
    <3>1. /\ LocationOf[d] = h /\ d \in DOMAIN deposits /\ d \in Deposits
          /\ status'[d] = "IN_PROGRESS"
      BY <1>1, <1>3 DEF M!UnmatchedDeposits, AtLocation
    <3>2. DateOf(d) <= currentDate
      BY <3>1 DEF Complete, Hand, DepositsInProgress
    <3>. QED
      BY <1>1, <2>2, <3>1, <3>2 DEF Rest, Waits, Overdue, DateOf, Open
  <2>. QED
    BY <2>1, <2>2
<1>8. NothingToMatch(P, Q)
  BY NothingLeft DEF Inv, Written, Hand, DepositsInProgress
<1>9. \A x \in P \cup Q : status'[x] = "IN_PROGRESS"
  BY <1>1, <1>2, <1>3
<1>. HIDE DEF P, Q, E
<1>10. PICK A \in SUBSET Payments, B \in SUBSET Deposits, date \in {E} : A = P /\ B = Q /\ date = E
  BY <1>1
<1>11. NothingToMatch(A, B)
  BY <1>8, <1>10
<1>12. NothingToMatch({p \in A : ~(DateOf(p) <= date)}, {d \in B : ~(DateOf(d) <= date)})
  BY <1>11, NothingOfLess
<1>. QED
  BY <1>6, <1>7, <1>9, <1>10, <1>12 DEF AtRest

\* What is written while location h is at hand is written to rows of h.
LEMMA OthersAtRest ==
  ASSUME Inv, pc \in Hand, [Next]_vars, UNCHANGED currentDate, quiet' # DIRTY,
         NEW h \in Locations,
         pendingPayments = AtLocation(payments, h), pendingDeposits = AtLocation(deposits, h),
         NEW l \in Locations, l # h, AtRest(l)
  PROVE  AtRest(l)'
<1>1. ASSUME NEW x \in Ids, LocationOf[x] = l PROVE status'[x] = status[x]
  <2>1. x \notin pendingPayments \cup pendingDeposits
    BY <1>1 DEF AtLocation
  <2>. USE <2>1 DEF Hand, Inv, TypeOK
  <2>2. CASE \E y \in Ids : Insert(y)
    BY <2>2 DEF Insert
  <2>3. CASE UpdateMatchedPayments
    BY <2>3, StatusType DEF UpdateMatchedPayments, MatchedPayments
  <2>4. CASE UpdateMatchedDeposits
    BY <2>4, StatusType DEF UpdateMatchedDeposits, MatchedDeposits
  <2>5. CASE PaymentsInProgress
    BY <2>5, StatusType DEF PaymentsInProgress, M!UnmatchedPayments
  <2>6. CASE DepositsInProgress
    BY <2>6, StatusType DEF DepositsInProgress, M!UnmatchedDeposits
  <2>. QED
    BY <2>2, <2>3, <2>4, <2>5, <2>6, WritersOnly DEF PaymentExceptions, DepositExceptions
<1>. QED
  BY <1>1, StaysAtRest

\* Exceptions are made of what is overdue.
LEMMA ExceptionsAtRest ==
  ASSUME Inv, Complete, pc \in Exceptions, [Next]_vars, UNCHANGED currentDate, quiet' # DIRTY,
         NEW l \in Locations, AtRest(l)
  PROVE  AtRest(l)'
<1>1. ASSUME NEW x \in Ids
      PROVE  status'[x] = status[x] \/ (Overdue(x) /\ status'[x] = "EXCEPTION")
  <2>. USE Disjoint DEF Exceptions, Inv, TypeOK
  <2>1. CASE \E y \in Ids : Insert(y)
    BY <2>1 DEF Insert
  <2>2. ASSUME NEW h \in Locations, PaymentExceptions(h)
        PROVE  status'[x] = status[x] \/ (Overdue(x) /\ status'[x] = "EXCEPTION")
    <3>1. AtLocation(payments, h) \subseteq Payments
      BY DEF AtLocation
    <3>2. /\ SetStatus(AtLocation(payments, h), "EXCEPTION")
          /\ pc = "exceptions" /\ h \in locationsLeft
      BY <2>2 DEF PaymentExceptions
    <3>3. CASE x \notin AtLocation(payments, h)
      BY <3>2, <3>3, StatusType
    <3>4. CASE x \in AtLocation(payments, h)
      <4>1. status'[x] = "EXCEPTION"
        BY <3>2, <3>4, StatusType
      <4>2. /\ x \in DOMAIN payments /\ LocationOf[x] = h
            /\ DateOf(x) <= ExceptionsDate(currentDate)
        BY <3>2, <3>4 DEF AtLocation, Complete
      <4>3. status[x] = "IN_PROGRESS"
        BY <3>2, <4>2 DEF ReadsOpen, ReadsStayTrue, Unwritten
      <4>. QED
        BY <4>1, <4>2, <4>3 DEF Overdue
    <3>. QED
      BY <3>3, <3>4
  <2>3. CASE DepositExceptions
    <3>1. CASE x \notin pendingDeposits
      BY <2>3, <3>1, StatusType DEF DepositExceptions
    <3>2. CASE x \in pendingDeposits
      <4>1. status'[x] = "EXCEPTION"
        BY <2>3, <3>2, StatusType DEF DepositExceptions
      <4>2. x \in DOMAIN deposits /\ DateOf(x) <= ExceptionsDate(currentDate)
        BY <2>3, <3>2 DEF DepositExceptions, AtHand, Complete
      <4>3. status[x] = "IN_PROGRESS"
        BY <2>3, <3>2, <4>2 DEF DepositExceptions, ReadsOpen, ReadsStayTrue, Unwritten
      <4>. QED
        BY <4>1, <4>2, <4>3 DEF Overdue
    <3>. QED
      BY <3>1, <3>2
  <2>. QED
    BY <2>1, <2>2, <2>3, WritersOnly DEF UpdateMatchedPayments, UpdateMatchedDeposits,
       PaymentsInProgress, DepositsInProgress
<1>. QED
  BY <1>1, StaysAtRest

LEMMA BehindStep == Inv /\ Complete /\ Written /\ Behind /\ [Next]_vars => Behind'
<1>. SUFFICES ASSUME Inv, Complete, Written, Behind, [Next]_vars, quiet' # DIRTY PROVE Behind'
  BY DEF Behind
<1>1. ASSUME NEW l \in Locations, SkipLocation(l) PROVE Behind'
  <2>1. AtRest(l) /\ \A k \in Locations \ locationsLeft : AtRest(k)
    BY <1>1, SkippedAtRest DEF SkipLocation, Behind, Inv
  <2>2. \A k \in Locations \ locationsLeft' : AtRest(k)'
    BY <1>1, <2>1, StaysAtRest DEF SkipLocation, database
  <2>. QED
    BY <1>1, <2>2 DEF SkipLocation, Behind, Hand, Exceptions
<1>2. ASSUME NEW l \in Locations, OpenLocation(l) PROVE Behind'
  <2>1. \A k \in Locations \ locationsLeft : AtRest(k)'
    BY <1>2, StaysAtRest DEF OpenLocation, database, Behind
  <2>. QED
    BY <1>2, <2>1 DEF OpenLocation, M!StartMatching, reads, AtLocation, Behind, Hand,
       Exceptions
<1>3. ASSUME \/ pc \in Hand /\ pc' \in Hand
             \/ DepositsInProgress
      PROVE  Behind'
  <2>1. /\ pc \in Hand /\ quiet # DIRTY
        /\ UNCHANGED <<currentDate, payments, deposits, locationsLeft, pendingPayments,
                       pendingDeposits>>
    BY <1>3, IntoHand DEF DepositsInProgress, Hand, reads, matching, OpenLocation
  <2>2. PICK h \in Locations \ locationsLeft :
          /\ pendingPayments = AtLocation(payments, h)
          /\ pendingDeposits = AtLocation(deposits, h)
          /\ \A l \in Locations \ (locationsLeft \cup {h}) : AtRest(l)
    BY <2>1 DEF Behind
  <2>3. \A l \in Locations \ (locationsLeft \cup {h}) : AtRest(l)'
    BY <2>1, <2>2, OthersAtRest
  <2>4. CASE pc' \in Hand
    BY <2>1, <2>2, <2>3, <2>4 DEF Behind, Hand, Exceptions, AtLocation
  <2>5. CASE DepositsInProgress
    <3>1. AtRest(h)'
      BY <2>1, <2>2, <2>5, SettledAtRest
    <3>. QED
      BY <2>1, <2>3, <2>5, <3>1 DEF DepositsInProgress, Behind, Hand, Exceptions
  <2>. QED
    BY <1>3, <2>4, <2>5
<1>4. CASE ReadPaymentExceptions
  <2>1. \A k \in Locations : AtRest(k)'
    BY <1>4, StaysAtRest DEF ReadPaymentExceptions, database, Behind
  <2>. QED
    BY <1>4, <2>1 DEF ReadPaymentExceptions, Behind, Hand, Exceptions
<1>5. ASSUME pc \in Exceptions, pc' \in Exceptions PROVE Behind'
  <2>1. UNCHANGED currentDate /\ quiet # DIRTY
    BY <1>5, IntoExceptions
  <2>. QED
    BY <1>5, <2>1, ExceptionsAtRest DEF Behind, Hand, Exceptions
<1>6. CASE ReadDeposits
  BY <1>6 DEF ReadDeposits, Behind, Hand, Exceptions
<1>7. CASE UNCHANGED <<pc, status, currentDate, locationsLeft, quiet>> /\ pc = "locations"
  <2>1. \A k \in Locations \ locationsLeft : AtRest(k)'
    BY <1>7, StaysAtRest DEF Behind
  <2>. QED
    BY <1>7, <2>1 DEF Behind, Hand, Exceptions
<1>8. CASE pc' \notin Hand \cup Exceptions \cup {"locations"}
  BY <1>8 DEF Behind
<1>9. CASE pc' \in Hand
  BY <1>2, <1>3, <1>9, IntoHand
<1>10. CASE pc' \in Exceptions
  BY <1>4, <1>5, <1>10, IntoExceptions DEF ReadDepositExceptions, PaymentExceptions, Exceptions
<1>11. CASE pc' = "locations"
  BY <1>1, <1>3, <1>6, <1>7, <1>11 DEF Next, Reconciler, vars, database, EndOfRun,
     Insert, StartRun, ReadPayments, OpenLocation, Match, UpdateMatchedPayments,
     RejectMatchedPayments, UpdateMatchedDeposits, PaymentsInProgress, ReadPaymentExceptions,
     ReadDepositExceptions, PaymentExceptions, SkipExceptions, DepositExceptions, FinishRun,
     Crash
<1>. QED
  BY <1>8, <1>9, <1>10, <1>11

-----------------------------------------------------------------------------
\* The rounds match nothing where nothing is to be matched.
LEMMA NothingIsMatched ==
  ASSUME TypeOK, MP!Inv, M!Next, NothingToMatch(pendingPayments, pendingDeposits),
         \A p \in Payments : paymentRound[p] = M!NONE,
         \A d \in Deposits : depositRound[d] = M!NONE
  PROVE  UNCHANGED <<paymentRound, depositRound>>
<1>. USE DEF TypeOK
<1>1. M!UnmatchedPayments = pendingPayments /\ M!UnmatchedDeposits = pendingDeposits
  BY DEF M!UnmatchedPayments, M!UnmatchedDeposits
<1>2. ASSUME NEW p \in Payments, M!PairPayment(p) PROVE FALSE
  <2>1. PICK d \in M!Candidates(p, round) : TRUE
    BY <1>2 DEF M!PairPayment, M!First
  <2>2. p \in pendingPayments /\ round \in M!ONE .. M!THREE
    BY <1>2 DEF M!PairPayment, M!First, MP!Inv, MP!TypeOK, MP!FOUR
  <2>. QED
    BY <2>1, <2>2 DEF NothingToMatch, Fits, M!Candidates, M!CheckMatch
<1>3. ASSUME NEW k \in todo, M!SettleBucket(k) PROVE UNCHANGED <<paymentRound, depositRound>>
  <2>1. M!SumsAgree(k) = Agree(PaidIn(pendingPayments, k), DepositedIn(pendingDeposits, k))
    BY <1>1 DEF M!SumsAgree, Agree, M!MapThenSumSet, M!MapThenFoldSet, MapThenSumSet,
       MapThenFoldSet,
       M!BucketPayments, M!BucketDeposits, PaidIn, DepositedIn
  <2>2. k \notin BucketsOf(pendingPayments, pendingDeposits)
    BY <1>3, <2>1 DEF NothingToMatch, M!SettleBucket
  <2>3. M!BucketPayments(k) = {} /\ M!BucketDeposits(k) = {}
    BY <1>1, <2>2 DEF M!BucketPayments, M!BucketDeposits, BucketsOf
  <2>. QED
    BY <1>3, <2>3 DEF M!SettleBucket
<1>. QED
  BY <1>2, <1>3 DEF M!Next, M!SkipPayment, M!NextRound, M!EnterRound, M!LeaveBucket, M!Return

\* A location that is opened although it is at rest has nothing to match.
LEMMA OpenedAtRest ==
  ASSUME Inv, Calm, Complete, quiet = currentDate, NEW l \in Locations, OpenLocation(l)
  PROVE  /\ NothingToMatch(AtLocation(payments, l), AtLocation(deposits, l))
         /\ \A p \in AtLocation(payments, l) : payments[p] = "IN_PROGRESS"
         /\ \A d \in AtLocation(deposits, l) : deposits[d] = "IN_PROGRESS"
<1>1. quiet # DIRTY
  BY PosReconciliationAssumption DEF Inv, TypeOK, DIRTY
<1>2. pc = "locations" /\ l \in locationsLeft
  BY DEF OpenLocation
<1>3. \A p \in DOMAIN payments : LocationOf[p] = l => status[p] = payments[p]
  BY <1>2 DEF Inv, ReadsStayTrue, Unwritten
<1>4. \A d \in DOMAIN deposits : LocationOf[d] = l => status[d] = deposits[d]
  BY <1>2 DEF Inv, ReadsStayTrue, Unwritten
<1>5. Rest(Payments, l) = AtLocation(payments, l)
  <2>1. ASSUME NEW p \in AtLocation(payments, l) PROVE p \in Rest(Payments, l)
    BY <1>2, <1>3, <2>1 DEF AtLocation, Rest, Waits, Inv, TypeOK, ReadsOpen, Complete, Calm,
       Ids
  <2>2. ASSUME NEW p \in Rest(Payments, l) PROVE p \in AtLocation(payments, l)
    BY <1>1, <1>2, <2>2 DEF AtLocation, Rest, Complete
  <2>. QED
    BY <2>1, <2>2
<1>6. Rest(Deposits, l) = AtLocation(deposits, l)
  <2>1. ASSUME NEW d \in AtLocation(deposits, l) PROVE d \in Rest(Deposits, l)
    BY <1>2, <1>4, <2>1 DEF AtLocation, Rest, Waits, Inv, TypeOK, ReadsOpen, Complete, Calm,
       Ids
  <2>2. ASSUME NEW d \in Rest(Deposits, l) PROVE d \in AtLocation(deposits, l)
    BY <1>1, <1>2, <2>2 DEF AtLocation, Rest, Complete
  <2>. QED
    BY <2>1, <2>2
<1>7. /\ NothingToMatch(AtLocation(payments, l), AtLocation(deposits, l))
      /\ \A x \in AtLocation(payments, l) \cup AtLocation(deposits, l) :
           status[x] = "IN_PROGRESS"
  BY <1>5, <1>6 DEF Calm, AtRest, OpenLocation
<1>. QED
  BY <1>3, <1>4, <1>7 DEF AtLocation

LEMMA IdlingStep == RInv /\ [Next]_vars => Idling'
<1>. SUFFICES ASSUME RInv, [Next]_vars, quiet' = currentDate' PROVE Idling'
  BY DEF Idling
<1>1. CASE pc' \notin Hand \cup Exceptions
  BY <1>1 DEF Idling, Exceptions
<1>2. ASSUME pc' \in Hand \cup Exceptions PROVE quiet' = quiet /\ quiet = currentDate
  <2>1. quiet' # DIRTY
    BY TypeStep, PosReconciliationAssumption DEF RInv, Inv, TypeOK, DIRTY
  <2>. QED
    BY <1>2, <2>1, IntoHand, IntoExceptions DEF RInv, OpenLocation
<1>3. CASE pc' \in Hand
  <2>1. ASSUME NEW l \in Locations, OpenLocation(l) PROVE Idling'
    BY <1>2, <1>3, <2>1, OpenedAtRest DEF OpenLocation, M!StartMatching, reads, RInv, Idling,
       Hand,
       Exceptions
  <2>2. CASE Match
    BY <1>2, <1>3, <2>2, NothingIsMatched, MatchType DEF Match, reads, RInv, Inv, Written,
       Idling, Hand,
       Exceptions
  <2>3. CASE UNCHANGED <<matching, reads>> /\ pc \in Hand
    BY <1>2, <1>3, <2>3 DEF matching, reads, RInv, Idling, Hand, Exceptions
  <2>. QED
    BY <1>3, <2>1, <2>2, <2>3, IntoHand DEF RInv, reads
<1>4. CASE pc' \in Exceptions
  <2>1. CASE ReadPaymentExceptions
    <3>1. \A p \in Payments :
            ~(status[p] = "IN_PROGRESS" /\ DateOf(p) <= ExceptionsDate(currentDate))
      BY <1>2, <1>4 DEF RInv, Calm, Overdue, Ids
    <3>. QED
      BY <2>1, <3>1 DEF ReadPaymentExceptions, Find, Idling, Hand, Exceptions
  <2>2. CASE ReadDepositExceptions
    <3>1. \A d \in Deposits :
            ~(status[d] = "IN_PROGRESS" /\ DateOf(d) <= ExceptionsDate(currentDate))
      BY <1>2, <1>4 DEF RInv, Calm, Overdue, Ids
    <3>. QED
      BY <1>2, <1>4, <2>2, <3>1 DEF ReadDepositExceptions, Find, Idling, Hand, Exceptions, RInv
  <2>3. ASSUME NEW l \in Locations, PaymentExceptions(l) PROVE FALSE
    <3>1. DOMAIN payments = {} /\ DOMAIN deposits = {}
      BY <1>2, <1>4, <2>3 DEF PaymentExceptions, RInv, Idling, Exceptions
    <3>. QED
      BY <2>3, <3>1 DEF PaymentExceptions, AtLocation
  <2>4. CASE /\ pc \in Exceptions /\ (pc' = pc \/ DepositExceptions)
             /\ UNCHANGED <<payments, deposits, pendingDeposits>>
    BY <1>2, <1>4, <2>4 DEF DepositExceptions, RInv, Idling, Hand, Exceptions
  <2>. QED
    BY <1>4, <2>1, <2>2, <2>3, <2>4, IntoExceptions
<1>. QED
  BY <1>1, <1>3, <1>4

\* A repeated run writes no status.
LEMMA RepeatIsIdle ==
  ASSUME RInv, [Next]_vars, quiet = currentDate, quiet' = quiet
  PROVE  status' = status
<1>. USE DEF RInv, Inv, TypeOK
<1>1. quiet # DIRTY
  BY PosReconciliationAssumption DEF DIRTY
<1>2. ASSUME pc \in Hand PROVE MatchedPayments = {} /\ MatchedDeposits = {}
  BY <1>2 DEF Idling, MatchedPayments, MatchedDeposits, M!UnmatchedPayments,
     M!UnmatchedDeposits
<1>3. ASSUME NEW ids, NEW s, SetStatus(ids, s), \A x \in Ids : x \notin ids
      PROVE  status' = status
  BY <1>3 DEF SetStatus
<1>4. CASE \E x \in Ids : Insert(x)
  BY <1>1, <1>4 DEF Insert
<1>5. CASE UpdateMatchedPayments
  BY <1>2, <1>3, <1>5 DEF UpdateMatchedPayments, Hand
<1>6. CASE UpdateMatchedDeposits
  BY <1>2, <1>3, <1>6 DEF UpdateMatchedDeposits, Hand
<1>7. CASE PaymentsInProgress
  BY <1>3, <1>7 DEF PaymentsInProgress, Hand, Idling, M!UnmatchedPayments
<1>8. CASE DepositsInProgress
  BY <1>3, <1>8 DEF DepositsInProgress, Hand, Idling, M!UnmatchedDeposits
<1>9. ASSUME NEW l \in Locations, PaymentExceptions(l) PROVE FALSE
  BY <1>9 DEF PaymentExceptions, AtLocation, Idling, Exceptions
<1>10. CASE DepositExceptions
  BY <1>3, <1>10 DEF DepositExceptions, Idling
<1>. QED
  BY <1>4, <1>5, <1>6, <1>7, <1>8, <1>9, <1>10, WritersOnly

LEMMA CalmStep == RInv /\ [Next]_vars => Calm'
<1>. SUFFICES ASSUME RInv, [Next]_vars PROVE Calm'
  OBVIOUS
<1>. USE DEF RInv, Inv, TypeOK
<1>0. quiet # DIRTY \/ quiet # currentDate
  BY PosReconciliationAssumption DEF DIRTY
<1>1. ASSUME UNCHANGED <<status, currentDate>>, \A l \in Locations : AtRest(l),
             \A x \in Ids : ~Overdue(x)
      PROVE  (\A l \in Locations : AtRest(l)') /\ (\A x \in Ids : ~Overdue(x)')
  BY <1>1, StaysAtRest DEF Overdue, DateOf
<1>2. CASE FinishRun
  <2>1. quiet # DIRTY => (\A l \in Locations : AtRest(l)) /\ (\A x \in Ids : ~Overdue(x))
    BY <1>2 DEF FinishRun, Behind, Exceptions, OverdueAhead
  <2>2. UNCHANGED <<status, currentDate>>
    BY <1>2 DEF FinishRun, database
  <2>3. /\ quiet = DIRTY => quiet' = DIRTY /\ quiet' # currentDate'
        /\ quiet # DIRTY => quiet' = currentDate'
    BY <1>2, PosReconciliationAssumption DEF FinishRun, DIRTY
  <2>. QED
    BY <1>1, <2>1, <2>2, <2>3 DEF Calm
<1>3. CASE RejectMatchedPayments \/ Crash
  BY <1>3, PosReconciliationAssumption DEF RejectMatchedPayments, Crash, Calm, UNKNOWN
<1>4. CASE \E x \in Ids : Insert(x)
  BY <1>4, PosReconciliationAssumption DEF Insert, Calm, DIRTY
<1>5. ASSUME NEW date \in Days, StartRun(date) PROVE Calm'
  <2>1. CASE quiet' = date
    <3>1. quiet' = quiet /\ quiet \notin {DIRTY, UNKNOWN} /\ pc = "idle"
      BY <1>5, <2>1, PosReconciliationAssumption DEF StartRun, DIRTY, UNKNOWN
    <3>2. quiet = currentDate /\ UNCHANGED <<status, currentDate>>
      BY <1>5, <2>1, <3>1 DEF StartRun, Calm, database
    <3>. QED
      BY <1>1, <1>5, <3>2 DEF StartRun, Calm
  <2>2. CASE quiet' # date
    BY <1>5, <2>2 DEF StartRun, Calm
  <2>. QED
    BY <2>1, <2>2
<1>6. CASE UNCHANGED <<quiet, currentDate>> /\ (pc' = "idle" => pc = "idle")
  <2>1. CASE quiet = currentDate
    BY <1>1, <1>6, <2>1, RepeatIsIdle DEF Calm
  <2>2. CASE quiet # currentDate
    BY <1>6, <2>2 DEF Calm
  <2>. QED
    BY <2>1, <2>2
<1>. QED
  BY <1>2, <1>3, <1>4, <1>5, <1>6 DEF Next, Reconciler, vars,
     ReadPayments, ReadDeposits, SkipLocation, OpenLocation, Match, UpdateMatchedPayments,
     UpdateMatchedDeposits, PaymentsInProgress, DepositsInProgress,
     ReadPaymentExceptions, ReadDepositExceptions, PaymentExceptions, SkipExceptions,
     DepositExceptions

LEMMA RInvInit == Init => RInv
BY InvInit, PosReconciliationAssumption DEF Init, RInv, Calm, Complete, Written, Behind,
   Idling, Hand,
   Exceptions, UNKNOWN

LEMMA RInvStep == RInv /\ [Next]_vars => RInv'
BY InvStep, CalmStep, CompleteStep, WrittenStep, BehindStep, IdlingStep DEF RInv

\* A run for a date that was reconciled to the end, with nothing inserted since
\* it began, writes no status, whatever other runs were killed before.
THEOREM RepeatedRunsAreIdle == Spec => RerunChangesNothing
<1>1. RInv /\ [Next]_vars => [currentDate = quiet /\ quiet' = quiet => status' = status]_vars
  BY RepeatIsIdle
<1>. QED
  BY <1>1, RInvInit, RInvStep, PTL DEF Spec, RerunChangesNothing
=============================================================================
