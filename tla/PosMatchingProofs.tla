------------------------- MODULE PosMatchingProofs --------------------------
(***************************************************************************)
(* Proofs about PosMatching, for any tables of payments and deposits.      *)
(* The inductive invariant adds to the properties of that module what they *)
(* rest on: where links may be, and Exhausted, which says that a payment   *)
(* the current or an earlier round has passed over has no candidate left.  *)
(***************************************************************************)
EXTENDS PosMatching, TLAPS

Rounds == ONE .. THREE

\* Only pairs of rounds ONE to THREE carry a link, and only pending rows
\* are ever matched.
LinksInPlace ==
  /\ \A p \in Payments : paymentRound[p] \notin Rounds => posDepositMatch[p] = NoDeposit
  /\ \A p \in Payments : paymentRound[p] # NONE => p \in pendingPayments

\* A round that has passed p over leaves it no candidate.
Exhausted ==
  \A p \in UnmatchedPayments, r \in Rounds :
    (r < round \/ (r = round /\ p \notin todo)) => Candidates(p, r) = {}

Inv == TypeOK /\ OneToOne /\ LinksInPlace /\ Exhausted /\ RoundTwoIsLate

\* Rows only leave the two lists of unmatched rows; the tables do not change.
Shrinks ==
  /\ payment' = payment /\ deposit' = deposit
  /\ pendingPayments' = pendingPayments /\ pendingDeposits' = pendingDeposits
  /\ \A p \in Payments : paymentRound'[p] = NONE => paymentRound[p] = NONE
  /\ \A d \in Deposits : depositRound'[d] = NONE => depositRound[d] = NONE

\* Candidates never come back: what first fit has not found for an unmatched
\* payment it will not find later.
LEMMA CandidatesShrink ==
  ASSUME TypeOK, Shrinks, NEW p \in Payments, paymentRound'[p] = NONE, NEW r \in Rounds
  PROVE  Candidates(p, r)' \subseteq Candidates(p, r)
<1>1. ASSUME NEW d \in Candidates(p, r)'
      PROVE  d \in Candidates(p, r)
  <2>1. /\ d \in pendingDeposits /\ d \in Deposits
        /\ PaymentKey(p, r)' = DepositKey(d)'
        /\ CheckMatch(p, d, r)'
    BY <1>1 DEF Candidates, Shrinks, TypeOK
  <2>2. PaymentKey(p, r)' = PaymentKey(p, r) /\ DepositKey(d)' = DepositKey(d)
    BY DEF PaymentKey, DepositKey, Shrinks
  <2>3. CheckMatch(p, d, r)
    BY <2>1 DEF CheckMatch, SameAmount, WithinMinutes, Shrinks
  <2>. QED
    BY <2>1, <2>2, <2>3 DEF Candidates
<1>. QED
  BY <1>1

\* A bucket of round FOUR is a key of the tables.
LEMMA BucketsAreKeys ==
  ASSUME TypeOK
  PROVE  /\ \A p \in Payments : PaymentKey(p, FOUR) \in Keys
         /\ \A d \in Deposits : DepositKey(d) \in Keys
BY DEF TypeOK, PaymentKey, DepositKey, Keys, FOUR, THREE

\* The type invariant is inductive.
LEMMA TypeStep == TypeOK /\ [Next]_vars => TypeOK'
<1>. SUFFICES ASSUME TypeOK, [Next]_vars PROVE TypeOK'
  OBVIOUS
<1>. USE DEF NONE, ONE, TWO, THREE, FOUR, DONE
<1>1. ASSUME NEW p \in Payments, PairPayment(p) PROVE TypeOK'
  <2>1. PICK d \in First(Candidates(p, round), deposit) :
          /\ paymentRound' = [paymentRound EXCEPT ![p] = round]
          /\ depositRound' = [depositRound EXCEPT ![d] = round]
          /\ posDepositMatch' = [posDepositMatch EXCEPT ![p] = d]
    BY <1>1 DEF PairPayment
  <2>2. d \in Deposits
    BY <2>1 DEF First, Candidates, TypeOK
  <2>3. round \in NONE .. FOUR
    BY <1>1 DEF PairPayment, TypeOK
  <2>. QED
    BY <1>1, <2>1, <2>2, <2>3 DEF PairPayment, TypeOK, inputs
<1>2. ASSUME NEW p \in Payments, SkipPayment(p) PROVE TypeOK'
  BY <1>2 DEF SkipPayment, TypeOK, inputs
<1>3. CASE NextRound
  <2>1. UnmatchedPayments \subseteq pendingPayments /\ UnmatchedPayments \subseteq Payments
    BY DEF UnmatchedPayments, TypeOK
  <2>2. UnmatchedDeposits \subseteq Deposits
    BY DEF UnmatchedDeposits, TypeOK
  <2>3. CASE round = THREE
    <3>1. todo' = {PaymentKey(p, FOUR) : p \in UnmatchedPayments}
                    \cup {DepositKey(d) : d \in UnmatchedDeposits}
      BY <1>3, <2>3 DEF NextRound, EnterRound, Buckets
    <3>2. todo' \subseteq Keys
      BY <2>1, <2>2, <3>1, BucketsAreKeys
    <3>3. round' = FOUR /\ UNCHANGED <<inputs, paymentRound, depositRound,
                                       posDepositMatch, roundFourMatches>>
      BY <1>3, <2>3 DEF NextRound, EnterRound
    <3>4. Keys' = Keys
      BY DEF Keys
    <3>. QED
      BY <3>2, <3>3, <3>4 DEF TypeOK, inputs
  <2>4. CASE round \in ONE .. TWO
    <3>1. todo' = UnmatchedPayments /\ round' \in ONE .. THREE
      BY <1>3, <2>4 DEF NextRound, EnterRound
    <3>. QED
      BY <1>3, <2>1, <3>1 DEF NextRound, EnterRound, TypeOK, inputs
  <2>. QED
    BY <1>3, <2>3, <2>4 DEF NextRound, TypeOK
<1>4. ASSUME NEW k \in todo, SettleBucket(k) PROVE TypeOK'
  <2>1. BucketDeposits(k) \in SUBSET Deposits
    BY DEF BucketDeposits, UnmatchedDeposits, TypeOK
  <2>. QED
    BY <1>4, <2>1 DEF SettleBucket, TypeOK, inputs
<1>5. ASSUME NEW k \in todo, LeaveBucket(k) PROVE TypeOK'
  BY <1>5 DEF LeaveBucket, TypeOK, inputs
<1>6. CASE Return
  BY <1>6 DEF Return, TypeOK, inputs
<1>7. CASE UNCHANGED vars
  BY <1>7 DEF vars, TypeOK, inputs, Keys
<1>. QED
  BY <1>1, <1>2, <1>3, <1>4, <1>5, <1>6, <1>7 DEF Next

\* Rows keep their shape: statuses, links and rounds of PosMatching are what
\* the entities may hold.
THEOREM TypeCorrect == Spec => []TypeOK
<1>1. Init => TypeOK
  BY PosMatchingAssumption DEF Init, TypeOK, NONE, ONE, THREE, FOUR, DONE
<1>. QED
  BY <1>1, TypeStep, PTL DEF Spec
-----------------------------------------------------------------------------
\* An action that matches no row and changes no table keeps every part of the
\* invariant that speaks of links.
LEMMA UnmatchedStep ==
  ASSUME Inv, UNCHANGED <<inputs, paymentRound, depositRound, posDepositMatch>>
  PROVE  OneToOne' /\ LinksInPlace' /\ RoundTwoIsLate'
BY DEF Inv, OneToOne, LinksInPlace, RoundTwoIsLate, WithinMinutes, inputs

\* PairPayment: p was unmatched, so was d; the new link clashes with no other.
LEMMA PairStep ==
  ASSUME Inv, TypeOK', NEW p \in Payments, PairPayment(p)
  PROVE  OneToOne' /\ LinksInPlace' /\ RoundTwoIsLate' /\ Shrinks
<1>. USE DEF NONE, ONE, TWO, THREE, FOUR, Rounds
<1>1. PICK d \in First(Candidates(p, round), deposit) :
        /\ paymentRound' = [paymentRound EXCEPT ![p] = round]
        /\ depositRound' = [depositRound EXCEPT ![d] = round]
        /\ posDepositMatch' = [posDepositMatch EXCEPT ![p] = d]
  BY DEF PairPayment
<1>2. /\ d \in pendingDeposits /\ d \in Deposits /\ d # NoDeposit
      /\ PaymentKey(p, round) = DepositKey(d) /\ CheckMatch(p, d, round)
  BY <1>1, PosMatchingAssumption DEF First, Candidates, Inv, TypeOK
<1>3. paymentRound[p] = NONE /\ depositRound[d] = NONE
  BY <1>2 DEF CheckMatch
<1>4. round \in Rounds /\ p \in pendingPayments /\ UNCHANGED inputs
  BY DEF PairPayment, First, Inv, TypeOK
<1>5. \A q \in Payments : posDepositMatch[q] # d
  BY <1>2, <1>3 DEF Inv, LinksInPlace, OneToOne, TypeOK
<1>6. /\ \A q \in Payments \ {p} : /\ paymentRound'[q] = paymentRound[q]
                                   /\ posDepositMatch'[q] = posDepositMatch[q]
      /\ paymentRound'[p] = round /\ posDepositMatch'[p] = d
      /\ \A e \in Deposits \ {d} : depositRound'[e] = depositRound[e]
      /\ depositRound'[d] = round
  BY <1>1, <1>2 DEF Inv, TypeOK
<1>7. OneToOne'
  <2>1. ASSUME NEW q \in Payments, paymentRound'[q] \in Rounds
        PROVE  /\ posDepositMatch'[q] \in pendingDeposits'
               /\ depositRound'[posDepositMatch'[q]] = paymentRound'[q]
               /\ \A s \in Payments : posDepositMatch'[s] = posDepositMatch'[q] => s = q
    <3>1. CASE q = p
      BY <1>2, <1>4, <1>5, <1>6, <3>1 DEF inputs
    <3>2. CASE q # p
      <4>1. /\ posDepositMatch[q] \in pendingDeposits /\ posDepositMatch[q] # d
            /\ posDepositMatch[q] \in Deposits
            /\ depositRound[posDepositMatch[q]] = paymentRound[q]
            /\ \A s \in Payments : posDepositMatch[s] = posDepositMatch[q] => s = q
        BY <1>5, <1>6, <2>1, <3>2 DEF Inv, OneToOne, TypeOK
      <4>. QED
        BY <1>4, <1>6, <3>2, <4>1 DEF inputs
    <3>. QED
      BY <3>1, <3>2
  <2>2. ASSUME NEW e \in Deposits, depositRound'[e] \in Rounds
        PROVE  \E q \in pendingPayments' : posDepositMatch'[q] = e
    <3>1. CASE e = d
      BY <1>4, <1>6, <3>1 DEF inputs
    <3>2. CASE e # d
      <4>1. PICK q \in pendingPayments : posDepositMatch[q] = e
        BY <1>6, <2>2, <3>2 DEF Inv, OneToOne
      <4>2. q # p
        BY <1>2, <1>3, <4>1, PosMatchingAssumption DEF Inv, LinksInPlace
      <4>. QED
        BY <1>4, <1>6, <4>1, <4>2 DEF Inv, TypeOK, inputs
    <3>. QED
      BY <3>1, <3>2
  <2>. QED
    BY <2>1, <2>2 DEF OneToOne
<1>8. LinksInPlace'
  BY <1>4, <1>6 DEF Inv, LinksInPlace, inputs
<1>9. RoundTwoIsLate'
  <2>1. ASSUME NEW q \in Payments, paymentRound'[q] = TWO
        PROVE  ~WithinMinutes(q, posDepositMatch'[q], 5)
    <3>1. CASE q = p
      <4>1. round = TWO /\ p \in UnmatchedPayments
        BY <1>3, <1>4, <1>6, <2>1, <3>1 DEF UnmatchedPayments
      <4>2. Candidates(p, ONE) = {}
        BY <4>1 DEF Inv, Exhausted
      <4>3. ~CheckMatch(p, d, ONE)
        BY <1>2, <4>1, <4>2 DEF Candidates, PaymentKey
      <4>. QED
        BY <1>2, <1>6, <3>1, <4>3 DEF CheckMatch
    <3>2. CASE q # p
      BY <1>6, <2>1, <3>2 DEF Inv, RoundTwoIsLate
    <3>. QED
      BY <3>1, <3>2
  <2>. QED
    BY <1>4, <2>1 DEF RoundTwoIsLate, WithinMinutes, inputs
<1>10. Shrinks
  BY <1>4, <1>6 DEF Shrinks, inputs
<1>. QED
  BY <1>7, <1>8, <1>9, <1>10

\* SettleBucket: only rows that were unmatched are touched, and they get round
\* FOUR, which has no links.
LEMMA SettleStep ==
  ASSUME Inv, TypeOK', NEW k \in todo, SettleBucket(k)
  PROVE  OneToOne' /\ LinksInPlace' /\ RoundTwoIsLate' /\ Shrinks
<1>. USE DEF NONE, ONE, TWO, THREE, FOUR, Rounds
<1>1. /\ UNCHANGED inputs /\ UNCHANGED posDepositMatch
      /\ \A p \in Payments : \/ paymentRound'[p] = paymentRound[p]
                             \/ /\ paymentRound[p] = NONE /\ paymentRound'[p] = FOUR
                                /\ p \in pendingPayments
      /\ \A d \in Deposits : \/ depositRound'[d] = depositRound[d]
                             \/ depositRound[d] = NONE /\ depositRound'[d] = FOUR
  BY DEF SettleBucket, BucketPayments, BucketDeposits, UnmatchedPayments, UnmatchedDeposits
<1>2. OneToOne'
  <2>1. ASSUME NEW q \in Payments, paymentRound'[q] \in Rounds
        PROVE  /\ posDepositMatch'[q] \in pendingDeposits'
               /\ depositRound'[posDepositMatch'[q]] = paymentRound'[q]
               /\ \A s \in Payments : posDepositMatch'[s] = posDepositMatch'[q] => s = q
    <3>1. paymentRound[q] \in Rounds /\ paymentRound'[q] = paymentRound[q]
      BY <1>1, <2>1
    <3>2. posDepositMatch[q] \in Deposits /\ depositRound[posDepositMatch[q]] = paymentRound[q]
      BY <3>1 DEF Inv, OneToOne, TypeOK
    <3>. QED
      BY <1>1, <3>1, <3>2 DEF Inv, OneToOne, inputs
  <2>2. ASSUME NEW e \in Deposits, depositRound'[e] \in Rounds
        PROVE  \E q \in pendingPayments' : posDepositMatch'[q] = e
    BY <1>1, <2>2 DEF Inv, OneToOne, inputs
  <2>. QED
    BY <2>1, <2>2 DEF OneToOne
<1>3. LinksInPlace'
  BY <1>1 DEF Inv, LinksInPlace, inputs
<1>4. RoundTwoIsLate'
  BY <1>1 DEF Inv, RoundTwoIsLate, WithinMinutes, inputs
<1>5. Shrinks
  BY <1>1 DEF Shrinks, inputs
<1>. QED
  BY <1>2, <1>3, <1>4, <1>5

\* Exhausted is kept if a payment that a step passes over has no candidate in
\* that round: those passed over before can only have lost candidates.
LEMMA ExhaustedStep ==
  ASSUME Inv, Shrinks,
         \A p \in UnmatchedPayments', r \in Rounds :
           (r < round' \/ (r = round' /\ p \notin todo')) =>
             r < round \/ (r = round /\ p \notin todo) \/ Candidates(p, r) = {}
  PROVE  Exhausted'
<1>1. UnmatchedPayments' \subseteq UnmatchedPayments /\ UnmatchedPayments \subseteq Payments
  BY DEF UnmatchedPayments, Shrinks, Inv, TypeOK
<1>2. ASSUME NEW p \in UnmatchedPayments', NEW r \in Rounds,
             r < round' \/ (r = round' /\ p \notin todo')
      PROVE  Candidates(p, r)' = {}
  <2>1. Candidates(p, r) = {}
    BY <1>1, <1>2 DEF Inv, Exhausted
  <2>2. p \in Payments /\ paymentRound'[p] = NONE
    BY <1>1 DEF UnmatchedPayments
  <2>. QED
    BY <2>1, <2>2, CandidatesShrink DEF Inv
<1>. QED
  BY <1>2 DEF Exhausted

LEMMA InvStep == Inv /\ [Next]_vars => Inv'
<1>. SUFFICES ASSUME Inv, [Next]_vars PROVE Inv'
  OBVIOUS
<1>. USE DEF NONE, ONE, TWO, THREE, FOUR, DONE, Rounds
<1>0. TypeOK' /\ round \in ONE .. DONE
  BY TypeStep DEF Inv, TypeOK
<1>1. ASSUME NEW p \in Payments, PairPayment(p) PROVE Inv'
  <2>1. p \notin UnmatchedPayments'
    BY <1>1 DEF PairPayment, UnmatchedPayments, Inv, TypeOK
  <2>2. Exhausted'
    BY <1>1, <2>1, PairStep, ExhaustedStep, <1>0 DEF PairPayment
  <2>. QED
    BY <1>0, <1>1, <2>2, PairStep DEF Inv
<1>2. ASSUME NEW p \in Payments, SkipPayment(p) PROVE Inv'
  <2>1. Shrinks /\ UNCHANGED <<inputs, paymentRound, depositRound, posDepositMatch>>
    BY <1>2 DEF SkipPayment, Shrinks, inputs
  <2>2. Exhausted'
    BY <1>0, <1>2, <2>1, ExhaustedStep DEF SkipPayment
  <2>. QED
    BY <1>0, <2>1, <2>2, UnmatchedStep DEF Inv
<1>3. CASE NextRound
  <2>1. Shrinks /\ UNCHANGED <<inputs, paymentRound, depositRound, posDepositMatch>>
    BY <1>3 DEF NextRound, EnterRound, Shrinks, inputs
  <2>2. /\ todo = {} /\ round < FOUR /\ round' = round + 1
        /\ round' < FOUR => todo' = UnmatchedPayments'
    BY <1>0, <1>3, <2>1 DEF NextRound, EnterRound, UnmatchedPayments, inputs
  <2>3. Exhausted'
    BY <1>0, <2>1, <2>2, ExhaustedStep
  <2>. QED
    BY <1>0, <2>1, <2>3, UnmatchedStep DEF Inv
<1>4. ASSUME NEW k \in todo, SettleBucket(k) PROVE Inv'
  <2>1. Exhausted'
    BY <1>0, <1>4, SettleStep, ExhaustedStep DEF SettleBucket
  <2>. QED
    BY <1>0, <1>4, <2>1, SettleStep DEF Inv
<1>5. ASSUME NEW k \in todo, LeaveBucket(k) PROVE Inv'
  <2>1. Shrinks /\ UNCHANGED <<inputs, paymentRound, depositRound, posDepositMatch>>
    BY <1>5 DEF LeaveBucket, Shrinks, inputs
  <2>2. Exhausted'
    BY <1>0, <1>5, <2>1, ExhaustedStep DEF LeaveBucket
  <2>. QED
    BY <1>0, <2>1, <2>2, UnmatchedStep DEF Inv
<1>6. CASE Return
  <2>1. Shrinks /\ UNCHANGED <<inputs, paymentRound, depositRound, posDepositMatch>>
    BY <1>6 DEF Return, Shrinks, inputs
  <2>2. Exhausted'
    BY <1>0, <1>6, <2>1, ExhaustedStep DEF Return
  <2>. QED
    BY <1>0, <2>1, <2>2, UnmatchedStep DEF Inv
<1>7. CASE UNCHANGED vars
  <2>1. Shrinks /\ UNCHANGED <<inputs, paymentRound, depositRound, posDepositMatch>>
    BY <1>7 DEF vars, Shrinks, inputs
  <2>2. Exhausted'
    BY <1>0, <1>7, <2>1, ExhaustedStep DEF vars
  <2>. QED
    BY <1>0, <2>1, <2>2, UnmatchedStep DEF Inv
<1>. QED
  BY <1>1, <1>2, <1>3, <1>4, <1>5, <1>6, <1>7 DEF Next

LEMMA InvInit == Init => Inv
<1>. SUFFICES ASSUME Init PROVE Inv
  OBVIOUS
<1>. USE DEF NONE, ONE, TWO, THREE, FOUR, DONE, Rounds, Init
<1>1. TypeOK
  BY PosMatchingAssumption DEF TypeOK
<1>2. OneToOne /\ LinksInPlace /\ RoundTwoIsLate
  BY DEF OneToOne, LinksInPlace, RoundTwoIsLate
<1>3. Exhausted
  BY DEF Exhausted, UnmatchedPayments
<1>. QED
  BY <1>1, <1>2, <1>3 DEF Inv

\* Rounds ONE to THREE pair payments and deposits one to one, in one round.
THEOREM PairingIsOneToOne == Spec => []OneToOne
<1>1. Inv => OneToOne
  BY DEF Inv
<1>. QED
  BY <1>1, InvInit, InvStep, PTL DEF Spec

\* What is paired in round TWO lies more than five minutes apart.
THEOREM RoundTwoPairsAreLate == Spec => []RoundTwoIsLate
<1>1. Inv => RoundTwoIsLate
  BY DEF Inv
<1>. QED
  BY <1>1, InvInit, InvStep, PTL DEF Spec

\* A bucket round FOUR has been at is settled or disagrees.
Weighed ==
  /\ round >= FOUR => \A k \in Buckets : k \in todo \/ ~SumsAgree(k)
  /\ round = DONE => todo = {}

\* Buckets of the same rows agree or disagree alike.
LEMMA SameBucket ==
  ASSUME NEW k, BucketPayments(k)' = BucketPayments(k), BucketDeposits(k)' = BucketDeposits(k),
         UNCHANGED <<payment, deposit>>
  PROVE  SumsAgree(k)' = SumsAgree(k)
BY SMTT(20) DEF SumsAgree, MapThenSumSet, MapThenFoldSet

\* Settling a bucket leaves the others as they were.
LEMMA OtherBuckets ==
  ASSUME Inv, NEW k \in todo, SettleBucket(k), NEW j \in Buckets'
  PROVE  /\ j # k /\ j \in Buckets
         /\ BucketPayments(j)' = BucketPayments(j) /\ BucketDeposits(j)' = BucketDeposits(j)
<1>. USE DEF NONE, FOUR, THREE, Inv, TypeOK, inputs
<1>1. /\ UNCHANGED inputs
      /\ \A p \in Payments : PaymentKey(p, FOUR)' = PaymentKey(p, FOUR)
      /\ \A d \in Deposits : DepositKey(d)' = DepositKey(d)
  BY DEF SettleBucket, PaymentKey, DepositKey
<1>2. /\ UnmatchedPayments' = UnmatchedPayments \ BucketPayments(k)
      /\ UnmatchedDeposits' = UnmatchedDeposits \ BucketDeposits(k)
  BY DEF SettleBucket, UnmatchedPayments, UnmatchedDeposits
<1>3. UnmatchedPayments \subseteq Payments /\ UnmatchedDeposits \subseteq Deposits
  BY DEF UnmatchedPayments, UnmatchedDeposits
<1>4. Buckets' = {PaymentKey(p, FOUR) : p \in UnmatchedPayments'}
                   \cup {DepositKey(d) : d \in UnmatchedDeposits'}
  BY <1>1, <1>2, <1>3 DEF Buckets
<1>5. j # k /\ j \in Buckets
  BY <1>2, <1>4 DEF Buckets, BucketPayments, BucketDeposits
<1>6. BucketPayments(j)' = {p \in UnmatchedPayments' : PaymentKey(p, FOUR) = j}
  BY <1>1, <1>2, <1>3 DEF BucketPayments
<1>7. BucketDeposits(j)' = {d \in UnmatchedDeposits' : DepositKey(d) = j}
  BY <1>1, <1>2, <1>3 DEF BucketDeposits
<1>. QED
  BY <1>2, <1>5, <1>6, <1>7 DEF BucketPayments, BucketDeposits

LEMMA WeighedStep == Inv /\ Weighed /\ [Next]_vars => Weighed'
<1>. SUFFICES ASSUME Inv, Weighed, [Next]_vars PROVE Weighed'
  OBVIOUS
<1>. USE DEF NONE, ONE, TWO, THREE, FOUR, DONE
<1>1. CASE UNCHANGED <<inputs, paymentRound, depositRound>>
  <2>1. /\ Buckets' = Buckets
        /\ \A k : BucketPayments(k)' = BucketPayments(k) /\ BucketDeposits(k)' = BucketDeposits(k)
    BY <1>1 DEF inputs, Buckets, BucketPayments, BucketDeposits, UnmatchedPayments,
       UnmatchedDeposits, PaymentKey, DepositKey
  <2>2. \A k : SumsAgree(k)' = SumsAgree(k)
    BY <1>1, <2>1, SameBucket DEF inputs
  <2>3. ASSUME NEW p \in Payments, SkipPayment(p) PROVE Weighed'
    BY <2>3 DEF SkipPayment, Weighed, Inv, TypeOK
  <2>4. CASE NextRound
    BY <2>1, <2>4 DEF NextRound, EnterRound, Weighed, Inv, TypeOK
  <2>5. ASSUME NEW k \in todo, LeaveBucket(k) PROVE Weighed'
    BY <2>1, <2>2, <2>5 DEF LeaveBucket, Weighed
  <2>6. CASE Return
    BY <2>1, <2>2, <2>6 DEF Return, Weighed
  <2>7. CASE UNCHANGED vars
    BY <2>1, <2>2, <2>7 DEF vars, Weighed
  <2>8. ASSUME NEW p \in Payments, PairPayment(p) PROVE Weighed'
    BY <2>8 DEF PairPayment, Weighed, Inv, TypeOK
  <2>9. ASSUME NEW k \in todo, SettleBucket(k) PROVE Weighed'
    BY <2>1, <2>2, <2>9, OtherBuckets DEF SettleBucket, Weighed
  <2>. QED
    BY <2>3, <2>4, <2>5, <2>6, <2>7, <2>8, <2>9 DEF Next
<1>2. ASSUME NEW p \in Payments, PairPayment(p) PROVE Weighed'
  BY <1>2 DEF PairPayment, Weighed, Inv, TypeOK
<1>3. ASSUME NEW k \in todo, SettleBucket(k) PROVE Weighed'
  <2>1. ASSUME NEW j \in Buckets' PROVE j \in todo' \/ ~SumsAgree(j)'
    <3>1. j # k /\ j \in Buckets /\ SumsAgree(j)' = SumsAgree(j)
      BY <1>3, OtherBuckets, SameBucket DEF SettleBucket, inputs
    <3>. QED
      BY <1>3, <3>1 DEF SettleBucket, Weighed
  <2>. QED
    BY <1>3, <2>1 DEF SettleBucket, Weighed
<1>. QED
  BY <1>1, <1>2, <1>3 DEF Next, vars, inputs, SkipPayment, NextRound, EnterRound, LeaveBucket,
     Return

\* When the rounds are over, no acceptable pair and no bucket of equal sums is
\* left among the unmatched.
THEOREM PairingIsMaximal == Spec => []NothingLeftToPair
<1>1. Inv /\ Weighed => NothingLeftToPair
  BY DEF Inv, Weighed, Exhausted, NothingLeftToPair, Rounds, ONE, THREE, FOUR, DONE
<1>2. Init => Weighed
  BY DEF Init, Weighed, ONE, FOUR, DONE
<1>. QED
  BY <1>1, <1>2, InvInit, InvStep, WeighedStep, PTL DEF Spec
-----------------------------------------------------------------------------
\* The recursive function behind a sum over S, taken from what it recurs on.
Adding(f, S, rest) ==
  [s \in SUBSET S |-> IF s = {} THEN 0
                      ELSE f[CHOOSE x \in s : TRUE] + rest[s \ {CHOOSE x \in s : TRUE}]]
SumOver(f, S) == (CHOOSE it : it = Adding(f, S, it))[S]

\* Sums over S agree if what is summed agrees on S.
LEMMA SameSum ==
  ASSUME NEW f, NEW g, NEW S, \A x \in S : f[x] = g[x]
  PROVE  SumOver(f, S) = SumOver(g, S)
<1>1. ASSUME NEW it PROVE Adding(f, S, it) = Adding(g, S, it)
  <2>1. \A s \in SUBSET S : s # {} => (CHOOSE x \in s : TRUE) \in S
    OBVIOUS
  <2>. QED
    BY <2>1 DEF Adding
<1>. QED
  BY <1>1, Zenon DEF SumOver

LEMMA SumOfOne ==
  ASSUME NEW f, NEW x, f[x] \in Int
  PROVE  SumOver(f, {x}) = f[x]
<1>1. SUBSET {x} = {{}, {x}} /\ (CHOOSE y \in {x} : TRUE) = x /\ {x} \ {x} = {}
  OBVIOUS
<1>. DEFINE one == [s \in SUBSET {x} |-> IF s = {} THEN 0 ELSE f[x]]
<1>2. one = Adding(f, {x}, one)
  <2>1. \A s \in SUBSET {x} : one[s] = Adding(f, {x}, one)[s]
    BY <1>1 DEF Adding
  <2>. QED
    BY <2>1 DEF Adding
<1>. HIDE DEF one
<1>3. PICK it : it = (CHOOSE i : i = Adding(f, {x}, i)) /\ it = Adding(f, {x}, it)
  BY <1>2, Zenon
<1>4. it[{}] = 0 /\ it[{x}] = f[x] + it[{}]
  <2>1. Adding(f, {x}, it)[{}] = 0 /\ Adding(f, {x}, it)[{x}] = f[x] + it[{}]
    BY <1>1 DEF Adding
  <2>. QED
    BY <1>3, <2>1
<1>. QED
  BY <1>3, <1>4 DEF SumOver

\* The amounts as Settlement sees them.
Amount == [x \in Payments \cup Deposits |->
             IF x \in Payments THEN payment[x].amount ELSE deposit[x].amount]

LEMMA LedgerTotal ==
  ASSUME NEW S
  PROVE  Ledger!Total(S) = SumOver(Amount, S)
BY DEF Ledger!Total, Ledger!MapThenSumSet, Ledger!MapThenFoldSet, SumOver, Adding, Amount

\* The two sums of a bucket are sums of those amounts.
LEMMA BucketTotals ==
  ASSUME TypeOK, NEW k, SumsAgree(k)
  PROVE  Ledger!Total(BucketPayments(k)) = Ledger!Total(BucketDeposits(k))
<1>. DEFINE paying(it) == [s \in SUBSET BucketPayments(k) |->
                             IF s = {} THEN 0
                             ELSE payment[CHOOSE x \in s : TRUE].amount
                                    + it[s \ {CHOOSE x \in s : TRUE}]]
            depositing(it) == [s \in SUBSET BucketDeposits(k) |->
                                 IF s = {} THEN 0
                                 ELSE deposit[CHOOSE x \in s : TRUE].amount
                                        + it[s \ {CHOOSE x \in s : TRUE}]]
<1>1. BucketPayments(k) \subseteq Payments /\ BucketDeposits(k) \subseteq Deposits
  BY DEF BucketPayments, BucketDeposits, UnmatchedPayments, UnmatchedDeposits, TypeOK
<1>2. /\ \A p \in BucketPayments(k) : Amount[p] = payment[p].amount
      /\ \A d \in BucketDeposits(k) : Amount[d] = deposit[d].amount
  BY <1>1, PosMatchingAssumption DEF PosMatchingAssumption, Amount
<1>3. ASSUME NEW it PROVE paying(it) = Adding(Amount, BucketPayments(k), it)
  <2>1. \A s \in SUBSET BucketPayments(k) : s # {} => (CHOOSE x \in s : TRUE) \in BucketPayments(k)
    OBVIOUS
  <2>. QED
    BY <1>2, <2>1 DEF Adding
<1>4. ASSUME NEW it PROVE depositing(it) = Adding(Amount, BucketDeposits(k), it)
  <2>1. \A s \in SUBSET BucketDeposits(k) : s # {} => (CHOOSE x \in s : TRUE) \in BucketDeposits(k)
    OBVIOUS
  <2>. QED
    BY <1>2, <2>1 DEF Adding
<1>5. (CHOOSE it : it = paying(it))[BucketPayments(k)]
        = (CHOOSE it : it = depositing(it))[BucketDeposits(k)]
  BY DEF SumsAgree, MapThenSumSet, MapThenFoldSet
<1>. HIDE DEF paying, depositing
<1>6. /\ (CHOOSE it : it = paying(it)) = (CHOOSE it : it = Adding(Amount, BucketPayments(k), it))
      /\ (CHOOSE it : it = depositing(it)) = (CHOOSE it : it = Adding(Amount, BucketDeposits(k), it))
  BY <1>3, <1>4, Zenon
<1>. QED
  BY <1>5, <1>6, LedgerTotal DEF SumOver

\* A step closes the payments and deposits it matches.
LEMMA BalancedStep == TypeOK /\ [Next]_vars => [Ledger!Settle]_(Ledger!vars)
<1>. SUFFICES ASSUME TypeOK, [Next]_vars PROVE [Ledger!Settle]_(Ledger!vars)
  OBVIOUS
<1>. DEFINE debits == {p \in Payments : paymentRound[p] = NONE}
            credits == {d \in Deposits : depositRound[d] = NONE}
            closed == /\ debits' \subseteq debits /\ credits' \subseteq credits
                      /\ Ledger!Total(debits \ debits') = Ledger!Total(credits \ credits')
                      /\ Amount' = Amount
<1>0. ASSUME closed PROVE [Ledger!Settle]_(Ledger!vars)
  BY <1>0 DEF Ledger!Settle, Amount
<1>1. ASSUME NEW p \in Payments, PairPayment(p) PROVE closed
  <2>1. PICK d \in First(Candidates(p, round), deposit) :
          /\ paymentRound' = [paymentRound EXCEPT ![p] = round]
          /\ depositRound' = [depositRound EXCEPT ![d] = round]
    BY <1>1 DEF PairPayment
  <2>2. /\ d \in Deposits /\ paymentRound[p] = NONE /\ depositRound[d] = NONE /\ round # NONE
        /\ payment[p].amount = deposit[d].amount
    BY <1>1, <2>1 DEF First, Candidates, CheckMatch, SameAmount, TypeOK, NONE, ONE
  <2>3. debits \ debits' = {p} /\ credits \ credits' = {d}
    BY <2>1, <2>2 DEF TypeOK
  <2>4. debits' \subseteq debits /\ credits' \subseteq credits
    BY <2>1, <2>2 DEF TypeOK
  <2>5. Amount[p] = Amount[d] /\ Amount[p] \in Int
    BY <2>2, PosMatchingAssumption DEF PosMatchingAssumption, Amount, TypeOK
  <2>6. Ledger!Total({p}) = Ledger!Total({d})
    BY <2>5, LedgerTotal, SumOfOne
  <2>. QED
    BY <1>1, <2>3, <2>4, <2>6 DEF PairPayment, inputs, Amount
<1>2. ASSUME NEW k \in todo, SettleBucket(k) PROVE closed
  <2>1. /\ \A p \in Payments : paymentRound'[p] =
             IF p \in BucketPayments(k) THEN FOUR ELSE paymentRound[p]
        /\ \A d \in Deposits : depositRound'[d] =
             IF d \in BucketDeposits(k) THEN FOUR ELSE depositRound[d]
    BY <1>2 DEF SettleBucket
  <2>2. BucketPayments(k) \subseteq debits /\ BucketDeposits(k) \subseteq credits
    BY DEF BucketPayments, BucketDeposits, UnmatchedPayments, UnmatchedDeposits, TypeOK
  <2>3. /\ debits \ debits' = BucketPayments(k) /\ credits \ credits' = BucketDeposits(k)
        /\ debits' \subseteq debits /\ credits' \subseteq credits
    BY <2>1, <2>2 DEF NONE, FOUR
  <2>4. Ledger!Total(BucketPayments(k)) = Ledger!Total(BucketDeposits(k))
    BY <1>2, BucketTotals DEF SettleBucket
  <2>. QED
    BY <1>2, <2>3, <2>4 DEF SettleBucket, inputs, Amount
<1>3. CASE UNCHANGED <<payment, deposit, paymentRound, depositRound>>
  BY <1>3 DEF Ledger!vars
<1>4. \/ \E p \in Payments : PairPayment(p)
      \/ \E k \in todo : SettleBucket(k)
      \/ UNCHANGED <<payment, deposit, paymentRound, depositRound>>
  BY DEF Next, vars, inputs, SkipPayment, NextRound, EnterRound, LeaveBucket, Return
<1>. QED
  BY <1>0, <1>1, <1>2, <1>3, <1>4

\* Matching implements Settlement: each step closes payments and deposits of
\* equal sums, for any rows, and opens none again.
THEOREM MoneyIsBalanced == Spec => BalancedSettlement
<1>1. Init => Ledger!Init
  <2>1. Init => Amount \in [Payments \cup Deposits -> Int]
    BY PosMatchingAssumption DEF PosMatchingAssumption, Init, Amount
  <2>. QED
    BY <2>1 DEF Init, Ledger!Init, Amount, NONE
<1>. QED
  BY <1>1, BalancedStep, TypeCorrect, PTL DEF Spec, BalancedSettlement, Ledger!Spec
=============================================================================
