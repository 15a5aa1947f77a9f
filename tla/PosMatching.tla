---------------------------- MODULE PosMatching -----------------------------
(***************************************************************************)
(* PosReconciliationService.filterAndSetMatch: the four heuristic rounds   *)
(* that pair the pending POS payments of one location with its pending POS *)
(* deposits.  The computation is synchronous; a step here is one visit of  *)
(* a payment in rounds ONE to THREE and one bucket in round FOUR.          *)
(*                                                                         *)
(* A bucket is a (date, method) pair, the key of the two dictionaries.     *)
(* Buckets of one round are disjoint, so the order in which the code walks *)
(* them cannot be told apart from the one used here: oldest payment first. *)
(***************************************************************************)
EXTENDS BusinessDays

CONSTANTS
  Payments,    \* ids of payment rows
  Deposits,    \* ids of POS deposit rows
  Rows,        \* the rows there may be: [date, time, amount, method]
  NoDeposit    \* pos_deposit_match of a payment that has none

ASSUME PosMatchingAssumption ==
  /\ Rows \subseteq [date: Int, time: Nat, amount: Int, method: STRING]
  /\ NoDeposit \notin Deposits
  /\ Payments \cap Deposits = {}

VARIABLES
  payment,            \* row of each payment id
  deposit,            \* row of each deposit id
  pendingPayments,    \* the arrays handed to reconcile(), as sets of ids
  pendingDeposits,
  round,              \* heuristicMatchRound
  todo,               \* payments (or, in round FOUR, buckets) not visited yet
  paymentRound,       \* heuristic_match_round of the payments; NONE: no match
  depositRound,
  posDepositMatch,    \* pos_deposit_match of the payments
  roundFourMatches    \* round_four_matches of the payments

vars == <<payment, deposit, pendingPayments, pendingDeposits, round, todo,
          paymentRound, depositRound, posDepositMatch, roundFourMatches>>
inputs == <<payment, deposit, pendingPayments, pendingDeposits>>
-----------------------------------------------------------------------------
\* The heuristics array in order; NONE and DONE are not in it.
NONE  == 0
ONE   == 1
TWO   == 2
THREE == 3
FOUR  == 4
DONE  == 5

UnmatchedPayments == {p \in pendingPayments : paymentRound[p] = NONE}
UnmatchedDeposits == {d \in pendingDeposits : depositRound[d] = NONE}

\* Key of paymentDictionary: round THREE files a payment under the business
\* day before its own.
PaymentKey(p, r) ==
  << IF r = THREE THEN PrevBusinessDay(payment[p].date) ELSE payment[p].date,
     payment[p].method >>

\* Key of depositDictionary.
DepositKey(d) == <<deposit[d].date, deposit[d].method>>

SameAmount(p, d) == payment[p].amount = deposit[d].amount
WithinMinutes(p, d, m) == MinutesApart(payment[p].time, deposit[d].time) <= m

\* Mutants of CheckMatch: the deposit's own status forgotten, the five
\* minutes exclusive, the amount not compared.
CheckMatchTakenDeposit(p, d, r) ==
  paymentRound[p] = NONE /\ SameAmount(p, d) /\ (r = ONE => WithinMinutes(p, d, 5))
CheckMatchFourMinutes(p, d, r) ==
  /\ paymentRound[p] = NONE /\ depositRound[d] = NONE
  /\ SameAmount(p, d) /\ (r = ONE => WithinMinutes(p, d, 4))
CheckMatchAnyAmount(p, d, r) ==
  /\ paymentRound[p] = NONE /\ depositRound[d] = NONE
  /\ r = ONE => WithinMinutes(p, d, 5)

\* checkMatch of rounds ONE, TWO and THREE.
CheckMatch(p, d, r) ==
  /\ paymentRound[p] = NONE /\ depositRound[d] = NONE
  /\ SameAmount(p, d)
  /\ r = ONE => WithinMinutes(p, d, 5)

\* The deposits the find() of round r may return for p: those of its bucket
\* that pass checkMatch.
Candidates(p, r) ==
  {d \in pendingDeposits : PaymentKey(p, r) = DepositKey(d) /\ CheckMatch(p, d, r)}

\* Position in the ORDER BY of findPaymentsByMinistryAndMethod and
\* findPosDeposits.  Amount and method come later in it, and rows that differ
\* in them never compete for one partner.
Earlier(x, y) == x.date < y.date \/ (x.date = y.date /\ x.time < y.time)
First(S, row) == {x \in S : \A y \in S : ~Earlier(row[y], row[x])}
-----------------------------------------------------------------------------
\* setPendingPayments, setPendingDeposits, setHeuristicMatchRound and empty
\* matched lists: what reconcilePos sets before each call of reconcile().
StartMatching(ps, ds) ==
  /\ pendingPayments' = ps /\ pendingDeposits' = ds
  /\ round' = ONE
  /\ todo' = ps
  /\ paymentRound' = [p \in Payments |-> NONE]
  /\ depositRound' = [d \in Deposits |-> NONE]
  /\ posDepositMatch' = [p \in Payments |-> NoDeposit]
  /\ roundFourMatches' = [p \in Payments |-> {}]

Init ==
  /\ payment \in [Payments -> Rows] /\ deposit \in [Deposits -> Rows]
  /\ pendingPayments = Payments /\ pendingDeposits = Deposits
  /\ round = ONE /\ todo = Payments
  /\ paymentRound = [p \in Payments |-> NONE]
  /\ depositRound = [d \in Deposits |-> NONE]
  /\ posDepositMatch = [p \in Payments |-> NoDeposit]
  /\ roundFourMatches = [p \in Payments |-> {}]

\* findMatchesInDictionary, rounds ONE to THREE: the payment takes the first
\* deposit that matches; both become MATCH in the bucket at once.
PairPayment(p) ==
  /\ round < FOUR /\ p \in First(todo, payment)
  /\ \E d \in First(Candidates(p, round), deposit) :
       /\ paymentRound' = [paymentRound EXCEPT ![p] = round]
       /\ depositRound' = [depositRound EXCEPT ![d] = round]
       /\ posDepositMatch' = [posDepositMatch EXCEPT ![p] = d]
  /\ todo' = todo \ {p}
  /\ UNCHANGED <<inputs, round, roundFourMatches>>

\* Mutant of SkipPayment: the payment is tried again for ever.
SkipPaymentRetry(p) ==
  /\ round < FOUR /\ p \in First(todo, payment)
  /\ Candidates(p, round) = {}
  /\ UNCHANGED vars

\* find() returns undefined: the payment stays unmatched in this round.
SkipPayment(p) ==
  /\ round < FOUR /\ p \in First(todo, payment)
  /\ Candidates(p, round) = {}
  /\ todo' = todo \ {p}
  /\ UNCHANGED <<inputs, round, paymentRound, depositRound, posDepositMatch,
                 roundFourMatches>>

\* The keys of the two dictionaries of round FOUR.
Buckets == {PaymentKey(p, FOUR) : p \in UnmatchedPayments}
             \cup {DepositKey(d) : d \in UnmatchedDeposits}

\* The recursive call of filterAndSetMatch for round r with what is unmatched;
\* round FOUR walks the buckets of the two dictionaries, not the payments.
EnterRound(r) ==
  /\ round' = r
  /\ todo' = IF r = FOUR THEN Buckets ELSE UnmatchedPayments
  /\ UNCHANGED <<inputs, paymentRound, depositRound, posDepositMatch,
                 roundFourMatches>>

\* Mutants of NextRound: round THREE is left out; the rounds after one that
\* matched something are left out.
NextRoundSkipThree ==
  round < FOUR /\ todo = {} /\ EnterRound(IF round = TWO THEN FOUR ELSE round + 1)
NextRoundUntilAMatch ==
  /\ round < FOUR /\ todo = {}
  /\ EnterRound(IF UnmatchedPayments # pendingPayments THEN FOUR ELSE round + 1)

NextRound == round < FOUR /\ todo = {} /\ EnterRound(round + 1)

BucketPayments(k) == {p \in UnmatchedPayments : PaymentKey(p, FOUR) = k}
BucketDeposits(k) == {d \in UnmatchedDeposits : DepositKey(d) = k}

\* checkMatch of round FOUR on the two sums of a bucket; a side that is
\* missing from the bucket counts as 0.
SumsAgree(k) ==
  LET paid(p) == payment[p].amount
      deposited(d) == deposit[d].amount
  IN  MapThenSumSet(paid, BucketPayments(k)) = MapThenSumSet(deposited, BucketDeposits(k))

\* Mutant of SettleBucket: the payments joined to the payments of the bucket.
SettleBucketOwnSide(k) ==
  /\ round = FOUR /\ k \in todo
  /\ SumsAgree(k)
  /\ paymentRound' = [p \in Payments |->
       IF p \in BucketPayments(k) THEN FOUR ELSE paymentRound[p]]
  /\ depositRound' = [d \in Deposits |->
       IF d \in BucketDeposits(k) THEN FOUR ELSE depositRound[d]]
  /\ roundFourMatches' = [p \in Payments |->
       IF p \in BucketPayments(k) THEN BucketPayments(k) ELSE roundFourMatches[p]]
  /\ todo' = todo \ {k}
  /\ UNCHANGED <<inputs, round, posDepositMatch>>

\* findMatchesInDictionary, round FOUR: a bucket whose sums agree is MATCH as
\* a whole, each payment joined to all deposits of the bucket.
SettleBucket(k) ==
  /\ round = FOUR /\ k \in todo
  /\ SumsAgree(k)
  /\ paymentRound' = [p \in Payments |->
       IF p \in BucketPayments(k) THEN FOUR ELSE paymentRound[p]]
  /\ depositRound' = [d \in Deposits |->
       IF d \in BucketDeposits(k) THEN FOUR ELSE depositRound[d]]
  /\ roundFourMatches' = [p \in Payments |->
       IF p \in BucketPayments(k) THEN BucketDeposits(k) ELSE roundFourMatches[p]]
  /\ todo' = todo \ {k}
  /\ UNCHANGED <<inputs, round, posDepositMatch>>

LeaveBucket(k) ==
  /\ round = FOUR /\ k \in todo
  /\ ~SumsAgree(k)
  /\ todo' = todo \ {k}
  /\ UNCHANGED <<inputs, round, paymentRound, depositRound, posDepositMatch,
                 roundFourMatches>>

\* filterAndSetMatch returns after round FOUR.
Return ==
  /\ round = FOUR /\ todo = {}
  /\ round' = DONE
  /\ UNCHANGED <<inputs, todo, paymentRound, depositRound, posDepositMatch,
                 roundFourMatches>>

Next ==
  \/ \E p \in Payments : PairPayment(p) \/ SkipPayment(p)
  \/ NextRound
  \/ \E k \in todo : SettleBucket(k) \/ LeaveBucket(k)
  \/ Return

\* The call is synchronous: nothing keeps it from running on to its return.
Spec == Init /\ [][Next]_vars /\ WF_vars(Next)
-----------------------------------------------------------------------------
Keys == {<<r.date, r.method>> : r \in Rows}

TypeOK ==
  /\ payment \in [Payments -> Rows] /\ deposit \in [Deposits -> Rows]
  /\ pendingPayments \subseteq Payments /\ pendingDeposits \subseteq Deposits
  /\ round \in ONE .. DONE
  /\ round < FOUR => todo \subseteq pendingPayments
  /\ round >= FOUR => todo \subseteq Keys
  /\ paymentRound \in [Payments -> NONE .. FOUR]
  /\ depositRound \in [Deposits -> NONE .. FOUR]
  /\ posDepositMatch \in [Payments -> Deposits \cup {NoDeposit}]
  /\ roundFourMatches \in [Payments -> SUBSET Deposits]

\* A deposit settles one payment: through rounds ONE to THREE the matched
\* payments and the matched deposits are in bijection, each pair matched in
\* one round, and nothing outside the two pending lists is touched.
OneToOne ==
  /\ \A p \in Payments : paymentRound[p] \in ONE .. THREE =>
       /\ posDepositMatch[p] \in pendingDeposits
       /\ depositRound[posDepositMatch[p]] = paymentRound[p]
       /\ \A q \in Payments : posDepositMatch[q] = posDepositMatch[p] => q = p
  /\ \A d \in Deposits : depositRound[d] \in ONE .. THREE =>
       \E p \in pendingPayments : posDepositMatch[p] = d

\* First fit misses no pair: once the rounds are over, no unmatched payment has
\* an unmatched deposit left that any round would have accepted, whatever the
\* other payments took, and no bucket of what is left has equal sums.
NothingLeftToPair ==
  round = DONE => /\ \A p \in UnmatchedPayments : \A r \in ONE .. THREE : Candidates(p, r) = {}
                  /\ \A k \in Buckets : ~SumsAgree(k)

\* A pair found in round TWO is one round ONE could not accept: more than five
\* minutes lie between the two (same-day pairs five minutes apart always show
\* heuristic_match_round ONE).
RoundTwoIsLate ==
  \A p \in Payments : paymentRound[p] = TWO => ~WithinMinutes(p, posDepositMatch[p], 5)

\* The recursion ends, with every bucket visited.
Returns == <>(round = DONE)

\* What the caller may rely on: money is settled against equal money and is
\* never unsettled (module Settlement).
Ledger == INSTANCE Settlement WITH
  Debits <- Payments, Credits <- Deposits,
  amount <- [x \in Payments \cup Deposits |->
               IF x \in Payments THEN payment[x].amount ELSE deposit[x].amount],
  openDebits <- {p \in Payments : paymentRound[p] = NONE},
  openCredits <- {d \in Deposits : depositRound[d] = NONE}
BalancedSettlement == Ledger!Spec

\* docs/reconciliation.md says of a matched payment that it carries the
\* deposit it was matched to.  Round FOUR settles a bucket of payments that
\* sum to 0 although no deposit is in it.
MatchedHasCounterpart ==
  \A p \in pendingPayments : paymentRound[p] # NONE =>
    posDepositMatch[p] # NoDeposit \/ roundFourMatches[p] # {}
=============================================================================
