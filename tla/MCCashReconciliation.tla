------------------------ MODULE MCCashReconciliation ------------------------
(* Three deposit dates at location A, with two equal deposits on one of     *)
(* them.  p1 and p2, of one close date, add up to each of three deposits,   *)
(* and so does p3 alone; d5 is a deposit of that amount at location B.  A   *)
(* run for day 71 looks back to day 41.                                     *)
EXTENDS CashReconciliation, TLC

MCRow(date, amount) == [date |-> date, amount |-> amount]

MCPaymentRow == "p1" :> MCRow(40, 1) @@ "p2" :> MCRow(40, 1) @@ "p3" :> MCRow(41, 2)
MCDepositRow == "d1" :> MCRow(40, 2) @@ "d2" :> MCRow(41, 2) @@ "d3" :> MCRow(41, 2)
             @@ "d4" :> MCRow(42, 1) @@ "d5" :> MCRow(41, 2)
MCPayments == DOMAIN MCPaymentRow
MCDeposits == DOMAIN MCDepositRow
MCLocationOf == [x \in MCPayments \cup MCDeposits |-> IF x = "d5" THEN "B" ELSE "A"]
=============================================================================
