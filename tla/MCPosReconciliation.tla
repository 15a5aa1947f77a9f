------------------------ MODULE MCPosReconciliation -------------------------
(* Location A has payments and deposits that can settle one to one, over   *)
(* the business day, or as a bucket of round FOUR, depending on which of   *)
(* them are in the tables when a run reads them.  d3 is a refund: with d2  *)
(* it makes up p1, and then p2, if a run that matched p1 was killed before *)
(* it saved them, and with d1 it makes up 0 and needs no payment.          *)
(* Location B has a payment no deposit ever comes for: it is skipped and   *)
(* stays PENDING.                                                          *)
EXTENDS PosReconciliation, TLC

Row(date, time, amount) == [date |-> date, time |-> time, amount |-> amount, method |-> "P"]

\* Friday is day 4, Monday day 7.
PaymentRows == "p1" :> Row(4, 0, 1) @@ "p2" :> Row(4, 60, 1) @@ "p3" :> Row(7, 0, 2)
                 @@ "p4" :> Row(4, 0, 1)
DepositRows == "d1" :> Row(4, 30, 1) @@ "d2" :> Row(4, 900, 2) @@ "d3" :> Row(4, 1000, -1)
MCPayments == DOMAIN PaymentRows
MCDeposits == DOMAIN DepositRows
MCPaymentRow == [p \in Payments |-> PaymentRows[p]]
MCDepositRow == [d \in Deposits |-> DepositRows[d]]
MCLocationOf == [x \in Payments \cup Deposits |-> IF x = "p4" THEN "B" ELSE "A"]
=============================================================================
