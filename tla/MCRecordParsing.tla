--------------------------- MODULE MCRecordParsing ---------------------------
(* Deposits of 0, 1 and 250 cents with either sign and with the short time  *)
(* TDI17 may have; sales with up to two payments in two currencies, with    *)
(* and without a rate (131.91 is 13191), a refund, a payment of 0 and an    *)
(* unknown method.                                                          *)
EXTENDS RecordParsing, TLC

Amount(cents) == [digits |-> 12, cents |-> cents]
CashLine(sign, cents, time) ==
  [rcd_type |-> 2, ministry_no |-> "x", program_code |-> "x", deposit_date |-> 3,
   pt_location_id |-> 20018, deposit_time |-> time, seq_no |-> "x", location_desc |-> "x",
   negative_indicator_curr |-> sign, deposit_amt_curr |-> Amount(cents), currency |-> Blank,
   negative_indicator_exchanged |-> Blank, exchange_adj_amt |-> Amount(0),
   negative_indicator_cdn |-> sign, deposit_amt_cdn |-> Amount(cents),
   destination_bank_no |-> "x", batch_no |-> "x", jv_type |-> "x", jv_no |-> "x"]
PosLine(code, cents, time) ==
  [rcd_type |-> 2, merchant_id |-> 23591116, terminal_no |-> "x", fill1 |-> Blank,
   payment_method |-> "AX", card_id |-> "x", transaction_date |-> 3, transaction_time |-> time,
   settlement_date |-> 3, transaction_code |-> code, fill2 |-> Blank, approval_code |-> "x",
   fill3 |-> Blank, transaction_amt |-> Amount(cents), invoice_no |-> "x",
   echo_data_field |-> Blank, fill4 |-> Blank]

Times == {"1020", "short"}
MCGoodLines ==
  "TDI17" :> {CashLine(sign, cents, time) : sign \in {Blank, "-"}, cents \in {0, 1, 250}, time \in Times}
  @@ "TDI34" :> {PosLine(code, cents, time) : code \in {10, 14, 21}, cents \in {0, 1, 250}, time \in Times}

GarmsPayments ==
  [amount : {-333, 0, 1, 500}, currency : {"CAD", "USD", Null}, exchange_rate : {Null, 0, 13191},
   method : {"CASH", Null}]
MCSales ==
  [sales_transaction_date : {3}, fiscal_close_date : {3}, location_id : {47, NaN},
   payment_total : {0}, void_indicator : {Blank, "Y"}, payments : SeqOf(GarmsPayments, 1)]
  \cup [sales_transaction_date : {3}, fiscal_close_date : {3}, location_id : {47},
        payment_total : {0}, void_indicator : {Blank},
        payments : {<<p, q>> : p, q \in {r \in GarmsPayments : r.method = "CASH"}}]
=============================================================================
