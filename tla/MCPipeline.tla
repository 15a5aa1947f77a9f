----------------------------- MODULE MCPipeline -----------------------------
(* The three required files of day 0, a Monday, with a row each: the POS    *)
(* payment and the POS deposit belong together, the cash deposit waits for  *)
(* its payment.  The messages are for day 1: what comes from the parser     *)
(* passes the check when the files are there, the batch bypasses it.        *)
EXTENDS Pipeline, TLC

Fields(table, amount, place) ==
  [table |-> table, date |-> 0, closed |-> 0, amount |-> amount, place |-> place,
   terminal |-> "t", master |-> 1]

MCRow == "p" :> Fields("pos_payment", 2, "A") @@ "d" :> Fields("pos_deposit", 2, "merchant A")
           @@ "c" :> Fields("cash_deposit", 3, "bank B")
MCLocations == {"A", "B"}
MCPlacesOf == "A" :> {"A", "merchant A"} @@ "B" :> {"B", "bank B"}
MCFirstOfMonth(day) == day - 3

MCLinesOf == "SBC_SALES" :> {"p"} @@ "TDI34" :> {"d"} @@ "TDI17" :> {"c"}
MCFileType == [f \in Files |-> f]
MCFileDate == [f \in Files |-> 0]
MCPaidBy == "d" :> {"p"}
=============================================================================
