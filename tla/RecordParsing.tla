---------------------------- MODULE RecordParsing ----------------------------
(***************************************************************************)
(* From the contents of a file to the entities the parser saves: the       *)
(* fixed width lines of a TDI17 or TDI34 file with their header and        *)
(* trailer, the sales of GARMS, and the validation of both.  A line is a   *)
(* function from the columns to what stands in them.  An amount in a       *)
(* column is its digits and its cents; all amounts are cents.  Lines of a  *)
(* TDI file may be lost, doubled, cut off or blanked before it is read.    *)
(***************************************************************************)
EXTENDS Integers, Sequences, SequencesExt

CONSTANTS
  Kinds,                \* FileTypes
  GoodLines,            \* kind -> what lines of such a file the bank writes
  Sales,                \* sales of a GARMS file
  MaxLines, MaxFaults,
  Blank,                \* a column of spaces
  Null, NaN,
  Other                 \* text of another column

VARIABLES
  kind,
  sent,                 \* the detail lines the bank wrote, or the sales
  lines,                \* the lines of the file as it is read
  faults

parsingVars == <<kind, sent, lines, faults>>
-----------------------------------------------------------------------------
\* The columns of the classes, in the order of their decorators: convertToJson
\* sets them in this order.
Number(field) == <<field, "Integer">>
Text(field) == <<field, "String">>
Date(field) == <<field, "Date">>
Time(field) == <<field, "Time">>
Flag(field) == <<field, "Boolean">>
Money(field) == <<field, "Decimal">>

TDI17HeaderColumns ==
  << Number("rcd_type"), Text("creation_date_str"), Date("creation_date"),
     Text("creation_time_str"), Text("creation_time"), Text("from_date_str"), Date("from_date"),
     Text("to_date_str"), Date("to_date") >>

TDI34HeaderColumns == << Number("rcd_type"), Date("settlement_date") >>

TDI17Columns ==
  << Number("rcd_type"), Text("ministry_no"), Text("program_code"), Date("deposit_date"),
     Number("pt_location_id"), Time("deposit_time"), Text("seq_no"), Text("location_desc"),
     Flag("negative_indicator_curr"), Money("deposit_amt_curr"), Text("currency"),
     Flag("negative_indicator_exchanged"), Money("exchange_adj_amt"),
     Flag("negative_indicator_cdn"), Money("deposit_amt_cdn"), Text("destination_bank_no"),
     Text("batch_no"), Text("jv_type"), Text("jv_no") >>

\* Mutant of TDI34Columns: the amount before the code that tells its sign.
TDI34ColumnsAmountFirst ==
  << Number("rcd_type"), Number("merchant_id"), Text("terminal_no"), Text("fill1"),
     Text("payment_method"), Text("card_id"), Date("transaction_date"), Time("transaction_time"),
     Date("settlement_date"), Money("transaction_amt"), Number("transaction_code"), Text("fill2"),
     Text("approval_code"), Text("fill3"), Text("invoice_no"), Text("echo_data_field"),
     Text("fill4") >>

TDI34Columns ==
  << Number("rcd_type"), Number("merchant_id"), Text("terminal_no"), Text("fill1"),
     Text("payment_method"), Text("card_id"), Date("transaction_date"), Time("transaction_time"),
     Date("settlement_date"), Number("transaction_code"), Text("fill2"), Text("approval_code"),
     Text("fill3"), Money("transaction_amt"), Text("invoice_no"), Text("echo_data_field"),
     Text("fill4") >>

TDI17TrailerColumns == << Number("rcd_type"), Number("no_of_details"), Money("deposit_amt_cdn") >>
TDI34TrailerColumns == << Number("rcd_type"), Number("no_of_detail_rcd"), Money("transaction_amt") >>

\* decimalFormat puts the point before the last two of the digits.
DecimalFormat(raw) == IF raw.digits < 3 THEN NaN ELSE raw.cents

\* TDI17 has 0 for a deposit time now and then.
TimeFormat(raw) == IF raw = "short" THEN Null ELSE raw

\* An empty amount times 1 is 0.
Convert(type, raw) ==
  CASE type = "Integer" -> IF raw \in {Blank, Other} THEN NaN ELSE raw
    [] type = "Decimal" -> IF raw = Blank THEN 0 ELSE IF raw = Other THEN NaN ELSE DecimalFormat(raw)
    [] type = "Date" -> IF raw = Blank THEN Null ELSE raw
    [] type = "Time" -> IF raw = Blank THEN Null ELSE TimeFormat(raw)
    [] OTHER -> raw

Negated(value) == IF value = NaN THEN NaN ELSE -value

MerchReturn == 14
PurchaseAdjustment == 21

\* The setters of the amounts look at what was set before them.
IsNegative(record, field) ==
  \/ field = "deposit_amt_curr" /\ record.negative_indicator_curr # Blank
  \/ field = "exchange_adj_amt" /\ record.negative_indicator_exchanged # Blank
  \/ field = "deposit_amt_cdn" /\ record.negative_indicator_cdn # Blank
  \/ field = "transaction_amt" /\ record.transaction_code \in {MerchReturn, PurchaseAdjustment}

ConvertToJson(line, class, columns) ==
  LET fields == {columns[i][1] : i \in DOMAIN columns}
      place(f) == CHOOSE i \in DOMAIN columns : columns[i][1] = f
      type(f) == columns[place(f)][2]
      value(f) == Convert(type(f), IF line.class = class THEN line.at[f] ELSE Other)
      before(f) == [g \in fields |-> IF place(g) < place(f) THEN value(g) ELSE Blank] IN
  [f \in fields |->
     IF class = "detail" /\ type(f) = "Decimal" /\ IsNegative(before(f), f)
     THEN Negated(value(f)) ELSE value(f)]
-----------------------------------------------------------------------------
\* What the bank writes, and the tills: the columns of the class, none of them
\* one of the values that stand for what could not be read.
Amounts == [digits : Nat, cents : Int]

Written(line, columns) ==
  /\ DOMAIN line = {columns[i][1] : i \in DOMAIN columns}
  /\ \A i \in DOMAIN columns :
       LET value == line[columns[i][1]] IN
       /\ value \notin {Null, NaN, Other}
       /\ columns[i][2] = "Decimal" => value \in Amounts

RungUp(s) ==
  /\ DOMAIN s = {"sales_transaction_date", "fiscal_close_date", "location_id", "payment_total",
                 "void_indicator", "payments"}
  /\ {s.sales_transaction_date, s.fiscal_close_date} \cap {NaN, Other} = {}
  /\ s.location_id \notin {Null, Other} /\ s.payment_total \in Int
  /\ DOMAIN s.payments = 1 .. Len(s.payments) /\ Len(s.payments) \in Nat
  /\ \A i \in DOMAIN s.payments :
       s.payments[i].amount \in Int /\ s.payments[i].exchange_rate \in Int \cup {Null}

ASSUME RecordParsingAssumption ==
  /\ Kinds \subseteq {"TDI17", "TDI34", "SBC_SALES"}
  /\ "TDI17" \in Kinds => \A line \in GoodLines["TDI17"] : Written(line, TDI17Columns)
  /\ "TDI34" \in Kinds => \A line \in GoodLines["TDI34"] : Written(line, TDI34Columns)
  /\ \A s \in Sales : RungUp(s)
  /\ MaxLines \in Nat /\ MaxFaults \in Nat
  /\ Blank \notin {Null, NaN, Other} /\ Null \notin {NaN, Other} /\ NaN # Other
  /\ \A marker \in {Blank, Null, NaN, Other} : marker \notin Int \cup Amounts
-----------------------------------------------------------------------------
Refused == [refused |-> TRUE, entities |-> <<>>, fileDate |-> Null]
Entities(S, date) == [refused |-> FALSE, entities |-> S, fileDate |-> date]

ParseTDIHeader(file) ==
  ConvertToJson(Head(file), "header", IF kind = "TDI17" THEN TDI17HeaderColumns ELSE TDI34HeaderColumns)

\* acc.plus of the amounts, without their signs in a TDI34 file.
Abs(n) == IF n = NaN THEN NaN ELSE IF n < 0 THEN -n ELSE n
ItemTotals(entities) ==
  LET amount == [i \in DOMAIN entities |->
        IF kind = "TDI17" THEN entities[i].deposit_amt_cdn ELSE Abs(entities[i].transaction_amt)] IN
  IF \E i \in DOMAIN entities : amount[i] = NaN THEN NaN ELSE SumFunction(amount)

\* Mutant of TrailerAgrees: the number of records is not compared.
TrailerAgreesOnTotal(trailer, entities) ==
  (IF kind = "TDI17" THEN trailer.deposit_amt_cdn ELSE trailer.transaction_amt) = ItemTotals(entities)

TrailerAgrees(trailer, entities) ==
  /\ (IF kind = "TDI17" THEN trailer.no_of_details ELSE trailer.no_of_detail_rcd) = Len(entities)
  /\ (IF kind = "TDI17" THEN trailer.deposit_amt_cdn ELSE trailer.transaction_amt) = ItemTotals(entities)

\* The first line is the header and the last one the trailer, whatever they
\* are; with nothing in between the trailer is not looked at.
ParseTDI(file, fileDate) ==
  LET body == SubSeq(file, 2, Len(file) - 1)
      columns == IF kind = "TDI17" THEN TDI17Columns ELSE TDI34Columns
      entities == [i \in 1 .. Len(body) |-> ConvertToJson(body[i], "detail", columns)]
      trailer == ConvertToJson(Last(file), "trailer",
                   IF kind = "TDI17" THEN TDI17TrailerColumns ELSE TDI34TrailerColumns) IN
  IF body = <<>> THEN Entities(<<>>, fileDate)
  ELSE IF TrailerAgrees(trailer, entities) THEN Entities(entities, fileDate)
  ELSE Refused
-----------------------------------------------------------------------------
\* Mutant of CashDepositDTO: the date is optional.
CashDepositDTOAnyDate(e) ==
  /\ e.pt_location_id # NaN
  /\ Blank \notin {e.seq_no, e.location_desc, e.destination_bank_no}
  /\ NaN \notin {e.deposit_amt_curr, e.exchange_adj_amt, e.deposit_amt_cdn}

CashDepositDTO(e) ==
  /\ e.deposit_date \notin {Null, Other} /\ e.pt_location_id # NaN
  /\ Blank \notin {e.seq_no, e.location_desc, e.destination_bank_no}
  /\ NaN \notin {e.deposit_amt_curr, e.exchange_adj_amt, e.deposit_amt_cdn}

PosDepositDTO(e) ==
  /\ e.transaction_date \notin {Null, Other} /\ e.merchant_id # NaN /\ e.transaction_amt # NaN
  /\ e.transaction_time # Null
  /\ Blank \notin {e.card_id, e.terminal_no, e.payment_method}

GarmsPaymentDTO(p) == p.amount # NaN /\ p.payment_method # Null
GarmsTransactionDTO(t) ==
  /\ Null \notin {t.transaction_date, t.fiscal_close_date} /\ t.location_id # NaN
  /\ \A i \in 1 .. Len(t.payments) : GarmsPaymentDTO(t.payments[i])

\* One bad line refuses the file.
ValidateTDI(parsed) ==
  IF \A i \in 1 .. Len(parsed.entities) :
       IF kind = "TDI17" THEN CashDepositDTO(parsed.entities[i]) ELSE PosDepositDTO(parsed.entities[i])
  THEN parsed ELSE Refused
ValidateTxnData(parsed) ==
  IF \A i \in 1 .. Len(parsed.entities) : GarmsTransactionDTO(parsed.entities[i])
  THEN parsed ELSE Refused

\* parseTDIHeader of an empty file throws.
ParseAndValidateTDIFile(file) ==
  IF file = <<>> THEN Refused
  ELSE LET header == ParseTDIHeader(file) IN
       ValidateTDI(ParseTDI(file, IF kind = "TDI17" THEN header.to_date ELSE header.settlement_date))
-----------------------------------------------------------------------------
\* toDecimalPlaces(2) of cents times a rate in hundredths of a percent: half a
\* cent is rounded away from zero.
Rounded(n) == IF n < 0 THEN -((-n + 5000) \div 10000) ELSE (n + 5000) \div 10000

\* Mutant of InCanadianDollars: the cents are cut off.
InCanadianDollarsCutOff(p) ==
  IF p.currency # "CAD" /\ p.exchange_rate \notin {Null, 0}
  THEN (p.amount * p.exchange_rate) \div 10000 ELSE p.amount

InCanadianDollars(p) ==
  IF p.currency # "CAD" /\ p.exchange_rate \notin {Null, 0}
  THEN Rounded(p.amount * p.exchange_rate) ELSE p.amount

ParseSBCGarmsPayment(p) ==
  [payment_method |-> p.method, amount |-> InCanadianDollars(p),
   currency |-> IF p.currency = Null THEN "CAD" ELSE p.currency,
   foreign_currency_amount |-> IF p.currency = "CAD" THEN Null ELSE p.amount]

ParseGarmsData(s) ==
  [transaction_date |-> s.sales_transaction_date, fiscal_close_date |-> s.fiscal_close_date,
   location_id |-> s.location_id, total_transaction_amount |-> s.payment_total,
   void_indicator |-> s.void_indicator = Blank,
   payments |-> [i \in 1 .. Len(s.payments) |-> ParseSBCGarmsPayment(s.payments[i])]]

\* Payments of 0 are left out.
Paid(payments) ==
  LET filter(kept, p) == IF p.amount = 0 THEN kept ELSE Append(kept, p) IN
  FoldLeft(filter, <<>>, payments)

ParseGarms(sales) ==
  [i \in 1 .. Len(sales) |-> ParseGarmsData([sales[i] EXCEPT !.payments = Paid(@)])]

\* The date of the file is in its name.  validateSbcGarmsFileName is called and
\* its answer is dropped.
ParseAndValidateSBCGarms(sales, name) == ValidateTxnData(Entities(ParseGarms(sales), name))

\* The columns of the tables that are filled from a file and may not be null:
\* those of the entities without `nullable` and without a default.
CashDepositNotNull ==
  {"deposit_date", "pt_location_id", "seq_no", "location_desc", "deposit_amt_curr",
   "exchange_adj_amt", "deposit_amt_cdn", "destination_bank_no"}
PosDepositNotNull ==
  {"merchant_id", "card_id", "transaction_amt", "transaction_date", "terminal_no"}
TransactionNotNull ==
  {"transaction_date", "fiscal_close_date", "location_id", "total_transaction_amount"}

Parsed == IF kind = "SBC_SALES" THEN ParseAndValidateSBCGarms(lines, "name")
                                ELSE ParseAndValidateTDIFile(lines)
-----------------------------------------------------------------------------
\* What the columns of a line mean, whatever the order they are read in.
Cents(line) ==
  IF kind = "TDI17"
  THEN (IF line.negative_indicator_cdn = Blank THEN 1 ELSE -1) * line.deposit_amt_cdn.cents
  ELSE (IF line.transaction_code \in {MerchReturn, PurchaseAdjustment} THEN -1 ELSE 1)
         * line.transaction_amt.cents

Line(class, at) == [class |-> class, at |-> at]
Header ==
  Line("header",
    [f \in {"rcd_type", "creation_date_str", "creation_date", "creation_time_str", "creation_time",
            "from_date_str", "from_date", "to_date_str", "to_date", "settlement_date"} |-> 0])
Trailer ==
  LET cents == [i \in DOMAIN sent |-> IF kind = "TDI17" THEN Cents(sent[i]) ELSE Abs(Cents(sent[i]))]
      total == [digits |-> 14, cents |-> SumFunction(cents)] IN
  Line("trailer", [rcd_type |-> 7, no_of_details |-> Len(sent), no_of_detail_rcd |-> Len(sent),
                   deposit_amt_cdn |-> total, transaction_amt |-> total])

WholeFile == <<Header>> \o [i \in 1 .. Len(sent) |-> Line("detail", sent[i])] \o <<Trailer>>

Init ==
  /\ kind \in Kinds /\ faults = 0
  /\ \/ kind = "SBC_SALES" /\ sent \in {<<s>> : s \in Sales} /\ lines = sent
     \/ kind # "SBC_SALES" /\ sent \in SeqOf(GoodLines[kind], MaxLines) /\ lines = WholeFile

Damage(file) ==
  /\ kind # "SBC_SALES" /\ faults < MaxFaults
  /\ lines' = file /\ faults' = faults + 1 /\ UNCHANGED <<kind, sent>>

LoseLine == \E i \in 1 .. Len(lines) : Damage(RemoveAt(lines, i))
DoubleLine == \E i \in 1 .. Len(lines) : Damage(InsertAt(lines, i, lines[i]))
CutOff == \E n \in 0 .. (Len(lines) - 1) : Damage(SubSeq(lines, 1, n))
\* Without its code the sign of a TDI34 amount cannot be known.
BlankColumn ==
  /\ kind # "SBC_SALES"
  /\ \E i \in 1 .. Len(lines) :
       /\ lines[i].class = "detail"
       /\ \E f \in DOMAIN lines[i].at \ {"transaction_code"} :
            Damage([lines EXCEPT ![i].at[f] = Blank])

Next == LoseLine \/ DoubleLine \/ CutOff \/ BlankColumn

Spec == Init /\ [][Next]_parsingVars
-----------------------------------------------------------------------------
\* A file that is not as the bank wrote it is refused, or what it lost is none
\* of the amounts, dates and places: if any entity comes out of it, all come out
\* with the amounts the bank wrote.  A file without entities says nothing: one
\* that is cut off after its first or second line looks empty.
RefusedOrComplete ==
  kind # "SBC_SALES" /\ Parsed.entities # <<>> =>
    /\ Len(Parsed.entities) = Len(sent)
    /\ \A i \in 1 .. Len(sent) :
         LET e == Parsed.entities[i]  l == sent[i] IN
         IF kind = "TDI17"
         THEN /\ e.deposit_amt_cdn = Cents(l) /\ e.deposit_date = l.deposit_date
              /\ e.pt_location_id = l.pt_location_id
         ELSE /\ e.transaction_amt = Cents(l) /\ e.transaction_date = l.transaction_date
              /\ e.merchant_id = l.merchant_id

\* What passes the validation has a value for each column of its table that may
\* not be null, so that the refusal comes before the file is recorded and not
\* in the middle of saving it.
AcceptedIsStorable ==
  \A i \in 1 .. Len(Parsed.entities) :
    LET required == CASE kind = "TDI17" -> CashDepositNotNull
                      [] kind = "TDI34" -> PosDepositNotNull
                      [] OTHER -> TransactionNotNull IN
    \A column \in required : Parsed.entities[i][column] \notin {Null, NaN, Other}

\* Each payment of a sale is saved once and in its place, unless it is 0, in
\* Canadian dollars to within half a cent, and refunds stay negative.
WithinHalfACent(amount, exact) ==
  10000 * amount <= exact + 5000 /\ exact <= 10000 * amount + 5000

Saves(saved, p) ==
  /\ WithinHalfACent(saved.amount, IF p.currency = "CAD" \/ p.exchange_rate \in {Null, 0}
                                   THEN 10000 * p.amount ELSE p.amount * p.exchange_rate)
  /\ saved.payment_method = p.method

PaymentsKeepTheirValue ==
  kind = "SBC_SALES" /\ ~Parsed.refused =>
    \A i \in 1 .. Len(sent) :
      LET saved == Parsed.entities[i].payments
          payments == sent[i].payments IN
      \E source \in [DOMAIN saved -> DOMAIN payments] :
        /\ \A j, k \in DOMAIN saved : j < k => source[j] < source[k]
        /\ {source[j] : j \in DOMAIN saved} = {k \in DOMAIN payments : payments[k].amount # 0}
        /\ \A j \in DOMAIN saved : Saves(saved[j], payments[source[j]])
=============================================================================
