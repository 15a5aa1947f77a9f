------------------------- MODULE RecordParsingProofs -------------------------
(***************************************************************************)
(* Theorems about RecordParsing, for files of any length.  The totals of a *)
(* file and the filter of a sale's payments are folds; what is shown of    *)
(* them here is by induction on the subsets of a finite set.               *)
(***************************************************************************)
EXTENDS RecordParsing, SumTheorems, SequenceTheorems, TLAPS

\* The entity of a line: what stands in each column, and its sign.
Raw(line, f) == IF line.class = "detail" THEN line.at[f] ELSE Other
Signed(value, negative) == IF negative THEN Negated(value) ELSE value
CashEntity(line) == ConvertToJson(line, "detail", TDI17Columns)
PosEntity(line) == ConvertToJson(line, "detail", TDI34Columns)

\* A line of a TDI17 file, column by column.
LEMMA CashEntityHas ==
  ASSUME NEW line
  PROVE  LET e == CashEntity(line) IN
         /\ e.deposit_date = Convert("Date", Raw(line, "deposit_date"))
         /\ e.pt_location_id = Convert("Integer", Raw(line, "pt_location_id"))
         /\ \A f \in {"seq_no", "location_desc", "destination_bank_no"} :
              e[f] = Convert("String", Raw(line, f))
         /\ \E negative \in BOOLEAN :
              e.deposit_amt_curr = Signed(Convert("Decimal", Raw(line, "deposit_amt_curr")), negative)
         /\ \E negative \in BOOLEAN :
              e.exchange_adj_amt = Signed(Convert("Decimal", Raw(line, "exchange_adj_amt")), negative)
         /\ e.deposit_amt_cdn =
              Signed(Convert("Decimal", Raw(line, "deposit_amt_cdn")),
                     Convert("Boolean", Raw(line, "negative_indicator_cdn")) # Blank)
<1>. DEFINE cols == TDI17Columns
            fields == {cols[i][1] : i \in DOMAIN cols}
            place(f) == CHOOSE i \in DOMAIN cols : cols[i][1] = f
            type(f) == cols[place(f)][2]
            value(f) == Convert(type(f), Raw(line, f))
            before(f) == [g \in fields |-> IF place(g) < place(f) THEN value(g) ELSE Blank]
<1>. USE DEF TDI17Columns, Number, Text, Date, Time, Flag, Money
<1>1. /\ place("deposit_date") = 4 /\ place("pt_location_id") = 5 /\ place("seq_no") = 7
      /\ place("location_desc") = 8 /\ place("deposit_amt_curr") = 10
      /\ place("exchange_adj_amt") = 13 /\ place("negative_indicator_cdn") = 14
      /\ place("deposit_amt_cdn") = 15 /\ place("destination_bank_no") = 16
  OBVIOUS
<1>2. {"deposit_date", "pt_location_id", "seq_no", "location_desc", "deposit_amt_curr",
       "exchange_adj_amt", "negative_indicator_cdn", "deposit_amt_cdn", "destination_bank_no"}
        \subseteq fields
  OBVIOUS
<1>3. /\ type("deposit_date") = "Date" /\ type("pt_location_id") = "Integer"
      /\ type("negative_indicator_cdn") = "Boolean"
      /\ \A f \in {"seq_no", "location_desc", "destination_bank_no"} : type(f) = "String"
      /\ \A f \in {"deposit_amt_curr", "exchange_adj_amt", "deposit_amt_cdn"} : type(f) = "Decimal"
  BY <1>1, SMTT(30)
<1>. HIDE DEF fields, place, type
<1>4. CashEntity(line) = [f \in fields |->
        IF type(f) = "Decimal" /\ IsNegative(before(f), f) THEN Negated(value(f)) ELSE value(f)]
  <2>. HIDE DEF TDI17Columns
  <2>. QED
    BY DEF CashEntity, ConvertToJson, Raw, fields, place, type
<1>. HIDE DEF cols, TDI17Columns
<1>5. IsNegative(before("deposit_amt_cdn"), "deposit_amt_cdn")
        <=> Convert("Boolean", Raw(line, "negative_indicator_cdn")) # Blank
  BY <1>1, <1>2, <1>3 DEF IsNegative
<1>. HIDE DEF before
<1>. QED
  BY <1>2, <1>3, <1>4, <1>5 DEF Signed

\* A line of a TDI34 file, column by column.
LEMMA PosEntityHas ==
  ASSUME NEW line
  PROVE  LET e == PosEntity(line) IN
         /\ e.transaction_date = Convert("Date", Raw(line, "transaction_date"))
         /\ e.transaction_time = Convert("Time", Raw(line, "transaction_time"))
         /\ e.merchant_id = Convert("Integer", Raw(line, "merchant_id"))
         /\ \A f \in {"card_id", "terminal_no", "payment_method"} :
              e[f] = Convert("String", Raw(line, f))
         /\ e.transaction_amt =
              Signed(Convert("Decimal", Raw(line, "transaction_amt")),
                     Convert("Integer", Raw(line, "transaction_code"))
                       \in {MerchReturn, PurchaseAdjustment})
<1>. DEFINE cols == TDI34Columns
            fields == {cols[i][1] : i \in DOMAIN cols}
            place(f) == CHOOSE i \in DOMAIN cols : cols[i][1] = f
            type(f) == cols[place(f)][2]
            value(f) == Convert(type(f), Raw(line, f))
            before(f) == [g \in fields |-> IF place(g) < place(f) THEN value(g) ELSE Blank]
<1>. USE DEF TDI34Columns, Number, Text, Date, Time, Flag, Money
<1>1. /\ place("merchant_id") = 2 /\ place("terminal_no") = 3 /\ place("payment_method") = 5
      /\ place("card_id") = 6 /\ place("transaction_date") = 7 /\ place("transaction_time") = 8
      /\ place("transaction_code") = 10 /\ place("transaction_amt") = 14
  OBVIOUS
<1>2. {"merchant_id", "terminal_no", "payment_method", "card_id", "transaction_date",
       "transaction_time", "transaction_code", "transaction_amt"} \subseteq fields
  OBVIOUS
<1>3. /\ type("transaction_date") = "Date" /\ type("transaction_time") = "Time"
      /\ type("merchant_id") = "Integer" /\ type("transaction_code") = "Integer"
      /\ type("transaction_amt") = "Decimal"
      /\ \A f \in {"card_id", "terminal_no", "payment_method"} : type(f) = "String"
  BY <1>1
<1>. HIDE DEF fields, place, type
<1>4. PosEntity(line) = [f \in fields |->
        IF type(f) = "Decimal" /\ IsNegative(before(f), f) THEN Negated(value(f)) ELSE value(f)]
  <2>. HIDE DEF TDI34Columns
  <2>. QED
    BY DEF PosEntity, ConvertToJson, Raw, fields, place, type
<1>. HIDE DEF cols, TDI34Columns
<1>5. IsNegative(before("transaction_amt"), "transaction_amt")
        <=> Convert("Integer", Raw(line, "transaction_code")) \in {MerchReturn, PurchaseAdjustment}
  BY <1>1, <1>2, <1>3 DEF IsNegative
<1>. HIDE DEF before
<1>. QED
  BY <1>2, <1>3, <1>4, <1>5 DEF Signed

\* What is compared in the trailer of a file.
LEMMA TrailerHas ==
  ASSUME NEW line
  PROVE  LET t17 == ConvertToJson(line, "trailer", TDI17TrailerColumns)
             t34 == ConvertToJson(line, "trailer", TDI34TrailerColumns)
             raw(f) == IF line.class = "trailer" THEN line.at[f] ELSE Other IN
         /\ t17.no_of_details = Convert("Integer", raw("no_of_details"))
         /\ t17.deposit_amt_cdn = Convert("Decimal", raw("deposit_amt_cdn"))
         /\ t34.no_of_detail_rcd = Convert("Integer", raw("no_of_detail_rcd"))
         /\ t34.transaction_amt = Convert("Decimal", raw("transaction_amt"))
BY DEF ConvertToJson, TDI17TrailerColumns, TDI34TrailerColumns, Number, Money

-----------------------------------------------------------------------------
Tdi == kind \in {"TDI17", "TDI34"}
Entity(line) == IF kind = "TDI17" THEN CashEntity(line) ELSE PosEntity(line)
DTO(e) == IF kind = "TDI17" THEN CashDepositDTO(e) ELSE PosDepositDTO(e)
Value(e) == IF kind = "TDI17" THEN e.deposit_amt_cdn ELSE Abs(e.transaction_amt)
Due(at) == IF kind = "TDI17" THEN Cents(at) ELSE Abs(Cents(at))

\* A line the bank wrote with any of its columns blanked.
Worn(l) ==
  {l} \cup
  {at \in [DOMAIN l -> {l[f] : f \in DOMAIN l} \cup {Blank}] :
     \A f \in DOMAIN l : at[f] \in {l[f], Blank}}

\* What a line of the file can be.
Readable ==
  {Header, Trailer} \cup {Line("detail", at) : at \in UNION {Worn(l) : l \in GoodLines[kind]}}

FileOK ==
  /\ kind \in Kinds
  /\ kind = "SBC_SALES" => lines = sent /\ \E s \in Sales : sent = <<s>>
  /\ kind # "SBC_SALES" => sent \in Seq(GoodLines[kind]) /\ lines \in Seq(Readable)

\* The values that stand for what could not be read are not amounts.
LEMMA Markers ==
  /\ Blank \notin {Null, NaN, Other} /\ Null \notin {NaN, Other} /\ NaN # Other
  /\ \A marker \in {Blank, Null, NaN, Other} : marker \notin Int /\ marker \notin Amounts
BY RecordParsingAssumption

\* What the bank writes in the columns of the amounts.
LEMMA MoneyColumns ==
  ASSUME NEW l
  PROVE  /\ Written(l, TDI17Columns) =>
              /\ {"deposit_date", "pt_location_id", "seq_no", "location_desc", "deposit_amt_curr",
                  "exchange_adj_amt", "negative_indicator_cdn", "deposit_amt_cdn",
                  "destination_bank_no"} \subseteq DOMAIN l
              /\ \A f \in DOMAIN l : l[f] \notin {Null, NaN, Other}
              /\ {l["deposit_amt_curr"], l["exchange_adj_amt"], l["deposit_amt_cdn"]} \subseteq Amounts
         /\ Written(l, TDI34Columns) =>
              /\ {"merchant_id", "terminal_no", "payment_method", "card_id", "transaction_date",
                  "transaction_time", "transaction_code", "transaction_amt"} \subseteq DOMAIN l
              /\ \A f \in DOMAIN l : l[f] \notin {Null, NaN, Other}
              /\ l["transaction_amt"] \in Amounts
<1>1. ASSUME Written(l, TDI17Columns) PROVE
              /\ {"deposit_date", "pt_location_id", "seq_no", "location_desc", "deposit_amt_curr",
                  "exchange_adj_amt", "negative_indicator_cdn", "deposit_amt_cdn",
                  "destination_bank_no"} \subseteq DOMAIN l
              /\ \A f \in DOMAIN l : l[f] \notin {Null, NaN, Other}
              /\ {l["deposit_amt_curr"], l["exchange_adj_amt"], l["deposit_amt_cdn"]} \subseteq Amounts
  <2>. DEFINE cols == TDI17Columns
  <2>1. /\ DOMAIN cols = 1 .. 19
        /\ cols[4] = <<"deposit_date", "Date">> /\ cols[5] = <<"pt_location_id", "Integer">>
        /\ cols[7] = <<"seq_no", "String">> /\ cols[8] = <<"location_desc", "String">>
        /\ cols[10] = <<"deposit_amt_curr", "Decimal">> /\ cols[13] = <<"exchange_adj_amt", "Decimal">>
        /\ cols[14] = <<"negative_indicator_cdn", "Boolean">>
        /\ cols[15] = <<"deposit_amt_cdn", "Decimal">>
        /\ cols[16] = <<"destination_bank_no", "String">>
    BY DEF TDI17Columns, Number, Text, Date, Time, Flag, Money
  <2>. HIDE DEF cols
  <2>. QED
    BY <1>1, <2>1 DEF Written, cols
<1>2. ASSUME Written(l, TDI34Columns) PROVE
              /\ {"merchant_id", "terminal_no", "payment_method", "card_id", "transaction_date",
                  "transaction_time", "transaction_code", "transaction_amt"} \subseteq DOMAIN l
              /\ \A f \in DOMAIN l : l[f] \notin {Null, NaN, Other}
              /\ l["transaction_amt"] \in Amounts
  <2>. DEFINE cols == TDI34Columns
  <2>1. /\ DOMAIN cols = 1 .. 17
        /\ cols[2] = <<"merchant_id", "Integer">> /\ cols[3] = <<"terminal_no", "String">>
        /\ cols[5] = <<"payment_method", "String">> /\ cols[6] = <<"card_id", "String">>
        /\ cols[7] = <<"transaction_date", "Date">> /\ cols[8] = <<"transaction_time", "Time">>
        /\ cols[10] = <<"transaction_code", "Integer">> /\ cols[14] = <<"transaction_amt", "Decimal">>
    BY DEF TDI34Columns, Number, Text, Date, Time, Flag, Money
  <2>. HIDE DEF cols
  <2>. QED
    BY <1>2, <2>1 DEF Written, cols
<1>. QED
  BY <1>1, <1>2

\* The file as the bank wrote it.
LEMMA WholeFileIs ==
  ASSUME NEW G, sent \in Seq(G)
  PROVE  LET n == Len(sent) IN
         /\ Len(WholeFile) = n + 2 /\ WholeFile[1] = Header /\ WholeFile[n + 2] = Trailer
         /\ \A i \in 1 .. n : WholeFile[i + 1] = Line("detail", sent[i])
         /\ WholeFile \in Seq({Header, Trailer} \cup {Line("detail", sent[i]) : i \in 1 .. n})
<1>. DEFINE n == Len(sent)
            S == {Header, Trailer} \cup {Line("detail", sent[i]) : i \in 1 .. n}
            body == [i \in 1 .. n |-> Line("detail", sent[i])]
            front == <<Header>> \o body
<1>1. n \in Nat /\ body \in Seq(S) /\ Len(body) = n /\ \A i \in 1 .. n : body[i] = Line("detail", sent[i])
  BY LenProperties
<1>2. /\ <<Header>> \in Seq(S) /\ Len(<<Header>>) = 1 /\ <<Header>>[1] = Header
      /\ <<Trailer>> \in Seq(S) /\ Len(<<Trailer>>) = 1 /\ <<Trailer>>[1] = Trailer
  OBVIOUS
<1>. HIDE DEF n, S, body
<1>3. /\ front \in Seq(S) /\ Len(front) = n + 1
      /\ \A i \in 1 .. n + 1 : front[i] = IF i <= 1 THEN <<Header>>[i] ELSE body[i - 1]
  BY <1>1, <1>2, ConcatProperties
<1>. HIDE DEF front
<1>4. /\ front \o <<Trailer>> \in Seq(S) /\ Len(front \o <<Trailer>>) = n + 2
      /\ \A i \in 1 .. n + 2 : (front \o <<Trailer>>)[i] = IF i <= n + 1 THEN front[i] ELSE <<Trailer>>[i - (n + 1)]
  BY <1>1, <1>2, <1>3, ConcatProperties
<1>5. WholeFile = front \o <<Trailer>>
  BY DEF WholeFile, front, body, n
<1>. HIDE DEF WholeFile
<1>6. Len(WholeFile) = n + 2 /\ WholeFile \in Seq(S)
  BY <1>4, <1>5
<1>7. WholeFile[1] = Header
  <2>1. 1 \in 1 .. n + 1 /\ 1 \in 1 .. n + 2 /\ 1 <= n + 1
    BY <1>1
  <2>2. front[1] = <<Header>>[1]
    BY <1>3, <2>1
  <2>3. WholeFile[1] = front[1]
    BY <1>4, <1>5, <2>1
  <2>. QED
    BY <1>2, <2>2, <2>3
<1>8. WholeFile[n + 2] = Trailer
  <2>1. n + 2 \in 1 .. n + 2 /\ ~(n + 2 <= n + 1) /\ (n + 2) - (n + 1) = 1
    BY <1>1
  <2>. QED
    BY <1>2, <1>4, <1>5, <2>1
<1>9. ASSUME NEW i \in 1 .. n PROVE WholeFile[i + 1] = body[i]
  <2>1. i + 1 \in 1 .. n + 2 /\ i + 1 <= n + 1 /\ i + 1 \in 1 .. n + 1 /\ ~(i + 1 <= 1)
        /\ (i + 1) - 1 = i
    BY <1>1
  <2>. QED
    BY <1>3, <1>4, <1>5, <2>1
<1>. QED
  BY <1>1, <1>6, <1>7, <1>8, <1>9 DEF n, S

-----------------------------------------------------------------------------
\* What a file is made of, whatever happened to it.
LEMMA ReadableLines ==
  ASSUME FileOK, kind # "SBC_SALES"
  PROVE  /\ Tdi /\ Len(sent) \in Nat /\ Len(lines) \in Nat
         /\ DOMAIN sent = 1 .. Len(sent) /\ DOMAIN lines = 1 .. Len(lines)
         /\ \A i \in 1 .. Len(lines) :
              \/ lines[i] = Header \/ lines[i] = Trailer
              \/ \E l \in GoodLines[kind] : \E at \in Worn(l) : lines[i] = Line("detail", at)
         /\ \A i \in 1 .. Len(sent) : sent[i] \in GoodLines[kind]
         /\ \A l \in GoodLines[kind] :
              /\ kind = "TDI17" => Written(l, TDI17Columns)
              /\ kind = "TDI34" => Written(l, TDI34Columns)
<1>1. Tdi
  BY RecordParsingAssumption DEF FileOK, Tdi
<1>2. sent \in Seq(GoodLines[kind]) /\ lines \in Seq(Readable)
  BY DEF FileOK
<1>3. /\ Len(sent) \in Nat /\ Len(lines) \in Nat
      /\ DOMAIN sent = 1 .. Len(sent) /\ DOMAIN lines = 1 .. Len(lines)
      /\ \A i \in 1 .. Len(sent) : sent[i] \in GoodLines[kind]
      /\ \A i \in 1 .. Len(lines) : lines[i] \in Readable
  BY <1>2, LenProperties, ElementOfSeq
<1>4. \A l \in GoodLines[kind] :
              /\ kind = "TDI17" => Written(l, TDI17Columns)
              /\ kind = "TDI34" => Written(l, TDI34Columns)
  BY RecordParsingAssumption DEF FileOK
<1>. QED
  BY <1>1, <1>3, <1>4 DEF Readable

\* A sum of cents, as the fold of the trailer and of the lines.
LEMMA SumFunctionIs ==
  ASSUME NEW f
  PROVE  SumFunction(f) = Sums(f, DOMAIN f)[DOMAIN f]
BY SumIs DEF SumFunction

\* The amount of a line is a number of cents.
LEMMA CentsOfLine ==
  ASSUME FileOK, kind # "SBC_SALES", NEW l \in GoodLines[kind]
  PROVE  Cents(l) \in Int /\ Due(l) \in Int
<1>1. CASE kind = "TDI17"
  <2>1. l["deposit_amt_cdn"] \in Amounts
    BY <1>1, ReadableLines, MoneyColumns
  <2>2. Cents(l) \in Int
    BY <1>1, <2>1 DEF Cents, Amounts
  <2>. QED
    BY <1>1, <2>2 DEF Due
<1>2. CASE kind = "TDI34"
  <2>1. l["transaction_amt"] \in Amounts
    BY <1>2, ReadableLines, MoneyColumns
  <2>2. Cents(l) \in Int
    BY <1>2, <2>1 DEF Cents, Amounts
  <2>3. Abs(Cents(l)) \in Int
    BY <2>2, Markers DEF Abs
  <2>. QED
    BY <1>2, <2>2, <2>3 DEF Due
<1>. QED
  BY <1>1, <1>2, ReadableLines DEF Tdi

\* The total of the trailer is a number.
LEMMA TotalIs ==
  ASSUME FileOK, kind # "SBC_SALES"
  PROVE  LET due == [i \in 1 .. Len(sent) |-> Due(sent[i])] IN
         /\ SumFunction(due) \in Int
         /\ Trailer.class = "trailer" /\ Header.class = "header"
         /\ Trailer.at.no_of_details = Len(sent) /\ Trailer.at.no_of_detail_rcd = Len(sent)
         /\ Convert("Decimal", Trailer.at.deposit_amt_cdn) = SumFunction(due)
         /\ Convert("Decimal", Trailer.at.transaction_amt) = SumFunction(due)
<1>. DEFINE due == [i \in 1 .. Len(sent) |-> Due(sent[i])]
            total == [digits |-> 14, cents |-> SumFunction(due)]
<1>1. \A i \in 1 .. Len(sent) : due[i] \in Int
  BY ReadableLines, CentsOfLine
<1>2. DOMAIN due = 1 .. Len(sent) /\ IsFiniteSet(1 .. Len(sent))
  BY ReadableLines, FS_Interval
<1>3. Trailer = Line("trailer", [rcd_type |-> 7, no_of_details |-> Len(sent),
                   no_of_detail_rcd |-> Len(sent), deposit_amt_cdn |-> total, transaction_amt |-> total])
  BY ReadableLines DEF Trailer, Due
<1>. HIDE DEF due
<1>4. SumFunction(due) \in Int
  BY <1>1, <1>2, SumFunctionIs, SumsAdd
<1>5. total \in Amounts
  BY <1>4 DEF Amounts
<1>6. Convert("Decimal", total) = total.cents
  BY <1>5, Markers DEF Convert, DecimalFormat
<1>. QED
  BY <1>3, <1>4, <1>6 DEF Line, Header, due

-----------------------------------------------------------------------------
TrailerColumns == IF kind = "TDI17" THEN TDI17TrailerColumns ELSE TDI34TrailerColumns
Body == SubSeq(lines, 2, Len(lines) - 1)
Details == [i \in 1 .. Len(Body) |-> Entity(Body[i])]

\* What a file is compared with before entities come out of it.
LEMMA Unrefused ==
  ASSUME Tdi, Parsed.entities # <<>>
  PROVE  /\ lines # <<>> /\ Body # <<>>
         /\ Parsed.entities = Details
         /\ TrailerAgrees(ConvertToJson(Last(lines), "trailer", TrailerColumns), Details)
         /\ \A i \in 1 .. Len(Details) : DTO(Details[i])
<1>. DEFINE columns == IF kind = "TDI17" THEN TDI17Columns ELSE TDI34Columns
            date == IF kind = "TDI17" THEN ParseTDIHeader(lines).to_date
                                      ELSE ParseTDIHeader(lines).settlement_date
            parsed == ParseTDI(lines, date)
<1>1. Parsed = ParseAndValidateTDIFile(lines) /\ kind # "SBC_SALES"
  BY DEF Parsed, Tdi
<1>2. Details = [i \in 1 .. Len(Body) |-> ConvertToJson(Body[i], "detail", columns)]
  BY DEF Details, Entity, CashEntity, PosEntity
<1>3. lines # <<>> /\ Parsed = ValidateTDI(parsed)
  BY <1>1 DEF ParseAndValidateTDIFile, Refused, Tdi
<1>. HIDE DEF date
<1>4. /\ Parsed = parsed
      /\ \A i \in 1 .. Len(parsed.entities) : DTO(parsed.entities[i])
  BY <1>3 DEF ValidateTDI, Refused, DTO
<1>5. /\ Body # <<>>
      /\ TrailerAgrees(ConvertToJson(Last(lines), "trailer", TrailerColumns), Details)
      /\ parsed = Entities(Details, date)
  BY <1>2, <1>4 DEF ParseTDI, Refused, Entities, Body, TrailerColumns
<1>. HIDE DEF parsed
<1>6. parsed.entities = Details
  BY <1>5 DEF Entities
<1>. QED
  BY <1>3, <1>4, <1>5, <1>6

\* The lines between the first and the last one, and their entities.
LEMMA BodyIs ==
  ASSUME FileOK, Tdi
  PROVE  LET m == IF Len(lines) < 2 THEN 0 ELSE Len(lines) - 2 IN
         /\ Len(Body) = m
         /\ \A i \in 1 .. m : Body[i] = lines[i + 1] /\ i + 1 \in 1 .. Len(lines)
         /\ DOMAIN Details = 1 .. m /\ Len(Details) = m
         /\ \A i \in 1 .. m : Details[i] = Entity(lines[i + 1])
<1>. DEFINE m == IF Len(lines) < 2 THEN 0 ELSE Len(lines) - 2
<1>0. kind # "SBC_SALES"
  BY DEF Tdi
<1>1. Len(lines) \in Nat /\ lines \in Seq(Readable)
  BY <1>0, ReadableLines DEF FileOK
<1>2. \A i \in 2 .. (Len(lines) - 1) : lines[i] \in Readable
  BY <1>1, ElementOfSeq
<1>3. /\ Len(Body) = IF 2 <= Len(lines) - 1 THEN (Len(lines) - 1) - 2 + 1 ELSE 0
      /\ \A i \in 1 .. (Len(lines) - 1) - 2 + 1 : Body[i] = lines[2 + i - 1]
  <2>. DEFINE hi == Len(lines) - 1
  <2>1. hi \in Int
    BY <1>1
  <2>. HIDE DEF hi
  <2>2. \A i \in 2 .. hi : lines[i] \in Readable
    BY <1>2 DEF hi
  <2>3. /\ Len(SubSeq(lines, 2, hi)) = IF 2 <= hi THEN hi - 2 + 1 ELSE 0
        /\ \A i \in 1 .. hi - 2 + 1 : SubSeq(lines, 2, hi)[i] = lines[2 + i - 1]
    BY <2>1, <2>2, SubSeqProperties
  <2>. QED
    BY <2>3 DEF Body, hi
<1>4. Len(Body) = m /\ m \in Nat
  BY <1>1, <1>3
<1>5. \A i \in 1 .. m : Body[i] = lines[i + 1] /\ i + 1 \in 1 .. Len(lines)
  <2>1. ASSUME NEW i \in 1 .. m PROVE Body[i] = lines[i + 1] /\ i + 1 \in 1 .. Len(lines)
    <3>1. i \in 1 .. (Len(lines) - 1) - 2 + 1 /\ 2 + i - 1 = i + 1 /\ i + 1 \in 1 .. Len(lines)
      BY <1>1
    <3>. QED
      BY <1>3, <3>1
  <2>. QED
    BY <2>1
<1>. HIDE DEF m
<1>6. DOMAIN Details = 1 .. m /\ Len(Details) = m /\ \A i \in 1 .. m : Details[i] = Entity(Body[i])
  BY <1>4 DEF Details
<1>. QED
  BY <1>4, <1>5, <1>6 DEF m

-----------------------------------------------------------------------------
\* The amount of an entity is a number only if its line is a detail.
LEMMA ValueOfLine ==
  ASSUME FileOK, Tdi, NEW i \in 1 .. Len(lines)
  PROVE  /\ Value(Entity(lines[i])) \in Int \cup {NaN}
         /\ lines[i].class \in {"header", "detail", "trailer"}
         /\ lines[i].class # "detail" => Value(Entity(lines[i])) = NaN
         /\ lines[i].class = "trailer" => lines[i] = Trailer
         /\ lines[i].class = "detail" =>
              \E l \in GoodLines[kind] : \E at \in Worn(l) : lines[i] = Line("detail", at)
<1>. DEFINE raw17 == Raw(lines[i], "deposit_amt_cdn")
            raw34 == Raw(lines[i], "transaction_amt")
<1>0. kind # "SBC_SALES"
  BY DEF Tdi
<1>1. \/ lines[i] \in {Header, Trailer}
      \/ \E l \in GoodLines[kind] : \E at \in Worn(l) : lines[i] = Line("detail", at)
  BY <1>0, ReadableLines
<1>2. /\ Header.class = "header" /\ Trailer.class = "trailer"
      /\ \A at : Line("detail", at).class = "detail" /\ Line("detail", at).at = at
  BY <1>0, TotalIs DEF Line
<1>3. ASSUME lines[i].class # "detail"
      PROVE  Value(Entity(lines[i])) = NaN
  <2>1. raw17 = Other /\ raw34 = Other
    BY <1>3 DEF Raw
  <2>2. Convert("Decimal", Other) = NaN
    BY Markers DEF Convert
  <2>3. CASE kind = "TDI17"
    BY <2>1, <2>2, <2>3, CashEntityHas DEF Value, Entity, Signed, Negated
  <2>4. CASE kind = "TDI34"
    BY <2>1, <2>2, <2>4, PosEntityHas DEF Value, Entity, Signed, Negated, Abs
  <2>. QED
    BY <2>3, <2>4 DEF Tdi
<1>4. ASSUME NEW l \in GoodLines[kind], NEW at \in Worn(l), lines[i] = Line("detail", at)
      PROVE  Value(Entity(lines[i])) \in Int \cup {NaN}
  <2>1. CASE kind = "TDI17"
    <3>1. raw17 \in Amounts \cup {Blank}
      BY <1>0, <1>2, <1>4, <2>1, ReadableLines, MoneyColumns DEF Raw, Worn
    <3>2. Convert("Decimal", raw17) \in Int \cup {NaN}
      BY <3>1, Markers DEF Convert, DecimalFormat, Amounts
    <3>. QED
      BY <2>1, <3>2, CashEntityHas DEF Value, Entity, Signed, Negated
  <2>2. CASE kind = "TDI34"
    <3>1. raw34 \in Amounts \cup {Blank}
      BY <1>0, <1>2, <1>4, <2>2, ReadableLines, MoneyColumns DEF Raw, Worn
    <3>2. Convert("Decimal", raw34) \in Int \cup {NaN}
      BY <3>1, Markers DEF Convert, DecimalFormat, Amounts
    <3>. QED
      BY <2>2, <3>2, PosEntityHas DEF Value, Entity, Signed, Negated, Abs
  <2>. QED
    BY <2>1, <2>2 DEF Tdi
<1>. QED
  BY <1>1, <1>2, <1>3, <1>4

\* A file of which entities are accepted has as many lines as the bank wrote,
\* each of them a detail, and their amounts add up to what they added up to.
LEMMA AcceptedFile ==
  ASSUME FileOK, Tdi, Parsed.entities # <<>>
  PROVE  LET n == Len(sent) IN
         /\ Len(lines) = n + 2 /\ n \in Nat
         /\ Len(Parsed.entities) = n
         /\ \A i \in 1 .. n :
              /\ i + 1 \in 1 .. Len(lines)
              /\ Parsed.entities[i] = Entity(lines[i + 1]) /\ DTO(Entity(lines[i + 1]))
              /\ \E l \in GoodLines[kind] : \E at \in Worn(l) : lines[i + 1] = Line("detail", at)
              /\ Value(Entity(lines[i + 1])) \in Int
         /\ SumFunction([i \in 1 .. n |-> Value(Entity(lines[i + 1]))])
              = SumFunction([i \in 1 .. n |-> Due(sent[i])])
<1>. DEFINE n == Len(sent)
            due == [i \in 1 .. n |-> Due(sent[i])]
            last == lines[Len(lines)]
            m == Len(lines) - 2
            amount == [i \in 1 .. m |-> Value(Entity(lines[i + 1]))]
<1>0. kind # "SBC_SALES"
  BY DEF Tdi
<1>1. Len(lines) >= 3 /\ m \in Nat /\ m >= 1 /\ Len(lines) \in 1 .. Len(lines)
  <2>1. Len(lines) \in Nat
    BY <1>0, ReadableLines
  <2>2. ASSUME Len(lines) < 3 PROVE FALSE
    <3>1. Len(lines) - 1 < 2
      BY <2>1, <2>2
    <3>2. Body = <<>>
      BY <2>1, <3>1, SubSeqEmpty DEF Body
    <3>. QED
      BY <3>2, Unrefused
  <2>. QED
    BY <2>1, <2>2
<1>2. /\ DOMAIN Details = 1 .. m /\ Len(Details) = m
      /\ \A i \in 1 .. m : Details[i] = Entity(lines[i + 1]) /\ i + 1 \in 1 .. Len(lines)
  <2>1. (IF Len(lines) < 2 THEN 0 ELSE Len(lines) - 2) = m
    BY <1>1
  <2>. HIDE DEF m
  <2>. QED
    BY <2>1, BodyIs
<1>3. TrailerAgrees(ConvertToJson(last, "trailer", TrailerColumns), Details)
  BY Unrefused DEF Last
<1>. HIDE DEF last
<1>4. last.class = "trailer"
  <2>1. ASSUME last.class # "trailer" PROVE FALSE
    <3>1. Convert("Integer", Other) = NaN
      BY DEF Convert
    <3>2. NaN = m
      BY <1>2, <1>3, <2>1, <3>1, TrailerHas DEF TrailerAgrees, TrailerColumns
    <3>. QED
      BY <1>1, <3>2, Markers
  <2>. QED
    BY <2>1
<1>5. last = Trailer
  BY <1>1, <1>4, ValueOfLine DEF last
<1>6. m = n /\ ItemTotals(Details) = SumFunction(due)
  <2>1. Convert("Integer", n) = n
    BY <1>0, ReadableLines, Markers DEF Convert
  <2>. QED
    BY <1>0, <1>2, <1>3, <1>4, <1>5, <2>1, TrailerHas, TotalIs DEF TrailerAgrees, TrailerColumns
<1>7. ItemTotals(Details) = IF \E i \in 1 .. m : amount[i] = NaN THEN NaN ELSE SumFunction(amount)
  <2>1. [i \in DOMAIN Details |->
            IF kind = "TDI17" THEN Details[i].deposit_amt_cdn ELSE Abs(Details[i].transaction_amt)] = amount
    BY <1>2 DEF Value
  <2>. HIDE DEF amount
  <2>. QED
    BY <1>2, <2>1 DEF ItemTotals
<1>8. SumFunction(due) \in Int
  BY <1>0, TotalIs
<1>. HIDE DEF due
<1>9. /\ \A i \in 1 .. m : Value(Entity(lines[i + 1])) # NaN
      /\ SumFunction(amount) = SumFunction(due)
  <2>1. ~\E i \in 1 .. m : amount[i] = NaN
    BY <1>6, <1>7, <1>8, Markers
  <2>. QED
    BY <1>6, <1>7, <2>1
<1>10. ASSUME NEW i \in 1 .. m
       PROVE  /\ i + 1 \in 1 .. Len(lines)
              /\ Details[i] = Entity(lines[i + 1]) /\ DTO(Entity(lines[i + 1]))
              /\ \E l \in GoodLines[kind] : \E at \in Worn(l) : lines[i + 1] = Line("detail", at)
              /\ Value(Entity(lines[i + 1])) \in Int
  <2>1. i + 1 \in 1 .. Len(lines) /\ Details[i] = Entity(lines[i + 1])
    BY <1>2
  <2>2. DTO(Details[i])
    BY <1>2, Unrefused
  <2>. QED
    BY <1>9, <2>1, <2>2, ValueOfLine
<1>11. Parsed.entities = Details
  BY Unrefused
<1>12. Len(lines) = n + 2 /\ n \in Nat
  BY <1>1, <1>6
<1>13. /\ Len(Parsed.entities) = n
       /\ \A i \in 1 .. n :
              /\ i + 1 \in 1 .. Len(lines)
              /\ Parsed.entities[i] = Entity(lines[i + 1]) /\ DTO(Entity(lines[i + 1]))
              /\ \E l \in GoodLines[kind] : \E at \in Worn(l) : lines[i + 1] = Line("detail", at)
              /\ Value(Entity(lines[i + 1])) \in Int
  <2>. HIDE DEF m, n
  <2>. QED
    BY <1>2, <1>6, <1>10, <1>11
<1>14. [i \in 1 .. n |-> Value(Entity(lines[i + 1]))] = amount
  BY <1>6
<1>15. SumFunction([i \in 1 .. n |-> Value(Entity(lines[i + 1]))])
         = SumFunction([i \in 1 .. n |-> Due(sent[i])])
  BY <1>9, <1>14 DEF due
<1>. QED
  BY <1>12, <1>13, <1>15

-----------------------------------------------------------------------------
\* What is done to the lines of a file leaves lines of it.
LEMMA Slices ==
  ASSUME NEW S, NEW s \in Seq(S), NEW i \in 1 .. Len(s)
  PROVE  /\ RemoveAt(s, i) \in Seq(S) /\ Len(RemoveAt(s, i)) = Len(s) - 1
         /\ InsertAt(s, i, s[i]) \in Seq(S) /\ Len(InsertAt(s, i, s[i])) = Len(s) + 1
         /\ \A n \in 0 .. (Len(s) - 1) : SubSeq(s, 1, n) \in Seq(S) /\ Len(SubSeq(s, 1, n)) = n
<1>. DEFINE n == Len(s)  before == SubSeq(s, 1, i - 1)
            after == SubSeq(s, i + 1, n)  rest == SubSeq(s, i, n)
<1>1. n \in Nat /\ i \in Int /\ i - 1 \in Int /\ i + 1 \in Int /\ 1 <= i /\ i <= n
      /\ \A k \in 1 .. n : s[k] \in S
  BY LenProperties, ElementOfSeq
<1>. HIDE DEF n
<1>2. \A a, b \in Int : 1 <= a /\ b <= n =>
        SubSeq(s, a, b) \in Seq(S) /\ Len(SubSeq(s, a, b)) = IF a <= b THEN b - a + 1 ELSE 0
  <2>1. ASSUME NEW a \in Int, NEW b \in Int, 1 <= a, b <= n
        PROVE  SubSeq(s, a, b) \in Seq(S) /\ Len(SubSeq(s, a, b)) = IF a <= b THEN b - a + 1 ELSE 0
    <3>1. \A k \in a .. b : s[k] \in S
      BY <1>1, <2>1
    <3>. QED
      BY <3>1, SubSeqProperties
  <2>. QED
    BY <2>1
<1>3. /\ before \in Seq(S) /\ Len(before) = i - 1
      /\ after \in Seq(S) /\ Len(after) = n - i
      /\ rest \in Seq(S) /\ Len(rest) = n - i + 1
      /\ <<s[i]>> \in Seq(S) /\ Len(<<s[i]>>) = 1
  <2>1. before \in Seq(S) /\ Len(before) = i - 1
    BY <1>1, <1>2
  <2>2. after \in Seq(S) /\ Len(after) = n - i
    BY <1>1, <1>2
  <2>3. rest \in Seq(S) /\ Len(rest) = n - i + 1
    BY <1>1, <1>2
  <2>. QED
    BY <1>1, <2>1, <2>2, <2>3
<1>. HIDE DEF before, after, rest
<1>4. before \o after \in Seq(S) /\ Len(before \o after) = (i - 1) + (n - i)
  <2>1. before \o after \in Seq(S) /\ Len(before \o after) = Len(before) + Len(after)
    BY <1>3, ConcatProperties
  <2>. QED
    BY <1>3, <2>1
<1>5. /\ before \o <<s[i]>> \in Seq(S) /\ Len(before \o <<s[i]>>) = (i - 1) + 1
  BY <1>3, ConcatProperties
<1>6. /\ (before \o <<s[i]>>) \o rest \in Seq(S)
      /\ Len((before \o <<s[i]>>) \o rest) = ((i - 1) + 1) + (n - i + 1)
  <2>. DEFINE upTo == before \o <<s[i]>>
  <2>1. upTo \in Seq(S) /\ Len(upTo) = (i - 1) + 1
    BY <1>5
  <2>. HIDE DEF upTo
  <2>2. upTo \o rest \in Seq(S) /\ Len(upTo \o rest) = Len(upTo) + Len(rest)
    BY <1>3, <2>1, ConcatProperties
  <2>. QED
    BY <1>3, <2>1, <2>2 DEF upTo
<1>7. RemoveAt(s, i) = before \o after /\ InsertAt(s, i, s[i]) = (before \o <<s[i]>>) \o rest
  BY DEF RemoveAt, InsertAt, before, after, rest, n
<1>8. \A k \in 0 .. (n - 1) : SubSeq(s, 1, k) \in Seq(S) /\ Len(SubSeq(s, 1, k)) = k
  BY <1>1, <1>2
<1>. QED
  BY <1>1, <1>4, <1>6, <1>7, <1>8 DEF n

\* The only damage to lines of which as many are left is one column of one line.
Blanked(i) ==
  \E f \in DOMAIN sent[i] \ {"transaction_code"} :
    lines[i + 1] = Line("detail", [sent[i] EXCEPT ![f] = Blank])
Whole(i) == lines[i + 1] = Line("detail", sent[i])

Damaged ==
  /\ faults \in 0 .. MaxFaults
  /\ kind # "SBC_SALES" /\ faults = 0 => lines = WholeFile
  /\ kind # "SBC_SALES" /\ faults = 1 /\ Len(lines) = Len(sent) + 2 =>
       \E j \in 1 .. Len(sent) : Blanked(j) /\ \A i \in 1 .. Len(sent) \ {j} : Whole(i)

\* The file is whole before anything happens to it.
LEMMA InitialFile ==
  ASSUME Init
  PROVE  FileOK /\ Damaged
<1>1. kind \in Kinds /\ faults = 0 /\ MaxFaults \in Nat
  BY RecordParsingAssumption DEF Init
<1>2. CASE kind = "SBC_SALES"
  BY <1>1, <1>2 DEF Init, FileOK, Damaged
<1>3. CASE kind # "SBC_SALES"
  <2>. DEFINE G == GoodLines[kind]
  <2>1. sent \in SeqOf(G, MaxLines) /\ lines = WholeFile
    BY <1>3 DEF Init
  <2>2. sent \in Seq(G)
    <3>1. PICK m \in 0 .. MaxLines : sent \in [1 .. m -> G]
      BY <2>1 DEF SeqOf
    <3>. QED
      BY <3>1, RecordParsingAssumption
  <2>3. lines \in Seq(Readable)
    <3>. DEFINE S == {Header, Trailer} \cup {Line("detail", sent[i]) : i \in 1 .. Len(sent)}
    <3>1. WholeFile \in Seq(S)
      BY <2>2, WholeFileIs
    <3>2. \A i \in 1 .. Len(sent) : sent[i] \in G
      BY <2>2, ElementOfSeq
    <3>3. S \subseteq Readable
      BY <3>2 DEF Readable, Worn
    <3>. HIDE DEF S
    <3>. QED
      BY <2>1, <3>1, <3>3
  <2>. QED
    BY <1>1, <1>3, <2>1, <2>2, <2>3 DEF FileOK, Damaged
<1>. QED
  BY <1>2, <1>3

\* Damage that leaves lines of the bank, or one column blank.
LEMMA DamagedFile ==
  ASSUME FileOK, Damaged, NEW file, Damage(file), file \in Seq(Readable),
         faults = 0 /\ Len(file) = Len(sent) + 2 =>
           \E j \in 1 .. Len(sent) :
             /\ \E f \in DOMAIN sent[j] \ {"transaction_code"} :
                  file[j + 1] = Line("detail", [sent[j] EXCEPT ![f] = Blank])
             /\ \A i \in 1 .. Len(sent) \ {j} : file[i + 1] = Line("detail", sent[i])
  PROVE  FileOK' /\ Damaged'
<1>1. lines' = file /\ faults' = faults + 1 /\ kind' = kind /\ sent' = sent /\ kind # "SBC_SALES"
      /\ faults < MaxFaults /\ faults \in 0 .. MaxFaults /\ MaxFaults \in Nat
  BY RecordParsingAssumption DEF Damage, Damaged
<1>2. FileOK'
  <2>1. Readable' = Readable
    BY <1>1 DEF Readable, Header, Trailer, Line, Worn, Cents, Abs
  <2>. QED
    BY <1>1, <2>1 DEF FileOK
<1>3. faults' \in 0 .. MaxFaults /\ faults' # 0 /\ (faults' = 1 => faults = 0)
  BY <1>1
<1>4. Damaged'
  BY <1>1, <1>3 DEF Damaged, Blanked, Whole, Line
<1>. QED
  BY <1>2, <1>4

\* No damage makes a line up.
LEMMA FileStep ==
  ASSUME FileOK, Damaged, [Next]_parsingVars
  PROVE  FileOK' /\ Damaged'
<1>1. CASE UNCHANGED parsingVars
  <2>1. kind' = kind /\ sent' = sent /\ lines' = lines /\ faults' = faults
    BY <1>1 DEF parsingVars
  <2>2. Trailer' = Trailer
    BY <2>1 DEF Trailer, Line, Cents, Abs
  <2>3. Readable' = Readable /\ WholeFile' = WholeFile
    BY <2>1, <2>2 DEF Readable, WholeFile, Header, Line, Worn
  <2>4. FileOK'
    BY <2>1, <2>3 DEF FileOK
  <2>5. Damaged'
    BY <2>1, <2>3 DEF Damaged, Blanked, Whole, Line
  <2>. QED
    BY <2>4, <2>5
<1>2. ASSUME Next, kind # "SBC_SALES" PROVE FileOK' /\ Damaged'
  <2>1. /\ lines \in Seq(Readable) /\ sent \in Seq(GoodLines[kind]) /\ Len(sent) \in Nat
        /\ faults = 0 => lines = WholeFile /\ Len(lines) = Len(sent) + 2
    BY <1>2, ReadableLines, WholeFileIs DEF FileOK, Damaged
  <2>2. CASE LoseLine
    <3>1. PICK i \in 1 .. Len(lines) : Damage(RemoveAt(lines, i))
      BY <2>2 DEF LoseLine
    <3>2. RemoveAt(lines, i) \in Seq(Readable) /\ Len(RemoveAt(lines, i)) = Len(lines) - 1
      BY <2>1, Slices
    <3>. QED
      BY <2>1, <3>1, <3>2, DamagedFile
  <2>3. CASE DoubleLine
    <3>1. PICK i \in 1 .. Len(lines) : Damage(InsertAt(lines, i, lines[i]))
      BY <2>3 DEF DoubleLine
    <3>2. /\ InsertAt(lines, i, lines[i]) \in Seq(Readable)
          /\ Len(InsertAt(lines, i, lines[i])) = Len(lines) + 1
      BY <2>1, Slices
    <3>. QED
      BY <2>1, <3>1, <3>2, DamagedFile
  <2>4. CASE CutOff
    <3>1. PICK n \in 0 .. (Len(lines) - 1) : Damage(SubSeq(lines, 1, n))
      BY <2>4 DEF CutOff
    <3>2. Len(lines) \in 1 .. Len(lines)
      BY <1>2, <3>1, ReadableLines
    <3>3. SubSeq(lines, 1, n) \in Seq(Readable) /\ Len(SubSeq(lines, 1, n)) = n
      BY <2>1, <3>2, Slices
    <3>. DEFINE file == SubSeq(lines, 1, n)
    <3>4. Damage(file) /\ file \in Seq(Readable) /\ Len(file) = n
      BY <3>1, <3>3
    <3>. HIDE DEF file
    <3>5. ~(faults = 0 /\ Len(file) = Len(sent) + 2)
      <4>1. Len(lines) \in Nat
        BY <1>2, ReadableLines
      <4>. QED
        BY <2>1, <3>4, <4>1
    <3>. QED
      BY <3>4, <3>5, DamagedFile
  <2>5. CASE BlankColumn
    <3>0. PICK i \in 1 .. Len(lines) :
            /\ lines[i].class = "detail"
            /\ \E f \in DOMAIN lines[i].at \ {"transaction_code"} : Damage([lines EXCEPT ![i].at[f] = Blank])
      BY <2>5 DEF BlankColumn
    <3>1. PICK f \in DOMAIN lines[i].at \ {"transaction_code"} : Damage([lines EXCEPT ![i].at[f] = Blank])
      BY <3>0
    <3>. DEFINE file == [lines EXCEPT ![i].at[f] = Blank]
    <3>2. PICK l \in GoodLines[kind] : \E at \in Worn(l) : lines[i] = Line("detail", at)
      BY <1>2, <3>0, ReadableLines, ValueOfLine
    <3>3. PICK at \in Worn(l) : lines[i] = Line("detail", at)
      BY <3>2
    <3>4. DOMAIN at = DOMAIN l /\ lines[i].at = at /\ f \in DOMAIN l
      BY <3>1, <3>3 DEF Worn, Line
    <3>5. [at EXCEPT ![f] = Blank] \in Worn(l)
      BY <3>3, <3>4 DEF Worn
    <3>6. /\ file = [lines EXCEPT ![i] = Line("detail", [at EXCEPT ![f] = Blank])]
          /\ Line("detail", [at EXCEPT ![f] = Blank]) \in Readable
      <4>1. [lines[i] EXCEPT !.at[f] = Blank] = Line("detail", [at EXCEPT ![f] = Blank])
        BY <3>3 DEF Line
      <4>2. Line("detail", [at EXCEPT ![f] = Blank]) \in Readable
        BY <3>5 DEF Readable
      <4>3. file = [lines EXCEPT ![i] = [lines[i] EXCEPT !.at[f] = Blank]]
        OBVIOUS
      <4>. QED
        BY <4>1, <4>2, <4>3
    <3>7. file \in Seq(Readable) /\ Len(file) = Len(lines)
          /\ \A k \in 1 .. Len(lines) \ {i} : file[k] = lines[k]
          /\ file[i] = Line("detail", [at EXCEPT ![f] = Blank])
      <4>. DEFINE e == Line("detail", [at EXCEPT ![f] = Blank])
      <4>. HIDE DEF e
      <4>1. /\ e \in Readable /\ file = [lines EXCEPT ![i] = e]
        BY <3>6 DEF e
      <4>. HIDE DEF file
      <4>. QED
        BY <2>1, <4>1, ExceptSeq DEF e
    <3>8. ASSUME faults = 0
          PROVE  \E j \in 1 .. Len(sent) :
             /\ \E g \in DOMAIN sent[j] \ {"transaction_code"} :
                  file[j + 1] = Line("detail", [sent[j] EXCEPT ![g] = Blank])
             /\ \A k \in 1 .. Len(sent) \ {j} : file[k + 1] = Line("detail", sent[k])
      <4>1. lines = WholeFile /\ Len(lines) = Len(sent) + 2
        BY <2>1, <3>8
      <4>2. /\ lines[1] = Header /\ lines[Len(sent) + 2] = Trailer
            /\ \A k \in 1 .. Len(sent) : lines[k + 1] = Line("detail", sent[k])
        BY <2>1, <4>1, WholeFileIs
      <4>3. Header.class # "detail" /\ Trailer.class # "detail"
        BY <1>2, TotalIs
      <4>. DEFINE j == i - 1
      <4>4. j \in 1 .. Len(sent) /\ i = j + 1
        BY <2>1, <3>0, <4>1, <4>2, <4>3
      <4>5. at = sent[j]
        <5>1. Line("detail", at) = Line("detail", sent[j])
          BY <3>3, <4>2, <4>4
        <5>. HIDE DEF j
        <5>. QED
          BY <5>1 DEF Line
      <4>6. file[j + 1] = Line("detail", [sent[j] EXCEPT ![f] = Blank]) /\ f \in DOMAIN sent[j] \ {"transaction_code"}
        <5>. HIDE DEF j, file
        <5>. QED
          BY <3>1, <3>4, <3>7, <4>4, <4>5, SMTT(30)
      <4>7. ASSUME NEW k \in 1 .. Len(sent) \ {j} PROVE file[k + 1] = Line("detail", sent[k])
        <5>1. k + 1 \in 1 .. Len(lines) \ {i}
          BY <2>1, <4>1, <4>4
        <5>. QED
          BY <3>7, <4>2, <5>1
      <4>. QED
        BY <4>4, <4>6, <4>7
    <3>. HIDE DEF file
    <3>9. Damage(file)
      BY <3>1 DEF file
    <3>. QED
      BY <3>7, <3>8, <3>9, DamagedFile
  <2>. QED
    BY <1>2, <2>2, <2>3, <2>4, <2>5 DEF Next
<1>3. ASSUME Next PROVE kind # "SBC_SALES"
  BY <1>3 DEF Next, LoseLine, DoubleLine, CutOff, BlankColumn, Damage
<1>. QED
  BY <1>1, <1>2, <1>3

-----------------------------------------------------------------------------
\* The provers do not see that -0 is 0.
LEMMA Minus == \A x \in Int : -x = 0 - x
OBVIOUS

\* What becomes of a line the bank wrote.
Kept(e, l) ==
  IF kind = "TDI17"
  THEN /\ e.deposit_amt_cdn = Cents(l) /\ e.deposit_date = l.deposit_date
       /\ e.pt_location_id = l.pt_location_id
  ELSE /\ e.transaction_amt = Cents(l) /\ e.transaction_date = l.transaction_date
       /\ e.merchant_id = l.merchant_id

\* A line that is accepted keeps its date and its place, and its amount if the
\* amount has its value and the code is there.
LEMMA CashLineKept ==
  ASSUME FileOK, kind = "TDI17", NEW l \in GoodLines[kind], NEW at \in Worn(l),
         DTO(Entity(Line("detail", at)))
  PROVE  LET e == Entity(Line("detail", at)) IN
         /\ at = l => Value(e) = Due(l)
         /\ Value(e) = Due(l) => Kept(e, l)
         /\ \A column \in CashDepositNotNull : e[column] \notin {Null, NaN, Other}
<1>. DEFINE line == Line("detail", at)
            e == Entity(line)
<1>1. line.class = "detail" /\ line.at = at
  BY DEF Line
<1>. HIDE DEF line
<1>2. \A f : Raw(line, f) = at[f]
  BY <1>1 DEF Raw
<1>3. /\ {"deposit_date", "pt_location_id", "seq_no", "location_desc", "deposit_amt_curr",
          "exchange_adj_amt", "negative_indicator_cdn", "deposit_amt_cdn",
          "destination_bank_no"} \subseteq DOMAIN l
      /\ \A f \in DOMAIN l : l[f] \notin {Null, NaN, Other}
      /\ {l["deposit_amt_curr"], l["exchange_adj_amt"], l["deposit_amt_cdn"]} \subseteq Amounts
  BY ReadableLines, MoneyColumns
<1>4. \A f \in DOMAIN l : at[f] \in {l[f], Blank}
  BY DEF Worn
<1>5. /\ e.deposit_date = Convert("Date", at["deposit_date"])
      /\ e.pt_location_id = Convert("Integer", at["pt_location_id"])
      /\ \A f \in {"seq_no", "location_desc", "destination_bank_no"} : e[f] = Convert("String", at[f])
      /\ \E negative \in BOOLEAN :
           e.deposit_amt_curr = Signed(Convert("Decimal", at["deposit_amt_curr"]), negative)
      /\ \E negative \in BOOLEAN :
           e.exchange_adj_amt = Signed(Convert("Decimal", at["exchange_adj_amt"]), negative)
      /\ e.deposit_amt_cdn =
           Signed(Convert("Decimal", at["deposit_amt_cdn"]),
                  Convert("Boolean", at["negative_indicator_cdn"]) # Blank)
  BY <1>2, CashEntityHas DEF Entity
<1>. HIDE DEF e
<1>6. CashDepositDTO(e)
  BY DEF DTO, e, line
<1>7. e.deposit_date = l["deposit_date"] /\ e.deposit_date \notin {Null, NaN, Other}
  <2>1. e.deposit_date = at["deposit_date"]
    BY <1>3, <1>4, <1>5, <1>6 DEF CashDepositDTO, Convert
  <2>2. at["deposit_date"] = l["deposit_date"]
    BY <1>3, <1>4, <1>5, <1>6 DEF CashDepositDTO, Convert
  <2>. QED
    BY <1>3, <2>1, <2>2
<1>8. e.pt_location_id = l["pt_location_id"] /\ e.pt_location_id \notin {Null, NaN, Other}
  <2>1. at["pt_location_id"] \notin {Blank, Other} /\ e.pt_location_id = at["pt_location_id"]
    BY <1>5, <1>6 DEF CashDepositDTO, Convert
  <2>. QED
    BY <1>3, <1>4, <2>1
<1>9. \A f \in {"seq_no", "location_desc", "destination_bank_no"} : e[f] \notin {Null, NaN, Other}
  <2>1. \A f \in {"seq_no", "location_desc", "destination_bank_no"} : e[f] = at[f]
    BY <1>5 DEF Convert
  <2>. QED
    BY <1>3, <1>4, <2>1, Markers
<1>10. \A f \in {"deposit_amt_curr", "exchange_adj_amt", "deposit_amt_cdn"} :
         /\ Convert("Decimal", at[f]) \in Int \cup {NaN}
         /\ at[f] = l[f] => Convert("Decimal", at[f]) \in {NaN, l[f].cents}
         /\ at[f] = Blank => Convert("Decimal", at[f]) = 0
  <2>1. \A f \in {"deposit_amt_curr", "exchange_adj_amt", "deposit_amt_cdn"} :
          at[f] \in Amounts \cup {Blank} /\ l[f] \in Amounts
    BY <1>3, <1>4
  <2>. QED
    BY <2>1, Markers DEF Convert, DecimalFormat, Amounts
<1>11. \A f \in {"deposit_amt_curr", "exchange_adj_amt", "deposit_amt_cdn"} : e[f] \notin {Null, NaN, Other}
  <2>1. \A v \in Int \cup {NaN} : \A negative \in BOOLEAN :
          Signed(v, negative) \in Int \cup {NaN}
    BY Markers DEF Signed, Negated
  <2>2. e.deposit_amt_curr \in Int \cup {NaN}
    BY <1>5, <1>10, <2>1
  <2>3. e.exchange_adj_amt \in Int \cup {NaN}
    BY <1>5, <1>10, <2>1
  <2>4. e.deposit_amt_cdn \in Int \cup {NaN}
    BY <1>5, <1>10, <2>1
  <2>. QED
    BY <1>6, <2>2, <2>3, <2>4, Markers DEF CashDepositDTO
<1>12. at = l => e.deposit_amt_cdn = Cents(l)
  <2>1. ASSUME at = l PROVE e.deposit_amt_cdn = Cents(l)
    <3>1. Convert("Decimal", at["deposit_amt_cdn"]) \in {NaN, l["deposit_amt_cdn"].cents}
      BY <1>10, <2>1
    <3>2. Convert("Decimal", at["deposit_amt_cdn"]) # NaN
      BY <1>5, <1>6 DEF CashDepositDTO, Signed, Negated
    <3>3. Convert("Boolean", at["negative_indicator_cdn"]) = l["negative_indicator_cdn"]
      BY <2>1 DEF Convert
    <3>4. l["deposit_amt_cdn"].cents \in Int /\ l["deposit_amt_cdn"].cents # NaN
      BY <1>3, Markers DEF Amounts
    <3>. QED
      BY <1>5, <3>1, <3>2, <3>3, <3>4 DEF Signed, Negated, Cents
  <2>. QED
    BY <2>1
<1>13. Value(e) = e.deposit_amt_cdn /\ Due(l) = Cents(l)
  BY DEF Value, Due
<1>14. /\ at = l => Value(e) = Due(l)
       /\ Value(e) = Due(l) => Kept(e, l)
       /\ \A column \in CashDepositNotNull : e[column] \notin {Null, NaN, Other}
  BY <1>7, <1>8, <1>9, <1>11, <1>12, <1>13 DEF Kept, CashDepositNotNull
<1>. QED
  BY <1>14 DEF e, line

\* The same for a line of a TDI34 file, whose code tells the sign.
LEMMA PosLineKept ==
  ASSUME FileOK, kind = "TDI34", NEW l \in GoodLines[kind], NEW at \in Worn(l),
         DTO(Entity(Line("detail", at)))
  PROVE  LET e == Entity(Line("detail", at)) IN
         /\ at = l => Value(e) = Due(l)
         /\ Value(e) = Due(l) /\ at["transaction_code"] = l["transaction_code"] => Kept(e, l)
         /\ \A column \in PosDepositNotNull : e[column] \notin {Null, NaN, Other}
<1>. DEFINE line == Line("detail", at)
            e == Entity(line)
<1>1. line.class = "detail" /\ line.at = at
  BY DEF Line
<1>. HIDE DEF line
<1>2. \A f : Raw(line, f) = at[f]
  BY <1>1 DEF Raw
<1>3. /\ {"merchant_id", "terminal_no", "payment_method", "card_id", "transaction_date",
          "transaction_time", "transaction_code", "transaction_amt"} \subseteq DOMAIN l
      /\ \A f \in DOMAIN l : l[f] \notin {Null, NaN, Other}
      /\ l["transaction_amt"] \in Amounts
  BY ReadableLines, MoneyColumns
<1>4. \A f \in DOMAIN l : at[f] \in {l[f], Blank}
  BY DEF Worn
<1>5. /\ e.transaction_date = Convert("Date", at["transaction_date"])
      /\ e.merchant_id = Convert("Integer", at["merchant_id"])
      /\ \A f \in {"card_id", "terminal_no", "payment_method"} : e[f] = Convert("String", at[f])
      /\ e.transaction_amt =
           Signed(Convert("Decimal", at["transaction_amt"]),
                  Convert("Integer", at["transaction_code"]) \in {MerchReturn, PurchaseAdjustment})
  BY <1>2, PosEntityHas DEF Entity
<1>. HIDE DEF e
<1>6. PosDepositDTO(e)
  BY DEF DTO, e, line
<1>7. e.transaction_date = l["transaction_date"] /\ e.transaction_date \notin {Null, NaN, Other}
  <2>1. e.transaction_date = at["transaction_date"]
    BY <1>3, <1>4, <1>5, <1>6 DEF PosDepositDTO, Convert
  <2>2. at["transaction_date"] = l["transaction_date"]
    BY <1>3, <1>4, <1>5, <1>6 DEF PosDepositDTO, Convert
  <2>. QED
    BY <1>3, <2>1, <2>2
<1>8. e.merchant_id = l["merchant_id"] /\ e.merchant_id \notin {Null, NaN, Other}
  <2>1. at["merchant_id"] \notin {Blank, Other} /\ e.merchant_id = at["merchant_id"]
    BY <1>5, <1>6 DEF PosDepositDTO, Convert
  <2>. QED
    BY <1>3, <1>4, <2>1
<1>9. \A f \in {"card_id", "terminal_no"} : e[f] \notin {Null, NaN, Other}
  <2>1. \A f \in {"card_id", "terminal_no"} : e[f] = at[f]
    BY <1>5 DEF Convert
  <2>. QED
    BY <1>3, <1>4, <2>1, Markers
<1>. DEFINE v == Convert("Decimal", at["transaction_amt"])
            cents == l["transaction_amt"].cents
            return == Convert("Integer", at["transaction_code"]) \in {MerchReturn, PurchaseAdjustment}
<1>10. /\ at["transaction_amt"] = l["transaction_amt"] => v \in {NaN, cents}
       /\ at["transaction_amt"] = Blank => v = 0
       /\ cents \in Int
  BY <1>3, Markers DEF Convert, DecimalFormat, Amounts
<1>. HIDE DEF v
<1>11. v # NaN
  BY <1>5, <1>6 DEF PosDepositDTO, Signed, Negated, v
<1>12. v \in Int /\ v # NaN /\ -v # NaN /\ (v = cents \/ v = 0)
  BY <1>3, <1>4, <1>10, <1>11, Markers
<1>13. e.transaction_amt = (IF return THEN -v ELSE v)
  BY <1>5, <1>12 DEF Signed, Negated, v
<1>14. Cents(l) = (IF l["transaction_code"] \in {MerchReturn, PurchaseAdjustment} THEN -1 ELSE 1) * cents
  BY DEF Cents
<1>15. at["transaction_code"] = l["transaction_code"] =>
         (return <=> l["transaction_code"] \in {MerchReturn, PurchaseAdjustment})
  BY Markers DEF Convert, MerchReturn, PurchaseAdjustment
<1>16. Value(e) = Abs(e.transaction_amt) /\ Due(l) = Abs(Cents(l))
  BY DEF Value, Due
<1>. HIDE DEF return, cents
<1>17. e.transaction_amt \in Int /\ Cents(l) \in Int /\ e.transaction_amt \notin {Null, NaN, Other}
  BY <1>10, <1>12, <1>13, <1>14, Markers
<1>18. at = l => e.transaction_amt = Cents(l)
  BY <1>10, <1>11, <1>13, <1>14, <1>15
<1>19. ASSUME Value(e) = Due(l), at["transaction_code"] = l["transaction_code"]
       PROVE  e.transaction_amt = Cents(l)
  <2>1. CASE v = cents
    <3>. DEFINE takenBack == l["transaction_code"] \in {MerchReturn, PurchaseAdjustment}
    <3>1. return <=> takenBack
      BY <1>15, <1>19
    <3>. HIDE DEF takenBack
    <3>2. Cents(l) = IF takenBack THEN -cents ELSE cents
      BY <1>10, <1>14 DEF takenBack
    <3>. QED
      BY <1>13, <2>1, <3>1, <3>2 DEF return, takenBack
  <2>2. CASE v = 0
    <3>0. -v = 0 - v
      BY <1>12, Minus
    <3>1. e.transaction_amt = 0
      BY <1>13, <2>2, <3>0
    <3>2. Abs(Cents(l)) = 0
      BY <1>16, <1>19, <3>1, Markers DEF Abs
    <3>3. Cents(l) = 0
      BY <1>17, <3>2, Markers DEF Abs
    <3>. QED
      BY <3>1, <3>3
  <2>. QED
    BY <1>12, <2>1, <2>2
<1>20. /\ at = l => Value(e) = Due(l)
       /\ Value(e) = Due(l) /\ at["transaction_code"] = l["transaction_code"] => Kept(e, l)
       /\ \A column \in PosDepositNotNull : e[column] \notin {Null, NaN, Other}
  BY <1>7, <1>8, <1>9, <1>16, <1>17, <1>18, <1>19 DEF Kept, PosDepositNotNull
<1>. QED
  BY <1>20 DEF e, line

-----------------------------------------------------------------------------
\* The sale of a GARMS file and its transaction.
LEMMA GarmsFile ==
  ASSUME FileOK, kind = "SBC_SALES"
  PROVE  \E s \in Sales :
           LET t == ParseGarmsData([s EXCEPT !.payments = Paid(@)]) IN
           /\ RungUp(s) /\ sent = <<s>>
           /\ ~Parsed.refused => Parsed.entities = <<t>> /\ GarmsTransactionDTO(t)
           /\ Parsed.refused => Parsed.entities = <<>>
<1>1. PICK s \in Sales : lines = <<s>> /\ sent = <<s>>
  BY DEF FileOK
<1>. DEFINE t == ParseGarmsData([s EXCEPT !.payments = Paid(@)])
            all == Entities(ParseGarms(lines), "name")
<1>2. RungUp(s)
  BY RecordParsingAssumption
<1>3. ParseGarms(lines) = <<t>>
  <2>1. Len(lines) = 1 /\ lines[1] = s
    BY <1>1
  <2>2. ParseGarms(lines) = [i \in 1 .. 1 |-> ParseGarmsData([lines[i] EXCEPT !.payments = Paid(@)])]
    BY <2>1 DEF ParseGarms
  <2>3. \A i \in 1 .. 1 : ParseGarmsData([lines[i] EXCEPT !.payments = Paid(@)]) = t
    BY <2>1
  <2>. HIDE DEF t
  <2>4. ParseGarms(lines) = [i \in 1 .. 1 |-> t]
    BY <2>2, <2>3
  <2>. QED
    BY <2>4
<1>. HIDE DEF t
<1>4. all.entities = <<t>> /\ ~all.refused /\ Len(all.entities) = 1 /\ all.entities[1] = t
  BY <1>3 DEF Entities
<1>. HIDE DEF all
<1>5. Parsed = ValidateTxnData(all)
  BY DEF Parsed, ParseAndValidateSBCGarms, all
<1>6. CASE GarmsTransactionDTO(t)
  <2>1. \A i \in 1 .. Len(all.entities) : GarmsTransactionDTO(all.entities[i])
    BY <1>4, <1>6
  <2>2. Parsed = all
    BY <1>5, <2>1 DEF ValidateTxnData
  <2>. QED
    BY <1>1, <1>2, <1>4, <1>6, <2>2 DEF t
<1>7. CASE ~GarmsTransactionDTO(t)
  <2>1. Parsed = Refused
    BY <1>4, <1>5, <1>7 DEF ValidateTxnData
  <2>2. Parsed.refused /\ Parsed.entities = <<>>
    BY <2>1 DEF Refused
  <2>. QED
    BY <1>1, <1>2, <2>2 DEF t
<1>. QED
  BY <1>6, <1>7

\* The columns of the entities of an accepted file are filled.
LEMMA StorableFile ==
  ASSUME FileOK
  PROVE  AcceptedIsStorable
<1>1. CASE kind = "SBC_SALES"
  <2>1. PICK s \in Sales :
           LET t == ParseGarmsData([s EXCEPT !.payments = Paid(@)]) IN
           /\ RungUp(s) /\ sent = <<s>>
           /\ ~Parsed.refused => Parsed.entities = <<t>> /\ GarmsTransactionDTO(t)
           /\ Parsed.refused => Parsed.entities = <<>>
    BY <1>1, GarmsFile
  <2>. DEFINE paid == [s EXCEPT !.payments = Paid(@)]
              t == ParseGarmsData(paid)
  <2>2. /\ paid.sales_transaction_date = s.sales_transaction_date
        /\ paid.fiscal_close_date = s.fiscal_close_date
        /\ paid.location_id = s.location_id /\ paid.payment_total = s.payment_total
    BY <2>1 DEF RungUp
  <2>. HIDE DEF paid
  <2>3. /\ t.transaction_date = s.sales_transaction_date /\ t.fiscal_close_date = s.fiscal_close_date
        /\ t.location_id = s.location_id /\ t.total_transaction_amount = s.payment_total
    BY <2>2 DEF ParseGarmsData
  <2>4. GarmsTransactionDTO(t) => \A column \in TransactionNotNull : t[column] \notin {Null, NaN, Other}
    BY <2>1, <2>3, Markers DEF RungUp, GarmsTransactionDTO, TransactionNotNull
  <2>5. \A i \in 1 .. Len(Parsed.entities) : ~Parsed.refused /\ Parsed.entities[i] = t /\ GarmsTransactionDTO(t)
    <3>. HIDE DEF t
    <3>. QED
      BY <2>1 DEF t, paid
  <2>. QED
    BY <1>1, <2>4, <2>5 DEF AcceptedIsStorable
<1>2. CASE kind # "SBC_SALES"
  <2>1. Tdi
    BY <1>2, ReadableLines
  <2>2. CASE Parsed.entities = <<>>
    BY <2>2 DEF AcceptedIsStorable
  <2>3. ASSUME Parsed.entities # <<>>, NEW i \in 1 .. Len(Parsed.entities)
        PROVE  /\ kind = "TDI17" => \A column \in CashDepositNotNull :
                                      Parsed.entities[i][column] \notin {Null, NaN, Other}
               /\ kind = "TDI34" => \A column \in PosDepositNotNull :
                                      Parsed.entities[i][column] \notin {Null, NaN, Other}
    <3>1. Len(Parsed.entities) = Len(sent)
      BY <2>1, <2>3, AcceptedFile
    <3>2. /\ Parsed.entities[i] = Entity(lines[i + 1]) /\ DTO(Entity(lines[i + 1]))
          /\ \E l \in GoodLines[kind] : \E at \in Worn(l) : lines[i + 1] = Line("detail", at)
      BY <2>1, <2>3, <3>1, AcceptedFile
    <3>3. PICK l \in GoodLines[kind] : \E at \in Worn(l) : lines[i + 1] = Line("detail", at)
      BY <3>2
    <3>4. PICK at \in Worn(l) : lines[i + 1] = Line("detail", at)
      BY <3>3
    <3>5. Parsed.entities[i] = Entity(Line("detail", at)) /\ DTO(Entity(Line("detail", at)))
      BY <3>2, <3>4
    <3>. QED
      BY <3>5, CashLineKept, PosLineKept
  <2>. QED
    BY <2>1, <2>2, <2>3 DEF AcceptedIsStorable, Tdi
<1>. QED
  BY <1>1, <1>2

\* The same for the folds of two functions.
LEMMA SumOfOneChange ==
  ASSUME NEW S, IsFiniteSet(S), NEW f, NEW g, DOMAIN f = S, DOMAIN g = S,
         \A i \in S : f[i] \in Int /\ g[i] \in Int,
         NEW j \in S, \A i \in S \ {j} : f[i] = g[i],
         SumFunction(f) = SumFunction(g)
  PROVE  f[j] = g[j]
<1>1. Sums(f, S)[S] = Sums(g, S)[S]
  BY SumFunctionIs
<1>. QED
  BY <1>1, SumOfChange

\* Two sequences of n numbers that differ at j only and have the same sum.
DifferAt(j, n, f, g) ==
  /\ n \in Nat /\ DOMAIN f = 1 .. n /\ DOMAIN g = 1 .. n
  /\ \A i \in 1 .. n : f[i] \in Int /\ g[i] \in Int
  /\ j \in 1 .. n /\ \A i \in 1 .. n \ {j} : f[i] = g[i]
  /\ SumFunction(f) = SumFunction(g)

\* They do not differ at j either.
LEMMA DifferNowhere ==
  ASSUME NEW j, NEW n, NEW f, NEW g, DifferAt(j, n, f, g)
  PROVE  f[j] = g[j]
<1>1. PICK D : D = 1 .. n
  OBVIOUS
<1>2. /\ IsFiniteSet(D) /\ DOMAIN f = D /\ DOMAIN g = D
      /\ \A i \in D : f[i] \in Int /\ g[i] \in Int
      /\ j \in D /\ \A i \in D \ {j} : f[i] = g[i]
      /\ SumFunction(f) = SumFunction(g)
  BY <1>1, FS_Interval DEF DifferAt
<1>. QED
  BY <1>2, SumOfOneChange

\* The amounts of an accepted file that lost at most one column.
LEMMA AcceptedLines ==
  ASSUME FileOK, Damaged, Tdi, Parsed.entities # <<>>, MaxFaults \in 0 .. 1
  PROVE  /\ Len(Parsed.entities) = Len(sent)
         /\ \A i \in 1 .. Len(sent) : Kept(Parsed.entities[i], sent[i])
<1>. DEFINE n == Len(sent)
            e(i) == Entity(lines[i + 1])
            amount == [i \in 1 .. n |-> Value(e(i))]
            due == [i \in 1 .. n |-> Due(sent[i])]
<1>0. kind # "SBC_SALES" /\ sent \in Seq(GoodLines[kind])
  BY DEF Tdi, FileOK
<1>1. /\ Len(lines) = n + 2 /\ n \in Nat /\ Len(Parsed.entities) = n
      /\ SumFunction(amount) = SumFunction(due)
  BY AcceptedFile
<1>2. \A i \in 1 .. n : Parsed.entities[i] = e(i) /\ DTO(e(i)) /\ Value(e(i)) \in Int
  BY AcceptedFile
<1>3. \A i \in 1 .. n : sent[i] \in GoodLines[kind] /\ Due(sent[i]) \in Int
  BY <1>0, ReadableLines, CentsOfLine
<1>4. \A i \in 1 .. n : Whole(i) => Value(e(i)) = Due(sent[i]) /\ Kept(e(i), sent[i])
  <2>1. ASSUME NEW i \in 1 .. n, Whole(i)
        PROVE  Value(e(i)) = Due(sent[i]) /\ Kept(e(i), sent[i])
    <3>1. sent[i] \in Worn(sent[i])
      BY DEF Worn
    <3>2. e(i) = Entity(Line("detail", sent[i])) /\ DTO(Entity(Line("detail", sent[i])))
      BY <1>2, <2>1 DEF Whole
    <3>. QED
      BY <1>3, <3>1, <3>2, CashLineKept, PosLineKept DEF Tdi
  <2>. QED
    BY <2>1
<1>5. CASE faults = 0
  <2>1. lines = WholeFile
    BY <1>0, <1>5 DEF Damaged
  <2>2. \A i \in 1 .. n : Whole(i)
    BY <1>0, <2>1, WholeFileIs DEF Whole
  <2>. QED
    BY <1>1, <1>2, <1>4, <2>2
<1>6. CASE faults = 1
  <2>1. PICK j \in 1 .. n : Blanked(j) /\ \A i \in 1 .. n \ {j} : Whole(i)
    BY <1>0, <1>1, <1>6 DEF Damaged
  <2>2. Value(e(j)) = Due(sent[j])
    <3>1. /\ \A i \in 1 .. n : amount[i] \in Int /\ due[i] \in Int
          /\ \A i \in 1 .. n \ {j} : amount[i] = due[i]
          /\ amount[j] = Value(e(j)) /\ due[j] = Due(sent[j])
      BY <1>2, <1>3, <1>4, <2>1
    <3>2. DOMAIN amount = 1 .. n /\ DOMAIN due = 1 .. n
      OBVIOUS
    <3>. HIDE DEF amount, due, n
    <3>3. DifferAt(j, n, amount, due)
      BY <1>1, <3>1, <3>2 DEF DifferAt
    <3>4. amount[j] = due[j]
      BY <3>3, DifferNowhere
    <3>. QED
      BY <3>1, <3>4
  <2>3. PICK f \in DOMAIN sent[j] \ {"transaction_code"} :
          lines[j + 1] = Line("detail", [sent[j] EXCEPT ![f] = Blank])
    BY <2>1 DEF Blanked
  <2>. DEFINE at == [sent[j] EXCEPT ![f] = Blank]
  <2>4. at \in Worn(sent[j])
    BY DEF Worn
  <2>5. kind = "TDI34" => at["transaction_code"] = sent[j]["transaction_code"]
    <3>1. kind = "TDI34" => "transaction_code" \in DOMAIN sent[j]
      BY <1>0, <1>3, ReadableLines, MoneyColumns
    <3>. QED
      BY <2>3, <3>1
  <2>. HIDE DEF at
  <2>6. e(j) = Entity(Line("detail", at)) /\ DTO(Entity(Line("detail", at)))
    BY <1>2, <2>3 DEF at
  <2>7. Kept(e(j), sent[j])
    BY <1>3, <2>2, <2>4, <2>5, <2>6, CashLineKept, PosLineKept DEF Tdi
  <2>. QED
    BY <1>1, <1>2, <1>4, <2>1, <2>7
<1>. QED
  BY <1>5, <1>6 DEF Damaged

-----------------------------------------------------------------------------
\* The fold of Paid over the indices of the payments, from the last one.
Filtering(payments, it) ==
  [s \in SUBSET DOMAIN payments |->
     IF s = {} THEN <<>>
     ELSE IF payments[Max(s)].amount = 0 THEN it[s \ {Max(s)}]
     ELSE Append(it[s \ {Max(s)}], payments[Max(s)])]
PaidOf(payments) == CHOOSE it : it = Filtering(payments, it)

\* Paid is that fold over all of them.
LEMMA PaidIs ==
  ASSUME NEW payments
  PROVE  Paid(payments) = PaidOf(payments)[DOMAIN payments]
BY DEF Paid, FoldLeft, MapThenFoldSet, PaidOf, Filtering

\* A set of numbers with a bound has a greatest one.
LEMMA GreatestOf ==
  ASSUME NEW n \in Nat, NEW s \in SUBSET (1 .. n), s # {}
  PROVE  Max(s) \in s /\ \A x \in s : x <= Max(s)
<1>1. \E x \in s : \A y \in s : x >= y
  <2>. SUFFICES ASSUME \A x \in s : \E y \in s : ~(x >= y) PROVE FALSE
    OBVIOUS
  <2>. DEFINE N == {b \in Nat : n - b \notin s}
  <2>1. ASSUME NEW b \in Nat, \A m \in Nat : m < b => m \in N, b \notin N PROVE FALSE
    <3>1. PICK y \in s : ~(n - b >= y)
      BY <2>1
    <3>2. n - y \in Nat /\ n - y < b /\ n - (n - y) = y
      BY <3>1
    <3>. QED
      BY <2>1, <3>2
  <2>. HIDE DEF N
  <2>2. Nat \subseteq N
    BY <2>1, Induction
  <2>3. PICK x \in s : TRUE
    OBVIOUS
  <2>4. n - x \in Nat /\ n - (n - x) = x
    OBVIOUS
  <2>. QED
    BY <2>2, <2>3, <2>4 DEF N
<1>. QED
  BY <1>1 DEF Max

\* One payment after the other, those of 0 left out.
LEMMA PaidSteps ==
  ASSUME NEW payments, NEW n \in Nat, DOMAIN payments = 1 .. n
  PROVE  LET upTo(k) == PaidOf(payments)[1 .. k]
             V == {payments[i] : i \in 1 .. n} IN
         /\ upTo(0) = <<>>
         /\ \A k \in 1 .. n : upTo(k) = IF payments[k].amount = 0 THEN upTo(k - 1)
                                        ELSE Append(upTo(k - 1), payments[k])
         /\ \A k \in 0 .. n : upTo(k) \in Seq(V)
<1>. DEFINE D == 1 .. n
            V == {payments[i] : i \in 1 .. n}
            W == Seq(V)
            greatest == [s \in SUBSET D |-> Max(s)]
            add == [z \in D \X W |-> IF payments[z[1]].amount = 0 THEN z[2] ELSE Append(z[2], payments[z[1]])]
            upTo(k) == PaidOf(payments)[1 .. k]
<1>1. \A s \in SUBSET D : s # {} => greatest[s] \in s
  BY GreatestOf
<1>2. add \in [D \X W -> W] /\ <<>> \in W
  OBVIOUS
<1>3. IsFiniteSet(D)
  BY FS_Interval
<1>4. PICK it : IsFold(D, W, <<>>, greatest, add, it)
  <2>. HIDE DEF D, W, greatest, add
  <2>. QED
    BY <1>1, <1>2, <1>3, FoldExists
<1>5. it \in [SUBSET D -> W] /\ \A s \in SUBSET D : it[s] =
        IF s = {} THEN <<>> ELSE add[<<greatest[s], it[s \ {greatest[s]}]>>]
  BY <1>4 DEF IsFold
<1>6. it = Filtering(payments, it)
  <2>1. ASSUME NEW s \in SUBSET D PROVE it[s] = Filtering(payments, it)[s]
    <3>1. CASE s = {}
      BY <1>5, <3>1 DEF Filtering
    <3>2. CASE s # {}
      <4>1. greatest[s] = Max(s) /\ Max(s) \in D /\ it[s \ {Max(s)}] \in W
        BY <1>1, <1>5, <3>2
      <4>2. it[s] = add[<<Max(s), it[s \ {Max(s)}]>>]
        BY <1>5, <3>2, <4>1
      <4>3. it[s] = IF payments[Max(s)].amount = 0 THEN it[s \ {Max(s)}]
                    ELSE Append(it[s \ {Max(s)}], payments[Max(s)])
        BY <4>1, <4>2
      <4>. QED
        BY <3>2, <4>3 DEF Filtering
    <3>. QED
      BY <3>1, <3>2
  <2>. QED
    BY <1>5, <2>1 DEF Filtering
<1>7. PaidOf(payments) = Filtering(payments, PaidOf(payments))
  BY <1>6, Zenon DEF PaidOf
<1>8. \A s \in SUBSET D : PaidOf(payments)[s] =
        IF s = {} THEN <<>>
        ELSE IF payments[Max(s)].amount = 0 THEN PaidOf(payments)[s \ {Max(s)}]
        ELSE Append(PaidOf(payments)[s \ {Max(s)}], payments[Max(s)])
  <2>. DEFINE paid == PaidOf(payments)
  <2>1. paid = Filtering(payments, paid)
    BY <1>7
  <2>. HIDE DEF paid
  <2>2. \A s \in SUBSET D : paid[s] =
          IF s = {} THEN <<>> ELSE IF payments[Max(s)].amount = 0 THEN paid[s \ {Max(s)}]
          ELSE Append(paid[s \ {Max(s)}], payments[Max(s)])
    BY <2>1 DEF Filtering
  <2>. QED
    BY <2>2 DEF paid
<1>9. upTo(0) = <<>>
  <2>1. 1 .. 0 = {} /\ {} \in SUBSET D
    OBVIOUS
  <2>. QED
    BY <1>8, <2>1
<1>10. ASSUME NEW k \in 1 .. n
       PROVE  upTo(k) = IF payments[k].amount = 0 THEN upTo(k - 1) ELSE Append(upTo(k - 1), payments[k])
  <2>1. 1 .. k \in SUBSET D /\ 1 .. k # {} /\ k \in 1 .. k
    BY SMTT(30)
  <2>2. Max(1 .. k) = k
    <3>1. Max(1 .. k) \in 1 .. k /\ \A x \in 1 .. k : x <= Max(1 .. k)
      BY <2>1, GreatestOf
    <3>. DEFINE m == Max(1 .. k)
    <3>2. m \in 1 .. k /\ k <= m
      BY <2>1, <3>1
    <3>. HIDE DEF m
    <3>3. m = k
      BY <3>2
    <3>. QED
      BY <3>3 DEF m
  <2>3. (1 .. k) \ {k} = 1 .. (k - 1)
    OBVIOUS
  <2>4. upTo(k) = IF payments[Max(1 .. k)].amount = 0 THEN PaidOf(payments)[(1 .. k) \ {Max(1 .. k)}]
                  ELSE Append(PaidOf(payments)[(1 .. k) \ {Max(1 .. k)}], payments[Max(1 .. k)])
    BY <1>8, <2>1
  <2>. QED
    BY <2>2, <2>3, <2>4
<1>. HIDE DEF upTo, W
<1>11. \A k \in 0 .. n : upTo(k) \in W
  <2>. DEFINE N == {k \in Nat : k <= n => upTo(k) \in W}
  <2>1. ASSUME NEW k \in Nat, \A m \in Nat : m < k => m \in N PROVE k \in N
    <3>1. CASE k = 0
      BY <1>2, <1>9, <3>1
    <3>2. CASE k # 0 /\ k <= n
      <4>1. k - 1 \in Nat /\ k - 1 < k /\ k - 1 <= n /\ k \in 1 .. n
        BY <3>2
      <4>2. upTo(k - 1) \in W /\ payments[k] \in V
        BY <2>1, <4>1
      <4>3. Append(upTo(k - 1), payments[k]) \in W
        BY <4>2 DEF W
      <4>. QED
        BY <1>10, <4>1, <4>2, <4>3
    <3>. QED
      BY <3>1, <3>2
  <2>. HIDE DEF N
  <2>2. Nat \subseteq N
    BY <2>1, Induction
  <2>. QED
    BY <2>2 DEF N
<1>. QED
  BY <1>9, <1>10, <1>11 DEF upTo, W

-----------------------------------------------------------------------------
\* The sequence paid comes from the first k of the payments.
ComesFrom(paid, payments, k, source) ==
  /\ source \in [DOMAIN paid -> 1 .. k]
  /\ \A i, j \in DOMAIN paid : i < j => source[i] < source[j]
  /\ {source[j] : j \in DOMAIN paid} = {i \in 1 .. k : payments[i].amount # 0}
  /\ \A j \in DOMAIN paid : paid[j] = payments[source[j]]

\* By induction on k: the payments that are kept, in their order.
LEMMA PaidComesFrom ==
  ASSUME NEW payments, NEW n \in Nat, DOMAIN payments = 1 .. n
  PROVE  \E source : ComesFrom(Paid(payments), payments, n, source)
<1>. DEFINE upTo(k) == PaidOf(payments)[1 .. k]
            V == {payments[i] : i \in 1 .. n}
            N == {k \in Nat : k <= n => \E source : ComesFrom(upTo(k), payments, k, source)}
<1>1. /\ upTo(0) = <<>>
      /\ \A k \in 1 .. n : upTo(k) = IF payments[k].amount = 0 THEN upTo(k - 1)
                                     ELSE Append(upTo(k - 1), payments[k])
      /\ \A k \in 0 .. n : upTo(k) \in Seq(V)
  BY PaidSteps
<1>. HIDE DEF upTo, V
<1>2. ComesFrom(upTo(0), payments, 0, <<>>)
  BY <1>1 DEF ComesFrom
<1>3. ASSUME NEW k \in 1 .. n, NEW source, ComesFrom(upTo(k - 1), payments, k - 1, source)
      PROVE  \E longer : ComesFrom(upTo(k), payments, k, longer)
  <2>. DEFINE paid == upTo(k - 1)
              m == Len(paid)
              longer == [j \in 1 .. m + 1 |-> IF j = m + 1 THEN k ELSE source[j]]
  <2>1. paid \in Seq(V) /\ m \in Nat /\ DOMAIN paid = 1 .. m /\ k \in Int
    <3>1. k - 1 \in 0 .. n
      OBVIOUS
    <3>2. upTo(k - 1) \in Seq(V)
      BY <1>1, <3>1
    <3>. QED
      BY <3>2, LenProperties
  <2>. HIDE DEF paid, m
  <2>2. /\ \A j \in 1 .. m : source[j] \in 1 .. k - 1 /\ paid[j] = payments[source[j]]
        /\ \A i, j \in 1 .. m : i < j => source[i] < source[j]
        /\ \A i \in 1 .. k - 1 : payments[i].amount # 0 <=> \E j \in 1 .. m : source[j] = i
        /\ source \in [1 .. m -> 1 .. k - 1]
    <3>1. ComesFrom(paid, payments, k - 1, source)
      BY <1>3 DEF paid
    <3>2. {source[j] : j \in 1 .. m} = {i \in 1 .. k - 1 : payments[i].amount # 0}
      BY <2>1, <3>1 DEF ComesFrom
    <3>3. \A i \in 1 .. k - 1 : payments[i].amount # 0 <=> \E j \in 1 .. m : source[j] = i
      BY <3>2
    <3>4. source \in [1 .. m -> 1 .. k - 1]
      BY <2>1, <3>1 DEF ComesFrom
    <3>. QED
      BY <2>1, <3>1, <3>3, <3>4 DEF ComesFrom
  <2>3. CASE payments[k].amount = 0
    <3>1. upTo(k) = paid
      BY <1>1, <2>3 DEF paid
    <3>2. {source[j] : j \in 1 .. m} = {i \in 1 .. k : payments[i].amount # 0}
      <4>1. \A i \in 1 .. k : i \in 1 .. k - 1 \/ i = k
        OBVIOUS
      <4>2. \A j \in 1 .. m : source[j] \in 1 .. k
        BY <2>2
      <4>. QED
        BY <2>2, <2>3, <4>1, <4>2
    <3>3. source \in [1 .. m -> 1 .. k]
      <4>1. 1 .. k - 1 \subseteq 1 .. k
        OBVIOUS
      <4>. QED
        BY <2>2, <4>1
    <3>4. ComesFrom(paid, payments, k, source)
      BY <2>1, <2>2, <3>2, <3>3 DEF ComesFrom
    <3>. QED
      BY <3>1, <3>4
  <2>4. CASE payments[k].amount # 0
    <3>1. upTo(k) = Append(paid, payments[k])
      BY <1>1, <2>4 DEF paid
    <3>2. payments[k] \in V
      BY DEF V
    <3>3. /\ DOMAIN upTo(k) = 1 .. m + 1
          /\ \A j \in 1 .. m : upTo(k)[j] = paid[j]
          /\ upTo(k)[m + 1] = payments[k]
      BY <2>1, <3>1, <3>2, AppendProperties DEF m
    <3>4. /\ DOMAIN longer = 1 .. m + 1 /\ longer[m + 1] = k
          /\ \A j \in 1 .. m : longer[j] = source[j]
          /\ \A j \in 1 .. m + 1 : j \in 1 .. m \/ j = m + 1
          /\ m + 1 \in 1 .. m + 1 /\ \A j \in 1 .. m : j \in 1 .. m + 1
      BY <2>1
    <3>5. longer \in [1 .. m + 1 -> 1 .. k]
      <4>1. \A j \in 1 .. m : source[j] \in 1 .. k
        BY <2>1, <2>2
      <4>2. k \in 1 .. k
        OBVIOUS
      <4>. QED
        BY <4>1, <4>2, <2>1
    <3>. HIDE DEF longer
    <3>6. \A i, j \in 1 .. m + 1 : i < j => longer[i] < longer[j]
      <4>1. ASSUME NEW i \in 1 .. m + 1, NEW j \in 1 .. m + 1, i < j PROVE longer[i] < longer[j]
        <5>1. i \in 1 .. m
          BY <2>1, <4>1
        <5>2. CASE j = m + 1
          BY <2>2, <3>4, <5>1, <5>2
        <5>3. CASE j \in 1 .. m
          BY <2>2, <3>4, <4>1, <5>1, <5>3
        <5>. QED
          BY <3>4, <5>2, <5>3
      <4>. QED
        BY <4>1
    <3>7. {longer[j] : j \in 1 .. m + 1} = {i \in 1 .. k : payments[i].amount # 0}
      <4>1. ASSUME NEW i \in 1 .. k, payments[i].amount # 0 PROVE \E j \in 1 .. m + 1 : longer[j] = i
        <5>1. CASE i = k
          BY <3>4, <5>1
        <5>2. CASE i # k
          <6>1. i \in 1 .. k - 1
            BY <5>2
          <6>. QED
            BY <2>2, <3>4, <4>1, <6>1
        <5>. QED
          BY <5>1, <5>2
      <4>2. ASSUME NEW j \in 1 .. m + 1 PROVE payments[longer[j]].amount # 0
        <5>1. CASE j = m + 1
          BY <2>4, <3>4, <5>1
        <5>2. CASE j \in 1 .. m
          BY <2>2, <3>4, <5>2
        <5>. QED
          BY <3>4, <5>1, <5>2
      <4>. QED
        BY <3>5, <4>1, <4>2
    <3>8. \A j \in 1 .. m + 1 : upTo(k)[j] = payments[longer[j]]
      BY <2>2, <3>3, <3>4
    <3>9. ComesFrom(upTo(k), payments, k, longer)
      BY <3>3, <3>5, <3>6, <3>7, <3>8 DEF ComesFrom
    <3>. QED
      BY <3>9
  <2>. QED
    BY <2>3, <2>4
<1>4. ASSUME NEW k \in Nat, \A m \in Nat : m < k => m \in N PROVE k \in N
  <2>1. CASE k = 0
    BY <1>2, <2>1
  <2>2. CASE k # 0 /\ k <= n
    <3>1. k - 1 \in Nat /\ k - 1 < k /\ k - 1 <= n /\ k \in 1 .. n
      BY <2>2
    <3>2. \E source : ComesFrom(upTo(k - 1), payments, k - 1, source)
      BY <1>4, <3>1
    <3>. QED
      BY <1>3, <3>1, <3>2
  <2>. QED
    BY <2>1, <2>2
<1>. HIDE DEF N
<1>5. Nat \subseteq N
  BY <1>4, Induction
<1>6. \E source : ComesFrom(upTo(n), payments, n, source)
  BY <1>5 DEF N
<1>. QED
  BY <1>6, PaidIs DEF upTo

-----------------------------------------------------------------------------
\* toDecimalPlaces(2) is off by half a cent at most.
LEMMA RoundedIsNear ==
  ASSUME NEW n \in Int
  PROVE  WithinHalfACent(Rounded(n), n)
<1>1. ASSUME NEW m \in Int, NEW q \in Int, q = (m + 5000) \div 10000
      PROVE  10000 * q <= m + 5000 /\ m + 5000 < 10000 * q + 10000
  BY <1>1
<1>2. CASE n >= 0
  <2>. DEFINE q == (n + 5000) \div 10000
  <2>1. q \in Int
    OBVIOUS
  <2>2. Rounded(n) = q
    BY <1>2 DEF Rounded
  <2>3. 10000 * q <= n + 5000 /\ n + 5000 < 10000 * q + 10000
    BY <1>1, <2>1
  <2>. HIDE DEF q
  <2>. QED
    BY <2>1, <2>2, <2>3 DEF WithinHalfACent
<1>3. CASE n < 0
  <2>. DEFINE q == (-n + 5000) \div 10000
  <2>1. q \in Int
    OBVIOUS
  <2>2. Rounded(n) = -q
    BY <1>3 DEF Rounded
  <2>3. 10000 * q <= -n + 5000 /\ -n + 5000 < 10000 * q + 10000
    BY <1>1, <2>1
  <2>. HIDE DEF q
  <2>4. 10000 * (-q) <= n + 5000 /\ n <= 10000 * (-q) + 5000
    BY <2>1, <2>3
  <2>. QED
    BY <2>1, <2>2, <2>4 DEF WithinHalfACent
<1>. QED
  BY <1>2, <1>3

\* So is the amount of a payment, with or without a rate.
LEMMA SavedPayment ==
  ASSUME NEW p, p.amount \in Int, p.exchange_rate \in Int \cup {Null}
  PROVE  Saves(ParseSBCGarmsPayment(p), p)
<1>. DEFINE converted == p.currency # "CAD" /\ p.exchange_rate \notin {Null, 0}
            due == IF converted THEN p.amount * p.exchange_rate ELSE 10000 * p.amount
            amount == InCanadianDollars(p)
<1>1. ASSUME converted PROVE WithinHalfACent(amount, due)
  <2>. DEFINE n == p.amount * p.exchange_rate
  <2>1. n \in Int /\ due = n
    BY <1>1
  <2>2. amount = Rounded(n)
    BY <1>1 DEF InCanadianDollars
  <2>. HIDE DEF n, due, amount
  <2>. QED
    BY <2>1, <2>2, RoundedIsNear
<1>2. ASSUME ~converted PROVE WithinHalfACent(amount, due)
  <2>1. amount = p.amount /\ due = 10000 * p.amount
    BY <1>2 DEF InCanadianDollars
  <2>. HIDE DEF due, amount
  <2>. QED
    BY <2>1 DEF WithinHalfACent
<1>3. WithinHalfACent(amount, due)
  BY <1>1, <1>2
<1>4. LET saved == ParseSBCGarmsPayment(p) IN
      saved.amount = amount /\ saved.payment_method = p.method
  BY DEF ParseSBCGarmsPayment
<1>5. due = IF p.currency = "CAD" \/ p.exchange_rate \in {Null, 0}
            THEN 10000 * p.amount ELSE p.amount * p.exchange_rate
  OBVIOUS
<1>. HIDE DEF due, amount, converted
<1>. QED
  BY <1>3, <1>4, <1>5 DEF Saves

\* And all payments of a sale that are not 0 are saved.
LEMMA SavedPayments ==
  ASSUME FileOK
  PROVE  PaymentsKeepTheirValue
<1>. SUFFICES ASSUME kind = "SBC_SALES", ~Parsed.refused
     PROVE  \A i \in 1 .. Len(sent) :
              LET saved == Parsed.entities[i].payments
                  payments == sent[i].payments IN
              \E source \in [DOMAIN saved -> DOMAIN payments] :
                /\ \A j, k \in DOMAIN saved : j < k => source[j] < source[k]
                /\ {source[j] : j \in DOMAIN saved} = {k \in DOMAIN payments : payments[k].amount # 0}
                /\ \A j \in DOMAIN saved : Saves(saved[j], payments[source[j]])
  BY DEF PaymentsKeepTheirValue
<1>1. PICK s \in Sales :
           LET t == ParseGarmsData([s EXCEPT !.payments = Paid(@)]) IN
           /\ RungUp(s) /\ sent = <<s>>
           /\ ~Parsed.refused => Parsed.entities = <<t>> /\ GarmsTransactionDTO(t)
  BY GarmsFile
<1>. DEFINE payments == s.payments
            n == Len(payments)
            paid == Paid(payments)
            saved == [i \in 1 .. Len(paid) |-> ParseSBCGarmsPayment(paid[i])]
<1>2. /\ n \in Nat /\ DOMAIN payments = 1 .. n
      /\ \A i \in 1 .. n : payments[i].amount \in Int /\ payments[i].exchange_rate \in Int \cup {Null}
  BY <1>1 DEF RungUp
<1>3. Len(sent) = 1 /\ sent[1].payments = payments /\ Parsed.entities[1].payments = saved
  <2>. DEFINE kept == [s EXCEPT !.payments = Paid(@)]
  <2>1. kept.payments = paid
    BY <1>1 DEF RungUp
  <2>. HIDE DEF kept
  <2>2. ParseGarmsData(kept).payments = saved
    BY <2>1 DEF ParseGarmsData
  <2>. DEFINE t == ParseGarmsData(kept)
  <2>. HIDE DEF t
  <2>3. Parsed.entities[1] = t
    BY <1>1 DEF t, kept
  <2>. QED
    BY <1>1, <2>2, <2>3 DEF t
<1>. HIDE DEF payments, n, saved, paid
<1>4. DOMAIN paid = 1 .. Len(paid)
  <2>1. paid \in Seq({payments[i] : i \in 1 .. n})
    <3>1. n \in 0 .. n
      BY <1>2
    <3>. QED
      BY <1>2, <3>1, PaidIs, PaidSteps DEF paid
  <2>. QED
    BY <2>1, LenProperties
<1>5. PICK source : ComesFrom(paid, payments, n, source)
  BY <1>2, PaidComesFrom DEF paid
<1>6. /\ DOMAIN saved = DOMAIN paid
      /\ \A j \in DOMAIN paid : saved[j] = ParseSBCGarmsPayment(paid[j])
  BY <1>4 DEF saved
<1>7. \A j \in DOMAIN saved : Saves(saved[j], payments[source[j]])
  BY <1>2, <1>5, <1>6, SavedPayment DEF ComesFrom
<1>8. /\ source \in [DOMAIN saved -> DOMAIN payments]
      /\ \A j, k \in DOMAIN saved : j < k => source[j] < source[k]
      /\ {source[j] : j \in DOMAIN saved} = {k \in DOMAIN payments : payments[k].amount # 0}
  BY <1>2, <1>5, <1>6 DEF ComesFrom
<1>. QED
  BY <1>3, <1>7, <1>8

-----------------------------------------------------------------------------
\* Whatever lines were lost, doubled, cut off or blanked, an entity that
\* ParseAndValidateTDIFile or ParseAndValidateSBCGarms lets through has a value for
\* each column of its table that may not be null.
THEOREM AcceptedFilesAreStorable == Spec => []AcceptedIsStorable
<1>1. Init => FileOK /\ Damaged
  BY InitialFile
<1>2. FileOK /\ Damaged /\ [Next]_parsingVars => FileOK' /\ Damaged'
  BY FileStep
<1>3. FileOK => AcceptedIsStorable
  BY StorableFile
<1>. QED
  BY <1>1, <1>2, <1>3, PTL DEF Spec

\* validateTDIFile refuses a file that was damaged once, or all of its entities
\* come out with the amounts, dates and places the bank wrote.
THEOREM DamagedFilesAreRefused ==
  ASSUME MaxFaults \in 0 .. 1
  PROVE  Spec => []RefusedOrComplete
<1>1. Init => FileOK /\ Damaged
  BY InitialFile
<1>2. FileOK /\ Damaged /\ [Next]_parsingVars => FileOK' /\ Damaged'
  BY FileStep
<1>3. FileOK /\ Damaged => RefusedOrComplete
  <2>1. ASSUME FileOK, Damaged, kind # "SBC_SALES" PROVE Tdi
    BY <2>1, ReadableLines
  <2>. QED
    BY <2>1, AcceptedLines DEF RefusedOrComplete, Kept
<1>. QED
  BY <1>1, <1>2, <1>3, PTL DEF Spec

\* Whatever happened to the lines of a file, and however often: entities come out
\* of it only as many as the bank wrote, and of the same total.
AcceptedAddsUp ==
  kind # "SBC_SALES" /\ Parsed.entities # <<>> =>
    /\ Len(Parsed.entities) = Len(sent)
    /\ \A i \in 1 .. Len(sent) : Value(Parsed.entities[i]) \in Int
    /\ SumFunction([i \in 1 .. Len(sent) |-> Value(Parsed.entities[i])])
         = SumFunction([i \in 1 .. Len(sent) |-> Due(sent[i])])

\* The check of the trailer in parseTDI holds what AcceptedAddsUp says.
THEOREM AcceptedFilesAddUp == Spec => []AcceptedAddsUp
<1>1. Init => FileOK /\ Damaged
  BY InitialFile
<1>2. FileOK /\ Damaged /\ [Next]_parsingVars => FileOK' /\ Damaged'
  BY FileStep
<1>3. FileOK => AcceptedAddsUp
  <2>. SUFFICES ASSUME FileOK, kind # "SBC_SALES", Parsed.entities # <<>>
       PROVE  AcceptedAddsUp
    BY DEF AcceptedAddsUp
  <2>. DEFINE n == Len(sent)
  <2>1. Tdi
    BY ReadableLines
  <2>2. /\ Len(Parsed.entities) = n
        /\ \A i \in 1 .. n : Parsed.entities[i] = Entity(lines[i + 1])
                             /\ Value(Entity(lines[i + 1])) \in Int
        /\ SumFunction([i \in 1 .. n |-> Value(Entity(lines[i + 1]))])
             = SumFunction([i \in 1 .. n |-> Due(sent[i])])
    BY <2>1, AcceptedFile
  <2>3. [i \in 1 .. n |-> Value(Parsed.entities[i])] = [i \in 1 .. n |-> Value(Entity(lines[i + 1]))]
    BY <2>2
  <2>. QED
    BY <2>2, <2>3 DEF AcceptedAddsUp
<1>. QED
  BY <1>1, <1>2, <1>3, PTL DEF Spec

\* parseGarms saves each payment of a sale that is not 0, once and in its place,
\* in Canadian dollars to within half a cent.
THEOREM PaymentsAreSavedInFull == Spec => []PaymentsKeepTheirValue
<1>1. Init => FileOK /\ Damaged
  BY InitialFile
<1>2. FileOK /\ Damaged /\ [Next]_parsingVars => FileOK' /\ Damaged'
  BY FileStep
<1>3. FileOK => PaymentsKeepTheirValue
  BY SavedPayments
<1>. QED
  BY <1>1, <1>2, <1>3, PTL DEF Spec
=============================================================================
