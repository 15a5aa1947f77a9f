------------------------------- MODULE Reports -------------------------------
(***************************************************************************)
(* The report lambda and the reports of the console.  The lambda reads     *)
(* four tables, each in three queries by status, and then the deposits of  *)
(* the month; no transaction holds the reads together, and the reconciler  *)
(* writes the tables meanwhile.  From what it read it makes three pages:   *)
(* a summary per location, the details, and the deposits for CAS.          *)
(***************************************************************************)
EXTENDS BusinessDays, Sequences

CONSTANTS
  Row,              \* a payment or deposit: table, date (of the transaction or the
                    \* deposit), closed (fiscal_close_date or settlement_date),
                    \* amount, place (location_id, pt_location_id or merchant_id),
                    \* terminal (terminal_no and payment_method), and master: how
                    \* many rows of master_location_data its merchant and method have
  Locations,        \* locations of the program
  PlacesOf,         \* the location_id, banks and merchants of a location
  PeriodDays,       \* numDaysToReconcile
  FirstOfMonth(_),
  NoReport          \* no report is being made

VARIABLES
  status,           \* of a row, ABSENT before it is inserted
  stamp,            \* reconciled_on if the row is decided, else in_progress_on
  report            \* the invocation: the period, the next query, what it read

Rows == DOMAIN Row
Decided == {"MATCH", "EXCEPTION"}
Deposits == {"pos_deposit", "cash_deposit"}
Payments == {"pos_payment", "cash_payment"}

\* A bank or a merchant belongs to one location; an amount is a number of cents.
ReportsAssumption ==
  /\ IsFiniteSet(Rows) /\ IsFiniteSet(Locations)
  /\ \A x \in Rows : /\ Row[x].table \in Deposits \cup Payments /\ Row[x].date \in Int
                    /\ Row[x].amount \in Int /\ Row[x].master \in Nat
  /\ \A k, l \in Locations : k # l => PlacesOf[k] \cap PlacesOf[l] = {}

Table(t) == {x \in Rows : status[x] # "ABSENT" /\ Row[x].table = t}
AtLocation(l) == {x \in Rows : Row[x].place \in PlacesOf[l]}
Located(x) == \E l \in Locations : x \in AtLocation(l)
Sum(S) == SumFunction([x \in S |-> Row[x].amount])
-----------------------------------------------------------------------------
\* Mutant of Tables: the payments first.
TablesPaymentsFirst == <<"pos_payment", "pos_deposit", "cash_payment", "cash_deposit">>

\* getPosReportData and then getCashReportData.
Tables == <<"pos_deposit", "pos_payment", "cash_deposit", "cash_payment">>

\* Mutant of Sections: the open rows before the decided ones.
SectionsBackwards == <<"PENDING", "IN_PROGRESS", "decided">>

\* The three queries on a table, in order.
Sections == <<"decided", "IN_PROGRESS", "PENDING">>

\* Mutant of InSection: what became IN_PROGRESS on the last day is left out.
InSectionBefore(x, section, from, to) ==
  \/ section = "decided" /\ status[x] \in Decided /\ stamp[x] \in PrevBusinessDay(from) .. NextBusinessDay(to)
  \/ section = "IN_PROGRESS" /\ status[x] = section /\ stamp[x] \in from .. (to - 1)
  \/ section = "PENDING" /\ status[x] = section /\ Row[x].date \in from .. to

\* The decided rows have a leeway of one business day.
InSection(x, section, from, to) ==
  \/ section = "decided" /\ status[x] \in Decided /\ stamp[x] \in PrevBusinessDay(from) .. NextBusinessDay(to)
  \/ section = "IN_PROGRESS" /\ status[x] = section /\ stamp[x] \in from .. to
  \/ section = "PENDING" /\ status[x] = section /\ Row[x].date \in from .. to

\* A row with the status it was read with.
Read(S) == {<<x, status[x]>> : x \in S}
FindPayments(t, section, from, to) == Read({x \in Table(t) : InSection(x, section, from, to)})
FindPosDeposits(section, from, to) ==
  Read({x \in Table("pos_deposit") : InSection(x, section, from, to)})
FindCashDeposits(section, from, to) ==
  Read({x \in Table("cash_deposit") : InSection(x, section, from, to)})

Query(t, section, from, to) ==
  CASE t \in Payments -> FindPayments(t, section, from, to)
    [] t = "pos_deposit" -> FindPosDeposits(section, from, to)
    [] t = "cash_deposit" -> FindCashDeposits(section, from, to)

LastQuery == Len(Tables) * Len(Sections)

\* For page three, whatever the status: by the banks and by the merchants of
\* the locations.
CashOfMonth(from, to) ==
  {x \in Table("cash_deposit") : Located(x) /\ Row[x].date \in FirstOfMonth(from) .. to}
PosOfMonth(from, to) ==
  {x \in Table("pos_deposit") : Located(x) /\ Row[x].closed \in FirstOfMonth(from) .. to}
-----------------------------------------------------------------------------
Details == report.rows
OfTables(tables) == {r \in Details : Row[r[1]].table \in tables}
SumOf(S) == SumFunction([r \in S |-> Row[r[1]].amount])

\* Mutant of SummaryRows: only what was matched.
SummaryRowsMatched(l, tables) ==
  {r \in OfTables(tables) : r[2] = "MATCH" /\ r[1] \in AtLocation(l)}

SummaryRows(l, tables) ==
  {r \in OfTables(tables) : r[2] \in Decided /\ r[1] \in AtLocation(l)}

\* In hundredths of a percent, rounded; no rows are 0 percent.
HundredPercent == 10000
Percent(part, total) ==
  IF total = 0 THEN 0 ELSE (2 * HundredPercent * part + total) \div (2 * total)

\* getSummaryData: the payments or the deposits of a location on page one.
Summary(l, tables) ==
  LET rows == SummaryRows(l, tables)
      unmatched == Cardinality({r \in rows : r[2] = "EXCEPTION"}) IN
  [total |-> Cardinality(rows), unmatched |-> unmatched,
   percent |-> Percent(unmatched, Cardinality(rows)), sum |-> SumOf(rows)]

\* The lines of the details page; a row of an unknown place is an empty one.
PaymentLine(r) == [source_file |-> "Transaction (LOB)", uuid |-> r[1], status |-> r[2],
                   date |-> Row[r[1]].date, amount |-> Row[r[1]].amount]
PosDepositLine(r) == [source_file |-> "POS (TDI 34)", uuid |-> r[1], status |-> r[2],
                      date |-> Row[r[1]].date, amount |-> Row[r[1]].amount]
CashDepositLine(r) == [source_file |-> "Cash/Chq (TDI 17)", uuid |-> r[1], status |-> r[2],
                       date |-> Row[r[1]].closed, amount |-> Row[r[1]].amount]

DetailsReportData ==
  LET shown == {r \in Details : Located(r[1])} IN
  [lines |-> {PaymentLine(r) : r \in shown \cap OfTables(Payments)}
             \cup {CashDepositLine(r) : r \in shown \cap OfTables({"cash_deposit"})}
             \cup {PosDepositLine(r) : r \in shown \cap OfTables({"pos_deposit"})},
   empty |-> Cardinality(Details \ shown)]

\* Page three: a line for a cash deposit, and one for the POS deposits of a day,
\* terminal and place.  The join with master_location_data repeats a deposit, here
\* in one line.  Lines of 0.00 are left out.
PosGroup(x) == <<Row[x].closed, Row[x].terminal, Row[x].place>>
CasCash == {x \in report.month : Row[x].table = "cash_deposit" /\ Row[x].amount # 0}
PosOfReport == {x \in report.month : Row[x].table = "pos_deposit"}
Joined(x) == Row[x].amount * (IF Row[x].master = 0 THEN 1 ELSE Row[x].master)
CasPos ==
  LET sum(g) == SumFunction([x \in {y \in PosOfReport : PosGroup(y) = g} |-> Joined(x)]) IN
  {line \in {[group |-> g, amount |-> sum(g)] : g \in {PosGroup(x) : x \in PosOfReport}} :
     line.amount # 0}
-----------------------------------------------------------------------------
\* The console: SQL over the tables as they are.
Count(S, statuses) == Cardinality({x \in S : status[x] \in statuses})
On(t, d) == {x \in Table(t) : Row[x].date = d}
Closed(t, d) == {x \in Table(t) : Row[x].closed = d}

\* getStatusReport: POS payments or deposits by status.
StatusReport(t) == [s \in {status[x] : x \in Table(t)} |-> Count(Table(t), {s})]

\* A date of the table with its count of each status; NULL stands for 0.
PosDepositStatusByDate ==
  [d \in {Row[x].date : x \in Table("pos_deposit")} |->
     [s \in {"PENDING", "IN_PROGRESS"} \cup Decided |-> Count(On("pos_deposit", d), {s})]]
CashDepositStatusByDate ==
  [d \in {Row[x].date : x \in Table("cash_deposit")} |->
     [s \in {"PENDING", "IN_PROGRESS"} \cup Decided |-> Count(On("cash_deposit", d), {s})]]

\* The dates are those of the deposits: payments of another date are in no row.
PosMatchSummary ==
  [d \in {Row[x].date : x \in Table("pos_deposit")} |->
     [deposits |-> Cardinality(On("pos_deposit", d)), depositSum |-> Sum(On("pos_deposit", d)),
      payments |-> Cardinality(On("pos_payment", d)), paymentSum |-> Sum(On("pos_payment", d)),
      matched |-> Count(On("pos_payment", d), {"MATCH"})]]

\* By fiscal_close_date, of every location and of one.
CashMatchSummary ==
  [d \in {Row[x].closed : x \in Table("cash_payment")} |->
     [payments |-> Cardinality(Closed("cash_payment", d)),
      matched |-> Count(Closed("cash_payment", d), {"MATCH"})]]
CashReportByLocation(l) ==
  [d \in {Row[x].closed : x \in Table("cash_payment") \cap AtLocation(l)} |->
     [payments |-> Cardinality(Closed("cash_payment", d) \cap AtLocation(l)),
      matched |-> Count(Closed("cash_payment", d) \cap AtLocation(l), {"MATCH"})]]
-----------------------------------------------------------------------------
StartReport(to) ==
  /\ report = NoReport
  /\ report' = [from |-> to - PeriodDays, to |-> to, query |-> 1, rows |-> {}, month |-> {},
                resting |-> Read({x \in Rows : status[x] # "ABSENT"})]
  /\ UNCHANGED <<status, stamp>>

ReadRows ==
  /\ report # NoReport /\ report.query <= LastQuery
  /\ LET t == Tables[(report.query - 1) \div Len(Sections) + 1]
         section == Sections[((report.query - 1) % Len(Sections)) + 1] IN
     report' = [report EXCEPT !.query = @ + 1,
                              !.rows = @ \cup Query(t, section, report.from, report.to)]
  /\ UNCHANGED <<status, stamp>>

\* The cash deposits, then the POS deposits.
ReadMonth ==
  /\ report # NoReport /\ report.query \in {LastQuery + 1, LastQuery + 2}
  /\ LET found == IF report.query = LastQuery + 1 THEN CashOfMonth(report.from, report.to)
                                                  ELSE PosOfMonth(report.from, report.to) IN
     report' = [report EXCEPT !.query = @ + 1, !.month = @ \cup found]
  /\ UNCHANGED <<status, stamp>>

\* The workbook is saved; or a query failed, and the message may come again.
EndReport == report # NoReport /\ report' = NoReport /\ UNCHANGED <<status, stamp>>

ReadReport == ReadRows \/ ReadMonth \/ EndReport

\* History: resting is what was in the tables when the report began and has not
\* been written since.
Touch(x) ==
  report' = IF report = NoReport THEN NoReport
            ELSE [report EXCEPT !.resting = {r \in @ : r[1] # x}]
-----------------------------------------------------------------------------
Generated == report # NoReport /\ report.query > LastQuery + 2

\* A row is at most once on the details page, although it may change its status
\* between the queries: they are made in the order the statuses move.
ReportedOnce ==
  report # NoReport => \A r, s \in Details : r[1] = s[1] => r = s

\* What nobody touched while the report was read is on it, if it was decided or
\* put in progress in the period, or is pending since.
RestingRowsAreReported ==
  Generated => \A r \in report.resting :
    (IF r[2] = "PENDING" THEN Row[r[1]].date ELSE stamp[r[1]]) \in report.from .. report.to
      => r \in Details

\* The summary counts and sums what the details page lists as decided at a
\* location.
SummaryAgrees(tables) ==
  LET decided == {r \in OfTables(tables) : r[2] \in Decided /\ Located(r[1])}
      total == [l \in Locations |-> Summary(l, tables).total]
      sum == [l \in Locations |-> Summary(l, tables).sum] IN
  /\ SumFunction(total) = Cardinality(decided) /\ SumFunction(sum) = SumOf(decided)
  /\ \A l \in Locations : Summary(l, tables).percent \in 0 .. HundredPercent

\* Page three has every deposit of the details page that is pending, although it
\* was read last.
PendingAgrees ==
  \A line \in DetailsReportData.lines :
    line.status = "PENDING" /\ line.source_file = "Cash/Chq (TDI 17)" /\ line.amount # 0
      => line.uuid \in CasCash

\* Its lines of the POS deposits add up to the deposits, unless a merchant has
\* more than one row of master data.
CasAgrees ==
  (\A x \in PosOfReport : Row[x].master <= 1) =>
    SumFunction([line \in CasPos |-> line.amount]) = Sum(PosOfReport)

\* The pages agree with one another; every row is a line of the details page.
PagesAgree ==
  Generated =>
    /\ \A tables \in {Payments, Deposits} : SummaryAgrees(tables)
    /\ Cardinality(DetailsReportData.lines) + DetailsReportData.empty = Cardinality(Details)
    /\ PendingAgrees /\ CasAgrees

\* The reports of the console add up to one another at any moment.
ConsoleAgrees ==
  /\ \A s \in DOMAIN StatusReport("pos_deposit") :
       SumFunction([d \in DOMAIN PosDepositStatusByDate |-> PosDepositStatusByDate[d][s]])
         = StatusReport("pos_deposit")[s]
  /\ SumFunction([d \in DOMAIN CashDepositStatusByDate |-> SumFunction(CashDepositStatusByDate[d])])
       = Cardinality(Table("cash_deposit"))
  /\ \A d \in DOMAIN CashMatchSummary :
       SumFunction([l \in {k \in Locations : d \in DOMAIN CashReportByLocation(k)} |->
                      CashReportByLocation(l)[d].matched]) <= CashMatchSummary[d].matched
  /\ \A d \in DOMAIN PosMatchSummary : PosMatchSummary[d].matched <= PosMatchSummary[d].payments

ReportsAgree == PagesAgree /\ ConsoleAgrees
=============================================================================
