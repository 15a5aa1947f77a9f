--------------------------- MODULE PipelineProofs ---------------------------
(***************************************************************************)
(* Proofs about Pipeline, for any files, rows, locations and dates: the    *)
(* gate holds until the run behind it ends, and what the report shows of   *)
(* rows that move while it is read.                                        *)
(***************************************************************************)
EXTENDS Pipeline, SumTheorems, TLAPS

\* The query, 1 to 12, that reads a row of a table with a status.
Position(t) ==
  IF t = "pos_deposit" THEN 0 ELSE IF t = "pos_payment" THEN 3
  ELSE IF t = "cash_deposit" THEN 6 ELSE 9
Place(s) == IF s \in Decided THEN 1 ELSE IF s = "IN_PROGRESS" THEN 2 ELSE 3
QueryOf(x, s) == Position(Row[x].table) + Place(s)

\* The dates of the query that reads the row as it is.
InWindow(x, from, to) ==
  IF status[x] \in Decided THEN stamp[x] \in PrevBusinessDay(from) .. NextBusinessDay(to)
  ELSE IF status[x] = "IN_PROGRESS" THEN stamp[x] \in from .. to
  ELSE Row[x].date \in from .. to

\* What query q adds to the report.
Found(q, from, to) ==
  {<<x, status[x]>> : x \in {y \in Rows : /\ status[y] # "ABSENT"
                                          /\ QueryOf(y, status[y]) = q
                                          /\ InWindow(y, from, to)}}

\* The check of the gate is made once and holds as long as the run lasts.
GateOpen == run # NoRun /\ ~run.byPass => FileCheck(run.date)

\* A matched deposit was written behind its payments, in the same run.
PaidFirst ==
  \A x \in DOMAIN PaidBy : status[x] = "MATCH" =>
    \A p \in PaidBy[x] : status[p] = "MATCH" /\ stamp[p] = stamp[x]

\* A row that was read was read by the query of its status then, and has only
\* moved on to a status that was asked for earlier.
ReadBehind ==
  report # NoReport => \A r \in report.rows :
    /\ r[2] # "ABSENT" /\ status[r[1]] # "ABSENT"
    /\ QueryOf(r[1], r[2]) < report.query
    /\ Place(status[r[1]]) <= Place(r[2])
    /\ r[2] \in Decided => status[r[1]] = r[2] /\ InWindow(r[1], report.from, report.to)

\* The payments of a matched deposit on the report are on it once their query
\* was made.
PaymentsShown ==
  report # NoReport => \A x \in DOMAIN PaidBy : <<x, "MATCH">> \in report.rows =>
    \A p \in PaidBy[x] : QueryOf(p, "MATCH") < report.query => <<p, "MATCH">> \in report.rows

\* What rests is as it was when the report began, and is read by its query.
RestingSeen ==
  report # NoReport => \A r \in report.resting :
    /\ r[2] # "ABSENT" /\ status[r[1]] = r[2]
    /\ QueryOf(r[1], r[2]) < report.query /\ InWindow(r[1], report.from, report.to)
         => r \in report.rows

IInv == TypeOK /\ GateOpen /\ PaidFirst /\ ReadBehind /\ ReportedOnce /\ PaymentsShown /\ RestingSeen
-----------------------------------------------------------------------------
LEMMA QueryCount == LastQuery = 12
BY DEF LastQuery, Tables, Sections

\* The twelve queries in the order they are made.
LEMMA QueryAt ==
  ASSUME NEW q \in 1 .. 12
  PROVE  LET t == Tables[(q - 1) \div Len(Sections) + 1]
             section == Sections[((q - 1) % Len(Sections)) + 1] IN
         /\ t \in {"pos_deposit", "pos_payment", "cash_deposit", "cash_payment"}
         /\ section \in {"decided", "IN_PROGRESS", "PENDING"}
         /\ q = Position(t) + (IF section = "decided" THEN 1 ELSE Place(section))
<1>1. Len(Sections) = 3
  BY DEF Sections
<1>2. q \in {1, 2, 3} \/ q \in {4, 5, 6} \/ q \in {7, 8, 9} \/ q \in {10, 11, 12}
  OBVIOUS
<1>3. CASE q \in {1, 2, 3}
  BY <1>1, <1>3 DEF Tables, Sections, Position, Place, Decided
<1>4. CASE q \in {4, 5, 6}
  BY <1>1, <1>4 DEF Tables, Sections, Position, Place, Decided
<1>5. CASE q \in {7, 8, 9}
  BY <1>1, <1>5 DEF Tables, Sections, Position, Place, Decided
<1>6. CASE q \in {10, 11, 12}
  BY <1>1, <1>6 DEF Tables, Sections, Position, Place, Decided
<1> QED BY <1>2, <1>3, <1>4, <1>5, <1>6

\* A query finds the rows that have its table and its status and its dates.
LEMMA QueryFinds ==
  ASSUME TypeOK, NEW t \in {"pos_deposit", "pos_payment", "cash_deposit", "cash_payment"},
         NEW section \in {"decided", "IN_PROGRESS", "PENDING"}, NEW from, NEW to, NEW q,
         q = Position(t) + (IF section = "decided" THEN 1 ELSE Place(section))
  PROVE  Query(t, section, from, to) = Found(q, from, to)
<1>1. Query(t, section, from, to) = Read({x \in Table(t) : InSection(x, section, from, to)})
  BY DEF Query, FindPayments, FindPosDeposits, FindCashDeposits, Payments
<1>2. ASSUME NEW x \in Rows
      PROVE  (x \in Table(t) /\ InSection(x, section, from, to))
               <=> (/\ status[x] # "ABSENT" /\ QueryOf(x, status[x]) = q
                    /\ InWindow(x, from, to))
  <2>1. status[x] \in Statuses
    BY DEF TypeOK
  <2>2. Row[x].table \in {"pos_deposit", "pos_payment", "cash_deposit", "cash_payment"}
    BY PipelineAssumption DEF PipelineAssumption, ReportsAssumption, Deposits, Payments
  <2>3. status[x] # "ABSENT" =>
          (QueryOf(x, status[x]) = q <=>
             /\ Row[x].table = t
             /\ section = IF status[x] \in Decided THEN "decided" ELSE status[x])
    BY <2>1, <2>2 DEF QueryOf, Position, Place, Statuses, Decided
  <2> QED BY <2>1, <2>2, <2>3 DEF Table, InSection, InWindow, Statuses, Decided
<1>3. {x \in Table(t) : InSection(x, section, from, to)} =
        {x \in Rows : /\ status[x] # "ABSENT" /\ QueryOf(x, status[x]) = q
                      /\ InWindow(x, from, to)}
  BY <1>2 DEF Table
<1> QED BY <1>1, <1>3 DEF Read, Found

\* Every query of a row is one of the twelve.
LEMMA QueryRange ==
  ASSUME NEW x \in Rows, NEW s
  PROVE  QueryOf(x, s) \in 1 .. 12
BY DEF QueryOf, Position, Place

\* A step of ReadRows is one query.
LEMMA ReadRowsFinds ==
  ASSUME TypeOK, ReadRows
  PROVE  /\ report \in ReportState /\ report.query \in 1 .. 12
         /\ report' = [report EXCEPT !.query = @ + 1,
                         !.rows = @ \cup Found(report.query, report.from, report.to)]
<1>1. report \in ReportState /\ report.query \in 1 .. 12
  BY QueryCount DEF TypeOK, ReadRows, ReportState
<1> DEFINE t == Tables[(report.query - 1) \div Len(Sections) + 1]
           section == Sections[((report.query - 1) % Len(Sections)) + 1]
<1>2. /\ t \in {"pos_deposit", "pos_payment", "cash_deposit", "cash_payment"}
      /\ section \in {"decided", "IN_PROGRESS", "PENDING"}
      /\ report.query = Position(t) + (IF section = "decided" THEN 1 ELSE Place(section))
  BY <1>1, QueryAt
<1>3. report' = [report EXCEPT !.query = @ + 1,
                   !.rows = @ \cup Query(t, section, report.from, report.to)]
  BY DEF ReadRows
<1> HIDE DEF t, section
<1>4. Query(t, section, report.from, report.to) = Found(report.query, report.from, report.to)
  BY <1>2, QueryFinds
<1> QED BY <1>1, <1>3, <1>4
-----------------------------------------------------------------------------
\* What only moves files and messages leaves the tables and the report alone.
LEMMA TablesAlone ==
  ASSUME PaidFirst, ReadBehind, ReportedOnce, PaymentsShown, RestingSeen,
         UNCHANGED <<tables, report>>
  PROVE  (PaidFirst /\ ReadBehind /\ ReportedOnce /\ PaymentsShown /\ RestingSeen)'
BY DEF tables, PaidFirst, ReadBehind, ReportedOnce, PaymentsShown, RestingSeen, InWindow, Details,
       QueryOf

LEMMA InitHolds ==
  ASSUME Init
  PROVE  IInv
<1>1. \A f \in Files : {} \in SUBSET Rows
  OBVIOUS
<1>2. TypeOK
  BY PipelineAssumption DEF Init, Parser!Init, TypeOK, Statuses, PipelineAssumption
<1>3. GateOpen /\ PaidFirst /\ ReadBehind /\ ReportedOnce /\ PaymentsShown /\ RestingSeen
  BY PipelineAssumption
  DEF Init, GateOpen, PaidFirst, ReadBehind, ReportedOnce, PaymentsShown, RestingSeen,
      PipelineAssumption
<1> QED BY <1>2, <1>3 DEF IInv

\* Files are recorded and let go, and messages come: uploads only grow.
LEMMA ParseFileHolds ==
  ASSUME IInv, ParseFile
  PROVE  IInv'
<1> DEFINE Grows == /\ uploaded \subseteq uploaded' /\ uploaded' \subseteq Files
                    /\ atHand' \subseteq uploaded' /\ saved' = saved
                    /\ messages \subseteq messages' /\ messages' \subseteq Messages
<1>1. Grows
  <2>1. ASSUME NEW f \in Files, Parser!Record(f) PROVE Grows
    BY <2>1 DEF IInv, TypeOK, Parser!Record
  <2>2. ASSUME Parser!LetGo PROVE Grows
    BY <2>2 DEF IInv, TypeOK, Parser!LetGo
  <2>3. ASSUME NEW d \in Dates, Parser!Publish(d) PROVE Grows
    <3>1. [date |-> d, byPass |-> FALSE] \in Messages
      BY DEF Messages
    <3> QED BY <2>3, <3>1 DEF IInv, TypeOK, Parser!Publish
  <2> QED BY <2>1, <2>2, <2>3 DEF ParseFile
<1>2. UNCHANGED <<tables, report, batch, run, reportTopic>>
  BY DEF ParseFile
<1>3. TypeOK'
  BY <1>1, <1>2 DEF IInv, TypeOK, tables
<1>4. GateOpen'
  BY <1>1, <1>2 DEF IInv, GateOpen, FileCheck, UploadedTypes
<1> QED BY <1>2, <1>3, <1>4, TablesAlone DEF IInv

\* A line is saved: its row was not there, so nothing has read it.
LEMMA InsertHolds ==
  ASSUME IInv, NEW x \in Rows, Insert(x)
  PROVE  IInv'
<1>1. PICK f \in Files : Parser!SaveLine(f, x)
  BY DEF Insert
<1>2. /\ f \in uploaded /\ x \in LinesOf[f] /\ x \notin saved[f]
      /\ saved' = [saved EXCEPT ![f] = @ \cup {x}]
      /\ UNCHANGED <<uploaded, atHand, messages>>
  BY <1>1 DEF Parser!SaveLine, FileLines
<1>3. status[x] = "ABSENT" /\ stamp[x] = NoRun
  BY <1>2, PipelineAssumption DEF IInv, TypeOK, PipelineAssumption
<1>4. /\ status' = [status EXCEPT ![x] = "PENDING"] /\ stamp' = stamp
      /\ UNCHANGED <<batch, run, reportTopic>>
      /\ report' = IF report = NoReport THEN NoReport
                   ELSE [report EXCEPT !.resting = {r \in @ : r[1] # x}]
  BY DEF Insert, Touch
<1>5. \A y \in Rows : status'[y] = IF y = x THEN "PENDING" ELSE status[y]
  BY <1>4 DEF IInv, TypeOK
<1>6. TypeOK'
  <2>1. saved' \in [Files -> SUBSET Rows] /\ \A g \in Files :
          saved'[g] \subseteq LinesOf[g] /\ (saved'[g] # {} => g \in uploaded')
    BY <1>2 DEF IInv, TypeOK
  <2>2. status' \in [Rows -> Statuses] /\ stamp' \in [Rows -> Dates \cup {NoRun}]
    BY <1>4 DEF IInv, TypeOK, Statuses
  <2>3. \A y \in Rows : status'[y] # "ABSENT" <=> \E g \in Files : y \in saved'[g]
    BY <1>2, <1>5 DEF IInv, TypeOK
  <2>4. \A y \in Rows : status'[y] \in {"ABSENT", "PENDING"} <=> stamp'[y] = NoRun
    BY <1>3, <1>4, <1>5 DEF IInv, TypeOK
  <2>5. report' = NoReport \/ report' \in ReportState
    BY <1>4 DEF IInv, TypeOK, ReportState
  <2> QED BY <1>2, <1>4, <2>1, <2>2, <2>3, <2>4, <2>5 DEF IInv, TypeOK
<1>7. GateOpen'
  BY <1>2, <1>4 DEF IInv, GateOpen, FileCheck, UploadedTypes
<1>8. PaidFirst'
  BY <1>3, <1>4, <1>5, PipelineAssumption DEF IInv, PaidFirst, PipelineAssumption
<1>9. CASE report = NoReport
  BY <1>4, <1>6, <1>7, <1>8, <1>9
  DEF IInv, ReadBehind, ReportedOnce, PaymentsShown, RestingSeen
<1>10. CASE report # NoReport
  <2>1. /\ report' # NoReport /\ report'.rows = report.rows /\ report'.query = report.query
        /\ report'.from = report.from /\ report'.to = report.to
        /\ report'.resting = {r \in report.resting : r[1] # x}
    BY <1>4, <1>6, <1>10, PipelineAssumption DEF IInv, TypeOK, ReportState, PipelineAssumption
  <2>2. \A y \in Rows : y # x => \A from, to : InWindow(y, from, to)' <=> InWindow(y, from, to)
    BY <1>4, <1>5 DEF InWindow
  <2>3. \A r \in report.rows \cup report.resting : r[1] \in Rows
    BY <1>10 DEF IInv, TypeOK, ReportState
  <2>4. \A r \in report.rows : r[1] # x
    BY <1>3, <1>10 DEF IInv, ReadBehind
  <2>5. ReadBehind'
    BY <1>5, <2>1, <2>2, <2>3, <2>4, <1>10 DEF IInv, ReadBehind, QueryOf
  <2>6. ReportedOnce' /\ PaymentsShown'
    BY <2>1, <1>10 DEF IInv, ReportedOnce, PaymentsShown, Details, QueryOf
  <2>7. RestingSeen'
    BY <1>5, <2>1, <2>2, <2>3, <1>10 DEF IInv, RestingSeen, QueryOf
  <2> QED BY <1>6, <1>7, <1>8, <2>5, <2>6, <2>7 DEF IInv
<1> QED BY <1>9, <1>10
-----------------------------------------------------------------------------
\* Messages come and go; a run that starts has passed the check or bypasses it.
LEMMA MessagesHold ==
  ASSUME IInv,
         \/ \E d \in Dates : BatchPublish(d)
         \/ \E m \in messages : StartRun(m)
         \/ GenerateReport \/ EndRun
  PROVE  IInv'
<1>1. ASSUME NEW d \in Dates, BatchPublish(d) PROVE IInv'
  <2>1. [date |-> d, byPass |-> BatchByPass] \in Messages
    BY PipelineAssumption DEF PipelineAssumption, Messages
  <2>2. TypeOK'
    BY <1>1, <2>1 DEF IInv, TypeOK, BatchPublish, tables
  <2>3. GateOpen'
    BY <1>1 DEF IInv, GateOpen, BatchPublish, FileCheck, UploadedTypes
  <2> QED BY <1>1, <2>2, <2>3, TablesAlone DEF IInv, BatchPublish
<1>2. ASSUME NEW m \in messages, StartRun(m) PROVE IInv'
  <2>1. TypeOK'
    BY <1>2 DEF IInv, TypeOK, StartRun, tables
  <2>2. GateOpen'
    BY <1>2 DEF IInv, GateOpen, StartRun, FileCheck, UploadedTypes
  <2> QED BY <1>2, <2>1, <2>2, TablesAlone DEF IInv, StartRun
<1>3. ASSUME GenerateReport \/ EndRun PROVE IInv'
  <2>1. /\ run # NoRun /\ run' = NoRun /\ UNCHANGED <<tables, report, uploaded, saved, atHand, messages, batch>>
        /\ reportTopic' \in {reportTopic, reportTopic \cup {run.date}}
    BY <1>3 DEF GenerateReport, EndRun
  <2>2. run.date \in Dates
    BY <2>1 DEF IInv, TypeOK, Messages
  <2>3. TypeOK'
    BY <2>1, <2>2 DEF IInv, TypeOK, tables
  <2>4. GateOpen'
    BY <2>1 DEF GateOpen
  <2> QED BY <2>1, <2>3, <2>4, TablesAlone DEF IInv
<1> QED BY <1>1, <1>2, <1>3

\* A row is written: it was open, and if a report has read it, it was read as
\* what it was or as what it had been before.
LEMMA ReconcileHolds ==
  ASSUME IInv, NEW x \in Rows, Reconcile(x)
  PROVE  IInv'
<1>1. PICK s \in Outcomes(x) :
        /\ s = "MATCH" /\ x \in DOMAIN PaidBy =>
             \A p \in PaidBy[x] : status[p] = "MATCH" /\ stamp[p] = run.date
        /\ status' = [status EXCEPT ![x] = s]
  BY DEF Reconcile
<1>2. /\ run # NoRun /\ stamp' = [stamp EXCEPT ![x] = run.date]
      /\ UNCHANGED <<uploaded, saved, atHand, messages, batch, run, reportTopic>>
      /\ report' = IF report = NoReport THEN NoReport
                   ELSE [report EXCEPT !.resting = {r \in @ : r[1] # x}]
  BY DEF Reconcile, Touch
<1>3. /\ status[x] \in {"PENDING", "IN_PROGRESS"}
      /\ s \in {"IN_PROGRESS"} \cup Decided /\ Place(s) <= Place(status[x])
  <2>1. status[x] \in {"PENDING", "IN_PROGRESS"}
    BY <1>1 DEF Outcomes, Decided, IInv, TypeOK, Statuses
  <2>2. CASE status[x] = "PENDING"
    BY <1>1, <2>2 DEF Outcomes, Decided, Place
  <2>3. CASE status[x] = "IN_PROGRESS"
    BY <1>1, <2>3 DEF Outcomes, Decided, Place
  <2> QED BY <2>1, <2>2, <2>3
<1>4. run.date \in Dates /\ run.date # NoRun
  BY <1>2, PipelineAssumption DEF IInv, TypeOK, Messages, PipelineAssumption
<1>5. \A y \in Rows : /\ status'[y] = IF y = x THEN s ELSE status[y]
                      /\ stamp'[y] = IF y = x THEN run.date ELSE stamp[y]
  BY <1>1, <1>2 DEF IInv, TypeOK
<1>6. TypeOK'
  <2>1. status' \in [Rows -> Statuses] /\ stamp' \in [Rows -> Dates \cup {NoRun}]
    BY <1>1, <1>2, <1>3, <1>4 DEF IInv, TypeOK, Statuses
  <2>2. \A y \in Rows : /\ status'[y] # "ABSENT" <=> \E g \in Files : y \in saved'[g]
                        /\ status'[y] \in {"ABSENT", "PENDING"} <=> stamp'[y] = NoRun
    BY <1>2, <1>3, <1>4, <1>5 DEF IInv, TypeOK, Decided
  <2>3. report' = NoReport \/ report' \in ReportState
    BY <1>2 DEF IInv, TypeOK, ReportState
  <2> QED BY <1>2, <2>1, <2>2, <2>3 DEF IInv, TypeOK
<1>7. GateOpen'
  BY <1>2 DEF IInv, GateOpen, FileCheck, UploadedTypes
<1>8. PaidFirst'
  <2>1. \A y \in DOMAIN PaidBy : y \in Rows /\ \A p \in PaidBy[y] : p \in Rows /\ p # y
    BY PipelineAssumption DEF PipelineAssumption
  <2> QED BY <1>1, <1>3, <1>5, <2>1 DEF IInv, PaidFirst, Decided
<1>9. CASE report = NoReport
  BY <1>2, <1>6, <1>7, <1>8, <1>9
  DEF IInv, ReadBehind, ReportedOnce, PaymentsShown, RestingSeen
<1>10. CASE report # NoReport
  <2>1. /\ report' # NoReport /\ report'.rows = report.rows /\ report'.query = report.query
        /\ report'.from = report.from /\ report'.to = report.to
        /\ report'.resting = {r \in report.resting : r[1] # x}
    BY <1>2, <1>6, <1>10, PipelineAssumption DEF IInv, TypeOK, ReportState, PipelineAssumption
  <2>2. \A y \in Rows : y # x => \A from, to : InWindow(y, from, to)' <=> InWindow(y, from, to)
    BY <1>5 DEF InWindow
  <2>3. \A r \in report.rows \cup report.resting : r[1] \in Rows /\ r[2] \in Statuses
    BY <1>10 DEF IInv, TypeOK, ReportState
  <2>4. \A r \in report.rows : r[1] = x => r[2] \notin Decided
    BY <1>3, <1>10 DEF IInv, ReadBehind, Decided
  <2>5. ReadBehind'
    <3>1. \A r \in report.rows : Place(status'[r[1]]) <= Place(r[2]) /\ status'[r[1]] # "ABSENT"
      BY <1>3, <1>5, <1>10, <2>3 DEF IInv, ReadBehind, Place, Decided
    <3>2. \A r \in report.rows : r[2] \in Decided =>
            status'[r[1]] = r[2] /\ InWindow(r[1], report.from, report.to)'
      BY <1>5, <1>10, <2>1, <2>2, <2>3, <2>4 DEF IInv, ReadBehind
    <3> QED BY <2>1, <3>1, <3>2, <1>10 DEF IInv, ReadBehind, QueryOf
  <2>6. ReportedOnce' /\ PaymentsShown'
    BY <2>1, <1>10 DEF IInv, ReportedOnce, PaymentsShown, Details, QueryOf
  <2>7. RestingSeen'
    BY <1>5, <2>1, <2>2, <2>3, <1>10 DEF IInv, RestingSeen, QueryOf
  <2> QED BY <1>6, <1>7, <1>8, <2>5, <2>6, <2>7 DEF IInv
<1> QED BY <1>9, <1>10
-----------------------------------------------------------------------------
\* The next query adds rows of its own status only, so none that is there: those
\* were read with a status from which no row comes back to this one.
LEMMA ReadRowsHolds ==
  ASSUME IInv, ReadRows, UNCHANGED <<uploaded, saved, atHand, messages, batch, run, reportTopic>>
  PROVE  IInv'
<1> DEFINE q == report.query
           found == Found(report.query, report.from, report.to)
<1>1. /\ report \in ReportState /\ q \in 1 .. 12
      /\ report' = [report EXCEPT !.query = @ + 1, !.rows = @ \cup found]
  BY ReadRowsFinds DEF IInv
<1>2. UNCHANGED <<status, stamp>>
  BY DEF ReadRows
<1>3. \A r \in found : /\ r[1] \in Rows /\ r[2] = status[r[1]] /\ r = <<r[1], r[2]>>
                       /\ r[2] \in Statuses /\ r[2] # "ABSENT"
                       /\ QueryOf(r[1], r[2]) = q /\ InWindow(r[1], report.from, report.to)
  BY DEF Found, IInv, TypeOK
<1>4. \A x \in Rows : (/\ status[x] # "ABSENT" /\ QueryOf(x, status[x]) = q
                       /\ InWindow(x, report.from, report.to)) => <<x, status[x]>> \in found
  BY DEF Found
<1> HIDE DEF found
<1>5. found \subseteq Rows \X Statuses
  BY <1>3
<1>6. /\ report # NoReport /\ report'.rows = report.rows \cup found /\ report'.query = q + 1
      /\ report'.from = report.from /\ report'.to = report.to
      /\ report'.resting = report.resting /\ report' \in ReportState
  <2>1. report # NoReport
    BY DEF ReadRows
  <2>2. /\ report'.rows = report.rows \cup found /\ report'.query = q + 1
        /\ report'.from = report.from /\ report'.to = report.to
        /\ report'.resting = report.resting /\ report' \in ReportState
    <3> DEFINE counted == [report EXCEPT !.query = q + 1]
    <3>1. /\ counted \in ReportState /\ counted.query = q + 1 /\ counted.rows = report.rows
          /\ counted.from = report.from /\ counted.to = report.to
          /\ counted.resting = report.resting
      BY <1>1, QueryCount DEF ReportState
    <3>2. report' = [counted EXCEPT !.rows = report.rows \cup found]
      BY <1>1
    <3> HIDE DEF counted
    <3> QED BY <1>1, <1>5, <3>1, <3>2 DEF ReportState
  <2> QED BY <2>1, <2>2
<1>7. TypeOK'
  BY <1>2, <1>6 DEF IInv, TypeOK
<1>8. GateOpen' /\ PaidFirst'
  BY <1>2 DEF IInv, GateOpen, FileCheck, UploadedTypes, PaidFirst
<1>9. \A x, from, to : InWindow(x, from, to)' <=> InWindow(x, from, to)
  BY <1>2 DEF InWindow
<1>10. \A r \in report.rows \cup report.resting :
         r[1] \in Rows /\ r[2] \in Statuses /\ r = <<r[1], r[2]>>
  BY <1>1 DEF ReportState
<1>11. \A x, s : QueryOf(x, s)' = QueryOf(x, s)
  BY DEF QueryOf
<1>12. \A x \in Rows, s \in Statuses : QueryOf(x, s) \in 1 .. 12
  BY QueryRange
<1>13. ReadBehind'
  <2>1. \A r \in found : /\ QueryOf(r[1], r[2]) < q + 1 /\ Place(status[r[1]]) <= Place(r[2])
    BY <1>1, <1>3 DEF Place
  <2>2. \A r \in report.rows : QueryOf(r[1], r[2]) < q + 1
    BY <1>1, <1>6, <1>10, <1>12 DEF IInv, ReadBehind
  <2> QED BY <1>2, <1>3, <1>6, <1>9, <1>11, <2>1, <2>2 DEF IInv, ReadBehind
<1>14. ReportedOnce'
  <2>1. ASSUME NEW r \in report.rows, NEW t \in found, r[1] = t[1] PROVE FALSE
    <3>1. /\ QueryOf(r[1], r[2]) < q /\ Place(status[r[1]]) <= Place(r[2])
          /\ QueryOf(r[1], status[r[1]]) = q
      BY <1>3, <1>6, <2>1 DEF IInv, ReadBehind
    <3> QED BY <3>1 DEF QueryOf, Place, Position
  <2>2. \A r, t \in found : r[1] = t[1] => r = t
    BY <1>3
  <2> QED BY <1>6, <2>1, <2>2 DEF IInv, ReportedOnce, Details
<1>15. PaymentsShown'
  <2> SUFFICES ASSUME NEW x \in DOMAIN PaidBy, <<x, "MATCH">> \in report'.rows,
                      NEW p \in PaidBy[x], QueryOf(p, "MATCH") < q + 1
               PROVE  <<p, "MATCH">> \in report'.rows
    BY <1>6, <1>11 DEF PaymentsShown
  <2>1. x \in Rows /\ p \in Rows /\ QueryOf(x, "MATCH") < QueryOf(p, "MATCH")
    BY PipelineAssumption DEF PipelineAssumption, QueryOf, Position, Place
  <2>2. QueryOf(x, "MATCH") \in 1 .. 12 /\ QueryOf(p, "MATCH") \in 1 .. 12
    BY <1>12, <2>1 DEF Statuses, Decided
  <2>3. <<x, "MATCH">> \in report.rows
    BY <1>1, <1>3, <1>6, <2>1, <2>2
  <2>4. CASE QueryOf(p, "MATCH") < q
    BY <1>6, <2>3, <2>4 DEF IInv, PaymentsShown
  <2>5. CASE QueryOf(p, "MATCH") = q
    <3>1. status[x] = "MATCH" /\ InWindow(x, report.from, report.to)
      BY <1>6, <2>3 DEF IInv, ReadBehind, Decided
    <3>2. status[p] = "MATCH" /\ stamp[p] = stamp[x]
      BY <3>1 DEF IInv, PaidFirst
    <3>3. InWindow(p, report.from, report.to)
      BY <3>1, <3>2 DEF InWindow, Decided
    <3> QED BY <1>4, <1>6, <2>1, <2>5, <3>2, <3>3
  <2> QED BY <1>1, <2>2, <2>4, <2>5
<1>16. RestingSeen'
  <2> SUFFICES ASSUME NEW r \in report.resting
               PROVE  /\ r[2] # "ABSENT" /\ status[r[1]] = r[2]
                      /\ QueryOf(r[1], r[2]) < q + 1 /\ InWindow(r[1], report.from, report.to)
                           => r \in report'.rows
    BY <1>2, <1>6, <1>9, <1>11 DEF RestingSeen
  <2>1. /\ r[2] # "ABSENT" /\ status[r[1]] = r[2]
        /\ QueryOf(r[1], r[2]) < q /\ InWindow(r[1], report.from, report.to) => r \in report.rows
    BY <1>6 DEF IInv, RestingSeen
  <2>2. CASE QueryOf(r[1], r[2]) = q
    BY <1>4, <1>6, <1>10, <2>1, <2>2
  <2>3. QueryOf(r[1], r[2]) \in 1 .. 12
    BY <1>10, <1>12
  <2> QED BY <1>1, <1>6, <2>1, <2>2, <2>3
<1> QED BY <1>7, <1>8, <1>13, <1>14, <1>15, <1>16 DEF IInv

\* The rest of a report: its beginning, the deposits of the month, its end.
LEMMA ReportHolds ==
  ASSUME IInv, Report
  PROVE  IInv'
<1>1. UNCHANGED <<uploaded, saved, atHand, messages, batch, run, reportTopic>>
  BY DEF Report
<1>2. CASE ReadRows
  BY <1>1, <1>2, ReadRowsHolds
<1>3. ASSUME NEW to \in reportTopic, StartReport(to) PROVE IInv'
  <2>1. UNCHANGED <<status, stamp>> /\ to \in Int /\ to - PeriodDays \in Int
    BY <1>3, PipelineAssumption DEF StartReport, IInv, TypeOK, PipelineAssumption
  <2> DEFINE resting == Read({x \in Rows : status[x] # "ABSENT"})
  <2>2. /\ resting \subseteq Rows \X Statuses
        /\ \A r \in resting : r[1] \in Rows /\ r[2] # "ABSENT" /\ status[r[1]] = r[2]
    BY DEF Read, IInv, TypeOK
  <2>3. report' = [from |-> to - PeriodDays, to |-> to, query |-> 1, rows |-> {}, month |-> {},
                   resting |-> resting]
    BY <1>3 DEF StartReport
  <2> HIDE DEF resting
  <2>4. /\ report' \in ReportState /\ report'.rows = {} /\ report'.query = 1
        /\ report'.resting = resting
    BY <2>1, <2>2, <2>3, QueryCount DEF ReportState
  <2>5. TypeOK'
    BY <1>1, <2>1, <2>4 DEF IInv, TypeOK
  <2>6. GateOpen' /\ PaidFirst'
    BY <1>1, <2>1 DEF IInv, GateOpen, FileCheck, UploadedTypes, PaidFirst
  <2>7. ReadBehind' /\ ReportedOnce' /\ PaymentsShown'
    BY <2>4 DEF ReadBehind, ReportedOnce, PaymentsShown, Details
  <2>8. \A r \in resting : ~(QueryOf(r[1], r[2])' < 1)
    BY <2>2, QueryRange DEF QueryOf
  <2>9. RestingSeen'
    BY <2>1, <2>2, <2>4, <2>8 DEF RestingSeen
  <2> QED BY <2>5, <2>6, <2>7, <2>9 DEF IInv
<1>4. ASSUME ReadMonth PROVE IInv'
  <2> DEFINE found == IF report.query = LastQuery + 1 THEN CashOfMonth(report.from, report.to)
                                                    ELSE PosOfMonth(report.from, report.to)
  <2>1. /\ UNCHANGED <<status, stamp>> /\ report # NoReport /\ report.query \in {13, 14}
        /\ report' = [report EXCEPT !.query = @ + 1, !.month = @ \cup found]
    BY <1>4, QueryCount DEF ReadMonth
  <2>2. found \subseteq Rows /\ report \in ReportState
    BY <2>1 DEF CashOfMonth, PosOfMonth, Table, IInv, TypeOK
  <2> HIDE DEF found
  <2>3. /\ report' \in ReportState /\ report'.rows = report.rows /\ report'.query = report.query + 1
        /\ report'.resting = report.resting /\ report'.from = report.from /\ report'.to = report.to
    <3> DEFINE counted == [report EXCEPT !.query = report.query + 1]
    <3>1. /\ counted \in ReportState /\ counted.query = report.query + 1
          /\ counted.rows = report.rows /\ counted.resting = report.resting
          /\ counted.from = report.from /\ counted.to = report.to
      BY <2>1, <2>2, QueryCount DEF ReportState
    <3>2. report' = [counted EXCEPT !.month = report.month \cup found]
      BY <2>1
    <3> HIDE DEF counted
    <3> QED BY <2>2, <3>1, <3>2 DEF ReportState
  <2>4. TypeOK'
    BY <1>1, <2>1, <2>3 DEF IInv, TypeOK
  <2>5. GateOpen' /\ PaidFirst'
    BY <1>1, <2>1 DEF IInv, GateOpen, FileCheck, UploadedTypes, PaidFirst
  <2>6. \A x, from, to : InWindow(x, from, to)' <=> InWindow(x, from, to)
    BY <2>1 DEF InWindow
  <2>7. /\ \A x \in Rows : \A s : QueryOf(x, s) < report.query /\ QueryOf(x, s) < report.query + 1
        /\ \A r \in report.rows \cup report.resting : r[1] \in Rows
        /\ \A x \in DOMAIN PaidBy : \A p \in PaidBy[x] : p \in Rows
    BY <2>1, <2>2, QueryRange, PipelineAssumption DEF ReportState, PipelineAssumption
  <2>8. ReadBehind'
    BY <2>1, <2>3, <2>6, <2>7 DEF IInv, ReadBehind, QueryOf
  <2>9. ReportedOnce' /\ PaymentsShown'
    BY <2>1, <2>3, <2>7 DEF IInv, ReportedOnce, PaymentsShown, Details
  <2>10. RestingSeen'
    BY <2>1, <2>3, <2>6, <2>7 DEF IInv, RestingSeen
  <2> QED BY <2>4, <2>5, <2>8, <2>9, <2>10 DEF IInv
<1>5. ASSUME EndReport PROVE IInv'
  <2>1. report' = NoReport /\ UNCHANGED <<status, stamp>>
    BY <1>5 DEF EndReport
  <2>2. TypeOK' /\ GateOpen' /\ PaidFirst'
    BY <1>1, <2>1 DEF IInv, TypeOK, GateOpen, FileCheck, UploadedTypes, PaidFirst
  <2> QED BY <2>1, <2>2 DEF IInv, ReadBehind, ReportedOnce, PaymentsShown, RestingSeen
<1> QED BY <1>2, <1>3, <1>4, <1>5 DEF Report, ReadReport
-----------------------------------------------------------------------------
LEMMA NextHolds ==
  ASSUME IInv, [Next]_pipelineVars
  PROVE  IInv'
<1>1. CASE UNCHANGED pipelineVars
  <2>1. UNCHANGED <<tables, report>>
    BY <1>1 DEF pipelineVars
  <2>2. TypeOK' /\ GateOpen'
    BY <1>1 DEF pipelineVars, tables, IInv, TypeOK, GateOpen, FileCheck, UploadedTypes
  <2> QED BY <2>1, <2>2, TablesAlone DEF IInv
<1>2. CASE Next
  BY <1>2, ParseFileHolds, InsertHolds, MessagesHold, ReconcileHolds, ReportHolds DEF Next
<1> QED BY <1>1, <1>2

LEMMA Inductive == Spec => []IInv
<1>1. Init => IInv
  BY InitHolds
<1>2. IInv /\ [Next]_pipelineVars => IInv'
  BY NextHolds
<1> QED BY <1>1, <1>2, PTL DEF Spec

\* Three days in a row are not all in a weekend.
LEMMA PrevIsBefore ==
  ASSUME NEW day \in Int
  PROVE  PrevBusinessDay(day) \in Int /\ PrevBusinessDay(day) < day
<1> DEFINE S == {d \in (day - 3) .. (day - 1) : ~IsWeekend(d)}
<1>1. PICK m \in S : \A d \in S : m >= d
  <2>1. ~IsWeekend(day - 1) \/ ~IsWeekend(day - 2) \/ ~IsWeekend(day - 3)
    BY DEF IsWeekend
  <2>2. CASE ~IsWeekend(day - 1)
    BY <2>2
  <2>3. CASE IsWeekend(day - 1) /\ ~IsWeekend(day - 2)
    <3>1. day - 2 \in S /\ \A d \in S : d # day - 1 /\ d \in (day - 3) .. (day - 1)
      BY <2>3
    <3>2. \A d \in S : day - 2 >= d
      BY <3>1
    <3> QED BY <3>1, <3>2
  <2>4. CASE IsWeekend(day - 1) /\ IsWeekend(day - 2) /\ ~IsWeekend(day - 3)
    <3>1. day - 3 \in S /\ \A d \in S : d \notin {day - 1, day - 2} /\ d \in (day - 3) .. (day - 1)
      BY <2>4
    <3>2. \A d \in S : day - 3 >= d
      BY <3>1
    <3> QED BY <3>1, <3>2
  <2> QED BY <2>1, <2>2, <2>3, <2>4
<1>2. Max(S) \in S
  BY <1>1 DEF Max
<1> QED BY <1>2 DEF PrevBusinessDay

LEMMA NextIsAfter ==
  ASSUME NEW day \in Int
  PROVE  NextBusinessDay(day) \in Int /\ day < NextBusinessDay(day)
<1> DEFINE S == {d \in (day + 1) .. (day + 3) : ~IsWeekend(d)}
<1>1. PICK m \in S : \A d \in S : m <= d
  <2>1. ~IsWeekend(day + 1) \/ ~IsWeekend(day + 2) \/ ~IsWeekend(day + 3)
    BY DEF IsWeekend
  <2>2. CASE ~IsWeekend(day + 1)
    BY <2>2
  <2>3. CASE IsWeekend(day + 1) /\ ~IsWeekend(day + 2)
    <3>1. day + 2 \in S /\ \A d \in S : d # day + 1 /\ d \in (day + 1) .. (day + 3)
      BY <2>3
    <3>2. \A d \in S : day + 2 <= d
      BY <3>1
    <3> QED BY <3>1, <3>2
  <2>4. CASE IsWeekend(day + 1) /\ IsWeekend(day + 2) /\ ~IsWeekend(day + 3)
    <3>1. day + 3 \in S /\ \A d \in S : d \notin {day + 1, day + 2} /\ d \in (day + 1) .. (day + 3)
      BY <2>4
    <3>2. \A d \in S : day + 3 <= d
      BY <3>1
    <3> QED BY <3>1, <3>2
  <2> QED BY <2>1, <2>2, <2>3, <2>4
<1>2. Min(S) \in S
  BY <1>1 DEF Min
<1> QED BY <1>2 DEF NextBusinessDay
-----------------------------------------------------------------------------
\* A rounded share of a whole is at most the whole.
LEMMA Quotient ==
  ASSUME NEW a \in Nat, NEW b \in Nat, NEW h \in Nat, b > 0, a < (h + 1) * b
  PROVE  a \div b \in 0 .. h
OBVIOUS

LEMMA PercentInRange ==
  ASSUME NEW part, NEW total, part \in Nat, total \in Nat, part <= total
  PROVE  Percent(part, total) \in 0 .. HundredPercent
<1>0. HundredPercent \in Nat
  BY DEF HundredPercent
<1>1. CASE total = 0
  BY <1>0, <1>1 DEF Percent
<1>2. CASE total # 0
  <2>. DEFINE a == 2 * HundredPercent * part + total
              b == 2 * total
  <2>1. a \in Nat /\ b \in Nat /\ b > 0 /\ a < (HundredPercent + 1) * b
    BY <1>2 DEF HundredPercent
  <2>2. Percent(part, total) = a \div b
    BY <1>2 DEF Percent
  <2>. HIDE DEF a, b
  <2>3. a \div b \in 0 .. HundredPercent
    BY <1>0, <2>1, Quotient
  <2>. QED
    BY <2>2, <2>3
<1>. QED
  BY <1>1, <1>2
-----------------------------------------------------------------------------
LEMMA StatusesAreFinite == IsFiniteSet(Statuses)
<1>1. Statuses = ((({} \cup {"ABSENT"}) \cup {"PENDING"}) \cup {"IN_PROGRESS"})
                   \cup {"MATCH"} \cup {"EXCEPTION"}
  BY DEF Statuses, Decided
<1>. QED
  BY <1>1, FS_EmptySet, FS_AddElement

\* What a report has read is finite: a row in a table and a status.
LEMMA ReadIsFinite ==
  ASSUME TypeOK, report # NoReport
  PROVE  /\ report.rows \subseteq Rows \X Statuses /\ report.month \subseteq Rows
         /\ IsFiniteSet(report.rows) /\ IsFiniteSet(report.month)
         /\ \A r \in report.rows : /\ r[1] \in Rows /\ r[2] \in Statuses /\ r = <<r[1], r[2]>>
                                   /\ Row[r[1]].amount \in Int
                                   /\ Row[r[1]].table \in Deposits \cup Payments
<1>1. report.rows \subseteq Rows \X Statuses /\ report.month \subseteq Rows
  BY DEF TypeOK, ReportState
<1>2. IsFiniteSet(Rows)
  BY PipelineAssumption DEF PipelineAssumption, ReportsAssumption
<1>4. IsFiniteSet(Rows \X Statuses)
  BY <1>2, StatusesAreFinite, FS_Product
<1>5. IsFiniteSet(report.rows) /\ IsFiniteSet(report.month)
  BY <1>1, <1>2, <1>4, FS_Subset
<1>6. \A r \in report.rows : /\ r[1] \in Rows /\ r[2] \in Statuses /\ r = <<r[1], r[2]>>
                             /\ Row[r[1]].amount \in Int
                             /\ Row[r[1]].table \in Deposits \cup Payments
  BY <1>1, PipelineAssumption DEF PipelineAssumption, ReportsAssumption
<1>. QED
  BY <1>1, <1>5, <1>6

AmountOf == [r \in report.rows |-> Row[r[1]].amount]

LEMMA SumOfIs ==
  ASSUME TypeOK, report # NoReport, NEW S \in SUBSET report.rows
  PROVE  IsFiniteSet(S) /\ SumOf(S) = SumFunctionOnSet(AmountOf, S)
<1>1. IsFiniteSet(S) /\ \A r \in S : AmountOf[r] \in Int /\ AmountOf[r] = Row[r[1]].amount
  BY ReadIsFinite, FS_Subset DEF AmountOf
<1>2. SumFunction([r \in S |-> AmountOf[r]]) = SumFunctionOnSet(AmountOf, S)
  BY <1>1, SumOfMade
<1>3. [r \in S |-> AmountOf[r]] = [r \in S |-> Row[r[1]].amount]
  <2>1. \A r \in S : AmountOf[r] = Row[r[1]].amount
    BY <1>1, Zenon
  <2>. QED
    BY <2>1, Zenon
<1>. QED
  BY <1>1, <1>2, <1>3 DEF SumOf

\* The summary counts and sums the decided rows location by location; a row is
\* at one location.
LEMMA SummaryAddsUp ==
  ASSUME TypeOK, report # NoReport, NEW types
  PROVE  SummaryAgrees(types)
<1>. DEFINE decided == {r \in OfTables(types) : r[2] \in Decided /\ Located(r[1])}
            part == [l \in Locations |-> SummaryRows(l, types)]
<1>1. IsFiniteSet(Locations)
  BY PipelineAssumption DEF PipelineAssumption, ReportsAssumption
<1>2. \A l \in Locations : /\ part[l] \subseteq report.rows
                           /\ \A r \in part[l] : r[1] \in AtLocation(l)
  BY DEF SummaryRows, OfTables, Details
<1>3. UNION {part[l] : l \in Locations} = decided
  BY DEF SummaryRows, Located
<1>4. \A k, l \in Locations : k # l => part[k] \cap part[l] = {}
  <2>1. \A k, l \in Locations : k # l => AtLocation(k) \cap AtLocation(l) = {}
    BY PipelineAssumption DEF PipelineAssumption, ReportsAssumption, AtLocation
  <2>. QED
    BY <1>2, <2>1
<1>5. decided \subseteq report.rows
  BY DEF OfTables, Details
<1>6. \A l \in Locations : part[l] = SummaryRows(l, types)
  OBVIOUS
<1>. HIDE DEF part, decided
<1>7. \A l \in Locations : /\ IsFiniteSet(part[l])
                           /\ SumOf(part[l]) = SumFunctionOnSet(AmountOf, part[l])
  BY <1>2, SumOfIs
<1>8. SumFunction([l \in Locations |-> Cardinality(part[l])]) = Cardinality(decided)
  BY <1>1, <1>3, <1>4, <1>7, CountOfParts
<1>9. SumFunction([l \in Locations |-> SumOf(part[l])]) = SumOf(decided)
  <2>1. \A l \in Locations : \A r \in part[l] : AmountOf[r] \in Int
    BY <1>2, ReadIsFinite DEF AmountOf
  <2>2. SumFunction([l \in Locations |-> SumFunctionOnSet(AmountOf, part[l])])
          = SumFunctionOnSet(AmountOf, UNION {part[l] : l \in Locations})
    BY <1>1, <1>4, <1>7, <2>1, SumOfParts
  <2>3. [l \in Locations |-> SumFunctionOnSet(AmountOf, part[l])] = [l \in Locations |-> SumOf(part[l])]
    BY <1>7
  <2>4. SumOf(decided) = SumFunctionOnSet(AmountOf, decided)
    BY <1>5, SumOfIs
  <2>. QED
    BY <1>3, <2>2, <2>3, <2>4
<1>10. \A l \in Locations : /\ Summary(l, types).total = Cardinality(part[l])
                            /\ Summary(l, types).sum = SumOf(part[l])
  BY <1>6 DEF Summary
<1>11. /\ [l \in Locations |-> Summary(l, types).total] = [l \in Locations |-> Cardinality(part[l])]
       /\ [l \in Locations |-> Summary(l, types).sum] = [l \in Locations |-> SumOf(part[l])]
  BY <1>10
<1>12. ASSUME NEW l \in Locations PROVE Summary(l, types).percent \in 0 .. HundredPercent
  <2>. DEFINE unmatched == {r \in part[l] : r[2] = "EXCEPTION"}
  <2>1. Summary(l, types).percent = Percent(Cardinality(unmatched), Cardinality(part[l]))
    BY <1>6 DEF Summary
  <2>2. IsFiniteSet(part[l]) /\ unmatched \subseteq part[l]
    BY <1>7
  <2>. HIDE DEF unmatched
  <2>3. /\ Cardinality(unmatched) \in Nat /\ Cardinality(part[l]) \in Nat
        /\ Cardinality(unmatched) <= Cardinality(part[l])
    BY <2>2, FS_Subset, FS_CardinalityType
  <2>. DEFINE m == Cardinality(unmatched)
              n == Cardinality(part[l])
  <2>4. m \in Nat /\ n \in Nat /\ m <= n /\ Summary(l, types).percent = Percent(m, n)
    BY <2>1, <2>3
  <2>. HIDE DEF m, n
  <2>5. Percent(m, n) \in 0 .. HundredPercent
    BY <2>4, PercentInRange
  <2>. QED
    BY <2>4, <2>5
<1>. QED
  <2>. DEFINE total == [l \in Locations |-> Summary(l, types).total]
              sum == [l \in Locations |-> Summary(l, types).sum]
  <2>1. SumFunction(total) = Cardinality(decided) /\ SumFunction(sum) = SumOf(decided)
    BY <1>8, <1>9, <1>11
  <2>. QED
    BY <1>12, <2>1 DEF decided, SummaryAgrees
-----------------------------------------------------------------------------
\* Every row of the details is a line of its own, or one of the empty ones.
LineOf(r) == IF Row[r[1]].table \in Payments THEN PaymentLine(r)
             ELSE IF Row[r[1]].table = "cash_deposit" THEN CashDepositLine(r) ELSE PosDepositLine(r)

LEMMA LinesAreRows ==
  ASSUME TypeOK, report # NoReport
  PROVE  DetailsReportData.lines = {LineOf(r) : r \in {s \in Details : Located(s[1])}}
<1>. DEFINE shown == {r \in Details : Located(r[1])}
<1>1. \A r \in shown : Row[r[1]].table \in Payments \cup {"cash_deposit", "pos_deposit"}
  BY ReadIsFinite DEF Details, Deposits
<1>2. /\ shown \cap OfTables(Payments) = {r \in shown : Row[r[1]].table \in Payments}
      /\ shown \cap OfTables({"cash_deposit"}) = {r \in shown : Row[r[1]].table = "cash_deposit"}
      /\ shown \cap OfTables({"pos_deposit"}) = {r \in shown : Row[r[1]].table = "pos_deposit"}
  BY DEF OfTables
<1>3. DetailsReportData.lines =
        {PaymentLine(r) : r \in shown \cap OfTables(Payments)}
        \cup {CashDepositLine(r) : r \in shown \cap OfTables({"cash_deposit"})}
        \cup {PosDepositLine(r) : r \in shown \cap OfTables({"pos_deposit"})}
  BY DEF DetailsReportData
<1>. HIDE DEF shown
<1>4. /\ \A r \in shown : Row[r[1]].table \in Payments => LineOf(r) = PaymentLine(r)
      /\ \A r \in shown : Row[r[1]].table = "cash_deposit" => LineOf(r) = CashDepositLine(r)
      /\ \A r \in shown : Row[r[1]].table = "pos_deposit" => LineOf(r) = PosDepositLine(r)
  BY DEF LineOf, Payments
<1>5. DetailsReportData.lines = {LineOf(r) : r \in shown}
  BY <1>1, <1>2, <1>3, <1>4
<1>. QED
  BY <1>5 DEF shown

LEMMA LinesAreCounted ==
  ASSUME TypeOK, report # NoReport
  PROVE  Cardinality(DetailsReportData.lines) + DetailsReportData.empty = Cardinality(Details)
<1>. DEFINE shown == {r \in Details : Located(r[1])}
            line == [r \in shown |-> LineOf(r)]
<1>1. IsFiniteSet(Details) /\ shown \subseteq Details
  BY ReadIsFinite DEF Details
<1>2. IsFiniteSet(shown) /\ Cardinality(Details \ shown) = Cardinality(Details) - Cardinality(shown)
      /\ Cardinality(Details) \in Nat /\ Cardinality(shown) \in Nat
  <2>. HIDE DEF shown
  <2>1. Details \cap shown = shown
    BY <1>1
  <2>2. IsFiniteSet(shown)
    BY <1>1, FS_Subset
  <2>3. Cardinality(Details \ shown) = Cardinality(Details) - Cardinality(Details \cap shown)
    BY <1>1, FS_Difference
  <2>4. Cardinality(Details) \in Nat /\ Cardinality(shown) \in Nat
    BY <1>1, <2>2, FS_CardinalityType
  <2>. QED
    BY <2>1, <2>2, <2>3, <2>4
<1>3. \A r, s \in shown : line[r] = line[s] => r = s
  <2>1. ASSUME NEW r \in shown PROVE line[r].uuid = r[1] /\ line[r].status = r[2] /\ r = <<r[1], r[2]>>
    BY ReadIsFinite DEF LineOf, PaymentLine, CashDepositLine, PosDepositLine, Details
  <2>. QED
    BY <2>1
<1>4. Cardinality({line[r] : r \in shown}) = Cardinality(shown)
  <2>. HIDE DEF line, shown
  <2>. QED
    BY <1>2, <1>3, CountOfImages
<1>5. Cardinality(DetailsReportData.lines) = Cardinality(shown)
  <2>1. {line[r] : r \in shown} = DetailsReportData.lines
    BY LinesAreRows
  <2>. HIDE DEF line, shown
  <2>. QED
    BY <1>4, <2>1, Zenon
<1>6. DetailsReportData.empty = Cardinality(Details \ shown)
  BY DEF DetailsReportData
<1>. HIDE DEF line, shown
<1>. QED
  BY <1>2, <1>5, <1>6
-----------------------------------------------------------------------------
\* A pending row was read for its date, and the deposits of the month were read
\* after it: it is still there, and the month began before the period.
MonthRead ==
  report # NoReport =>
    /\ \E d \in Dates : report.from = d - PeriodDays
    /\ \A r \in report.rows : r[2] = "PENDING" =>
         /\ Row[r[1]].date \in report.from .. report.to
         /\ Row[r[1]].table = "cash_deposit" /\ Located(r[1]) /\ report.query > LastQuery + 1
              => r[1] \in report.month

\* Only the report lambda reads; the others change no more than what rests.
LEMMA MonthReadAlone ==
  ASSUME MonthRead, TypeOK,
         \/ report' = report
         \/ \E x \in Rows : Touch(x)
  PROVE  MonthRead'
<1>1. CASE report' = report
  BY <1>1 DEF MonthRead, Located
<1>2. CASE \E x \in Rows : Touch(x)
  <2>1. CASE report = NoReport
    BY <1>2, <2>1 DEF MonthRead, Touch
  <2>2. CASE report # NoReport
    <3>1. /\ report'.from = report.from /\ report'.to = report.to /\ report'.query = report.query
          /\ report'.rows = report.rows /\ report'.month = report.month
      BY <1>2, <2>2 DEF Touch, TypeOK, ReportState
    <3>. QED
      BY <2>2, <3>1 DEF MonthRead, Located
  <2>. QED
    BY <2>1, <2>2
<1>. QED
  BY <1>1, <1>2

LEMMA ReadRowsKeepsMonthRead ==
  ASSUME IInv, MonthRead, ReadRows
  PROVE  MonthRead'
<1>1. /\ report \in ReportState /\ report.query \in 1 .. 12 /\ report # NoReport
      /\ report' = [report EXCEPT !.query = @ + 1,
                      !.rows = @ \cup Found(report.query, report.from, report.to)]
  BY ReadRowsFinds DEF IInv, ReadRows
<1>2. /\ report'.from = report.from /\ report'.to = report.to /\ report'.query <= 13
      /\ report'.rows = report.rows \cup Found(report.query, report.from, report.to)
  BY <1>1 DEF ReportState
<1>3. \A r \in Found(report.query, report.from, report.to) :
        r[2] = "PENDING" => Row[r[1]].date \in report.from .. report.to
  BY DEF Found, InWindow, Decided
<1>4. ~(report'.query > LastQuery + 1)
  BY <1>1, <1>2, QueryCount DEF ReportState
<1>. QED
  BY <1>1, <1>2, <1>3, <1>4 DEF MonthRead

LEMMA ReadMonthKeepsMonthRead ==
  ASSUME IInv, MonthRead, ReadMonth
  PROVE  MonthRead'
<1>. DEFINE found == IF report.query = LastQuery + 1 THEN CashOfMonth(report.from, report.to)
                                                     ELSE PosOfMonth(report.from, report.to)
<1>1. /\ report \in ReportState /\ report # NoReport /\ report.query \in {13, 14}
      /\ report' = [report EXCEPT !.query = @ + 1, !.month = @ \cup found]
  BY QueryCount DEF ReadMonth, IInv, TypeOK
<1>2. /\ report'.from = report.from /\ report'.to = report.to /\ report'.rows = report.rows
      /\ report'.month = report.month \cup found
  BY <1>1 DEF ReportState
<1>3. ASSUME NEW r \in report.rows, r[2] = "PENDING", Row[r[1]].table = "cash_deposit", Located(r[1])
      PROVE  r[1] \in report'.month
  <2>1. CASE report.query = 14
    BY <1>1, <1>2, <1>3, <2>1, QueryCount DEF MonthRead
  <2>2. CASE report.query = 13
    <3>1. r[1] \in Table("cash_deposit")
      BY <1>1, <1>3 DEF IInv, ReadBehind, Table, ReportState
    <3>2. Row[r[1]].date \in FirstOfMonth(report.from) .. report.to
      <4>1. PICK d \in Dates : report.from = d - PeriodDays
        BY <1>1 DEF MonthRead
      <4>2. /\ FirstOfMonth(report.from) \in Int /\ FirstOfMonth(report.from) <= report.from
            /\ report.from \in Int /\ report.to \in Int
        BY <1>1, <4>1, PipelineAssumption DEF PipelineAssumption, ReportState
      <4>3. Row[r[1]].date \in report.from .. report.to
        BY <1>1, <1>3 DEF MonthRead
      <4>. QED
        BY <4>2, <4>3
    <3>3. r[1] \in found
      BY <1>3, <2>2, <3>1, <3>2, QueryCount DEF CashOfMonth
    <3>. QED
      BY <1>2, <3>3
  <2>. QED
    BY <1>1, <2>1, <2>2
<1>. QED
  BY <1>1, <1>2, <1>3 DEF MonthRead, Located, AtLocation, Rows

LEMMA MonthReadHolds ==
  ASSUME IInv, MonthRead, [Next]_pipelineVars
  PROVE  MonthRead'
<1>1. CASE report' = report
  BY <1>1, MonthReadAlone DEF IInv
<1>2. CASE \E x \in Rows : Insert(x) \/ Reconcile(x)
  BY <1>2, MonthReadAlone DEF IInv, Insert, Reconcile
<1>3. ASSUME NEW to \in reportTopic, StartReport(to) PROVE MonthRead'
  <2>1. to \in Dates
    BY DEF IInv, TypeOK
  <2>2. report'.from = to - PeriodDays /\ report'.rows = {}
    BY <1>3 DEF StartReport
  <2>. QED
    BY <2>1, <2>2 DEF MonthRead
<1>4. CASE EndReport
  BY <1>4 DEF EndReport, MonthRead
<1>5. report' = report \/ (\E x \in Rows : Insert(x) \/ Reconcile(x)) \/ Report
  BY DEF Next, pipelineVars, ParseFile, BatchPublish, StartRun, GenerateReport, EndRun
<1>. QED
  BY <1>1, <1>2, <1>3, <1>4, <1>5, ReadRowsKeepsMonthRead, ReadMonthKeepsMonthRead
  DEF Report, ReadReport

LEMMA MonthReadAlways == Spec => []MonthRead
<1>1. Init => MonthRead
  BY DEF Init, MonthRead
<1>2. IInv /\ MonthRead /\ [Next]_pipelineVars => MonthRead'
  BY MonthReadHolds
<1>. QED
  BY <1>1, <1>2, Inductive, PTL DEF Spec
-----------------------------------------------------------------------------
LEMMA AllQueriesMade ==
  ASSUME IInv, Generated
  PROVE  report # NoReport /\ report.query \in 15 .. 15 /\ report.query > LastQuery + 1
<1>1. report # NoReport /\ report.query \in 15 .. 15
  BY QueryCount DEF Generated, IInv, TypeOK, ReportState
<1>. QED
  BY <1>1, QueryCount

\* A pending cash deposit of the details page is on page three.
LEMMA PendingOnPageThree ==
  ASSUME IInv, MonthRead, Generated, NEW line \in DetailsReportData.lines,
         line.status = "PENDING", line.source_file = "Cash/Chq (TDI 17)", line.amount # 0
  PROVE  line.uuid \in CasCash
<1>1. report # NoReport /\ report.query > LastQuery + 1
  BY AllQueriesMade
<1>2. PICK r \in Details : Located(r[1]) /\ line = LineOf(r)
  <2>1. DetailsReportData.lines = {LineOf(r) : r \in {s \in Details : Located(s[1])}}
    BY <1>1, LinesAreRows DEF IInv
  <2>2. line \in {LineOf(r) : r \in {s \in Details : Located(s[1])}}
    BY <2>1, Zenon
  <2>. QED
    BY <2>2, Zenon
<1>3. Row[r[1]].table = "cash_deposit" /\ line = CashDepositLine(r)
  <2>1. CASE Row[r[1]].table \in Payments
    BY <1>2, <2>1 DEF LineOf, PaymentLine
  <2>2. CASE Row[r[1]].table \notin Payments /\ Row[r[1]].table # "cash_deposit"
    BY <1>2, <2>2 DEF LineOf, PosDepositLine
  <2>3. CASE Row[r[1]].table = "cash_deposit"
    BY <1>2, <2>3 DEF LineOf, Payments
  <2>. QED
    BY <2>1, <2>2, <2>3
<1>4. line.uuid = r[1] /\ r[2] = "PENDING" /\ Row[r[1]].amount # 0
  BY <1>3 DEF CashDepositLine
<1>5. r[1] \in report.month
  BY <1>1, <1>2, <1>3, <1>4 DEF MonthRead, Details
<1>. QED
  BY <1>3, <1>4, <1>5 DEF CasCash

Amounts == [x \in Rows |-> Row[x].amount]
JoinedAmounts == [x \in Rows |-> Joined(x)]

LEMMA SumIsOfAmounts ==
  ASSUME NEW S \in SUBSET Rows
  PROVE  /\ IsFiniteSet(S) /\ \A x \in S : Amounts[x] \in Int /\ JoinedAmounts[x] \in Int
         /\ Sum(S) = SumFunctionOnSet(Amounts, S)
         /\ SumFunction([x \in S |-> Joined(x)]) = SumFunctionOnSet(JoinedAmounts, S)
<1>1. IsFiniteSet(S)
  BY PipelineAssumption, FS_Subset DEF PipelineAssumption, ReportsAssumption
<1>2. \A x \in S : Row[x].amount \in Int /\ Row[x].master \in Nat
  BY PipelineAssumption DEF PipelineAssumption, ReportsAssumption
<1>3. \A x \in S : Joined(x) \in Int
  BY <1>2 DEF Joined
<1>4. \A x \in S : /\ Amounts[x] \in Int /\ Amounts[x] = Row[x].amount
                   /\ JoinedAmounts[x] \in Int /\ JoinedAmounts[x] = Joined(x)
  BY <1>2, <1>3 DEF Amounts, JoinedAmounts
<1>5. /\ SumFunction([x \in S |-> Amounts[x]]) = SumFunctionOnSet(Amounts, S)
      /\ SumFunction([x \in S |-> JoinedAmounts[x]]) = SumFunctionOnSet(JoinedAmounts, S)
  BY <1>1, <1>4, SumOfMade
<1>6. /\ [x \in S |-> Amounts[x]] = [x \in S |-> Row[x].amount]
      /\ [x \in S |-> JoinedAmounts[x]] = [x \in S |-> Joined(x)]
  BY <1>4
<1>. QED
  BY <1>1, <1>4, <1>5, <1>6 DEF Sum

\* The lines of the POS deposits add up to the deposits as the join repeats
\* them: every deposit is in one group, and what is left out is 0.
LEMMA PageThreeAddsUp ==
  ASSUME PosOfReport \subseteq Rows
  PROVE  SumFunction([line \in CasPos |-> line.amount]) = SumFunctionOnSet(JoinedAmounts, PosOfReport)
<1>. DEFINE groups == {PosGroup(x) : x \in PosOfReport}
            part == [g \in groups |-> {y \in PosOfReport : PosGroup(y) = g}]
            total == [g \in groups |-> SumFunctionOnSet(JoinedAmounts, part[g])]
            made == [g \in groups |-> [group |-> g, amount |-> total[g]]]
            lines == {made[g] : g \in groups}
            amount == [line \in lines |-> line.amount]
<1>1. IsFiniteSet(groups)
  <2>. DEFINE group == [x \in PosOfReport |-> PosGroup(x)]
  <2>1. IsFiniteSet(PosOfReport)
    BY SumIsOfAmounts
  <2>. HIDE DEF group
  <2>2. IsFiniteSet({group[x] : x \in PosOfReport})
    BY <2>1, ImageIsFinite
  <2>3. {group[x] : x \in PosOfReport} = groups
    BY DEF group
  <2>. QED
    BY <2>2, <2>3
<1>2. \A g \in groups : part[g] = {y \in PosOfReport : PosGroup(y) = g} /\ part[g] \in SUBSET Rows
  OBVIOUS
<1>3. UNION {part[g] : g \in groups} = PosOfReport
  <2>1. \A x \in PosOfReport : PosGroup(x) \in groups /\ x \in part[PosGroup(x)]
    OBVIOUS
  <2>2. \A g \in groups : part[g] \subseteq PosOfReport
    OBVIOUS
  <2>. HIDE DEF groups, part
  <2>. QED
    BY <2>1, <2>2
<1>4. \A g, k \in groups : g # k => part[g] \cap part[k] = {}
  OBVIOUS
<1>. HIDE DEF groups, part
<1>5. \A g \in groups : /\ IsFiniteSet(part[g]) /\ \A x \in part[g] : JoinedAmounts[x] \in Int
                        /\ SumFunction([x \in part[g] |-> Joined(x)])
                             = SumFunctionOnSet(JoinedAmounts, part[g])
  BY <1>2, SumIsOfAmounts
<1>6. \A g \in groups : /\ total[g] = SumFunctionOnSet(JoinedAmounts, part[g]) /\ total[g] \in Int
                        /\ made[g] = [group |-> g, amount |-> total[g]]
  BY <1>5, SumAdds
<1>7. SumFunction(total) = SumFunctionOnSet(JoinedAmounts, PosOfReport)
  <2>1. SumFunction([g \in groups |-> SumFunctionOnSet(JoinedAmounts, part[g])])
          = SumFunctionOnSet(JoinedAmounts, UNION {part[g] : g \in groups})
    <3>1. \A g \in groups : IsFiniteSet(part[g])
      BY <1>5
    <3>2. \A g \in groups : \A x \in part[g] : JoinedAmounts[x] \in Int
      BY <1>5
    <3>. QED
      BY <1>1, <1>4, <3>1, <3>2, SumOfParts
  <2>. QED
    BY <1>3, <2>1
<1>8. SumFunction(total) = SumFunctionOnSet(total, groups)
  BY DEF SumFunction
<1>9. CasPos = {line \in lines : line.amount # 0}
  <2>. DEFINE sum(g) == SumFunction([x \in {y \in PosOfReport : PosGroup(y) = g} |-> Joined(x)])
  <2>1. \A g \in groups : made[g] = [group |-> g, amount |-> sum(g)]
    BY <1>2, <1>5, <1>6
  <2>2. CasPos = {line \in {[group |-> g, amount |-> sum(g)] : g \in groups} : line.amount # 0}
    BY DEF CasPos, groups
  <2>. HIDE DEF sum, made
  <2>3. {[group |-> g, amount |-> sum(g)] : g \in groups} = lines
    BY <2>1
  <2>. QED
    BY <2>2, <2>3
<1>10. \A g \in groups : made[g] \in lines /\ amount[made[g]] = total[g]
  BY <1>6
<1>11. \A line \in lines : amount[line] = line.amount /\ amount[line] \in Int
  BY <1>6
<1>12. \A g, k \in groups : made[g] = made[k] => g = k
  BY <1>6
<1>. HIDE DEF total, made, amount
<1>13. IsFiniteSet(lines) /\ SumFunctionOnSet(amount, lines) = SumFunctionOnSet(total, groups)
  <2>1. \A g \in groups : total[g] \in Int /\ amount[made[g]] = total[g]
    BY <1>6, <1>10
  <2>. QED
    BY <1>1, <1>12, <2>1, SumOfImages
<1>. HIDE DEF lines
<1>14. SumFunctionOnSet(amount, {line \in lines : amount[line] # 0}) = SumFunctionOnSet(amount, lines)
  BY <1>11, <1>13, SumOfNonzero
<1>15. {line \in lines : amount[line] # 0} = CasPos /\ CasPos \subseteq lines
  BY <1>9, <1>11
<1>16. SumFunction([line \in CasPos |-> amount[line]]) = SumFunctionOnSet(amount, CasPos)
  <2>1. IsFiniteSet(CasPos) /\ \A line \in CasPos : amount[line] \in Int
    BY <1>11, <1>13, <1>15, FS_Subset
  <2>. QED
    BY <2>1, SumOfMade
<1>17. [line \in CasPos |-> amount[line]] = [line \in CasPos |-> line.amount]
  BY <1>11, <1>15
<1>. QED
  BY <1>7, <1>8, <1>13, <1>14, <1>15, <1>16, <1>17

LEMMA PageThreeIsTheDeposits ==
  ASSUME PosOfReport \subseteq Rows, \A x \in PosOfReport : Row[x].master <= 1
  PROVE  SumFunction([line \in CasPos |-> line.amount]) = Sum(PosOfReport)
<1>1. \A x \in PosOfReport : Joined(x) = Row[x].amount
  <2>1. \A x \in PosOfReport : Row[x].amount \in Int /\ (Row[x].master = 0 \/ Row[x].master = 1)
    BY PipelineAssumption DEF PipelineAssumption, ReportsAssumption
  <2>. QED
    BY <2>1 DEF Joined
<1>2. \A x \in PosOfReport : JoinedAmounts[x] \in Int /\ JoinedAmounts[x] = Amounts[x]
  BY <1>1, SumIsOfAmounts DEF JoinedAmounts, Amounts
<1>3. SumFunctionOnSet(JoinedAmounts, PosOfReport) = SumFunctionOnSet(Amounts, PosOfReport)
  BY <1>2, SumIsOfAmounts, SumOfSame
<1>. QED
  BY <1>3, SumIsOfAmounts, PageThreeAddsUp
-----------------------------------------------------------------------------
LEMMA TableIsFinite ==
  ASSUME NEW t
  PROVE  /\ IsFiniteSet(Table(t)) /\ Table(t) \subseteq Rows
         /\ \A S \in SUBSET Table(t) : IsFiniteSet(S)
BY PipelineAssumption, FS_Subset DEF PipelineAssumption, ReportsAssumption, Table

\* The dates of a table cut it into parts.
LEMMA CountByDate ==
  ASSUME NEW t, NEW S \in SUBSET Table(t)
  PROVE  LET D == {Row[x].date : x \in Table(t)} IN
         SumFunction([d \in D |-> Cardinality({x \in S : Row[x].date = d})]) = Cardinality(S)
<1>. DEFINE D == {Row[x].date : x \in Table(t)}
            part == [d \in D |-> {x \in S : Row[x].date = d}]
            date == [x \in Table(t) |-> Row[x].date]
<1>1. IsFiniteSet(D)
  <2>. HIDE DEF date
  <2>1. IsFiniteSet({date[x] : x \in Table(t)})
    BY TableIsFinite, ImageIsFinite
  <2>. QED
    BY <2>1 DEF date
<1>2. \A d \in D : part[d] = {x \in S : Row[x].date = d} /\ part[d] \in SUBSET Table(t)
  OBVIOUS
<1>3. UNION {part[d] : d \in D} = S
  <2>1. \A x \in S : Row[x].date \in D /\ x \in part[Row[x].date]
    OBVIOUS
  <2>2. \A d \in D : part[d] \subseteq S
    OBVIOUS
  <2>. HIDE DEF D, part
  <2>. QED
    BY <2>1, <2>2
<1>4. \A d, e \in D : d # e => part[d] \cap part[e] = {}
  OBVIOUS
<1>. HIDE DEF D, part
<1>5. SumFunction([d \in D |-> Cardinality(part[d])]) = Cardinality(S)
  <2>1. \A d \in D : IsFiniteSet(part[d])
    BY <1>2, TableIsFinite
  <2>2. SumFunction([d \in D |-> Cardinality(part[d])]) = Cardinality(UNION {part[d] : d \in D})
    BY <1>1, <1>4, <2>1, CountOfParts
  <2>. QED
    BY <1>3, <2>2
<1>6. [d \in D |-> Cardinality(part[d])] = [d \in D |-> Cardinality({x \in S : Row[x].date = d})]
  BY <1>2
<1>7. SumFunction([d \in D |-> Cardinality({x \in S : Row[x].date = d})]) = Cardinality(S)
  BY <1>5, <1>6
<1>. QED
  BY <1>7 DEF D

\* Of what is in a table, every row has one of the four statuses.
Shown == {"PENDING", "IN_PROGRESS"} \cup Decided

LEMMA CountByStatus ==
  ASSUME TypeOK, NEW t, NEW S \in SUBSET Table(t)
  PROVE  SumFunction([s \in Shown |-> Count(S, {s})]) = Cardinality(S)
<1>. DEFINE part == [s \in Shown |-> {x \in S : status[x] \in {s}}]
<1>1. IsFiniteSet(Shown)
  <2>1. Shown \subseteq Statuses
    BY DEF Shown, Statuses
  <2>. QED
    BY <2>1, StatusesAreFinite, FS_Subset
<1>2. \A s \in Shown : part[s] = {x \in S : status[x] \in {s}} /\ part[s] \in SUBSET Table(t)
  OBVIOUS
<1>3. \A s, u \in Shown : s # u => part[s] \cap part[u] = {}
  OBVIOUS
<1>4. UNION {part[s] : s \in Shown} = S
  <2>1. \A x \in S : status[x] \in Shown
    BY DEF TypeOK, Statuses, Shown, Table
  <2>. QED
    BY <2>1
<1>. HIDE DEF part
<1>5. SumFunction([s \in Shown |-> Cardinality(part[s])]) = Cardinality(S)
  <2>1. \A s \in Shown : IsFiniteSet(part[s])
    BY <1>2, TableIsFinite
  <2>2. SumFunction([s \in Shown |-> Cardinality(part[s])]) = Cardinality(UNION {part[s] : s \in Shown})
    BY <1>1, <1>3, <2>1, CountOfParts
  <2>. QED
    BY <1>4, <2>2
<1>6. [s \in Shown |-> Cardinality(part[s])] = [s \in Shown |-> Count(S, {s})]
  BY <1>2 DEF Count
<1>. QED
  BY <1>5, <1>6
-----------------------------------------------------------------------------
\* A deposit is counted on its date under its status, once in each report.
LEMMA PosStatusesAddUp ==
  ASSUME TypeOK, NEW s \in DOMAIN StatusReport("pos_deposit")
  PROVE  SumFunction([d \in DOMAIN PosDepositStatusByDate |-> PosDepositStatusByDate[d][s]])
           = StatusReport("pos_deposit")[s]
<1>. DEFINE t == "pos_deposit"
            D == {Row[x].date : x \in Table(t)}
            S == {x \in Table(t) : status[x] \in {s}}
<1>1. s \in Shown
  <2>1. PICK x \in Table(t) : s = status[x]
    BY DEF StatusReport
  <2>. QED
    BY <2>1 DEF TypeOK, Table, Statuses, Shown
<1>2. DOMAIN PosDepositStatusByDate = D
  BY DEF PosDepositStatusByDate
<1>3. \A d \in D : PosDepositStatusByDate[d][s] = Cardinality({x \in S : Row[x].date = d})
  <2>1. \A d \in D : PosDepositStatusByDate[d][s] = Count(On(t, d), {s})
    BY <1>1 DEF PosDepositStatusByDate, Shown
  <2>2. \A d : {x \in On(t, d) : status[x] \in {s}} = {x \in S : Row[x].date = d}
    BY DEF On
  <2>. QED
    BY <2>1, <2>2 DEF Count
<1>4. StatusReport(t)[s] = Cardinality(S)
  BY DEF StatusReport, Count
<1>5. SumFunction([d \in D |-> Cardinality({x \in S : Row[x].date = d})]) = Cardinality(S)
  <2>1. S \in SUBSET Table(t)
    OBVIOUS
  <2>. HIDE DEF S
  <2>. QED
    BY <2>1, CountByDate
<1>6. [d \in D |-> PosDepositStatusByDate[d][s]] = [d \in D |-> Cardinality({x \in S : Row[x].date = d})]
  BY <1>3
<1>. HIDE DEF D, S
<1>. QED
  BY <1>2, <1>4, <1>5, <1>6

LEMMA CashStatusesAddUp ==
  ASSUME TypeOK
  PROVE  SumFunction([d \in DOMAIN CashDepositStatusByDate |-> SumFunction(CashDepositStatusByDate[d])])
           = Cardinality(Table("cash_deposit"))
<1>. DEFINE t == "cash_deposit"
            D == {Row[x].date : x \in Table(t)}
            S == Table(t)
<1>1. DOMAIN CashDepositStatusByDate = D
  BY DEF CashDepositStatusByDate
<1>2. \A d \in D : SumFunction(CashDepositStatusByDate[d]) = Cardinality({x \in S : Row[x].date = d})
  <2>1. \A d \in D : CashDepositStatusByDate[d] = [s \in Shown |-> Count(On(t, d), {s})]
    BY DEF CashDepositStatusByDate, Shown
  <2>2. \A d : On(t, d) = {x \in S : Row[x].date = d} /\ On(t, d) \in SUBSET Table(t)
    BY DEF On
  <2>3. \A d : SumFunction([s \in Shown |-> Count(On(t, d), {s})]) = Cardinality(On(t, d))
    BY <2>2, CountByStatus
  <2>. QED
    BY <2>1, <2>2, <2>3
<1>3. SumFunction([d \in D |-> Cardinality({x \in S : Row[x].date = d})]) = Cardinality(S)
  BY CountByDate
<1>4. [d \in D |-> SumFunction(CashDepositStatusByDate[d])]
        = [d \in D |-> Cardinality({x \in S : Row[x].date = d})]
  BY <1>2
<1>. HIDE DEF D, S
<1>5. SumFunction([d \in DOMAIN CashDepositStatusByDate |-> SumFunction(CashDepositStatusByDate[d])])
        = Cardinality(S)
  BY <1>1, <1>3, <1>4
<1>. QED
  BY <1>5 DEF S

\* What the reports of the locations count on a day is not more than what the
\* report of all of them counts: no payment is at two locations.
LEMMA LocationsAddUp ==
  ASSUME TypeOK, NEW d \in DOMAIN CashMatchSummary
  PROVE  SumFunction([l \in {k \in Locations : d \in DOMAIN CashReportByLocation(k)} |->
                        CashReportByLocation(l)[d].matched]) <= CashMatchSummary[d].matched
<1>. DEFINE t == "cash_payment"
            K == {k \in Locations : d \in DOMAIN CashReportByLocation(k)}
            part == [l \in K |-> {x \in Closed(t, d) \cap AtLocation(l) : status[x] \in {"MATCH"}}]
            S == {x \in Closed(t, d) : status[x] \in {"MATCH"}}
<1>1. IsFiniteSet(K)
  BY PipelineAssumption, FS_Subset DEF PipelineAssumption, ReportsAssumption
<1>2. \A l \in K : /\ part[l] = {x \in Closed(t, d) \cap AtLocation(l) : status[x] \in {"MATCH"}}
                   /\ part[l] \subseteq S
                   /\ part[l] \subseteq AtLocation(l)
  OBVIOUS
<1>3. S \in SUBSET Table(t)
  BY DEF Closed
<1>4. \A k, l \in K : k # l => part[k] \cap part[l] = {}
  <2>1. \A k, l \in K : k # l => AtLocation(k) \cap AtLocation(l) = {}
    BY PipelineAssumption DEF PipelineAssumption, ReportsAssumption, AtLocation
  <2>. QED
    BY <1>2, <2>1
<1>5. CashMatchSummary[d].matched = Cardinality(S)
  BY DEF CashMatchSummary, Count
<1>6. \A l \in K : CashReportByLocation(l)[d].matched = Cardinality(part[l])
  BY <1>2 DEF CashReportByLocation, Count
<1>. HIDE DEF K, part, S
<1>7. SumFunction([l \in K |-> Cardinality(part[l])]) = Cardinality(UNION {part[l] : l \in K})
  <2>1. \A l \in K : IsFiniteSet(part[l])
    BY <1>2, <1>3, TableIsFinite
  <2>. QED
    BY <1>1, <1>4, <2>1, CountOfParts
<1>8. Cardinality(UNION {part[l] : l \in K}) <= Cardinality(S)
  <2>1. UNION {part[l] : l \in K} \subseteq S
    BY <1>2
  <2>2. IsFiniteSet(S)
    BY <1>3, TableIsFinite
  <2>. QED
    BY <2>1, <2>2, FS_Subset
<1>9. [l \in K |-> CashReportByLocation(l)[d].matched] = [l \in K |-> Cardinality(part[l])]
  BY <1>6
<1>10. SumFunction([l \in K |-> CashReportByLocation(l)[d].matched]) <= CashMatchSummary[d].matched
  BY <1>5, <1>7, <1>8, <1>9
<1>. QED
  BY <1>10 DEF K

LEMMA ConsoleAddsUp ==
  ASSUME TypeOK
  PROVE  ConsoleAgrees
<1>1. ASSUME NEW d \in DOMAIN PosMatchSummary
      PROVE  PosMatchSummary[d].matched <= PosMatchSummary[d].payments
  <2>. DEFINE S == On("pos_payment", d)
              M == {x \in S : status[x] \in {"MATCH"}}
  <2>1. PosMatchSummary[d].matched = Cardinality(M) /\ PosMatchSummary[d].payments = Cardinality(S)
    BY <1>1 DEF PosMatchSummary, Count
  <2>2. M \subseteq S /\ S \in SUBSET Table("pos_payment")
    BY DEF On
  <2>. HIDE DEF M, S
  <2>3. IsFiniteSet(S)
    BY <2>2, TableIsFinite
  <2>4. Cardinality(M) <= Cardinality(S)
    BY <2>2, <2>3, FS_Subset
  <2>. QED
    BY <2>1, <2>4
<1>2. \A s \in DOMAIN StatusReport("pos_deposit") :
        SumFunction([d \in DOMAIN PosDepositStatusByDate |-> PosDepositStatusByDate[d][s]])
          = StatusReport("pos_deposit")[s]
  BY PosStatusesAddUp
<1>3. \A d \in DOMAIN CashMatchSummary :
        SumFunction([l \in {k \in Locations : d \in DOMAIN CashReportByLocation(k)} |->
                       CashReportByLocation(l)[d].matched]) <= CashMatchSummary[d].matched
  BY LocationsAddUp
<1>. QED
  BY <1>1, <1>2, <1>3, CashStatusesAddUp DEF ConsoleAgrees

-----------------------------------------------------------------------------
\* Rows, uploads, messages and reports have their types, a row is in a table
\* exactly when its line was saved, and its file was recorded before.
THEOREM TypeCorrect == Spec => []TypeOK
BY Inductive, PTL DEF IInv

\* What the reconciler writes without bypassing the file check, it writes when
\* a file of each required type of the business day before is recorded: the
\* check before the run is still true at its last write.
THEOREM GateHolds == Spec => GateIsSound
<1> DEFINE Guarded ==
      \A x \in Rows :
        status[x] # "ABSENT" /\ status'[x] # status[x] /\ ~run.byPass =>
          \A t \in RequiredTypes : \E f \in uploaded :
            FileType[f] = t /\ FileDate[f] = PrevBusinessDay(run.date)
<1>1. IInv /\ [Next]_pipelineVars => [Guarded]_tables
  <2> SUFFICES ASSUME IInv, [Next]_pipelineVars, tables' # tables PROVE Guarded
    OBVIOUS
  <2>1. (\E x \in Rows : Insert(x)) \/ (\E x \in Rows : Reconcile(x))
    BY DEF Next, pipelineVars, tables, ParseFile, BatchPublish, StartRun, GenerateReport, EndRun,
           Report, StartReport, ReadReport, ReadRows, ReadMonth, EndReport
  <2>2. ASSUME NEW x \in Rows, Insert(x) PROVE Guarded
    <3>1. status[x] = "ABSENT"
      BY <2>2, PipelineAssumption
      DEF Insert, Parser!SaveLine, FileLines, IInv, TypeOK, PipelineAssumption
    <3>2. \A y \in Rows : y # x => status'[y] = status[y]
      BY <2>2 DEF Insert, IInv, TypeOK
    <3> QED BY <3>1, <3>2
  <2>3. ASSUME NEW x \in Rows, Reconcile(x) PROVE Guarded
    <3>1. ~run.byPass => FileCheck(run.date)
      BY <2>3 DEF Reconcile, IInv, GateOpen
    <3>2. FileCheck(run.date) => \A t \in RequiredTypes : \E f \in uploaded :
            FileType[f] = t /\ FileDate[f] = PrevBusinessDay(run.date)
      BY DEF FileCheck, UploadedTypes
    <3> QED BY <3>1, <3>2
  <2> QED BY <2>1, <2>2, <2>3
<1> QED BY <1>1, Inductive, PTL DEF Spec, GateIsSound

\* A row is on the details page at most once, although the reconciler writes it
\* between the queries: they are made against the direction of the statuses.
THEOREM RowsAreReportedOnce == Spec => []ReportedOnce
BY Inductive, PTL DEF IInv

\* A row nobody wrote while the report was read is on it, if its date is in the
\* period.
THEOREM RestingRowsShow == Spec => []RestingRowsAreReported
<1>1. IInv => RestingRowsAreReported
  <2> SUFFICES ASSUME IInv, Generated, NEW r \in report.resting,
                      (IF r[2] = "PENDING" THEN Row[r[1]].date ELSE stamp[r[1]])
                        \in report.from .. report.to
               PROVE  r \in Details
    BY DEF RestingRowsAreReported
  <2>1. /\ report \in ReportState /\ report.query \in 15 .. 15
        /\ r[1] \in Rows /\ r[2] \in Statuses /\ r[2] # "ABSENT" /\ status[r[1]] = r[2]
    BY QueryCount DEF Generated, IInv, TypeOK, ReportState, RestingSeen
  <2>2. QueryOf(r[1], r[2]) < report.query
    BY <2>1, QueryRange
  <2>3. InWindow(r[1], report.from, report.to)
    <3>1. report.from \in Int /\ report.to \in Int
      BY <2>1 DEF ReportState
    <3>2. /\ PrevBusinessDay(report.from) \in Int /\ PrevBusinessDay(report.from) < report.from
          /\ NextBusinessDay(report.to) \in Int /\ report.to < NextBusinessDay(report.to)
      BY <3>1, PrevIsBefore, NextIsAfter
    <3>3. \A d \in report.from .. report.to :
            d \in PrevBusinessDay(report.from) .. NextBusinessDay(report.to)
      BY <3>1, <3>2
    <3> QED BY <2>1, <3>3 DEF InWindow, Statuses, Decided
  <2> QED BY <2>1, <2>2, <2>3 DEF IInv, RestingSeen, Generated, Details
<1> QED BY <1>1, Inductive, PTL

\* A deposit the report shows as matched has its payments on it, matched too.
THEOREM MatchedDepositsShowTheirPayments == Spec => []MatchedDepositShowsItsPayment
<1>1. IInv => MatchedDepositShowsItsPayment
  <2> SUFFICES ASSUME IInv, Generated, NEW x \in DOMAIN PaidBy, <<x, "MATCH">> \in Details,
                      NEW p \in PaidBy[x]
               PROVE  <<p, "MATCH">> \in Details
    BY DEF MatchedDepositShowsItsPayment
  <2>1. report # NoReport /\ report.query \in 15 .. 15 /\ p \in Rows
    BY QueryCount, PipelineAssumption DEF Generated, IInv, TypeOK, ReportState, PipelineAssumption
  <2>2. QueryOf(p, "MATCH") < report.query
    BY <2>1, QueryRange
  <2> QED BY <2>1, <2>2 DEF IInv, PaymentsShown, Details
<1> QED BY <1>1, Inductive, PTL

\* The pages of a report agree with one another, and so do the reports of the
\* console.
THEOREM ReportsAlwaysAgree == Spec => []ReportsAgree
<1>1. IInv /\ MonthRead => PagesAgree
  <2>. SUFFICES ASSUME IInv, MonthRead, Generated PROVE PagesAgree
    BY DEF PagesAgree
  <2>1. TypeOK /\ report # NoReport
    BY DEF IInv, Generated
  <2>2. \A types \in {Payments, Deposits} : SummaryAgrees(types)
    BY <2>1, SummaryAddsUp
  <2>3. Cardinality(DetailsReportData.lines) + DetailsReportData.empty = Cardinality(Details)
    BY <2>1, LinesAreCounted
  <2>4. PendingAgrees
    BY PendingOnPageThree DEF PendingAgrees
  <2>5. CasAgrees
    <3>1. PosOfReport \subseteq Rows
      BY <2>1, ReadIsFinite DEF PosOfReport
    <3>. QED
      BY <3>1, PageThreeIsTheDeposits DEF CasAgrees
  <2>. QED
    BY <2>2, <2>3, <2>4, <2>5 DEF PagesAgree
<1>2. IInv => ConsoleAgrees
  BY ConsoleAddsUp DEF IInv
<1>. QED
  BY <1>1, <1>2, Inductive, MonthReadAlways, PTL DEF ReportsAgree

\* What a report shows as decided is what the tables say, however the reconciler
\* goes on while the other tables are read.
DecidedAsReported ==
  report # NoReport => \A r \in Details : r[2] \in Decided => status[r[1]] = r[2]

\* A match or an exception on the report is final: it was so when the row was read
\* and it is so when the workbook is saved.
THEOREM ReportedDecisionsAreFinal == Spec => []DecidedAsReported
<1>1. IInv => DecidedAsReported
  BY DEF IInv, ReadBehind, DecidedAsReported, Details
<1> QED BY <1>1, Inductive, PTL

StatusLifecycle == INSTANCE Lifecycle WITH Items <- Rows

\* With all the lambdas at work the rows still move as the life cycle says, which
\* either half of the reconciler implements.
THEOREM RowsFollowTheLifecycle == Spec => StatusLifecycle!Spec
<1>1. Init => StatusLifecycle!Init
  BY DEF Init, StatusLifecycle!Init
<1>2. IInv /\ [Next]_pipelineVars => [StatusLifecycle!Save]_status
  <2> SUFFICES ASSUME IInv, [Next]_pipelineVars, status' # status PROVE StatusLifecycle!Save
    OBVIOUS
  <2>1. PICK x \in Rows : Insert(x) \/ Reconcile(x)
    BY DEF Next, pipelineVars, tables, ParseFile, BatchPublish, StartRun, GenerateReport, EndRun,
           Report, StartReport, ReadReport, ReadRows, ReadMonth, EndReport
  <2>2. PICK s : /\ status' = [status EXCEPT ![x] = s]
                 /\ <<status[x], s>> \in StatusLifecycle!Moves \cup {<<"IN_PROGRESS", "IN_PROGRESS">>}
    <3>1. CASE Insert(x)
      <4>1. status[x] = "ABSENT"
        BY <3>1, PipelineAssumption
        DEF Insert, Parser!SaveLine, FileLines, IInv, TypeOK, PipelineAssumption
      <4> QED BY <3>1, <4>1 DEF Insert, StatusLifecycle!Moves
    <3>2. CASE Reconcile(x)
      <4>1. PICK s \in Outcomes(x) : status' = [status EXCEPT ![x] = s]
        BY <3>2 DEF Reconcile
      <4>2. status[x] \in {"PENDING", "IN_PROGRESS"}
        BY <4>1 DEF Outcomes, Decided, IInv, TypeOK, Statuses
      <4>3. <<status[x], s>> \in StatusLifecycle!Moves \cup {<<"IN_PROGRESS", "IN_PROGRESS">>}
        BY <4>1, <4>2 DEF Outcomes, Decided, StatusLifecycle!Moves
      <4> QED BY <4>1, <4>3
    <3> QED BY <2>1, <3>1, <3>2
  <2>3. s \in StatusLifecycle!Statuses
    BY <2>2 DEF StatusLifecycle!Moves, StatusLifecycle!Statuses
  <2>4. \A y \in Rows : status[y] \in StatusLifecycle!Statuses
    BY DEF IInv, TypeOK, Statuses, Decided, StatusLifecycle!Statuses
  <2>5. status' \in [Rows -> StatusLifecycle!Statuses]
    BY <2>2, <2>3, <2>4 DEF IInv, TypeOK
  <2>6. \A y \in Rows : status'[y] = status[y] \/ <<status[y], status'[y]>> \in StatusLifecycle!Moves
    BY <2>2 DEF IInv, TypeOK
  <2> QED BY <2>5, <2>6 DEF StatusLifecycle!Save
<1> QED BY <1>1, <1>2, Inductive, PTL DEF Spec, StatusLifecycle!Spec
=============================================================================
