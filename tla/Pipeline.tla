------------------------------ MODULE Pipeline ------------------------------
(***************************************************************************)
(* The lambdas around the database, put together: the parser as Uploads    *)
(* promises it, the batch lambda, the gate of the reconciler, the          *)
(* reconciler as Lifecycle and its own modules promise it, and the         *)
(* reports.  They run at the same time, and a message may come again at    *)
(* any later time.                                                         *)
(***************************************************************************)
EXTENDS Reports

CONSTANTS
  LinesOf,          \* the rows of each file
  FileType, FileDate,
  RequiredTypes,    \* the file types the rule of the program 'SBC' requires
  PaidBy,           \* the payments a deposit is matched to
  Dates,
  BatchByPass,      \* byPassFileValidity of the batch somebody starts
  NoRun

VARIABLES
  uploaded, saved, atHand, messages,  \* of Uploads
  batch,            \* the days the batch lambda has published
  run,              \* the message the reconciler works on, past the gate
  reportTopic       \* messages for the report lambda: the last day of a period

Files == DOMAIN LinesOf
tables == <<status, stamp>>
pipelineVars == <<tables, report, uploaded, saved, atHand, messages, batch, run, reportTopic>>

Statuses == {"ABSENT", "PENDING", "IN_PROGRESS"} \cup Decided
Messages == [date : Dates, byPass : BOOLEAN]

\* What a report holds while it is read.
ReportState ==
  [from : Int, to : Int, query : 1 .. (LastQuery + 3), rows : SUBSET (Rows \X Statuses),
   month : SUBSET Rows, resting : SUBSET (Rows \X Statuses)]

\* A row comes from one file; a deposit is matched to payments of its own kind; the
\* month a period begins in has begun by then.
ASSUME PipelineAssumption ==
  /\ ReportsAssumption
  /\ Rows = UNION {LinesOf[f] : f \in Files}
  /\ \A f, g \in Files : f # g => LinesOf[f] \cap LinesOf[g] = {}
  /\ DOMAIN PaidBy \subseteq Rows
  /\ \A x \in DOMAIN PaidBy : \A p \in PaidBy[x] :
       p \in Rows /\ <<Row[x].table, Row[p].table>> \in {<<"pos_deposit", "pos_payment">>,
                                                       <<"cash_deposit", "cash_payment">>}
  /\ Dates \subseteq Int /\ PeriodDays \in Nat /\ BatchByPass \in BOOLEAN
  /\ \A d \in Dates : FirstOfMonth(d - PeriodDays) \in Int /\ FirstOfMonth(d - PeriodDays) <= d - PeriodDays
  /\ NoRun \notin Dates /\ NoRun \notin Messages /\ NoReport \notin ReportState

FileLines(f) == LinesOf[f]
Parser == INSTANCE Uploads WITH Lines <- FileLines

\* saveEntities of a line: the row is there, as PENDING.
Insert(x) ==
  /\ \E f \in Files : Parser!SaveLine(f, x)
  /\ status' = [status EXCEPT ![x] = "PENDING"]
  /\ Touch(x)
  /\ UNCHANGED <<stamp, batch, run, reportTopic>>

ParseFile ==
  /\ (\E f \in Files : Parser!Record(f)) \/ Parser!LetGo \/ (\E d \in Dates : Parser!Publish(d))
  /\ UNCHANGED <<tables, report, batch, run, reportTopic>>

\* eachDayOfInterval, in order; a failing publish ends the invocation, and the
\* next one starts over and sends what was sent.
BatchPublish(d) ==
  /\ d \notin batch /\ \A c \in Dates : c < d => c \in batch
  /\ batch' = batch \cup {d}
  /\ messages' = messages \cup {[date |-> d, byPass |-> BatchByPass]}
  /\ UNCHANGED <<tables, report, uploaded, saved, atHand, run, reportTopic>>

UploadedTypes(d) == {FileType[f] : f \in {g \in uploaded : FileDate[g] = d}}

\* Mutant of FileCheck: .some() for .every().
FileCheckSome(date) == UploadedTypes(PrevBusinessDay(date)) \cap RequiredTypes # {}

\* fileCheck: the types of the files of the business day before.  Neither their
\* names nor the success of the daily record is looked at.
FileCheck(date) == RequiredTypes \subseteq UploadedTypes(PrevBusinessDay(date))

\* One reconciler at a time.  What does not pass is logged, and its message is
\* gone.
StartRun(m) ==
  /\ run = NoRun /\ (m.byPass \/ FileCheck(m.date))
  /\ run' = m
  /\ UNCHANGED <<tables, report, uploaded, saved, atHand, messages, batch, reportTopic>>

DayOf(x) == IF Row[x].table = "cash_payment" THEN Row[x].closed ELSE Row[x].date

\* Mutant of Outcomes: what is decided may be written again.
OutcomesAgain(x) == {"IN_PROGRESS"} \cup Decided

\* What a run may make of a row.  Cash that waits is stamped again by every run.
Outcomes(x) ==
  CASE status[x] = "PENDING" -> {"IN_PROGRESS", "MATCH"}
    [] status[x] = "IN_PROGRESS" /\ Row[x].table \in {"cash_payment", "cash_deposit"} ->
         {"IN_PROGRESS"} \cup Decided
    [] status[x] = "IN_PROGRESS" -> Decided
    [] OTHER -> {}

\* A row in a transaction of the reconciler: a deposit is matched after its
\* payments and in the same run.
Reconcile(x) ==
  /\ run # NoRun /\ DayOf(x) <= run.date
  /\ \E s \in Outcomes(x) :
       /\ s = "MATCH" /\ x \in DOMAIN PaidBy =>
            \A p \in PaidBy[x] : status[p] = "MATCH" /\ stamp[p] = run.date
       /\ status' = [status EXCEPT ![x] = s]
  /\ stamp' = [stamp EXCEPT ![x] = run.date]
  /\ Touch(x)
  /\ UNCHANGED <<uploaded, saved, atHand, messages, batch, run, reportTopic>>

\* reportEnabled, which the parser sets: the report of the period is asked for.
GenerateReport ==
  /\ run # NoRun /\ run' = NoRun
  /\ reportTopic' = reportTopic \cup {run.date}
  /\ UNCHANGED <<tables, report, uploaded, saved, atHand, messages, batch>>

\* An error is logged and ends the run; so does a message that wants no report.
EndRun ==
  /\ run # NoRun /\ run' = NoRun
  /\ UNCHANGED <<tables, report, uploaded, saved, atHand, messages, batch, reportTopic>>

Report ==
  /\ (\E to \in reportTopic : StartReport(to)) \/ ReadReport
  /\ UNCHANGED <<uploaded, saved, atHand, messages, batch, run, reportTopic>>

Init ==
  /\ Parser!Init
  /\ status = [x \in Rows |-> "ABSENT"] /\ stamp = [x \in Rows |-> NoRun]
  /\ report = NoReport
  /\ batch = {} /\ run = NoRun /\ reportTopic = {}

Next ==
  \/ ParseFile
  \/ \E x \in Rows : Insert(x) \/ Reconcile(x)
  \/ \E d \in Dates : BatchPublish(d)
  \/ \E m \in messages : StartRun(m)
  \/ GenerateReport \/ EndRun
  \/ Report

Spec == Init /\ [][Next]_pipelineVars
-----------------------------------------------------------------------------
\* The type of the state, and what ties the tables to the uploads: a row is in
\* a table once its line was saved, and its file was recorded before it.
TypeOK ==
  /\ uploaded \subseteq Files /\ atHand \subseteq uploaded
  /\ saved \in [Files -> SUBSET Rows]
  /\ \A f \in Files : saved[f] \subseteq LinesOf[f] /\ (saved[f] # {} => f \in uploaded)
  /\ status \in [Rows -> Statuses] /\ stamp \in [Rows -> Dates \cup {NoRun}]
  /\ \A x \in Rows :
       /\ status[x] # "ABSENT" <=> \E f \in Files : x \in saved[f]
       /\ status[x] \in {"ABSENT", "PENDING"} <=> stamp[x] = NoRun
  /\ messages \subseteq Messages
  /\ batch \subseteq Dates /\ reportTopic \subseteq Dates
  /\ run = NoRun \/ run \in messages
  /\ report = NoReport \/ report \in ReportState

\* What the reconciler writes without bypassing the check, it writes when there
\* is a row for a file of each required type of the business day before: the
\* check is made once, before the run, and holds until the run ends.
GateIsSound ==
  [][\A x \in Rows :
       status[x] # "ABSENT" /\ status'[x] # status[x] /\ ~run.byPass =>
         \A t \in RequiredTypes : \E f \in uploaded :
           FileType[f] = t /\ FileDate[f] = PrevBusinessDay(run.date)]_tables

\* If a deposit is on the report as MATCH, its payments are on it as MATCH too:
\* they are saved before the deposit, and read after it.
MatchedDepositShowsItsPayment ==
  Generated => \A x \in DOMAIN PaidBy :
    <<x, "MATCH">> \in Details => \A p \in PaidBy[x] : <<p, "MATCH">> \in Details
=============================================================================
