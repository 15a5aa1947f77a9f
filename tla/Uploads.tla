------------------------------- MODULE Uploads -------------------------------
(***************************************************************************)
(* What the parser promises to the lambdas that read the database after    *)
(* it: files are taken one at a time, a file is recorded before its first  *)
(* line is saved, a file that was let go before all its lines were saved   *)
(* stays incomplete for good, and the reconciler gets its message only     *)
(* when no file is at hand.  FileIngestion implements it.                  *)
(***************************************************************************)
CONSTANTS Files, Lines(_), Dates

VARIABLES
  uploaded,   \* files with a row in file_uploaded
  saved,      \* the lines of each file that are in the tables
  atHand,     \* the file that is being saved, a set of one or none
  messages    \* messages for the reconciler: a day, and byPassFileValidity

uploadVars == <<uploaded, saved, atHand, messages>>

Init ==
  /\ uploaded = {} /\ atHand = {} /\ messages = {}
  /\ saved = [f \in Files |-> {}]

\* A file has one row for ever: it is never taken a second time.
Record(f) ==
  /\ f \notin uploaded /\ atHand = {}
  /\ uploaded' = uploaded \cup {f} /\ atHand' = {f}
  /\ UNCHANGED <<saved, messages>>

\* The workers of a file that was let go may still save some of its lines.
SaveLine(f, line) ==
  /\ f \in uploaded /\ line \in Lines(f) \ saved[f]
  /\ saved' = [saved EXCEPT ![f] = @ \cup {line}]
  /\ saved'[f] = Lines(f) => f \in atHand
  /\ UNCHANGED <<uploaded, atHand, messages>>

\* The file is done, or its failure was alerted on, or the parser gave up or died.
LetGo == atHand # {} /\ atHand' = {} /\ UNCHANGED <<uploaded, saved, messages>>

Publish(d) ==
  /\ atHand = {}
  /\ messages' = messages \cup {[date |-> d, byPass |-> FALSE]}
  /\ UNCHANGED <<uploaded, saved, atHand>>

Next ==
  \/ \E f \in Files : Record(f) \/ \E line \in Lines(f) : SaveLine(f, line)
  \/ LetGo
  \/ \E d \in Dates : Publish(d)

Spec == Init /\ [][Next]_uploadVars
=============================================================================
