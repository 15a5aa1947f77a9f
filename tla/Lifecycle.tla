----------------------------- MODULE Lifecycle ------------------------------
(***************************************************************************)
(* What happens to the status column of a payment or deposit over its      *)
(* life, whatever process touches it: it is inserted as PENDING, may wait  *)
(* as IN_PROGRESS, and ends as MATCH or as EXCEPTION.  An EXCEPTION was    *)
(* IN_PROGRESS before; a row that has ended is never written again.        *)
(***************************************************************************)
CONSTANT Items

VARIABLE status

\* MatchStatus, and ABSENT for a row that is not in the table yet.
Statuses == {"ABSENT", "PENDING", "IN_PROGRESS", "MATCH", "EXCEPTION"}

Moves == { <<"ABSENT", "PENDING">>,
           <<"PENDING", "IN_PROGRESS">>, <<"PENDING", "MATCH">>,
           <<"IN_PROGRESS", "MATCH">>, <<"IN_PROGRESS", "EXCEPTION">> }

Init == status = [i \in Items |-> "ABSENT"]

\* One save or one database transaction: any number of rows move at once.
Save ==
  /\ status' \in [Items -> Statuses]
  /\ \A i \in Items : status'[i] = status[i] \/ <<status[i], status'[i]>> \in Moves

Spec == Init /\ [][Save]_status
=============================================================================
