----------------------------- MODULE Settlement -----------------------------
(***************************************************************************)
(* What a reconciliation promises about money: a step takes some open      *)
(* debits (payments) and some open credits (deposits) whose sums are       *)
(* equal and closes them together; nothing closed is opened again.         *)
(***************************************************************************)
EXTENDS Integers, FiniteSetsExt

CONSTANTS Debits, Credits

VARIABLES amount, openDebits, openCredits

vars == <<amount, openDebits, openCredits>>

Total(S) == LET value(x) == amount[x] IN MapThenSumSet(value, S)

Init ==
  /\ amount \in [Debits \cup Credits -> Int]
  /\ openDebits = Debits /\ openCredits = Credits

Settle ==
  /\ openDebits' \subseteq openDebits /\ openCredits' \subseteq openCredits
  /\ Total(openDebits \ openDebits') = Total(openCredits \ openCredits')
  /\ UNCHANGED amount

Spec == Init /\ [][Settle]_vars
=============================================================================
