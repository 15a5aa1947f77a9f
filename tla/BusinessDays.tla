---------------------------- MODULE BusinessDays ----------------------------
(***************************************************************************)
(* The part of date-fns the reconciler uses.  A date is a day number; day  *)
(* 0 is a Monday.  The library is external: the operators are modelled     *)
(* from how paymentDictionary, setExceptionsDate and fileCheck call it.    *)
(***************************************************************************)
EXTENDS Integers, FiniteSetsExt

\* Saturday and Sunday are days 5 and 6 of a week.
IsWeekend(day) == day % 7 \in {5, 6}

\* subBusinessDays(day, 1): step back until the day is not in a weekend.
PrevBusinessDay(day) == Max({d \in (day - 3) .. (day - 1) : ~IsWeekend(d)})

\* addBusinessDays(day, 1).
NextBusinessDay(day) == Min({d \in (day + 1) .. (day + 3) : ~IsWeekend(d)})

\* subBusinessDays(day, 2): the loop of the library run twice.
ExceptionsDate(day) == PrevBusinessDay(PrevBusinessDay(day))

\* differenceInMinutes: the difference of two times of one day, given in
\* seconds, truncated towards zero; the callers take its absolute value.
MinutesApart(s, t) == (IF s < t THEN t - s ELSE s - t) \div 60
=============================================================================
