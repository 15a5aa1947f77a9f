--------------------------- MODULE MCPosMatching ----------------------------
(* Small instances of PosMatching: tables of payments and deposits over a  *)
(* Friday (day 4) and the Monday after it (day 7).                         *)
EXTENDS PosMatching

\* Times on both sides of the sixth minute; amounts that add up (1 + 1 = 2)
\* and that cancel out (1 - 1 = 0).
MCRows == [date: {4}, time: {0, 359, 360}, amount: {1, 2}, method: {"P"}]
            \cup [date: {7}, time: {0, 360}, amount: {1, -1}, method: {"P"}]

\* With a refund (-2), for the buckets that sum to 0.
MCRefundRows == [date: {4}, time: {0}, amount: {2, -2}, method: {"P", "V"}]

\* Ids are numbers here and a table lists its rows in a fixed order: the
\* behaviours from the tables left out are renamings of those kept.
Weight(r) == 10000 * r.date + 10 * r.time + r.amount
Sorted(table) == \A x, y \in DOMAIN table : x < y => Weight(table[x]) <= Weight(table[y])

MCInit == Init /\ Sorted(payment) /\ Sorted(deposit)
MCSpec == MCInit /\ [][Next]_vars /\ WF_vars(Next)
=============================================================================
