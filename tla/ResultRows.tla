----------------------------- MODULE ResultRows -----------------------------
(***************************************************************************)
(* The rows of results.csv, as eval/bench.sh appends them and as report.py *)
(* and figures.py load, group and average them.  A value is what a float   *)
(* makes of the cell; means are kept as exact fractions, standard          *)
(* deviations and all formatting are left out.                             *)
(***************************************************************************)
EXTENDS Integers, Sequences, FiniteSets

CONSTANTS
  Workload,    \* the workloads of the suite
  Bad,         \* a cell that is no number
  Absent,      \* what a table says of a group with no rows
  Failed       \* what it says of a mean that is not positive: "FAIL" or "N/A"

Fraction == [sum : Int, n : Int]

\* A text is no number.
ASSUME ResultAssumption == Bad \notin Int /\ Absent \notin Fraction /\ Failed \notin Fraction

\* "Preserve logical order"
ModeOrder == <<"full", "lazy", "lazy-prefetch", "lazy-adaptive", "lazy-hot">>
Mode == {ModeOrder[i] : i \in DOMAIN ModeOrder}
LazyModes == Mode \ {"full"}
Groups == Workload \X Mode

\* float() of a cell, or 0.0
Converted(rows, fields) ==
  [i \in DOMAIN rows |->
    [rows[i] EXCEPT !.val = [f \in DOMAIN @ |-> IF f \in fields /\ @[f] = Bad THEN 0 ELSE @[f]]]]

\* The rows of a group, by their numbers.
GroupOf(rows, wl, mode) == {i \in DOMAIN rows : rows[i].workload = wl /\ rows[i].mode = mode}
Has(rows, wl, mode) == GroupOf(rows, wl, mode) # {}

\* statistics.mean adds the values in the order of the rows.
Total(list) ==
  LET sum[n \in 0 .. Len(list)] == IF n = 0 THEN 0 ELSE sum[n - 1] + list[n]
  IN  sum[Len(list)]

Column(rows, f) == [i \in DOMAIN rows |-> rows[i].val[f]]
Only(column, S) == [i \in DOMAIN column |-> IF i \in S THEN column[i] ELSE 0]

\* The mean of the rows in S.
NoMean == [sum |-> 0, n |-> 1]
MeanOver(column, S) == [sum |-> Total(Only(column, S)), n |-> Cardinality(S)]

\* Fractions: q.sum / q.n with q.n > 0.
Positive(q) == q.sum > 0
Below(q, r) == q.sum * r.n < r.sum * q.n
Same(q, r) == q.sum * r.n = r.sum * q.n
Over(q, r) == [sum |-> q.sum * r.n, n |-> q.n * r.sum]
Minus(q, r) == [sum |-> q.sum * r.n - r.sum * q.n, n |-> q.n * r.n]
Whole(k) == [sum |-> k, n |-> 1]

=============================================================================
