------------------------------- MODULE Report -------------------------------
(***************************************************************************)
(* report.py: the tables, the verdicts on the hypotheses and the answers   *)
(* to the research questions, each from the means of the groups.           *)
(***************************************************************************)
EXTENDS ResultRows

ReportFields ==
  {"ttfr_ms", "throughput_ops_sec", "page_faults", "pages_prefetched", "prefetch_hits",
   "hit_rate_pct", "total_pages_served", "eager_pages", "checkpoint_time_ms"}

\* load_csv
Load(rows) == Converted(rows, ReportFields)

\* Error values (-1) do not count; a group of errors has the mean 0.
CountedAll(rows, S, f) == S
Counted(rows, S, f) == {i \in S : rows[i].val[f] >= 0}

MeanStd(rows, S, f) ==
  LET kept == Counted(rows, S, f) IN IF kept = {} THEN NoMean ELSE MeanOver(Column(rows, f), kept)

GroupMean(rows, wl, mode, f) == MeanStd(rows, GroupOf(rows, wl, mode), f)
Ttfr(rows, wl, mode) == GroupMean(rows, wl, mode, "ttfr_ms")

\* fmt_ms, fmt_ops
Shown(mean) == IF Positive(mean) THEN mean ELSE Failed

TtfrTable(rows) ==
  [g \in Groups |-> IF Has(rows, g[1], g[2]) THEN Shown(Ttfr(rows, g[1], g[2])) ELSE Absent]

\* The throughput of full restores, or 0 where there are none.
Baseline(rows, wl) == GroupMean(rows, wl, "full", "throughput_ops_sec")

Throughput(rows) ==
  [g \in Groups |->
    IF ~ Has(rows, g[1], g[2]) THEN Absent
    ELSE LET m == GroupMean(rows, g[1], g[2], "throughput_ops_sec") base == Baseline(rows, g[1])
         IN  [mean |-> Shown(m),
              share |-> IF g[2] # "full" /\ Positive(base) THEN Over(m, base) ELSE Absent]]

Checkpoint(rows) ==
  [wl \in Workload |->
    Shown(MeanStd(rows, {i \in DOMAIN rows : rows[i].workload = wl}, "checkpoint_time_ms"))]

FaultFields == ReportFields \ {"ttfr_ms", "throughput_ops_sec", "checkpoint_time_ms"}
FaultTable(rows) ==
  [g \in Workload \X LazyModes |->
    IF Has(rows, g[1], g[2]) THEN [f \in FaultFields |-> GroupMean(rows, g[1], g[2], f)] ELSE Absent]

Verdict(holds) == IF holds THEN "PASS" ELSE "FAIL"

\* H1: 0 < mean < 1000
FastOrNone(m) == Below(m, Whole(1000))
FastEnough(m) == Positive(m) /\ Below(m, Whole(1000))

H1(rows, wl, mode) == Verdict(FastEnough(Ttfr(rows, wl, mode)))

\* H2: at least 70 % of the full restores' throughput
H2(rows, wl, mode) ==
  LET m == GroupMean(rows, wl, mode, "throughput_ops_sec") base == Baseline(rows, wl)
  IN  IF Positive(base) THEN Verdict(~ Below(Over(m, base), [sum |-> 70, n |-> 100])) ELSE "N/A"

Verdicts(rows) ==
  [g \in Workload \X LazyModes |->
    IF Has(rows, g[1], g[2]) THEN [h1 |-> H1(rows, g[1], g[2]), h2 |-> H2(rows, g[1], g[2])]
    ELSE Absent]

\* RQ1 leaves the direction out when a mode was never answered.
OneAnswered(full, lazy) == Positive(full) \/ Positive(lazy)
BothAnswered(full, lazy) == Positive(full) /\ Positive(lazy)

Direction(full, lazy) ==
  IF BothAnswered(full, lazy)
  THEN IF Below(Whole(1), Over(lazy, full)) THEN "slower" ELSE "faster"
  ELSE "none"

\* The relative change from one mode to another, 0 from a mean of 0.
ChangeUnguarded(from, to) == Over(Minus(to, from), from)
Change(from, to) == IF Positive(from) THEN Over(Minus(to, from), from) ELSE Whole(0)

RQ1(rows, wl) == Direction(Ttfr(rows, wl, "full"), Ttfr(rows, wl, "lazy"))
RQ2(rows, wl) ==
  Change(GroupMean(rows, wl, "lazy", "page_faults"), GroupMean(rows, wl, "lazy-prefetch", "page_faults"))
RQ3(rows, wl) ==
  LET pre == Ttfr(rows, wl, "lazy-prefetch") hot == Ttfr(rows, wl, "lazy-hot")
  IN  IF Positive(pre) THEN Over(Minus(pre, hot), pre) ELSE Whole(0)
RQ5(rows, wl) ==
  [delta |-> Minus(Ttfr(rows, wl, "lazy-adaptive"), Ttfr(rows, wl, "lazy-prefetch")),
   volume |-> Change(GroupMean(rows, wl, "lazy-prefetch", "pages_prefetched"),
                     GroupMean(rows, wl, "lazy-adaptive", "pages_prefetched"))]
RQ4(rows, wl) ==
  [mode \in LazyModes |->
    IF Positive(Baseline(rows, wl)) /\ Has(rows, wl, mode)
    THEN Over(GroupMean(rows, wl, mode, "throughput_ops_sec"), Baseline(rows, wl)) ELSE Absent]

If(rows, wl, one, other, answer) ==
  IF Has(rows, wl, one) /\ Has(rows, wl, other) THEN answer ELSE Absent

Questions(rows) ==
  [wl \in Workload |->
    [rq1 |-> If(rows, wl, "full", "lazy", RQ1(rows, wl)),
     rq2 |-> If(rows, wl, "lazy", "lazy-prefetch", RQ2(rows, wl)),
     rq3 |-> If(rows, wl, "lazy-prefetch", "lazy-hot", RQ3(rows, wl)),
     rq4 |-> RQ4(rows, wl),
     rq5 |-> If(rows, wl, "lazy-prefetch", "lazy-adaptive", RQ5(rows, wl))]]

GenerateReport(rows) ==
  [ttfr |-> TtfrTable(rows), throughput |-> Throughput(rows), checkpoint |-> Checkpoint(rows),
   faults |-> FaultTable(rows), verdicts |-> Verdicts(rows), questions |-> Questions(rows)]

=============================================================================
