------------------------------- MODULE Figures -------------------------------
(***************************************************************************)
(* figures.py: the numbers that are drawn.  It loads, groups and averages  *)
(* the rows with code of its own.                                          *)
(***************************************************************************)
EXTENDS ResultRows

FigureFields ==
  {"ttfr_ms", "throughput_ops_sec", "page_faults", "pages_prefetched",
   "total_pages_served", "checkpoint_time_ms"}

LoadForFigures(rows) == Converted(rows, FigureFields)

\* ms: the values that are no errors
DrawnAll(rows, S, f) == S
Drawn(rows, S, f) == {i \in S : rows[i].val[f] >= 0}

Ms(rows, S, f) ==
  LET vs == Drawn(rows, S, f) IN IF vs = {} THEN NoMean ELSE MeanOver(Column(rows, f), vs)

\* A bar of a group with no rows has height 0.
Bar(rows, wl, mode, f) == Ms(rows, GroupOf(rows, wl, mode), f)

DrawnModes == Mode \ {"lazy-hot"}
Controlled == {"lazy-prefetch", "lazy-adaptive"}

\* Figure 1: the PyTorch bars, and those that get a number on top.
PytorchTtfr(rows) ==
  [m \in DrawnModes |->
    LET mu == Bar(rows, "pytorch", m, "ttfr_ms") IN [bar |-> mu, labelled |-> Positive(mu)]]

\* Figure 2
TtfrAll(rows) == [g \in Workload \X DrawnModes |-> Bar(rows, g[1], g[2], "ttfr_ms")]

\* Figure 3: the volumes, and the reduction above each pair.
PrefetchVolume(rows) ==
  [bars |-> [g \in Workload \X Controlled |-> Bar(rows, g[1], g[2], "pages_prefetched")],
   reduction |-> [wl \in Workload |->
     LET pre == Bar(rows, wl, "lazy-prefetch", "pages_prefetched")
         ada == Bar(rows, wl, "lazy-adaptive", "pages_prefetched")
     IN  IF Has(rows, wl, "lazy-prefetch") /\ Has(rows, wl, "lazy-adaptive") /\ Positive(pre)
         THEN Over(Minus(pre, ada), pre) ELSE Absent]]

\* Figure 4
FaultsAndTtfr(rows) ==
  [m \in DrawnModes \ {"full"} |->
    [faults |-> Bar(rows, "pytorch", m, "page_faults"), ttfr |-> Bar(rows, "pytorch", m, "ttfr_ms")]]

\* Figure 5: the lines of the handler's log that the pattern matches.
Matches(line) == line.policy /\ line.whole
ParsePolicyLog(log) == SelectSeq(log, Matches)
AdaptiveTimeline(log) ==
  LET windows == ParsePolicyLog(log) IN
    IF windows = <<>> THEN Absent
    ELSE [i \in DOMAIN windows |-> [rate |-> windows[i].rate, on |-> windows[i].on]]

Draw(rows, log) ==
  [fig1 |-> PytorchTtfr(rows), fig2 |-> TtfrAll(rows), fig3 |-> PrefetchVolume(rows),
   fig4 |-> FaultsAndTtfr(rows), fig5 |-> AdaptiveTimeline(log)]

=============================================================================
