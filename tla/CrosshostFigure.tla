--------------------------- MODULE CrosshostFigure ---------------------------
(***************************************************************************)
(* crosshost_figure.py: the mean time to first answer of each mode at each *)
(* injected round-trip time, over two sweeps, and the stars of the run on  *)
(* two machines.                                                           *)
(***************************************************************************)
EXTENDS ResultRows

SweptModes == {"lazy", "lazy-prefetch", "lazy-adaptive"}
Starred == {"lazy", "lazy-prefetch"}

\* int() of a cell has no fallback.
Readable(rows) == \A i \in DOMAIN rows : rows[i].ttfr # Bad

\* load_netem: both files go into one table, errors left out.
LaterFileWins(coarse, fine) ==
  SelectSeq(coarse, LAMBDA r : \A i \in DOMAIN fine : fine[i].rtt # r.rtt) \o fine
Merged(coarse, fine) == coarse \o fine

AnswersOf(d, mode) == {i \in DOMAIN d : d[i].mode = mode /\ d[i].ttfr >= 0}
AnswersAt(d, mode, rtt) == {i \in AnswersOf(d, mode) : d[i].rtt = rtt}
MeanTtfr(d, S) == MeanOver([i \in DOMAIN d |-> d[i].ttfr], S)

\* "show loopback at 10us on log axis"
Abscissa(rtt) == IF rtt > 0 THEN rtt ELSE 10

Series(d, mode) ==
  {[x |-> Abscissa(d[i].rtt), y |-> MeanTtfr(d, AnswersAt(d, mode, d[i].rtt))] :
     i \in AnswersOf(d, mode)}

\* load_2machine: the RTT of the last answered row stands for the run.
Stars(run) ==
  LET answered == {i \in DOMAIN run : run[i].ttfr >= 0}
      last == CHOOSE i \in answered : \A j \in answered : j <= i
  IN  {[mode |-> m, x |-> run[last].rtt, y |-> MeanTtfr(run, AnswersOf(run, m))] :
         m \in {k \in Starred : AnswersOf(run, k) # {}}}

CrosshostLines(coarse, fine, run) ==
  [series |-> [m \in SweptModes |-> Series(Merged(coarse, fine), m)], stars |-> Stars(run)]

=============================================================================
