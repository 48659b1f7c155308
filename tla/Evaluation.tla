----------------------------- MODULE Evaluation -----------------------------
(***************************************************************************)
(* An evaluation: the suite appends one row per iteration and may be       *)
(* stopped at any of them, then the report and the figures are made of the *)
(* file; or RTT sweeps are measured and drawn.                             *)
(***************************************************************************)
EXTENDS Report, Figures, CrosshostFigure, SequencesExt

CONSTANTS
  Plan,        \* what the suite may be asked for: sequences of groups
  Outcome,     \* the values an iteration may record
  Logs,        \* the handler logs figure 5 may find
  SweepRow,    \* the rows of an RTT sweep
  MaxSweep     \* bound: rows of all sweep files

(***************************************************************************)
(* An iteration that was not answered records -1, one that was took at     *)
(* least a millisecond (pytorch.sh:64-82).  The figures ask for PyTorch.   *)
(* No sweep injects the 10 us at which loopback is drawn                   *)
(* (crosshost_netem.sh:43): the two would be drawn as one.                 *)
(***************************************************************************)
ASSUME EvaluationAssumption ==
  /\ "pytorch" \in Workload
  /\ Absent \notin [h1 : {"PASS", "FAIL"}, h2 : {"PASS", "FAIL", "N/A"}]
  /\ Absent \notin [delta : Fraction, volume : Fraction]
  /\ \A plan \in Plan : plan \in Seq(Groups)
  /\ Outcome \subseteq [ReportFields -> Int \cup {Bad}]
  /\ \A v \in Outcome : v["ttfr_ms"] = -1 \/ v["ttfr_ms"] \in Nat \ {0}
  /\ SweepRow \subseteq [rtt : Nat, mode : Mode, ttfr : Int \cup {Bad}]
  /\ \A r, s \in SweepRow : Abscissa(r.rtt) = Abscissa(s.rtt) => r.rtt = s.rtt

VARIABLES
  phase,       \* "bench", "reported", "drawn"; or "sweep", then "swept" or "crashed"
  todo,        \* the iterations the suite has not run yet
  csv,         \* results.csv
  log,         \* the handler's log of one adaptive iteration
  sweeps,      \* the files of the two netem sweeps and of the two-machine run
  report, figures

vars == <<phase, todo, csv, log, sweeps, report, figures>>
inputs == <<todo, csv, log, sweeps>>

Files == {"coarse", "fine", "lan"}

Init ==
  /\ phase \in {"bench", "sweep"}
  /\ todo \in Plan /\ csv = <<>> /\ log \in Logs
  /\ sweeps = [k \in Files |-> <<>>] /\ report = Absent /\ figures = Absent
  /\ phase = "sweep" => todo = CHOOSE p \in Plan : TRUE
  /\ phase = "sweep" => log = CHOOSE l \in Logs : TRUE

\* csv_append, whatever became of the iteration.
RunIteration ==
  /\ phase = "bench" /\ todo # <<>>
  /\ \E v \in Outcome :
       csv' = Append(csv, [workload |-> Head(todo)[1], mode |-> Head(todo)[2], val |-> v])
  /\ todo' = Tail(todo)
  /\ UNCHANGED <<phase, log, sweeps, report, figures>>

\* report.py; "no data rows in CSV" is an error.
MakeReport ==
  /\ phase = "bench" /\ csv # <<>>
  /\ phase' = "reported" /\ report' = GenerateReport(Load(csv))
  /\ UNCHANGED <<inputs, figures>>

\* figures.py
MakeFigures ==
  /\ phase = "reported"
  /\ phase' = "drawn" /\ figures' = Draw(LoadForFigures(csv), log)
  /\ UNCHANGED <<inputs, report>>

MeasureSweep ==
  /\ phase = "sweep"
  /\ Len(sweeps["coarse"]) + Len(sweeps["fine"]) + Len(sweeps["lan"]) < MaxSweep
  /\ \E k \in Files, r \in SweepRow : sweeps' = [sweeps EXCEPT ![k] = Append(@, r)]
  /\ UNCHANGED <<phase, todo, csv, log, report, figures>>

\* crosshost_figure.py
MakeCrosshost ==
  /\ phase = "sweep"
  /\ IF \A k \in Files : Readable(sweeps[k])
     THEN phase' = "swept" /\ figures' = CrosshostLines(sweeps["coarse"], sweeps["fine"], sweeps["lan"])
     ELSE phase' = "crashed" /\ UNCHANGED figures
  /\ UNCHANGED <<inputs, report>>

Finished == phase \in {"drawn", "swept", "crashed"} /\ UNCHANGED vars

Next == RunIteration \/ MakeReport \/ MakeFigures \/ MeasureSweep \/ MakeCrosshost \/ Finished

Spec == Init /\ [][Next]_vars

\* The rows as the suite wrote them.
Answered(wl, mode) == {i \in GroupOf(csv, wl, mode) : csv[i].val["ttfr_ms"] >= 0}
Recorded == phase \in {"reported", "drawn"}
Answer(S) == MeanOver(Column(csv, "ttfr_ms"), S)

(***************************************************************************)
(* H1 passes exactly for the modes that were answered, within a second in  *)
(* the mean of their answers: the -1 of a failed iteration neither counts  *)
(* as an answer nor shortens the mean (report.py:85-92, 238-247).          *)
(***************************************************************************)
PassIsMeasured ==
  Recorded => \A wl \in Workload, m \in LazyModes :
    LET A == Answered(wl, m) IN
      Has(csv, wl, m) =>
        (report.verdicts[<<wl, m>>].h1 = "PASS" <=> A # {} /\ Below(Answer(A), Whole(1000)))

(***************************************************************************)
(* RQ1 gives a direction exactly when both restores were answered, and it  *)
(* is that of the means of the answers (report.py:279-290).                *)
(***************************************************************************)
DirectionIsMeasured(wl) ==
  LET F == Answered(wl, "full") L == Answered(wl, "lazy") IN
    Has(csv, wl, "full") /\ Has(csv, wl, "lazy") =>
      report.questions[wl].rq1 =
        IF F = {} \/ L = {} THEN "none"
        ELSE IF Below(Answer(F), Answer(L)) THEN "slower" ELSE "faster"

(***************************************************************************)
(* RQ3 has no such guard: where prefetch was answered, an improvement of   *)
(* the full hundred percent means that no restore with hot pages ever was  *)
(* (report.py:310-318).                                                    *)
(***************************************************************************)
HundredPercentMeansFailure(wl) ==
  LET q == report.questions[wl].rq3 IN
    (q # Absent /\ Answered(wl, "lazy-prefetch") # {}) =>
      (Same(q, Whole(1)) <=> Answered(wl, "lazy-hot") = {})

\* What the report answers the research questions with is what was measured.
QuestionsAreMeasured ==
  Recorded => \A wl \in Workload : DirectionIsMeasured(wl) /\ HundredPercentMeansFailure(wl)

(***************************************************************************)
(* A failed iteration of a lazy mode, recorded as bench.sh:268 does, never *)
(* helps it: a verdict that passes with the row passes without it          *)
(* (report.py:85-92, 238-269).                                             *)
(***************************************************************************)
Errors(wl, m) ==
  {i \in GroupOf(csv, wl, m) : csv[i].val["ttfr_ms"] < 0 /\ csv[i].val["throughput_ops_sec"] = 0}
FailuresNeverHelp ==
  Recorded => \A wl \in Workload, m \in LazyModes : \A i \in Errors(wl, m) :
    LET given == report.verdicts[<<wl, m>>]
        clean == Verdicts(Load(RemoveAt(csv, i)))[<<wl, m>>]
    IN  /\ given.h1 = "PASS" => clean # Absent /\ clean.h1 = "PASS"
        /\ given.h2 = "PASS" => clean # Absent /\ clean.h2 = "PASS"

(***************************************************************************)
(* Whatever rows are missing or failed, no mean, share or change divides   *)
(* by zero (report.py:85-352).                                             *)
(***************************************************************************)
Defined(q) == q \in {Absent, Failed} \/ q.n > 0
TypeOK ==
  /\ phase \in {"bench", "reported", "drawn", "sweep", "swept", "crashed"}
  /\ Recorded =>
       /\ \A g \in Groups : Defined(report.ttfr[g])
       /\ \A g \in Groups :
            report.throughput[g] = Absent
              \/ (Defined(report.throughput[g].mean) /\ Defined(report.throughput[g].share))
       /\ \A wl \in Workload :
            LET q == report.questions[wl] IN
              /\ Defined(report.checkpoint[wl]) /\ Defined(q.rq2) /\ Defined(q.rq3)
              /\ \A m \in LazyModes : Defined(q.rq4[m])
              /\ q.rq5 = Absent \/ (Defined(q.rq5.delta) /\ Defined(q.rq5.volume))

(***************************************************************************)
(* The figures show the numbers of the report: the same bars, and for the  *)
(* prefetch volume the reduction that RQ5 gives as a change                *)
(* (figures.py:116-261, report.py:57-92, 324-336).                         *)
(***************************************************************************)
SameCell(bar, cell) == IF cell \in {Absent, Failed} THEN ~ Positive(bar) ELSE Same(bar, cell)
FiguresAgree ==
  phase = "drawn" =>
    /\ \A g \in Workload \X DrawnModes : SameCell(figures.fig2[g], report.ttfr[g])
    /\ \A m \in DrawnModes : figures.fig1[m].labelled <=> report.ttfr[<<"pytorch", m>>] \notin {Absent, Failed}
    /\ \A wl \in Workload :
         LET cut == figures.fig3.reduction[wl] rq5 == report.questions[wl].rq5 IN
           IF cut = Absent THEN rq5 = Absent \/ Same(rq5.volume, Whole(0))
           ELSE rq5 # Absent /\ Same(Minus(Whole(0), cut), rq5.volume)

(***************************************************************************)
(* Each line of figure 6 has one point per round-trip time, the mean of    *)
(* all answers to it in both sweeps (crosshost_figure.py:37-48, 69-76).    *)
(***************************************************************************)
SweepsMerged ==
  phase = "swept" => \A m \in SweptModes, rtt \in {r.rtt : r \in SweepRow} :
    LET Of(k) == AnswersAt(sweeps[k], m, rtt)
        Sum(k) == MeanTtfr(sweeps[k], Of(k)).sum
        n == Cardinality(Of("coarse")) + Cardinality(Of("fine"))
        at == {p \in figures.series[m] : p.x = Abscissa(rtt)}
    IN  at = IF n = 0 THEN {}
             ELSE {[x |-> Abscissa(rtt), y |-> [sum |-> Sum("coarse") + Sum("fine"), n |-> n]]}

=============================================================================
