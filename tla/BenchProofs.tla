----------------------------- MODULE BenchProofs -----------------------------
(***************************************************************************)
(* Theorems about an iteration of the benchmark, for every memory map, any *)
(* number of rounds and of faults, and every failure the model has: what   *)
(* is still running, what was measured, and what the row says; and about   *)
(* the hot-page profiler in it, whatever the profiled process does.        *)
(***************************************************************************)
EXTENDS BenchIteration, FiniteSetTheorems, WellFoundedInduction, TLAPS

\* Where the harness is: with the original process, between the two, with the copy.
Original == {"warmup", "ask", "unask", "profile", "dump", "reap"}
Between == {"serve", "restore"}
Probing == {"clear", "touch", "probe", "kill"}
Ending == {"await", "stop", "done"}

\* The process's variables fit each other, in the process and in its image.
Consistent(at, acted, file) ==
  /\ at \in {"load", "ready", "poll", "infer", "open", "write", "idle"}
  /\ acted \in Trigger
  /\ acted = "none" <=> at \in {"load", "ready", "poll"}
  /\ file = "closed" <=> at # "write"

ProcessOK == Consistent(wpc, seen, fd)

ImageOK ==
  image # Nothing => Consistent(image.wpc, image.seen, image.fd) /\ image.seen # "probe"

StepOK ==
  /\ hpc \in Original \cup Between \cup Probing \cup Ending
  /\ mode \in {"full", "lazy", "lazy-hot"}
  /\ restored \in BOOLEAN
  /\ ppc # "off" => hpc = "profile"

\* Who runs when.
RunningOK ==
  /\ hpc \in Between => alive # "run"
  /\ hpc \in Probing /\ alive = "run" => restored
  /\ hpc \in Ending => alive # "run"
  /\ server \in BOOLEAN /\ (server => hpc \notin Original \cup {"serve", "done"})
  /\ handler \in {"none", "accept", "serve", "exited", "killed"}
  /\ hpc \in Original \cup {"serve"} => handler = "none"
  /\ hpc \in {"stop", "done"} => handler \notin {"accept", "serve"}

\* Who has touched the trigger file.
TriggerOK ==
  /\ trigger \in Trigger
  /\ trigger = "profile" => hpc = "unask"
  /\ trigger = "probe" => hpc \in {"probe", "kill"} \cup Ending

\* The original is never asked by the probe; the copy goes on from its image.
FollowsImage ==
  /\ hpc \in Original \cup Between => seen # "probe" /\ ~ restored
  /\ restored =>
       /\ image # Nothing
       /\ image.seen = "none" => seen \in {"none", "probe"}
       /\ hpc \in {"clear", "touch"} => seen # "probe"
       /\ image.seen = "profile" => seen = "profile" /\ (image.wpc = "idle" => wpc = "idle")

Fresh(answer) ==
  /\ image # Nothing
  /\ \/ answer = "probe" /\ image.seen = "none"
     \/ image.seen = "profile" /\ image.wpc \in {"infer", "open", "write"}

\* Once old answers have been removed, an answer in the file is a fresh one.
ResultOK ==
  /\ result \in {"none", "empty", "profile", "probe"}
  /\ hpc \in {"touch", "probe", "kill"} \cup Ending /\ result \notin {"none", "empty"} =>
       restored /\ Fresh(result)
  /\ ttfr \notin {"none", "timeout"} => hpc \in {"kill"} \cup Ending /\ Fresh(ttfr)

CountOK ==
  /\ faults \in Nat
  /\ handler = "none" => faults = 0
  /\ handler = "exited" => printed
  /\ row # Nothing =>
       /\ hpc = "done"
       /\ row.faults = faults \/ (row.faults = 0 /\ handler = "killed" /\ ~ printed)

BenchInv ==
  /\ ProcessOK /\ ImageOK /\ StepOK /\ RunningOK /\ TriggerOK
  /\ FollowsImage /\ ResultOK /\ CountOK

----------------------------------------------------------------------------
(* Every step keeps the invariant.                                         *)

LEMMA InitBench == Init => BenchInv
<1> SUFFICES ASSUME Init PROVE BenchInv
  OBVIOUS
<1> USE DEF Init, WorkloadInit, ProfilerInit, Original, Between, Probing, Ending, Trigger
<1>1. ProcessOK /\ ImageOK /\ TriggerOK
  BY DEF ProcessOK, ImageOK, TriggerOK, Consistent
<1>2. StepOK /\ RunningOK
  BY DEF StepOK, RunningOK
<1>3. FollowsImage /\ ResultOK /\ CountOK
  BY DEF FollowsImage, ResultOK, CountOK
<1> QED
  BY <1>1, <1>2, <1>3 DEF BenchInv

\* The process runs its program, dies, is reaped, uses its memory.
LEMMA WorkloadKeeps ==
  ASSUME BenchInv, WorkloadActs
  PROVE  BenchInv'
<1> USE DEF BenchInv, ProcessOK, ImageOK, StepOK, RunningOK, TriggerOK, FollowsImage, ResultOK,
        CountOK, Consistent, Fresh, Original, Between, Probing, Ending, Trigger,
        procVars, files, memory, workloadVars, restoring, servers, handling
<1>1. CASE Load /\ UNCHANGED <<alive, harnessVars, ppc>>
  BY <1>1 DEF Load, Goto, harnessVars
<1>2. CASE SignalReady /\ UNCHANGED <<alive, harnessVars, ppc>>
  BY <1>2 DEF SignalReady, Goto, harnessVars
<1>3. CASE SeeTrigger /\ UNCHANGED <<alive, harnessVars, ppc>>
  BY <1>3 DEF SeeTrigger, Goto, harnessVars
<1>4. CASE Infer /\ UNCHANGED <<alive, harnessVars, ppc>>
  BY <1>4 DEF Infer, Goto, harnessVars
<1>5. CASE OpenResult /\ UNCHANGED <<alive, harnessVars, ppc>>
  BY <1>5 DEF OpenResult, Goto, harnessVars
<1>6. CASE WriteResult /\ UNCHANGED <<alive, harnessVars, ppc>>
  BY <1>6 DEF WriteResult, Goto, harnessVars
<1>7. CASE Reaped /\ UNCHANGED <<harnessVars, ppc>>
  BY <1>7 DEF Reaped, harnessVars
<1>8. CASE Dies /\ UNCHANGED <<harnessVars, ppc>>
  BY <1>8 DEF Dies, harnessVars
<1>9. CASE MemoryStep /\ UNCHANGED harnessVars
  BY <1>9 DEF MemoryStep, Touches, Remaps, Witnessed, harnessVars
<1> QED
  BY <1>1, <1>2, <1>3, <1>4, <1>5, <1>6, <1>7, <1>8, <1>9 DEF WorkloadActs, WorkloadStep, Witnessed

\* The profiler only looks.
LEMMA ProfilerKeeps ==
  ASSUME BenchInv, Profiling
  PROVE  BenchInv'
<1> USE DEF BenchInv, ProcessOK, ImageOK, StepOK, RunningOK, TriggerOK, FollowsImage, ResultOK,
        CountOK, Consistent, Fresh, Original, Between, Probing, Ending, Trigger,
        procVars, files, memory, workloadVars, restoring, servers, handling
<1>1. CASE UNCHANGED <<procVars, alive, files, harnessVars>> /\ hpc = "profile"
  BY <1>1 DEF harnessVars
<1> QED
  BY <1>1 DEF Profiling, ProfilerStep

\* The harness.
LEMMA HarnessKeeps ==
  ASSUME BenchInv, HarnessStep
  PROVE  BenchInv'
<1> USE DEF BenchInv, ProcessOK, ImageOK, StepOK, RunningOK, TriggerOK, FollowsImage, ResultOK,
        CountOK, Consistent, Fresh, Original, Between, Probing, Ending, Trigger,
        procVars, files, memory, workloadVars, restoring, servers, handling, profilerVars
<1>1. CASE Warmup
  BY <1>1 DEF Warmup, Proceed
<1>2. CASE ProfileAsk
  BY <1>2 DEF ProfileAsk, TouchTrigger, Proceed
<1>3. CASE ProfileUnask
  BY <1>3 DEF ProfileUnask, RemoveTrigger, Proceed
<1>4. CASE Profiled
  BY <1>4 DEF Profiled, Proceed
<1>5. CASE Dump
  BY <1>5 DEF Dump, Proceed
<1>6. CASE Reap
  BY <1>6 DEF Reap, Proceed
<1>7. CASE StartServers
  BY <1>7 DEF StartServers, Proceed
<1>8. CASE Restore
  <2>1. ProcessOK' /\ ImageOK'
    BY <1>8 DEF Restore, Proceed
  <2>4. StepOK' /\ TriggerOK'
    BY <1>8 DEF Restore, Proceed
  <2>2. RunningOK' /\ ResultOK' /\ CountOK'
    BY <1>8 DEF Restore, Proceed
  <2>3. FollowsImage'
    BY <1>8 DEF Restore, Proceed
  <2> QED
    BY <2>1, <2>2, <2>3, <2>4
<1>9. CASE ProbeClear
  BY <1>9 DEF ProbeClear, OldAnswerGone, RemoveResult, RemoveTrigger, Proceed
<1>10. CASE ProbeTouch
  BY <1>10 DEF ProbeTouch, TouchTrigger, Proceed
<1>11. CASE ProbeEnds
  BY <1>11 DEF ProbeEnds, Proceed
<1>12. CASE KillRestored
  BY <1>12 DEF KillRestored, Proceed
<1>13. CASE AwaitHandler
  BY <1>13 DEF AwaitHandler, HandlerStopped, Proceed
<1>14. CASE Record
  <2>1. ProcessOK' /\ ImageOK' /\ StepOK' /\ TriggerOK'
    BY <1>14 DEF Record, Proceed
  <2>2. RunningOK' /\ ResultOK' /\ FollowsImage'
    BY <1>14 DEF Record, Proceed
  <2>3. row'.faults = ParsedFaults
    BY <1>14 DEF Record
  <2>4. CountOK'
    BY <1>14, <2>3 DEF Record, ParsedFaults, Proceed
  <2> QED
    BY <2>1, <2>2, <2>4
<1> HIDE DEF BenchInv, ProcessOK, ImageOK, StepOK, RunningOK, TriggerOK, FollowsImage, ResultOK,
         CountOK
<1> QED
  BY <1>1, <1>2, <1>3, <1>4, <1>5, <1>6, <1>7, <1>8, <1>9, <1>10, <1>11, <1>12, <1>13, <1>14 DEF HarnessStep

\* The handler serves, leaves its loop, prints and exits.
LEMMA HandlerKeeps ==
  ASSUME BenchInv, HandlerServes \/ HandlerPrints \/ HandlerExits
  PROVE  BenchInv'
<1> USE DEF BenchInv, ProcessOK, ImageOK, StepOK, RunningOK, TriggerOK, FollowsImage, ResultOK,
        CountOK, Consistent, Fresh, Original, Between, Probing, Ending, Trigger,
        procVars, files, memory, workloadVars, restoring, servers, handling
<1>1. CASE HandlerServes
  BY <1>1 DEF HandlerServes, profilerVars
<1>2. CASE HandlerExits
  BY <1>2 DEF HandlerExits, profilerVars
<1>3. CASE HandlerPrints
  BY <1>3 DEF HandlerPrints, profilerVars
<1> QED
  BY <1>1, <1>2, <1>3

LEMMA StutterKeeps ==
  ASSUME BenchInv, UNCHANGED vars
  PROVE  BenchInv'
BY DEF vars, workloadVars, procVars, files, profilerVars, harnessVars, restoring, servers, handling,
     BenchInv, ProcessOK, ImageOK, StepOK, RunningOK, TriggerOK,
     FollowsImage, ResultOK, CountOK, Consistent, Fresh, Original, Between, Probing,
     Ending, Trigger

LEMMA BenchStep == BenchInv /\ [Next]_vars => BenchInv'
BY WorkloadKeeps, ProfilerKeeps, HarnessKeeps, HandlerKeeps, StutterKeeps DEF Next, Idles

LEMMA BenchSafety == Spec => []BenchInv
BY InitBench, BenchStep, PTL DEF Spec

----------------------------------------------------------------------------

(***************************************************************************)
(* What is measured is the answer of a process that had to give it after   *)
(* its restore, never one it had given before its dump.                    *)
(***************************************************************************)
THEOREM AnswerSafety == Spec => []AnswerIsFresh
<1>1. BenchInv => AnswerIsFresh
  BY DEF BenchInv, ResultOK, Fresh, AnswerIsFresh
<1> QED
  BY <1>1, BenchSafety, PTL

(***************************************************************************)
(* Whatever failed, the iteration leaves no workload, no page server and   *)
(* no handler running.                                                     *)
(***************************************************************************)
THEOREM LeftoverSafety == Spec => []NothingLeftRunning
<1>1. BenchInv => NothingLeftRunning
  BY DEF BenchInv, RunningOK, NothingLeftRunning, Original, Ending
<1> QED
  BY <1>1, BenchSafety, PTL

(***************************************************************************)
(* A row's count of faults is the handler's own, or the zero of a handler  *)
(* that was killed before it had printed its statistics.                   *)
(***************************************************************************)
THEOREM RowSafety == Spec => []RowTellsFaults
<1>1. BenchInv => RowTellsFaults
  BY DEF BenchInv, CountOK, RowTellsFaults
<1> QED
  BY <1>1, BenchSafety, PTL

----------------------------------------------------------------------------
(* The hot-page profiler, for every memory map, any number of rounds, and  *)
(* a process that remaps its memory or dies between any two steps.         *)

InRound == {"clear", "sleep", "open", "read", "count"}

\* The types of the map read so far; an area has no more pages referenced than pages.
ReadOK ==
  /\ areas \in Layouts /\ accessed \subseteq Mapped(areas)
  /\ cursor \in Nat /\ vmas \subseteq AreaRead /\ current \in AreaRead \cup {Nothing}
  /\ \A v \in Collected : v.start < v.end /\ v.referenced <= v.end - v.start

\* A page's count is the number of rounds that voted for it.
TallyOK ==
  /\ counts \in [Page -> Nat] /\ ballots \in Seq(SUBSET Nat)
  /\ Len(ballots) <= Samples
  /\ ppc \in InRound => Len(ballots) < Samples
  /\ ppc = "off" => ballots = <<>>
  /\ \A p \in Page : counts[p] = Cardinality(RoundsFor(p))
  /\ ppc = "done" => hotPages = {p \in Page : counts[p] > 0 /\ counts[p] >= Threshold}

Shape(v) == [start |-> v.start, end |-> v.end]

\* What an undisturbed reading has collected is the map up to the cursor.
MapOK ==
  /\ ppc = "read" /\ steady =>
       alive = "run" /\ {Shape(v) : v \in Collected} = {a \in areas : a.end <= cursor}
  /\ ppc = "count" => current = Nothing
  /\ ppc = "count" /\ steady => {Shape(v) : v \in vmas} = areas

VoteInv == ReadOK /\ TallyOK /\ MapOK

----------------------------------------------------------------------------
(* Areas and their pages.                                                  *)

LEMMA PagesAreNat == Page \subseteq Nat
BY LayoutAssumption, FS_CardinalityType DEF LayoutAssumption

LEMMA AreaFacts ==
  ASSUME NEW map \in Layouts, NEW a \in map
  PROVE  /\ a.start \in Nat /\ a.end \in Nat /\ a.start < a.end
         /\ a = Shape(a)
BY LayoutAssumption, PagesAreNat DEF LayoutAssumption, Shape

LEMMA AreasDisjoint ==
  ASSUME NEW map \in Layouts, NEW a \in map, NEW b \in map, a.end = b.end
  PROVE  a = b
<1>1. a.end - 1 \in PagesIn(a) /\ a.end - 1 \in PagesIn(b)
  BY AreaFacts DEF PagesIn
<1> QED
  BY <1>1, LayoutAssumption DEF LayoutAssumption

LEMMA MappedAreNat ==
  ASSUME NEW map \in Layouts
  PROVE  Mapped(map) \subseteq Nat
BY LayoutAssumption, PagesAreNat DEF LayoutAssumption

LEMMA PageCount ==
  ASSUME NEW v, v.start \in Nat, v.end \in Nat, NEW S
  PROVE  /\ IsFiniteSet(PagesIn(v) \cap S)
         /\ Cardinality(PagesIn(v) \cap S) \in Nat
         /\ v.start < v.end => Cardinality(PagesIn(v) \cap S) <= v.end - v.start
<1>1. /\ IsFiniteSet(PagesIn(v))
      /\ v.start < v.end => Cardinality(PagesIn(v)) = v.end - v.start
  <2> DEFINE b == v.end - 1
  <2>1. v.start \in Int /\ b \in Int /\ PagesIn(v) = v.start .. b
    BY DEF PagesIn
  <2> HIDE DEF b
  <2>2. IsFiniteSet(v.start .. b)
        /\ Cardinality(v.start .. b) = IF v.start > b THEN 0 ELSE b - v.start + 1
    BY <2>1, FS_Interval
  <2>3. v.start < v.end => ~ (v.start > b) /\ b - v.start + 1 = v.end - v.start
    BY DEF b
  <2> QED
    BY <2>1, <2>2, <2>3
<1>2. /\ IsFiniteSet(PagesIn(v) \cap S)
      /\ Cardinality(PagesIn(v) \cap S) <= Cardinality(PagesIn(v))
  BY <1>1, FS_Subset
<1>3. Cardinality(PagesIn(v) \cap S) \in Nat
  BY <1>2, FS_CardinalityType
<1> QED
  BY <1>1, <1>2, <1>3

\* A set of numbers has a least one: of its initial intervals one contains no other.
LEMMA LeastNumber ==
  ASSUME NEW S \in SUBSET Nat, NEW n \in S
  PROVE  \E m \in S : \A k \in S : m <= k
<1> DEFINE Bound == 0 .. n
           Below == {k \in S : k <= n}
           Initial == {0 .. k : k \in Below}
<1>1. IsFiniteSet(Bound)
  BY FS_Interval
<1>2. \A k \in Below : 0 .. k \subseteq Bound
  OBVIOUS
<1>3. \A k \in Below : IsFiniteSet(0 .. k)
  BY FS_Interval
<1>4. Initial \subseteq FiniteSubsetsOf(Bound)
  <2> HIDE DEF Bound, Below
  <2> QED
    BY <1>2, <1>3 DEF FiniteSubsetsOf
<1>5. Initial # {}
  <2>1. n \in Below
    OBVIOUS
  <2> QED
    BY <2>1
<1>6. PICK I \in Initial : \A J \in Initial : ~ (<<J, I>> \in StrictSubsetOrdering(Bound))
  <2> HIDE DEF Initial, Bound
  <2>1. IsWellFoundedOn(StrictSubsetOrdering(Bound), FiniteSubsetsOf(Bound))
    BY FS_StrictSubsetOrderingWellFounded
  <2> QED
    BY <1>4, <1>5, <2>1, WFMin
<1>7. PICK m \in Below : I = 0 .. m
  OBVIOUS
<1>8. \A k \in S : m <= k
  <2> SUFFICES ASSUME NEW k \in S, k < m PROVE FALSE
    OBVIOUS
  <2>1. k \in Below
    OBVIOUS
  <2>2. 0 .. k \in Initial
    BY <2>1
  <2>3. 0 .. k \subseteq 0 .. m /\ m \in 0 .. m /\ m \notin 0 .. k
    OBVIOUS
  <2>4. <<0 .. k, I>> \in StrictSubsetOrdering(Bound)
    <3> HIDE DEF Bound, Below, Initial
    <3> QED
      BY <1>2, <1>7, <2>1, <2>3 DEF StrictSubsetOrdering
  <2> QED
    BY <1>6, <2>2, <2>4
<1> QED
  BY <1>8

\* If areas lie behind the cursor, one of them comes first.
LEMMA FirstArea ==
  ASSUME NEW map \in Layouts, NEW n \in Nat, NEW x \in map, x.end > n
  PROVE  \E a \in map : a.end > n /\ \A b \in map : b.end > n => a.end <= b.end
<1> DEFINE Ends == {a.end : a \in {b \in map : b.end > n}}
<1>1. Ends \in SUBSET Nat /\ x.end \in Ends
  BY AreaFacts
<1>2. PICK e \in Ends : \A f \in Ends : e <= f
  <2> HIDE DEF Ends
  <2> QED
    BY <1>1, LeastNumber
<1> QED
  BY <1>2

----------------------------------------------------------------------------
(* The invariant holds at the start, and the process keeps it.             *)

LEMMA InitVote == Init => VoteInv
<1> SUFFICES ASSUME Init PROVE VoteInv
  OBVIOUS
<1> USE DEF Init, WorkloadInit, ProfilerInit
<1>1. ReadOK
  BY DEF ReadOK, Collected
<1>2. TallyOK
  <2>1. \A p \in Page : Cardinality(RoundsFor(p)) = 0
    <3> TAKE p \in Page
    <3>1. RoundsFor(p) = {}
      BY DEF RoundsFor
    <3> QED
      BY <3>1, FS_EmptySet
  <2>2. Samples \in Nat /\ Len(ballots) = 0 /\ ballots \in Seq(SUBSET Nat)
    BY ProfilerAssumption
  <2>3. counts \in [Page -> Nat] /\ \A p \in Page : counts[p] = 0
    OBVIOUS
  <2>4. ppc = "off" /\ "off" \notin InRound /\ ballots = <<>>
    BY DEF InRound
  <2> QED
    BY <2>1, <2>2, <2>3, <2>4 DEF TallyOK
<1>3. MapOK
  BY DEF MapOK, InRound
<1> QED
  BY <1>1, <1>2, <1>3 DEF VoteInv

\* Steps that leave the tally alone keep it.
LEMMA SameTally ==
  ASSUME TallyOK, UNCHANGED <<tally, hotPages>>, ppc' \in InRound => ppc \in InRound,
         ppc' = "off" => ppc = "off", ppc' = "done" => ppc = "done"
  PROVE  TallyOK'
BY DEF TallyOK, tally, RoundsFor, Threshold

\* A process may map, touch and die; the reader keeps what it has read.
LEMMA ProcessVote ==
  ASSUME VoteInv, NEW touched \in SUBSET Nat, Witnessed(touched),
         areas' \in Layouts, accessed' \subseteq Mapped(areas')
  PROVE  VoteInv'
<1> USE DEF VoteInv, Witnessed, reading, tally
<1>1. ReadOK'
  BY DEF ReadOK, Collected
<1>2. TallyOK'
  BY SameTally
<1>3. MapOK'
  BY DEF MapOK, Collected, Shape
<1> QED
  BY <1>1, <1>2, <1>3

LEMMA WorkloadVote ==
  ASSUME VoteInv, WorkloadActs
  PROVE  VoteInv'
<1>1. areas \in Layouts /\ accessed \subseteq Mapped(areas)
  BY DEF VoteInv, ReadOK
<1>2. CASE Witnessed({}) /\ UNCHANGED memory
  BY <1>1, <1>2, ProcessVote DEF memory
<1>3. ASSUME NEW p \in Page, Touches(p), Witnessed({p}) PROVE VoteInv'
  <2>1. {p} \in SUBSET Nat
    BY PagesAreNat
  <2> QED
    BY <1>1, <1>3, <2>1, ProcessVote DEF Touches
<1>4. CASE Remaps /\ Witnessed({})
  BY <1>1, <1>4, ProcessVote DEF Remaps
<1>5. WorkloadStep \/ Reaped \/ Dies => UNCHANGED memory
  BY DEF WorkloadStep, Load, SignalReady, SeeTrigger, Infer, OpenResult, WriteResult, Goto,
         Reaped, Dies, procVars, files, memory
<1> QED
  BY <1>2, <1>3, <1>4, <1>5 DEF WorkloadActs, MemoryStep

----------------------------------------------------------------------------
(* The profiler's steps.                                                   *)

\* A step that reads nothing: the process is looked up, slept for, given up.
LEMMA IdleStepVote ==
  ASSUME VoteInv, UNCHANGED <<alive, areas, accessed, reading, tally, hotPages, fresh, steady>>,
         \/ ppc' = "failed"
         \/ ppc = "off" /\ ppc' \in {"clear", "vote"} /\ (ppc' = "clear" => 0 < Samples)
         \/ ppc = "sleep" /\ ppc' = "open"
  PROVE  VoteInv'
<1> USE DEF VoteInv, reading
<1>1. ReadOK'
  BY DEF ReadOK, Collected
<1>2. TallyOK'
  BY DEF TallyOK, tally, RoundsFor, Threshold, InRound
<1>3. MapOK'
  BY DEF MapOK, InRound, Collected, Shape, PagesIn
<1> QED
  BY <1>1, <1>2, <1>3

LEMMA ClearVote ==
  ASSUME VoteInv, ClearRefs, UNCHANGED <<alive, areas>>
  PROVE  VoteInv'
<1>1. CASE alive = "gone"
  BY <1>1, IdleStepVote DEF ClearRefs, Fail
<1>2. CASE alive # "gone"
  <2> USE <1>2 DEF VoteInv, ClearRefs, reading
  <2>1. ReadOK'
    BY DEF ReadOK, Collected
  <2>2. TallyOK'
    BY SameTally DEF InRound
  <2>3. MapOK'
    BY DEF MapOK, InRound
  <2> QED
    BY <2>1, <2>2, <2>3
<1> QED
  BY <1>1, <1>2

LEMMA OpenVote ==
  ASSUME VoteInv, OpenSmaps, UNCHANGED <<alive, areas>>
  PROVE  VoteInv'
<1>1. CASE alive = "gone"
  BY <1>1, IdleStepVote DEF OpenSmaps, Fail
<1>2. CASE alive # "gone"
  <2> USE <1>2 DEF VoteInv, OpenSmaps
  <2>1. Collected' = {}
    BY DEF Collected
  <2>2. ReadOK'
    BY <2>1 DEF ReadOK
  <2>3. TallyOK'
    BY SameTally DEF InRound
  <2>4. {a \in areas' : a.end <= cursor'} = {}
    BY AreaFacts DEF ReadOK
  <2>5. MapOK'
    BY <2>1, <2>4 DEF MapOK
  <2> QED
    BY <2>2, <2>3, <2>5
<1> QED
  BY <1>1, <1>2

LEMMA ReadVote ==
  ASSUME VoteInv, ReadArea, UNCHANGED <<alive, areas>>
  PROVE  VoteInv'
<1>1. PICK a \in Shown :
        /\ current' = [start |-> a.start, end |-> a.end,
                       referenced |-> Cardinality(PagesIn(a) \cap accessed)]
        /\ cursor' = a.end
  BY DEF ReadArea
<1>2. /\ areas \in Layouts /\ a \in areas /\ a.end > cursor
      /\ \A b \in areas : b.end > cursor => a.end <= b.end
  BY DEF VoteInv, ReadOK, Shown
<1>3. a.start \in Nat /\ a.end \in Nat /\ a.start < a.end /\ a = Shape(a)
  BY <1>2, AreaFacts
<1>4. /\ Cardinality(PagesIn(a) \cap accessed) \in Nat
      /\ Cardinality(PagesIn(a) \cap accessed) <= a.end - a.start
  BY <1>3, PageCount
<1>5. current' \in AreaRead /\ current' # Nothing
  BY <1>1, <1>3, <1>4, ProfilerAssumption DEF AreaRead
<1>6. Collected' = Collected \cup {current'} /\ vmas' = Collected
  BY <1>5 DEF Collected, ReadArea
<1>7. ReadOK'
  <2>1. areas' \in Layouts /\ accessed' \subseteq Mapped(areas')
    BY DEF VoteInv, ReadOK, ReadArea, Mapped
  <2>2. Collected \subseteq AreaRead
    BY DEF VoteInv, ReadOK, Collected
  <2>3. cursor' \in Nat /\ vmas' \subseteq AreaRead /\ current' \in AreaRead \cup {Nothing}
    BY <1>1, <1>3, <1>5, <1>6, <2>2
  <2>4. current'.start < current'.end /\ current'.referenced <= current'.end - current'.start
    BY <1>1, <1>3, <1>4
  <2>5. \A v \in Collected' : v.start < v.end /\ v.referenced <= v.end - v.start
    BY <1>6, <2>4 DEF VoteInv, ReadOK
  <2> QED
    BY <2>1, <2>3, <2>5 DEF ReadOK
<1>8. TallyOK'
  BY SameTally DEF VoteInv, ReadArea
<1>9. MapOK'
  <2> SUFFICES ASSUME steady
               PROVE  {Shape(v) : v \in Collected'} = {b \in areas : b.end <= a.end}
    BY <1>1 DEF VoteInv, MapOK, ReadArea, Shape
  <2>1. {Shape(v) : v \in Collected} = {b \in areas : b.end <= cursor} /\ cursor \in Nat
    BY DEF VoteInv, ReadOK, MapOK, ReadArea
  <2>2. Shape(current') = a
    BY <1>1, <1>3 DEF Shape
  <2>3. \A b \in areas : b.end \in Nat /\ (b.end <= a.end <=> b.end <= cursor \/ b = a)
    BY <1>2, <1>3, <2>1, AreaFacts, AreasDisjoint
  <2> QED
    BY <1>2, <1>6, <2>1, <2>2, <2>3
<1> QED
  BY <1>7, <1>8, <1>9 DEF VoteInv

LEMMA EndVote ==
  ASSUME VoteInv, EndOfSmaps, UNCHANGED <<alive, areas>>
  PROVE  VoteInv'
<1>1. CASE alive = "gone"
  BY <1>1, IdleStepVote DEF EndOfSmaps, Fail
<1>2. CASE alive # "gone"
  <2> USE <1>2 DEF EndOfSmaps
  <2>1. vmas' = Collected /\ current' = Nothing /\ Collected' = Collected
    BY DEF Collected, LastArea
  <2>2. ReadOK'
    BY <2>1 DEF VoteInv, ReadOK, Mapped, Collected
  <2>3. TallyOK'
    BY SameTally DEF VoteInv, InRound
  <2>4. ASSUME steady PROVE {Shape(v) : v \in Collected} = areas
    <3>1. Shown = {} /\ {Shape(v) : v \in Collected} = {a \in areas : a.end <= cursor}
      BY <2>4 DEF VoteInv, MapOK
    <3>2. areas \in Layouts /\ cursor \in Nat
      BY DEF VoteInv, ReadOK
    <3>3. ASSUME NEW x \in areas PROVE x.end <= cursor
      <4> SUFFICES ASSUME x.end > cursor PROVE FALSE
        BY <3>2, AreaFacts
      <4>1. PICK a \in areas : a.end > cursor /\ \A b \in areas : b.end > cursor => a.end <= b.end
        BY <3>2, FirstArea
      <4> QED
        BY <3>1, <4>1 DEF Shown
    <3> QED
      BY <3>1, <3>3
  <2>5. MapOK'
    BY <2>1, <2>4 DEF MapOK, Shape
  <2> QED
    BY <2>2, <2>3, <2>5 DEF VoteInv
<1> QED
  BY <1>1, <1>2

\* One more round: its number joins the rounds of the pages it voted for.
LEMMA CountVote ==
  ASSUME VoteInv, CountSample, UNCHANGED <<alive, areas>>
  PROVE  VoteInv'
<1> DEFINE n == Len(ballots)
<1>1. /\ ballots \in Seq(SUBSET Nat) /\ counts \in [Page -> Nat]
      /\ n \in Nat /\ n < Samples /\ Samples \in Nat
      /\ \A p \in Page : counts[p] = Cardinality(RoundsFor(p))
  BY ProfilerAssumption DEF VoteInv, TallyOK, CountSample, InRound
<1>2. HotInSample \in SUBSET Nat
  BY DEF VoteInv, ReadOK, AreaRead, HotInSample, PagesIn
<1>3. /\ ballots' = Append(ballots, HotInSample) /\ ballots' \in Seq(SUBSET Nat)
      /\ Len(ballots') = n + 1 /\ ballots'[n + 1] = HotInSample
      /\ \A i \in 1 .. n : ballots'[i] = ballots[i]
  BY <1>1, <1>2 DEF CountSample
<1>4. ASSUME NEW p \in Page
      PROVE  /\ RoundsFor(p)' = IF p \in HotInSample THEN RoundsFor(p) \cup {n + 1} ELSE RoundsFor(p)
             /\ Cardinality(RoundsFor(p)') = IF p \in HotInSample THEN counts[p] + 1 ELSE counts[p]
  <2>1. RoundsFor(p)' = {i \in 1 .. n + 1 : p \in ballots'[i]}
    BY <1>3 DEF RoundsFor
  <2>2. RoundsFor(p)' = IF p \in HotInSample THEN RoundsFor(p) \cup {n + 1} ELSE RoundsFor(p)
    <3>1. \A i : i \in 1 .. n + 1 <=> i \in 1 .. n \/ i = n + 1
      BY <1>1
    <3> HIDE DEF n
    <3>2. RoundsFor(p) = {i \in 1 .. n : p \in ballots[i]}
      BY DEF RoundsFor, n
    <3> QED
      BY <1>3, <2>1, <3>1, <3>2
  <2>3. IsFiniteSet(1 .. n) /\ RoundsFor(p) \in SUBSET (1 .. n) /\ n + 1 \notin 1 .. n
    <3>1. RoundsFor(p) \in SUBSET (1 .. n)
      BY DEF RoundsFor
    <3>2. n \in Nat
      BY <1>1
    <3> HIDE DEF n
    <3>3. IsFiniteSet(1 .. n)
      <4>1. 1 \in Int /\ n \in Int
        BY <3>2
      <4> QED
        BY <4>1, FS_Interval
    <3>4. n + 1 \notin 1 .. n
      BY <3>2
    <3> QED
      BY <3>1, <3>3, <3>4
  <2>4. IsFiniteSet(RoundsFor(p)) /\ n + 1 \notin RoundsFor(p)
    BY <2>3, FS_Subset
  <2>5. Cardinality(RoundsFor(p) \cup {n + 1}) = Cardinality(RoundsFor(p)) + 1
    BY <2>4, FS_AddElement
  <2> QED
    BY <1>1, <2>2, <2>5
<1>5. \A p \in Page : counts'[p] = Cardinality(RoundsFor(p)')
  BY <1>1, <1>4 DEF CountSample
<1>6. counts' \in [Page -> Nat]
  BY <1>1 DEF CountSample
<1>7. ppc' = IF n + 1 < Samples THEN "clear" ELSE "vote"
  BY <1>3 DEF CountSample, NextRound
<1>8. TallyOK'
  BY <1>1, <1>3, <1>5, <1>6, <1>7 DEF TallyOK, InRound
<1>9. ReadOK' /\ MapOK'
  BY <1>7 DEF VoteInv, ReadOK, MapOK, CountSample, InRound, Collected, Mapped, reading
<1> QED
  BY <1>8, <1>9 DEF VoteInv

LEMMA DoneVote ==
  ASSUME VoteInv, Vote, UNCHANGED <<alive, areas>>
  PROVE  VoteInv'
<1> USE DEF VoteInv, Vote, reading
<1>1. TallyOK'
  BY DEF TallyOK, tally, RoundsFor, Threshold, InRound
<1>2. ReadOK' /\ MapOK'
  BY DEF ReadOK, MapOK, InRound, Collected, Mapped
<1> QED
  BY <1>1, <1>2

LEMMA ProfilingVote ==
  ASSUME VoteInv, Profiling
  PROVE  VoteInv'
<1>1. ProfilerStep /\ UNCHANGED <<alive, areas>>
  BY DEF Profiling, ProfilerStep
<1>2. CASE StartProfile
  <2>1. 0 < Samples \/ NextRound(0) = "vote"
    BY ProfilerAssumption DEF NextRound
  <2> QED
    BY <1>1, <1>2, <2>1, IdleStepVote DEF StartProfile, Fail, NextRound
<1>3. CASE SleepInterval
  BY <1>1, <1>3, IdleStepVote DEF SleepInterval
<1> QED
  BY <1>1, <1>2, <1>3, ClearVote, OpenVote, ReadVote, EndVote, CountVote, DoneVote
     DEF ProfilerStep

----------------------------------------------------------------------------
(* The other steps of the harness find the profiler off.                   *)

LEMMA OffVote ==
  ASSUME VoteInv, ppc = "off", UNCHANGED <<memory, profilerVars>>
  PROVE  VoteInv'
<1> USE DEF VoteInv, memory, profilerVars, reading
<1>1. ReadOK'
  BY DEF ReadOK, Collected, Mapped
<1>2. TallyOK'
  BY SameTally
<1>3. MapOK'
  BY DEF MapOK, InRound
<1> QED
  BY <1>1, <1>2, <1>3

LEMMA ProfiledVote ==
  ASSUME VoteInv, Profiled
  PROVE  VoteInv'
<1> USE DEF VoteInv, Profiled, workloadVars, memory
<1>1. ReadOK'
  BY DEF ReadOK, Collected, Mapped
<1>2. TallyOK'
  <2>1. \A p \in Page : RoundsFor(p)' = {}
    BY DEF RoundsFor
  <2>2. Samples \in Nat /\ Len(ballots') = 0 /\ ballots' \in Seq(SUBSET Nat)
    BY ProfilerAssumption
  <2>3. \A p \in Page : counts'[p] = Cardinality(RoundsFor(p)')
    BY <2>1, FS_EmptySet
  <2>4. counts' \in [Page -> Nat] /\ ppc' = "off" /\ ballots' = <<>> /\ Len(ballots') <= Samples
    BY <2>2
  <2> QED
    BY <2>2, <2>3, <2>4 DEF TallyOK, InRound
<1>3. MapOK'
  BY DEF MapOK, InRound
<1> QED
  BY <1>1, <1>2, <1>3

LEMMA HarnessVote ==
  ASSUME BenchInv, VoteInv, HarnessStep
  PROVE  VoteInv'
<1>1. CASE Profiled
  BY <1>1, ProfiledVote
<1>2. CASE ~ Profiled
  <2>1. hpc # "profile" /\ UNCHANGED <<memory, profilerVars>>
    BY <1>2 DEF HarnessStep, Proceed, Warmup, ProfileAsk, ProfileUnask, Dump, Reap, StartServers,
                Restore, ProbeClear, ProbeTouch, ProbeEnds, KillRestored, AwaitHandler, Record,
                workloadVars
  <2>2. ppc = "off"
    BY <2>1 DEF BenchInv, StepOK
  <2> QED
    BY <2>1, <2>2, OffVote
<1> QED
  BY <1>1, <1>2

LEMMA StillVote ==
  ASSUME VoteInv, UNCHANGED <<alive, memory, profilerVars>>
  PROVE  VoteInv'
<1> USE DEF VoteInv, memory, profilerVars, reading
<1>1. ReadOK'
  BY DEF ReadOK, Collected, Mapped
<1>2. TallyOK'
  BY SameTally
<1>3. MapOK'
  BY DEF MapOK, InRound, Collected, PagesIn, Shape
<1> QED
  BY <1>1, <1>2, <1>3

LEMMA NextVote == BenchInv /\ VoteInv /\ [Next]_vars => VoteInv'
<1> SUFFICES ASSUME BenchInv, VoteInv, [Next]_vars PROVE VoteInv'
  OBVIOUS
<1>1. CASE HandlerServes \/ HandlerPrints \/ HandlerExits \/ UNCHANGED vars
  BY <1>1, StillVote DEF HandlerServes, HandlerPrints, HandlerExits, vars, workloadVars
<1> QED
  BY <1>1, WorkloadVote, ProfilingVote, HarnessVote DEF Next, Idles

LEMMA VoteSafety == Spec => []VoteInv
BY InitVote, NextVote, BenchSafety, PTL DEF Spec

----------------------------------------------------------------------------

(***************************************************************************)
(* The output file holds a page exactly if most of the rounds voted for    *)
(* it, for an odd number of rounds and an even one.                        *)
(***************************************************************************)
THEOREM MajoritySafety == Spec => []MajorityDecides
<1>1. VoteInv => MajorityDecides
  <2> SUFFICES ASSUME VoteInv, ppc = "done", NEW p \in Page
               PROVE  p \in hotPages <=> 2 * Cardinality(RoundsFor(p)) > Samples
    BY DEF MajorityDecides
  <2>1. /\ counts[p] \in Nat /\ Samples \in Nat
        /\ counts[p] = Cardinality(RoundsFor(p))
        /\ p \in hotPages <=> counts[p] > 0 /\ counts[p] >= Threshold
    BY ProfilerAssumption DEF VoteInv, TallyOK
  <2> QED
    BY <2>1 DEF Threshold
<1> QED
  BY <1>1, VoteSafety, PTL

(***************************************************************************)
(* A reading during which the process kept its map has every area of it.   *)
(***************************************************************************)
THEOREM ReadingSafety == Spec => []ReadingIsComplete
<1>1. VoteInv => ReadingIsComplete
  BY DEF VoteInv, MapOK, Shape, ReadingIsComplete
<1> QED
  BY <1>1, VoteSafety, PTL

=============================================================================
