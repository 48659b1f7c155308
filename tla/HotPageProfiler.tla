--------------------------- MODULE HotPageProfiler ---------------------------
(***************************************************************************)
(* hot_pages.py: in each of Samples rounds it writes to a live process's   *)
(* clear_refs, sleeps, reads the process's memory map area by area and     *)
(* calls every page of an area hot of which more than half was referenced; *)
(* a page hot in a majority of the rounds is written to the output file.   *)
(* The process runs, remaps its memory and may die under it.               *)
(***************************************************************************)
EXTENDS PytorchWorkload, Sequences

CONSTANTS
  Samples,     \* --samples
  Nothing      \* no area read yet, no output file

AreaRead == [start : Nat, end : Nat, referenced : Nat]

ASSUME ProfilerAssumption == Samples \in Nat /\ Nothing \notin AreaRead

VARIABLES
  ppc,         \* "off", "clear", "sleep", "open", "read", "count", "vote",
               \* "done" or "failed"
  cursor,      \* the kernel's place in the map: the end of the last area shown
  current,     \* the area whose header was read last
  vmas,        \* the areas complete
  counts,      \* page_counts
  hotPages,    \* the output file, a set: sorting is left out
  ballots,     \* history: the set of pages every finished round has voted for
  fresh,       \* history: pages touched since the round's write to clear_refs
  steady       \* history: the process has kept its map since the file was opened

reading == <<cursor, current, vmas>>
tally == <<counts, ballots>>
profilerVars == <<ppc, reading, tally, hotPages, fresh, steady>>

ProfilerTypeOK ==
  /\ ppc \in {"off", "clear", "sleep", "open", "read", "count", "vote", "done", "failed"}
  /\ \A v \in vmas : v.start < v.end /\ v.referenced \in 0 .. v.end - v.start
  /\ counts \in [Page -> 0 .. Samples] /\ Len(ballots) <= Samples

ProfilerInit ==
  /\ ppc = "off" /\ cursor = 0 /\ current = Nothing /\ vmas = {}
  /\ counts = [p \in Page |-> 0] /\ hotPages = Nothing
  /\ ballots = <<>> /\ fresh = {} /\ steady = TRUE

Fail == ppc' = "failed" /\ UNCHANGED <<reading, tally, hotPages, fresh, steady, accessed>>

\* The loop over range(samples): another round, or the vote.
NextRound(n) == IF n < Samples THEN "clear" ELSE "vote"

\* os.path.exists("/proc/PID")
StartProfile ==
  /\ ppc = "off"
  /\ IF alive = "gone" THEN Fail
     ELSE ppc' = NextRound(0) /\ UNCHANGED <<reading, tally, hotPages, fresh, steady, accessed>>

(***************************************************************************)
(* clear_refs: a process that has not been reaped takes the write.  A 4    *)
(* clears the soft-dirty bits, which nobody reads; the accessed bits that  *)
(* smaps sums up as Referenced stay (a 1 would clear them).                *)
(***************************************************************************)
ClearRefs ==
  /\ ppc = "clear"
  /\ IF alive = "gone" THEN Fail
     ELSE /\ ppc' = "sleep" /\ fresh' = {}
          /\ UNCHANGED <<reading, tally, hotPages, steady, accessed>>

SleepInterval ==
  ppc = "sleep" /\ ppc' = "open"
  /\ UNCHANGED <<reading, tally, hotPages, fresh, steady, accessed>>

OpenSmaps ==
  /\ ppc = "open"
  /\ IF alive = "gone" THEN Fail
     ELSE /\ ppc' = "read" /\ cursor' = 0 /\ current' = Nothing /\ vmas' = {}
          /\ steady' = (alive = "run")
          /\ UNCHANGED <<tally, hotPages, fresh, accessed>>

\* The area whose header was read before this one is complete.
Collected == IF current = Nothing THEN vmas ELSE vmas \cup {current}

\* The first area that ends behind the last one shown; it may have grown since.
Shown == {a \in areas : a.end > cursor /\ \A b \in areas : b.end > cursor => a.end <= b.end}

ReadArea ==
  /\ ppc = "read" /\ alive = "run"
  /\ \E a \in Shown :
       /\ current' = [start |-> a.start, end |-> a.end,
                      referenced |-> Cardinality(PagesIn(a) \cap accessed)]
       /\ cursor' = a.end
  /\ vmas' = Collected
  /\ UNCHANGED <<ppc, tally, hotPages, fresh, steady, accessed>>

\* "Don't forget the last VMA"
LastAreaForgotten == vmas
LastArea == Collected

\* A dead process shows no more areas; one that is reaped fails the read.
EndOfSmaps ==
  /\ ppc = "read" /\ (alive = "run" => Shown = {})
  /\ IF alive = "gone" THEN Fail
     ELSE /\ ppc' = "count" /\ vmas' = LastArea /\ current' = Nothing
          /\ UNCHANGED <<cursor, tally, hotPages, fresh, steady, accessed>>

\* referenced > size // 2
Hot(v) == 2 * v.referenced > v.end - v.start
HotInSample == UNION {PagesIn(v) : v \in {w \in vmas : Hot(w)}}

CountSample ==
  /\ ppc = "count"
  /\ counts' = [p \in Page |-> IF p \in HotInSample THEN counts[p] + 1 ELSE counts[p]]
  /\ ballots' = Append(ballots, HotInSample)
  /\ ppc' = NextRound(Len(ballots'))
  /\ UNCHANGED <<reading, hotPages, fresh, steady, accessed>>

ThresholdHalf == Samples \div 2
Threshold == Samples \div 2 + 1

Vote ==
  /\ ppc = "vote" /\ ppc' = "done"
  /\ hotPages' = {p \in Page : counts[p] > 0 /\ counts[p] >= Threshold}
  /\ UNCHANGED <<reading, tally, fresh, steady, accessed>>

ProfilerStep ==
  /\ \/ StartProfile \/ ClearRefs \/ SleepInterval \/ OpenSmaps
     \/ ReadArea \/ EndOfSmaps \/ CountSample \/ Vote
  /\ UNCHANGED <<procVars, alive, files, areas>>

\* The profiled process goes on meanwhile; the histories take note.
Witnessed(touched) ==
  /\ fresh' = fresh \cup touched
  /\ steady' = (steady /\ areas' = areas /\ alive' = alive)
  /\ UNCHANGED <<ppc, reading, tally, hotPages>>

MemoryStep ==
  \/ \E p \in Page : Touches(p) /\ Witnessed({p})
  \/ Remaps /\ Witnessed({})

(***************************************************************************)
(* The file holds exactly the pages that most of the rounds voted for: a   *)
(* page that two areas of one reading cover has one vote, an even split is *)
(* no majority (lines 115-127).                                            *)
(***************************************************************************)
RoundsFor(p) == {i \in 1 .. Len(ballots) : p \in ballots[i]}
MajorityDecides ==
  ppc = "done" => \A p \in Page : p \in hotPages <=> 2 * Cardinality(RoundsFor(p)) > Samples

(***************************************************************************)
(* A vote is about its own round: of the area it comes from, more than     *)
(* half was touched since the round's write to clear_refs, which is to     *)
(* clear the accessed bits (lines 5, 24).                                  *)
(***************************************************************************)
BallotIsFresh ==
  ppc = "count" =>
    \A p \in HotInSample : \E v \in vmas :
      p \in PagesIn(v) /\ 2 * Cardinality(PagesIn(v) \cap fresh) > v.end - v.start

(***************************************************************************)
(* A reading that the process left alone shows every area once, the last   *)
(* one included (lines 57-77).                                             *)
(***************************************************************************)
ReadingIsComplete ==
  ppc = "count" /\ steady =>
    {[start |-> v.start, end |-> v.end] : v \in vmas} = areas

=============================================================================
