--------------------------- MODULE BenchIteration ---------------------------
(***************************************************************************)
(* One iteration of the benchmark (eval/bench.sh, run_iteration) with the  *)
(* PyTorch workload: warm it up, profile it in the lazy-hot mode, dump it, *)
(* restore it, measure the time to its first answer, stop everything and   *)
(* record one csv row.  Of the lazy handler only what the harness sees is  *)
(* modelled: a process that counts faults, prints its statistics once its  *)
(* fault loop has ended, and exits; in accept it only waits.               *)
(***************************************************************************)
EXTENDS HotPageProfiler

CONSTANTS
  MaxFaults,   \* bound: faults the handler serves
  MayDie       \* may the workload die of its own accord

VARIABLES
  mode,        \* "full", "lazy" or "lazy-hot"; the other lazy modes run as "lazy"
  hpc,         \* the step run_iteration is at
  image,       \* the dump: the process's variables, or Nothing
  restored,    \* restored_pid is set
  server,      \* the page server runs
  handler,     \* "none", "accept", "serve", "exited" or "killed"
  faults,      \* history: the faults the handler has served
  printed,     \* its statistics are in its log
  ttfr,        \* "none" yet, "timeout" (-1), or the trigger that was answered
  row          \* the csv row, or Nothing

restoring == <<image, restored>>
handling == <<handler, faults, printed>>
servers == <<server, handling>>
harnessVars == <<mode, hpc, restoring, servers, ttfr, row>>
vars == <<workloadVars, profilerVars, harnessVars>>

TypeOK ==
  /\ WorkloadTypeOK /\ ProfilerTypeOK
  /\ mode \in {"full", "lazy", "lazy-hot"} /\ restored \in BOOLEAN /\ server \in BOOLEAN
  /\ handler \in {"none", "accept", "serve", "exited", "killed"}
  /\ faults \in 0 .. MaxFaults /\ printed \in BOOLEAN
  /\ ttfr \in {"none", "timeout", "profile", "probe"}
  /\ row = Nothing \/ row \in [ttfr : {"timeout", "profile", "probe"}, faults : 0 .. MaxFaults]

Init ==
  /\ WorkloadInit /\ ProfilerInit
  /\ mode \in {"full", "lazy", "lazy-hot"} /\ hpc = "warmup"
  /\ image = Nothing /\ restored = FALSE
  /\ server = FALSE /\ handler = "none" /\ faults = 0 /\ printed = FALSE
  /\ ttfr = "none" /\ row = Nothing

Proceed(from, to) == hpc = from /\ hpc' = to

\* wait_for_file; its failure after 60 s stops nothing, errexit is off in here.
Warmup ==
  /\ Proceed("warmup", IF mode = "lazy-hot" THEN "ask" ELSE "dump")
  /\ UNCHANGED <<workloadVars, profilerVars, mode, restoring, servers, ttfr, row>>

\* workload_profile: an inference is asked for and given a second.
ProfileAsk ==
  /\ Proceed("ask", "unask") /\ TouchTrigger("profile")
  /\ UNCHANGED <<procVars, alive, readyFile, result, memory, profilerVars, mode,
                 restoring, servers, ttfr, row>>

ProfileUnask ==
  /\ Proceed("unask", "profile") /\ RemoveTrigger
  /\ UNCHANGED <<procVars, alive, readyFile, result, memory, profilerVars, mode,
                 restoring, servers, ttfr, row>>

Profiling == hpc = "profile" /\ ProfilerStep /\ UNCHANGED harnessVars

\* The profiler exits; whether it failed is not asked.
Profiled ==
  /\ ppc \in {"done", "failed"} /\ Proceed("profile", "dump")
  /\ ppc' = "off" /\ cursor' = 0 /\ current' = Nothing /\ vmas' = {}
  /\ counts' = [p \in Page |-> 0] /\ ballots' = <<>> /\ fresh' = {} /\ steady' = TRUE
  /\ UNCHANGED <<workloadVars, hotPages, mode, restoring, servers, ttfr, row>>

\* criu dump stops the process where it is and kills it; or it fails and leaves it.
Dump ==
  /\ Proceed("dump", "reap")
  /\ \/ /\ alive = "run" /\ alive' = "zombie"
        /\ image' = [wpc |-> wpc, seen |-> seen, fd |-> fd]
     \/ UNCHANGED <<alive, image>>
  /\ UNCHANGED <<procVars, files, memory, profilerVars, mode, restored, servers, ttfr, row>>

\* wait "$dump_pid" has no deadline.
Reap ==
  /\ alive # "run" /\ Proceed("reap", IF mode = "full" THEN "restore" ELSE "serve")
  /\ alive' = "gone"
  /\ UNCHANGED <<procVars, files, memory, profilerVars, mode, restoring, servers, ttfr, row>>

\* Either may die within its second: the handler always without a page server to
\* connect to, and of causes of its own (its socket, its userfaultfd) with one.
StartServers ==
  /\ Proceed("serve", "restore")
  /\ server' \in BOOLEAN
  /\ handler' \in IF server' THEN {"accept", "none"} ELSE {"none"}
  /\ UNCHANGED <<workloadVars, profilerVars, mode, restoring, faults, printed, ttfr, row>>

\* The copy goes on where the image was taken; its pages come back untouched.
Restore ==
  /\ Proceed("restore", "clear")
  /\ \/ /\ image # Nothing /\ (mode # "full" => handler = "accept")
        /\ restored' = TRUE /\ alive' = "run"
        /\ wpc' = image.wpc /\ seen' = image.seen /\ fd' = image.fd
        /\ handler' = IF mode = "full" THEN handler ELSE "serve"
     \/ UNCHANGED <<restored, alive, procVars, handler>>
  /\ UNCHANGED <<files, memory, profilerVars, mode, image, server, faults, printed,
                 ttfr, row>>

\* workload_ttfr_probe: away with old answers, then ask and poll for 30 s.
OldAnswerKept == UNCHANGED <<result, fd>>
OldAnswerGone == RemoveResult

ProbeClear ==
  /\ Proceed("clear", "touch") /\ OldAnswerGone /\ RemoveTrigger
  /\ UNCHANGED <<wpc, seen, alive, readyFile, memory, profilerVars, mode, restoring,
                 servers, ttfr, row>>

ProbeTouch ==
  /\ Proceed("touch", "probe") /\ TouchTrigger("probe")
  /\ UNCHANGED <<procVars, alive, readyFile, result, memory, profilerVars, mode,
                 restoring, servers, ttfr, row>>

\* [ -s "$_PT_RESULT_FILE" ]
ProbeEnds ==
  /\ Proceed("probe", "kill")
  /\ \/ result \notin {"none", "empty"} /\ ttfr' = result
     \/ ttfr' = "timeout"
  /\ UNCHANGED <<workloadVars, profilerVars, mode, restoring, servers, row>>

\* kill -9 of the restored process, then SIGTERM for the handler
KillRestored ==
  /\ Proceed("kill", IF handler = "none" THEN "stop" ELSE "await")
  /\ alive' = IF restored THEN "gone" ELSE alive
  /\ UNCHANGED <<procVars, files, memory, profilerVars, mode, restoring, servers,
                 ttfr, row>>

\* kill -0 fails, or three seconds are over and SIGKILL ends it.
HandlerLeft == handler' = handler
HandlerAwaited == handler = "exited" /\ handler' = handler
HandlerStopped == handler' = IF handler = "exited" THEN "exited" ELSE "killed"

AwaitHandler ==
  /\ Proceed("await", "stop") /\ HandlerStopped
  /\ UNCHANGED <<workloadVars, profilerVars, mode, restoring, server, faults,
                 printed, ttfr, row>>

\* A log without the statistics, or no log at all, counts as zero.
ParsedFaults == IF printed THEN faults ELSE 0

Record ==
  /\ Proceed("stop", "done") /\ server' = FALSE
  /\ row' = [ttfr |-> ttfr, faults |-> ParsedFaults]
  /\ UNCHANGED <<workloadVars, profilerVars, mode, restoring, handling, ttfr>>

HarnessStep ==
  \/ Warmup \/ ProfileAsk \/ ProfileUnask \/ Profiled \/ Dump \/ Reap \/ StartServers
  \/ Restore \/ ProbeClear \/ ProbeTouch \/ ProbeEnds \/ KillRestored \/ AwaitHandler
  \/ Record

\* The restored process faults while it runs.
HandlerServes ==
  /\ handler = "serve" /\ ~ printed /\ alive = "run"
  /\ faults < MaxFaults /\ faults' = faults + 1
  /\ UNCHANGED <<workloadVars, profilerVars, mode, hpc, restoring, server, handler,
                 printed, ttfr, row>>

\* A signal ends the fault loop, and so does an unmap by the restored process;
\* in accept the signal is lost.  The output is unbuffered.
HandlerPrints ==
  /\ handler = "serve" /\ ~ printed /\ printed' = TRUE
  /\ UNCHANGED <<workloadVars, profilerVars, mode, hpc, restoring, server, handler,
                 faults, ttfr, row>>

HandlerExits ==
  /\ handler = "serve" /\ printed /\ handler' = "exited"
  /\ UNCHANGED <<workloadVars, profilerVars, mode, hpc, restoring, server, faults,
                 printed, ttfr, row>>

\* How it uses and maps its memory matters while it is profiled.
WorkloadActs ==
  /\ \/ (WorkloadStep \/ Reaped \/ (MayDie /\ Dies)) /\ Witnessed({})
     \/ hpc = "profile" /\ MemoryStep
  /\ UNCHANGED harnessVars

\* The harness polls and sleeps, waits for a process, or is done.
Idles == hpc \in {"warmup", "reap", "probe", "await", "done"} /\ UNCHANGED vars

Next ==
  \/ WorkloadActs \/ Profiling \/ HarnessStep
  \/ HandlerServes \/ HandlerPrints \/ HandlerExits \/ Idles

Spec == Init /\ [][Next]_vars

\* The scripts run on and every deadline comes; the workload need not answer.
Fairness == WF_vars(HarnessStep) /\ WF_vars(Profiling)
FairSpec == Spec /\ Fairness

(***************************************************************************)
(* A time to first answer is the time of an answer to the probe, and then  *)
(* the process had not been asked before its dump, for it answers once; or *)
(* the dump caught it in the inference it was profiled with.  An answer    *)
(* finished before the dump is never taken for one (pytorch.sh:64-83,      *)
(* pytorch_infer.py:57-87).                                                *)
(***************************************************************************)
AnswerIsFresh ==
  ttfr \notin {"none", "timeout"} =>
    /\ image # Nothing
    /\ \/ ttfr = "probe" /\ image.seen = "none"
       \/ image.seen = "profile" /\ image.wpc \in {"infer", "open", "write"}

(***************************************************************************)
(* The row has the handler's own count of faults, or the zero of a handler *)
(* killed before it printed one (bench.sh:197-217, lib.sh:168-197).        *)
(***************************************************************************)
RowTellsFaults ==
  row # Nothing =>
    row.faults = faults \/ (row.faults = 0 /\ handler = "killed" /\ ~ printed)

(***************************************************************************)
(* After the iteration none of its processes runs (bench.sh:192-217).      *)
(***************************************************************************)
NothingLeftRunning ==
  hpc = "done" => alive # "run" /\ ~ server /\ handler \notin {"accept", "serve"}

(***************************************************************************)
(* Every iteration records its row, a workload that never answers, dies or *)
(* cannot be restored included; only after a failed dump of a live process *)
(* does the harness wait for it for ever (bench.sh:147-150).               *)
(***************************************************************************)
IterationEnds == <>(hpc = "done") \/ <>[](hpc = "reap" /\ alive = "run")

=============================================================================
