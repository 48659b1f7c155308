---------------------------- MODULE LazyHandler ----------------------------
(***************************************************************************)
(* The lazy handler at work: the main thread, the prefetch worker and the  *)
(* eager thread over one userfaultfd descriptor and one set of served      *)
(* pages, the restored process that faults, gives pages back, unmaps and   *)
(* exits at any time, connections that may break, and a signal.            *)
(***************************************************************************)
EXTENDS FaultLoop, EagerFetch, FiniteSets

CONSTANTS
  MaxFaults,      \* bound: faults the process raises while the handler runs
  MaySignal       \* whether SIGTERM or SIGINT may arrive

ASSUME BoundAssumption == MaxFaults \in Nat /\ MaySignal \in BOOLEAN

vars == <<ufVars, fetchVars, workerVars, loopVars, envVars, hotPos>>

TypeOK ==
  /\ UFTypeOK /\ PFTypeOK /\ PWTypeOK /\ EFTypeOK /\ FLTypeOK
  /\ pc \in [Actor -> MainPC \cup WorkerPC \cup EagerPC]

(***************************************************************************)
(* handle_faults has started its threads: the worker unless --no-prefetch, *)
(* the eager thread if there is a hot-pages file; creating either may fail. *)
(***************************************************************************)
Init ==
  /\ UFInit
  /\ served = {}
  /\ up = [a \in Actor |-> a = "main"]
  /\ sent = [a \in Actor |-> <<>>]
  /\ todo = [a \in Actor |-> <<>>]
  /\ \E w \in (IF InitialConfig.enabled THEN {"connect", "none"} ELSE {"none"}),
        e \in (IF HotPages = <<>> THEN {"none"} ELSE {"connect", "none"}) :
       pc = [a \in Actor |-> CASE a = "main" -> "poll" [] a = "worker" -> w [] a = "eager" -> e]
  /\ queue = <<>> /\ stop = FALSE /\ taken = <<>> /\ filtered = 0
  /\ counts = [prefetched |-> 0, dropped |-> 0, duplicates |-> 0]
  /\ cur = 0 /\ scan = 0 /\ cands = <<>> /\ grew = FALSE
  /\ history = <<>> /\ config = InitialConfig
  /\ window = 0 /\ faults = 0 /\ hits = 0
  /\ last = [prefetched |-> 0, dropped |-> 0, duplicates |-> 0]
  /\ sock = "quiet" /\ gotSignal = FALSE
  /\ hotPos = 1

handlerVars == <<fetchVars, workerVars, loopVars, envVars, hotPos>>

InFlight == Cardinality({t \in Thread : FaultPending(t)})

\* The restored process; the bound counts the faults raised so far.
ProcessStep ==
  /\ \/ \E t \in Thread, p \in Page :
          \/ faults + InFlight < MaxFaults /\ Touch(t, p)
          \/ Remove(t, p)
          \/ Unmap(t, p)
     \/ ProcessExit
  /\ UNCHANGED handlerVars

\* The kernel completes a lifecycle call whose message has been read.
KernelStep(t) ==
  /\ RemoveNoticed(t) \/ RemoveDone(t) \/ UnmapDone(t)
  /\ UNCHANGED handlerVars

EnvironmentStep ==
  \/ ProcessStep
  \/ (\E a \in Actor : Break(a)) /\ UNCHANGED <<workerVars, loopVars, envVars, hotPos>>
  \/ CriuFinishes /\ UNCHANGED hotPos
  \/ MaySignal /\ Signal /\ UNCHANGED hotPos

Main == MainStep /\ UNCHANGED hotPos
Worker == WorkerStep /\ UNCHANGED <<loopVars, envVars, hotPos>>
Eager == EagerStep /\ UNCHANGED <<workerVars, loopVars, envVars>>

\* Everything is over: the handler has returned and the process is idle.
Terminated == pc["main"] = "exited" /\ UNCHANGED vars

Next ==
  \/ Main \/ Worker \/ Eager \/ EnvironmentStep
  \/ \E t \in Thread : KernelStep(t)
  \/ WorkerSpuriousWake /\ UNCHANGED <<loopVars, envVars, hotPos>>
  \/ Terminated

Spec == Init /\ [][Next]_vars

(***************************************************************************)
(* The three threads keep running, a working connection answers, and the   *)
(* kernel completes its calls and queues lifecycle messages first in first *)
(* out; the process, CRIU, the network's failures and the signal owe       *)
(* nothing.                                                                *)
(***************************************************************************)
Fairness ==
  /\ WF_vars(Main) /\ WF_vars(Worker) /\ WF_vars(Eager)
  /\ \A t \in Thread : WF_vars(KernelStep(t)) /\ SF_vars(ReadEvent(t) /\ UNCHANGED hotPos)

FairSpec == Spec /\ Fairness

----------------------------------------------------------------------------
(* Safety of the page service.                                             *)

Present(p) == mem[p] # Absent

NoLifecycleCalls == Removable = {} /\ Unmappable = {}

(***************************************************************************)
(* No fault falls through: a thread whose message has been read is blocked *)
(* only while the main thread is still on its way to install that page     *)
(* (the hit path at lines 906-918 resolves a fault without waking anyone,  *)
(* so it must never be taken while the faulter still sleeps).              *)
(***************************************************************************)
BlockedIsHandled ==
  \A t \in Thread : thr[t].st = "blocked" =>
    cur = thr[t].pg /\ pc["main"] \in {"check", "scan", "send", "recv", "failed"}

(***************************************************************************)
(* A page is recorded as served only once it can be read: all three        *)
(* threads insert after their copy, including after a copy that another    *)
(* thread's copy made redundant, and after the zero-page fallback.         *)
(***************************************************************************)
ServedIsPresent == ~ Exited => \A p \in served : Present(p)

(***************************************************************************)
(* The process never reads another page's bytes: with three pipelined      *)
(* connections, skipped and refused copies and abandoned batches, an       *)
(* answer still reaches the page it was asked for.  Zeros in place of the  *)
(* image's bytes appear only after the fault path's own connection ended.  *)
(***************************************************************************)
ContentCorrect ==
  \A p \in Page : mem[p] \in {Absent, Reply(p)} \cup (IF up["main"] THEN {} ELSE {Zero})

(***************************************************************************)
(* No lost wakeup: the worker sleeps on its condition variable only while  *)
(* the queue is empty and it has not been told to stop, or while the main  *)
(* thread still holds the mutex and is about to signal (lines 452-493).    *)
(***************************************************************************)
NoLostWakeup ==
  pc["worker"] = "asleep" =>
    ~ stop /\ (queue = <<>> \/ (pc["main"] = "enqueue" /\ grew))

\* async_prefetch_enqueue never lets a page wait in the queue twice.
QueueDistinct == \A i, j \in DOMAIN queue : queue[i] = queue[j] => i = j

(***************************************************************************)
(* Nothing outlives what it uses: once the served set is destroyed and the *)
(* descriptor closed, both helper threads have returned.                   *)
(***************************************************************************)
ThreadsJoined ==
  ~ uffdOpen => pc["worker"] \in {"none", "exited"} /\ pc["eager"] \in {"none", "exited"}

(***************************************************************************)
(* A clean stop drains: if the worker's connection held, no request that   *)
(* was accepted into the queue is left unserved when it has been joined.   *)
(***************************************************************************)
StopDrains ==
  pc["main"] \in {"join eager", "close", "exited"} /\ WorkerStarted /\ "worker" \notin MayBreak
    => queue = <<>> /\ taken = <<>>

(***************************************************************************)
(* The eager thread installs every registered page of a readable hot-pages *)
(* file before it reports that it is done, the last, partial batch         *)
(* included; a thread whose connection fails leaves by another way.        *)
(***************************************************************************)
EagerComplete ==
  pc["eager"] = "done" /\ HotReadable /\ ~ Exited
    => \A i \in DOMAIN HotPages : HotPages[i] \in mapped => Present(HotPages[i])

(***************************************************************************)
(* A hit is a page that can be read: what the comment at lines 909-916     *)
(* says of a fault on a page in the served set.                            *)
(***************************************************************************)
HitIsPresent ==
  pc["main"] = "check" /\ cur \in served /\ ~ Exited => Present(cur)

(***************************************************************************)
(* What the process reads is what the dump held, whether or not the        *)
(* handler still runs.                                                     *)
(***************************************************************************)
DumpContents == \A p \in Page : mem[p] \in {Absent, Reply(p)}

----------------------------------------------------------------------------
(* The adaptive window inside the fault loop.                              *)

(***************************************************************************)
(* The differences the controller is fed (lines 983-1000) are of unsigned  *)
(* counters, one of which another thread advances: none of them can wrap.  *)
(***************************************************************************)
NoneWraps ==
  /\ last.prefetched <= counts.prefetched
  /\ last.dropped <= counts.dropped
  /\ last.duplicates <= counts.duplicates

\* Requests of the window that were not accepted.
Refused == (counts.dropped - last.dropped) + (counts.duplicates - last.duplicates)

(***************************************************************************)
(* A window is told of its own faults only: no difference wraps, and the   *)
(* drops and duplicates of a window are never more than the candidates its *)
(* own faults can have listed, so that those of an earlier window are not  *)
(* counted again.                                                          *)
(***************************************************************************)
WindowsCountOnce == NoneWraps /\ Refused <= window * MaxTargets

(***************************************************************************)
(* Disabling takes effect at once: while prefetch is off the queue only    *)
(* shrinks, even though the candidates of a fault are computed before its  *)
(* page is fetched and enqueued after it.                                  *)
(***************************************************************************)
OffMeansQuiet == [][~ config.enabled => Len(queue') <= Len(queue)]_vars

(***************************************************************************)
(* The controller may switch prefetch on in a handler that never started a *)
(* worker (--no-prefetch with --adaptive-prefetch, or a failed             *)
(* pthread_create): nothing is then queued that no one would drain.        *)
(***************************************************************************)
NoWorkerNoQueue == ~ WorkerStarted => queue = <<>> /\ counts.dropped = 0

----------------------------------------------------------------------------
(* Progress.                                                               *)

\* A thread that faults runs again, whatever breaks and whenever it stops.
FaultResolved == \A t \in Thread : Waiting(t) ~> ~ Waiting(t)

\* A signal ends the handler, helper threads joined, backlog drained.
SignalStops == gotSignal ~> pc["main"] = "exited"

(***************************************************************************)
(* madvise and munmap return: the main thread comes back to reading        *)
(* lifecycle messages between any two fetches, and closes the descriptor   *)
(* if it stops instead.                                                    *)
(***************************************************************************)
LifecycleCallsReturn ==
  \A t \in Thread : thr[t].st \in {"remove", "unmap"} ~> thr[t].st \in {"run", "gone"}

(***************************************************************************)
(* An accepted request is honoured: a queued page of a registered area is  *)
(* installed, unless the worker has died.                                  *)
(***************************************************************************)
QueuedIsInstalled ==
  \A p \in Lazy : p \in QueueElements ~> (Present(p) \/ pc["worker"] = "exited")

----------------------------------------------------------------------------
(***************************************************************************)
(* The handler implements demand paging: read (thread, page) pairs off the *)
(* blocked threads, and call the service degraded once the fault path has  *)
(* lost its connection.                                                    *)
(***************************************************************************)
Service == INSTANCE DemandPaging WITH
  Pages <- Page, Threads <- Thread, Source <- Reply, NoBytes <- Absent, Zeros <- Zero,
  memory <- mem,
  waiting <- {w \in Thread \X Page : Waiting(w[1]) /\ thr[w[1]].pg = w[2]},
  degraded <- ~ up["main"],
  ended <- ~ uffdOpen \/ Exited

(***************************************************************************)
(* Every behaviour of the handler is one of the service: whichever of the  *)
(* three threads installs a page, and however they interleave, waiters are *)
(* released by the arrival of their own page's bytes and nothing else.     *)
(***************************************************************************)
ImplementsService == Service!Spec

=============================================================================
