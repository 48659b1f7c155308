----------------------------- MODULE FaultLoop -----------------------------
(***************************************************************************)
(* The main thread of the lazy handler (handle_faults): the poll loop, the *)
(* fault path, the enqueueing of prefetch candidates, the adaptive window, *)
(* and the shutdown.                                                       *)
(***************************************************************************)
EXTENDS PrefetchWorker, FaultHistory, PolicyRules

CONSTANTS
  Adaptive,       \* --adaptive-prefetch
  InitialConfig,  \* the configuration the command line gives
  WindowFaults    \* ADAPT_WINDOW_FAULTS

ASSUME LoopAssumption ==
  /\ PolicyQueue = QueueSize
  /\ Adaptive \in BOOLEAN
  /\ InitialConfig \in Config
  /\ WindowFaults \in Nat \ {0}

VARIABLES
  cur,              \* page_addr: the page of the fault being handled
  scan,             \* index of the next candidate
  cands,            \* prefetch_targets
  grew,             \* async_prefetch_enqueue has enqueued something
  history,          \* struct fault_history
  config,           \* struct prefetch_config
  window,           \* faults since the last adjustment
  last,             \* the counts at the last adjustment
  faults, hits,     \* total_faults, prefetch_hits
  sock,             \* CRIU's socket: "quiet", "ready" to be read, or "done"
  gotSignal         \* got_signal

loopVars == <<cur, scan, cands, grew, history, config, window, last, faults, hits>>
envVars == <<sock, gotSignal>>

MainPC == {"poll", "read", "check", "scan", "zeroed", "enqueue",
           "finish", "stop", "join worker", "join eager", "close", "exited"} \cup FetchPC

FLTypeOK ==
  /\ cur \in Page
  /\ scan \in Nat
  /\ cands \in Seq(Page)
  /\ grew \in BOOLEAN
  /\ history \in Seq(Page) /\ Len(history) <= HistorySize
  /\ config \in Config
  /\ window \in Nat
  /\ last \in [prefetched : Nat, dropped : Nat, duplicates : Nat]
  /\ faults \in Nat /\ hits \in Nat
  /\ sock \in {"quiet", "ready", "done"}
  /\ gotSignal \in BOOLEAN
  /\ pc["main"] \in MainPC

\* What every step of the fault path leaves alone.
quiet == <<queue, stop, counts, taken, filtered, envVars>>

WorkerStarted == pc["worker"] # "none"
EagerStarted == pc["eager"] # "none"
RestoreFinished == sock = "done"

----------------------------------------------------------------------------
\* Mutant of PollReturns: the socket stays in the poll set once it is done.
PollReturnsForEver ==
  /\ pc["main"] = "poll"
  /\ sock = "ready" \/ UffdReadable \/ Exited
  /\ Goto("main", IF sock = "ready" THEN "poll" ELSE IF UffdReadable THEN "read" ELSE "stop")
  /\ UNCHANGED <<ufVars, served, up, sent, todo, workerVars, loopVars, envVars>>

(***************************************************************************)
(* poll() returns because something is ready.  CRIU's socket is served at  *)
(* once (the restore-finish magic and a closed socket are treated alike);  *)
(* the descriptor is read next, or a hang-up ends the loop.                *)
(***************************************************************************)
PollReturns ==
  /\ pc["main"] = "poll"
  /\ sock = "ready" \/ UffdReadable \/ Exited
  /\ sock' = IF sock = "ready" THEN "done" ELSE sock
  /\ Goto("main", IF UffdReadable THEN "read" ELSE IF Exited THEN "stop" ELSE "poll")
  /\ UNCHANGED <<ufVars, served, up, sent, todo, workerVars, loopVars, gotSignal>>

\* Mutant of PollTimeout: the loop never looks at the signal.
PollTimeoutDeaf ==
  /\ pc["main"] = "poll"
  /\ sock # "ready" /\ ~ UffdReadable /\ ~ Exited
  /\ UNCHANGED <<ufVars, fetchVars, workerVars, loopVars, envVars>>

\* A second without events: the only place where the signal is looked at.
PollTimeout ==
  /\ pc["main"] = "poll"
  /\ sock # "ready" /\ ~ UffdReadable /\ ~ Exited
  /\ Goto("main", IF gotSignal THEN "stop" ELSE "poll")
  /\ UNCHANGED <<ufVars, served, up, sent, todo, workerVars, loopVars, envVars>>

ReadFault(t) ==
  /\ pc["main"] = "read"
  /\ ReadFaultOf(t)
  /\ cur' = thr[t].pg
  /\ faults' = faults + 1
  /\ window' = window + 1
  /\ Goto("main", "check")
  /\ UNCHANGED <<served, up, sent, todo, scan, cands, grew, history, config, last, hits, quiet>>

(***************************************************************************)
(* A lifecycle message: an UNMAP after the restore ends the loop, anything *)
(* else is logged and ignored.                                             *)
(***************************************************************************)
ReadEvent(t) ==
  /\ pc["main"] = "read"
  /\ ReadEventOf(t)
  /\ Goto("main", IF thr[t].st = "unmap" /\ RestoreFinished THEN "stop" ELSE "poll")
  /\ UNCHANGED <<served, up, sent, todo, workerVars, loopVars, envVars>>

\* The message went away (EAGAIN): its thread was woken after poll returned.
ReadNothing ==
  /\ pc["main"] = "read"
  /\ ~ UffdReadable
  /\ Goto("main", "poll")
  /\ UNCHANGED <<ufVars, served, up, sent, todo, workerVars, loopVars, envVars>>

\* The variables of the block that handles one fault go out of scope.
Forget == cur' = 0 /\ scan' = 0 /\ cands' = <<>> /\ grew' = FALSE

\* Already served: nothing is installed and nobody is woken.
CheckServed ==
  /\ pc["main"] = "check"
  /\ IF cur \in served
       THEN /\ hits' = hits + 1
            /\ Goto("main", "poll")
            /\ Forget
       ELSE /\ scan' = 1
            /\ Goto("main", "scan")
            /\ UNCHANGED <<hits, cur, cands, grew>>
  /\ UNCHANGED <<ufVars, served, up, sent, todo, history, config, window, last, faults, quiet>>

MoreCandidates == scan <= Lookahead(history, config) /\ Len(cands) < MaxTargets

\* One candidate: kept if it is eligible, not served and not listed.
ScanNext ==
  /\ pc["main"] = "scan"
  /\ MoreCandidates
  /\ LET c == Candidate(history, cur, scan, AddrPages) IN
     cands' = IF Eligible(history, c) /\ c \notin served
                 /\ \A i \in DOMAIN cands : cands[i] # c
              THEN Append(cands, c)
              ELSE cands
  /\ scan' = scan + 1
  /\ UNCHANGED <<ufVars, served, up, sent, todo, pc, cur, grew, history, config,
                 window, last, faults, hits, quiet>>

\* The candidates are known: fetch the faulted page, alone, first.
ScanDone ==
  /\ pc["main"] = "scan"
  /\ ~ MoreCandidates
  /\ todo' = [todo EXCEPT !["main"] = <<cur>>]
  /\ Goto("main", "send")
  /\ UNCHANGED <<ufVars, served, up, sent, workerVars, loopVars, envVars>>

MainFetch == Fetch("main") /\ UNCHANGED <<workerVars, loopVars, envVars>>

\* Mutant of ZeroFallback: the page is recorded and not installed.
ZeroFallbackSkipped ==
  /\ pc["main"] = "failed"
  /\ Goto("main", "zeroed")
  /\ UNCHANGED <<ufVars, served, up, sent, todo, workerVars, loopVars, envVars>>

\* The fetch failed: a zero page, whether or not it can be installed ...
ZeroFallback ==
  /\ pc["main"] = "failed"
  /\ CopyEffect(cur, Zero)
  /\ Goto("main", "zeroed")
  /\ UNCHANGED <<served, up, sent, todo, workerVars, loopVars, envVars>>

\* Mutant of AfterFetch: nobody asks whether there is a worker.
AfterFetchUnasked == IF cands # <<>> THEN "enqueue" ELSE "finish"

AfterFetch == IF cands # <<>> /\ WorkerStarted THEN "enqueue" ELSE "finish"

\* ... counts as served.
ZeroRecord ==
  /\ pc["main"] = "zeroed"
  /\ served' = served \cup {cur}
  /\ Goto("main", AfterFetch)
  /\ UNCHANGED <<ufVars, up, sent, todo, workerVars, loopVars, envVars>>

Fetched ==
  /\ pc["main"] = "fetched"
  /\ Goto("main", AfterFetch)
  /\ UNCHANGED <<ufVars, served, up, sent, todo, workerVars, loopVars, envVars>>

(***************************************************************************)
(* async_prefetch_enqueue, one target of its loop at a time, the queue's   *)
(* mutex held throughout: a target that is queued already is a duplicate;  *)
(* a full queue drops this target and all that follow it.                  *)
(***************************************************************************)
Enqueue ==
  /\ pc["main"] = "enqueue"
  /\ cands # <<>>
  /\ LET c == Head(cands) IN
     \/ /\ c \in QueueElements
        /\ counts' = [counts EXCEPT !.duplicates = @ + 1]
        /\ cands' = Tail(cands)
        /\ UNCHANGED <<queue, grew>>
     \/ /\ c \notin QueueElements
        /\ QueueFull
        /\ counts' = [counts EXCEPT !.dropped = @ + Len(cands)]
        /\ cands' = <<>>
        /\ UNCHANGED <<queue, grew>>
     \/ /\ c \notin QueueElements
        /\ ~ QueueFull
        /\ queue' = Append(queue, c)
        /\ grew' = TRUE
        /\ cands' = Tail(cands)
        /\ UNCHANGED counts
  /\ UNCHANGED <<ufVars, served, up, sent, todo, pc, stop, taken, filtered, cur, scan,
                 history, config, window, last, faults, hits, envVars>>

\* The end of the loop: wake the worker if it has something new, unlock.
EnqueueDone ==
  /\ pc["main"] = "enqueue"
  /\ cands = <<>>
  /\ IF grew
       THEN SignalWorker([pc EXCEPT !["main"] = "finish"])
       ELSE Goto("main", "finish")
  /\ UNCHANGED <<ufVars, served, up, sent, todo, workerVars, loopVars, envVars>>

WindowClosed == Adaptive /\ window >= WindowFaults

\* What happened in the window: the growth of the counts, the queue now.
WindowSummary ==
  [prefetched |-> counts.prefetched - last.prefetched,
   dropped    |-> counts.dropped - last.dropped,
   duplicates |-> counts.duplicates - last.duplicates,
   depth      |-> Len(queue)]

\* Mutant of Finish: the counts at the adjustment are not kept.
FinishForgets ==
  /\ pc["main"] = "finish"
  /\ history' = HistoryPush(history, cur)
  /\ IF WindowClosed
       THEN config' = Adjust(config, WindowSummary) /\ window' = 0
       ELSE UNCHANGED <<config, window>>
  /\ Forget
  /\ Goto("main", "poll")
  /\ UNCHANGED <<ufVars, served, up, sent, todo, last, faults, hits, quiet>>

\* history_push, and the controller once the window is full.
Finish ==
  /\ pc["main"] = "finish"
  /\ history' = HistoryPush(history, cur)
  /\ IF WindowClosed
       THEN /\ config' = Adjust(config, WindowSummary)
            /\ last' = counts
            /\ window' = 0
       ELSE UNCHANGED <<config, last, window>>
  /\ Forget
  /\ Goto("main", "poll")
  /\ UNCHANGED <<ufVars, served, up, sent, todo, faults, hits, quiet>>

----------------------------------------------------------------------------
(* The label done of handle_faults, and the end of main.                   *)

StopWorker ==
  /\ pc["main"] = "stop"
  /\ IF WorkerStarted
       THEN /\ stop' = TRUE
            /\ SignalWorker([pc EXCEPT !["main"] = "join worker"])
       ELSE Goto("main", "join eager") /\ UNCHANGED stop
  /\ UNCHANGED <<ufVars, served, up, sent, todo, queue, counts, taken, filtered, loopVars, envVars>>

JoinWorker ==
  /\ pc["main"] = "join worker"
  /\ pc["worker"] = "exited"
  /\ Goto("main", "join eager")
  /\ UNCHANGED <<ufVars, served, up, sent, todo, workerVars, loopVars, envVars>>

\* Mutant of JoinEager: the eager thread is left running.
JoinEagerDetaches ==
  /\ pc["main"] = "join eager"
  /\ Goto("main", "close")
  /\ UNCHANGED <<ufVars, served, up, sent, todo, workerVars, loopVars, envVars>>

JoinEager ==
  /\ pc["main"] = "join eager"
  /\ EagerStarted => pc["eager"] = "exited"
  /\ Goto("main", "close")
  /\ UNCHANGED <<ufVars, served, up, sent, todo, workerVars, loopVars, envVars>>

\* The shared state is destroyed and the descriptors are closed.
Close ==
  /\ pc["main"] = "close"
  /\ CloseUffd
  /\ up' = [up EXCEPT !["main"] = FALSE]
  /\ Goto("main", "exited")
  /\ UNCHANGED <<served, sent, todo, workerVars, loopVars, envVars>>

----------------------------------------------------------------------------
(* The environment of the main thread.                                     *)

\* CRIU sends the restore-finish magic, or closes its socket.
CriuFinishes ==
  /\ sock = "quiet"
  /\ sock' = "ready"
  /\ UNCHANGED <<ufVars, fetchVars, workerVars, loopVars, gotSignal>>

\* SIGTERM or SIGINT.
Signal ==
  /\ ~ gotSignal
  /\ gotSignal' = TRUE
  /\ UNCHANGED <<ufVars, fetchVars, workerVars, loopVars, sock>>

MainStep ==
  \/ PollReturns \/ PollTimeout \/ ReadNothing \/ CheckServed \/ ScanNext \/ ScanDone
  \/ \E t \in Thread : ReadFault(t) \/ ReadEvent(t)
  \/ MainFetch \/ ZeroFallback \/ ZeroRecord \/ Fetched \/ Enqueue \/ EnqueueDone \/ Finish
  \/ StopWorker \/ JoinWorker \/ JoinEager \/ Close

=============================================================================
