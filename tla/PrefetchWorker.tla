--------------------------- MODULE PrefetchWorker ---------------------------
(***************************************************************************)
(* The asynchronous prefetch queue (struct async_prefetch_ctx) and the     *)
(* thread that drains it (async_prefetch_thread).  The queue is a sequence *)
(* of at most QueueSize pages.  Its mutex is held by the fault loop for    *)
(* the whole of async_prefetch_enqueue (its label "enqueue"); the worker   *)
(* holds it within single steps only.                                      *)
(***************************************************************************)
EXTENDS PageFetch

CONSTANTS
  QueueSize,    \* PREFETCH_QUEUE_SIZE
  BatchSize     \* EAGER_BATCH_SIZE, also the worker's batch

ASSUME QueueAssumption == QueueSize \in Nat \ {0} /\ BatchSize \in Nat \ {0}

VARIABLES
  queue,      \* requests waiting, oldest first
  stop,       \* ctx->stop
  counts,     \* pages_prefetched, dropped_requests, skipped_duplicates
  taken,      \* batch taken from the queue, not yet filtered
  filtered    \* requests of the batch that are being fetched

workerVars == <<queue, stop, counts, taken, filtered>>

WorkerPC == {"none", "connect", "check", "asleep", "filter", "exited"} \cup FetchPC

PWTypeOK ==
  /\ queue \in Seq(Page) /\ Len(queue) <= QueueSize
  /\ stop \in BOOLEAN
  /\ counts \in [prefetched : Nat, dropped : Nat, duplicates : Nat]
  /\ taken \in Seq(Page)
  /\ filtered \in Nat
  /\ pc["worker"] \in WorkerPC

\* Mutant of QueueElements: the search for duplicates misses the newest entry.
QueueElementsButNewest == {queue[i] : i \in 1 .. Len(queue) - 1}

QueueElements == {queue[i] : i \in DOMAIN queue}

\* Mutant of QueueFull: the array is overrun by one.
QueueFullLate == Len(queue) > QueueSize

QueueFull == Len(queue) >= QueueSize

MutexFree == pc["main"] # "enqueue"

\* Mutant of SignalWorker: the signal is forgotten.
SignalNobody(others) == pc' = others

\* pthread_cond_signal: a worker that sleeps will look at the queue again.
SignalWorker(others) ==
  pc' = [others EXCEPT !["worker"] = IF @ = "asleep" THEN "check" ELSE @]

----------------------------------------------------------------------------
WorkerConnect == Connect("worker", "check") /\ UNCHANGED workerVars

\* pthread_cond_wait gives the mutex up only while the queue is empty.
WorkerSleep ==
  /\ pc["worker"] = "check"
  /\ MutexFree
  /\ queue = <<>>
  /\ ~ stop
  /\ Goto("worker", "asleep")
  /\ UNCHANGED <<ufVars, served, up, sent, todo, workerVars>>

\* A wakeup POSIX allows without a signal.
WorkerSpuriousWake ==
  /\ pc["worker"] = "asleep"
  /\ Goto("worker", "check")
  /\ UNCHANGED <<ufVars, served, up, sent, todo, workerVars>>

\* Mutant of WorkerStop: the stop flag is obeyed before the queue is empty.
WorkerStopAtOnce ==
  /\ pc["worker"] = "check"
  /\ MutexFree
  /\ stop
  /\ up' = [up EXCEPT !["worker"] = FALSE]
  /\ Goto("worker", "exited")
  /\ UNCHANGED <<ufVars, served, sent, todo, workerVars>>

\* Nothing left and told to stop.
WorkerStop ==
  /\ pc["worker"] = "check"
  /\ MutexFree
  /\ queue = <<>>
  /\ stop
  /\ up' = [up EXCEPT !["worker"] = FALSE]
  /\ Goto("worker", "exited")
  /\ UNCHANGED <<ufVars, served, sent, todo, workerVars>>

\* Take the oldest requests, up to a batch.
WorkerTake ==
  /\ pc["worker"] = "check"
  /\ MutexFree
  /\ queue # <<>>
  /\ LET n == IF Len(queue) < BatchSize THEN Len(queue) ELSE BatchSize IN
     /\ taken' = SubSeq(queue, 1, n)
     /\ queue' = SubSeq(queue, n + 1, Len(queue))
  /\ todo' = [todo EXCEPT !["worker"] = <<>>]
  /\ Goto("worker", "filter")
  /\ UNCHANGED <<ufVars, served, up, sent, stop, counts, filtered>>

\* Skip a page that arrived before the worker got to it.
WorkerFilter ==
  /\ pc["worker"] = "filter"
  /\ taken # <<>>
  /\ todo' = IF Head(taken) \in served
             THEN todo
             ELSE [todo EXCEPT !["worker"] = Append(@, Head(taken))]
  /\ taken' = Tail(taken)
  /\ UNCHANGED <<ufVars, served, up, sent, pc, queue, stop, counts, filtered>>

WorkerFiltered ==
  /\ pc["worker"] = "filter"
  /\ taken = <<>>
  /\ filtered' = Len(todo["worker"])
  /\ Goto("worker", IF todo["worker"] = <<>> THEN "check" ELSE "send")
  /\ UNCHANGED <<ufVars, served, up, sent, todo, queue, stop, counts, taken>>

WorkerFetch == Fetch("worker") /\ UNCHANGED workerVars

\* Mutant of WorkerCount: the counter is assigned, not advanced.
WorkerCountAssigns ==
  /\ pc["worker"] = "fetched"
  /\ MutexFree
  /\ counts' = [counts EXCEPT !.prefetched = filtered]
  /\ Goto("worker", "check")
  /\ UNCHANGED <<ufVars, served, up, sent, todo, queue, stop, taken, filtered>>

\* The whole batch counts as prefetched, refused copies included.
WorkerCount ==
  /\ pc["worker"] = "fetched"
  /\ MutexFree
  /\ counts' = [counts EXCEPT !.prefetched = @ + filtered]
  /\ Goto("worker", "check")
  /\ UNCHANGED <<ufVars, served, up, sent, todo, queue, stop, taken, filtered>>

\* After a failure the thread returns for good; the queue stays as it is.
WorkerGiveUp ==
  /\ pc["worker"] = "failed"
  /\ up' = [up EXCEPT !["worker"] = FALSE]
  /\ Goto("worker", "exited")
  /\ UNCHANGED <<ufVars, served, sent, todo, workerVars>>

WorkerStep ==
  \/ WorkerConnect \/ WorkerSleep \/ WorkerStop \/ WorkerTake
  \/ WorkerFilter \/ WorkerFiltered \/ WorkerFetch \/ WorkerCount \/ WorkerGiveUp

=============================================================================
