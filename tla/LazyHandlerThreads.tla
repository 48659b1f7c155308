------------------------- MODULE LazyHandlerThreads -------------------------
(***************************************************************************)
(* Theorems about the handler's threads: the queue between the main thread *)
(* and the worker, the condition variable, the order of the joins, what a  *)
(* stop leaves behind, the counters of a window, and the eager thread.     *)
(***************************************************************************)
EXTENDS LazyHandlerSafety

USE DEF Actor

Returned == {"none", "exited"}

\* What the order of the joins in handle_faults establishes, label by label.
JoinsOK ==
  /\ pc["main"] \in {"join eager", "close", "exited"} => pc["worker"] \in Returned
  /\ pc["main"] \in {"close", "exited"} => pc["eager"] \in Returned
  /\ ~ uffdOpen => pc["main"] = "exited"

ThreadsInv == TypeOK /\ QueueDistinct /\ NoLostWakeup /\ JoinsOK

ThreadsRest == QueueDistinct' /\ NoLostWakeup' /\ JoinsOK'

----------------------------------------------------------------------------
(* The queue: a suffix of it, or it and a page it does not hold.           *)

LEMMA SuffixDistinct ==
  ASSUME queue \in Seq(Page), QueueDistinct,
         NEW n \in 0 .. Len(queue), queue' = SubSeq(queue, n + 1, Len(queue))
  PROVE  QueueDistinct'
<1> SUFFICES ASSUME NEW i \in DOMAIN queue', NEW j \in DOMAIN queue', queue'[i] = queue'[j]
             PROVE  i = j
  BY DEF QueueDistinct
<1>1. Len(queue) \in Nat /\ n \in Nat /\ n <= Len(queue) /\ DOMAIN queue = 1 .. Len(queue)
  BY LenProperties
<1>2. \A k \in 1 .. Len(queue) : queue[k] \in Page
  BY ElementOfSeq
<1>3. \A k \in n + 1 .. Len(queue) : queue[k] \in Page
  BY <1>1, <1>2
<1>4. /\ Len(queue') = IF n + 1 <= Len(queue) THEN Len(queue) - (n + 1) + 1 ELSE 0
      /\ queue' \in Seq(Page)
      /\ \A k \in 1 .. Len(queue) - (n + 1) + 1 : queue'[k] = queue[n + 1 + k - 1]
  <2>1. n + 1 \in Int /\ Len(queue) \in Int
    BY <1>1
  <2> QED
    BY <1>3, <2>1, SubSeqProperties
<1>5. Len(queue') = Len(queue) - n /\ DOMAIN queue' = 1 .. Len(queue')
  <2>1. DOMAIN queue' = 1 .. Len(queue')
    BY <1>4, LenProperties
  <2>2. (IF n + 1 <= Len(queue) THEN Len(queue) - (n + 1) + 1 ELSE 0) = Len(queue) - n
    <3>1. \A l, k \in Nat : k <= l => (IF k + 1 <= l THEN l - (k + 1) + 1 ELSE 0) = l - k
      OBVIOUS
    <3> QED
      BY <1>1, <3>1
  <2> QED
    BY <1>4, <2>1, <2>2
<1>6. i \in 1 .. Len(queue) - n /\ j \in 1 .. Len(queue) - n
  BY <1>5
<1>0. ASSUME NEW k \in 1 .. Len(queue) - n
      PROVE  /\ k \in 1 .. Len(queue) - (n + 1) + 1 /\ n + 1 + k - 1 = n + k
             /\ n + k \in 1 .. Len(queue)
  <2> DEFINE l == Len(queue)
  <2>1. l \in Nat /\ n \in Nat /\ k \in 1 .. l - n
    BY <1>1
  <2> HIDE DEF l
  <2>2. k \in 1 .. l - (n + 1) + 1 /\ n + 1 + k - 1 = n + k /\ n + k \in 1 .. l
    BY <2>1
  <2> QED
    BY <2>2 DEF l
<1>7. queue'[i] = queue[n + i] /\ queue'[j] = queue[n + j]
  BY <1>0, <1>4, <1>6
<1>8. n + i \in DOMAIN queue /\ n + j \in DOMAIN queue
  BY <1>0, <1>1, <1>6
<1>9. n + i = n + j
  BY <1>7, <1>8 DEF QueueDistinct
<1> QED
  BY <1>1, <1>6, <1>9

LEMMA AppendDistinct ==
  ASSUME queue \in Seq(Page), QueueDistinct,
         NEW p \in Page, p \notin QueueElements, queue' = Append(queue, p)
  PROVE  QueueDistinct'
<1> SUFFICES ASSUME NEW i \in DOMAIN queue', NEW j \in DOMAIN queue', queue'[i] = queue'[j]
             PROVE  i = j
  BY DEF QueueDistinct
<1>1. Len(queue) \in Nat /\ DOMAIN queue = 1 .. Len(queue)
  BY LenProperties
<1>2. /\ DOMAIN queue' = 1 .. Len(queue) + 1
      /\ \A k \in 1 .. Len(queue) : queue'[k] = queue[k]
      /\ queue'[Len(queue) + 1] = p
  BY AppendProperties, LenProperties
<1>3. \A k \in 1 .. Len(queue) : queue[k] # p
  BY <1>1 DEF QueueElements
<1>4. /\ i \in 1 .. Len(queue) \/ i = Len(queue) + 1
      /\ j \in 1 .. Len(queue) \/ j = Len(queue) + 1
  BY <1>1, <1>2
<1> QED
  BY <1>1, <1>2, <1>3, <1>4 DEF QueueDistinct

LEMMA SameQueue == QueueDistinct /\ queue' = queue => QueueDistinct'
BY DEF QueueDistinct

LEMMA FetchDescriptor ==
  ASSUME TypeOK, NEW a \in Actor, Fetch(a)
  PROVE  uffdOpen' = uffdOpen
BY DEF Fetch, FetchSend, FetchInstall, FetchRecord, FetchFail, CopyEffect, ufVars

LEMMA FetchLabels ==
  ASSUME TypeOK, NEW a \in Actor, Fetch(a)
  PROVE  pc[a] \in {"send", "recv", "record"} /\ pc'[a] \in FetchPC
<1>1. \E l \in FetchPC : Goto(a, l)
  BY DEF Fetch, FetchSend, FetchInstall, FetchRecord, FetchFail, FetchPC, AfterTarget
<1>2. pc'[a] \in FetchPC
  BY <1>1, TypeParts, GotoFacts
<1> QED
  BY <1>2 DEF Fetch, FetchSend, FetchInstall, FetchRecord, FetchFail

----------------------------------------------------------------------------
(* The worker and the eager thread.                                        *)

LEMMA WorkerThreads ==
  ASSUME ThreadsInv, WorkerStep \/ WorkerSpuriousWake, UNCHANGED loopVars
  PROVE  ThreadsRest
<1> USE DEF ThreadsInv
<1>1. LabelsOK /\ QueueOK /\ grew' = grew
  BY TypeParts DEF loopVars
<1>2. /\ pc["worker"] \notin Returned /\ stop' = stop /\ uffdOpen' = uffdOpen
      /\ pc'["main"] = pc["main"] /\ pc'["eager"] = pc["eager"]
      /\ pc'["worker"] = "asleep" => queue = <<>> /\ ~ stop /\ queue' = queue
  <2>1. CASE WorkerConnect
    <3>1. \E l \in {"check", "failed"} : Goto("worker", l)
      BY <2>1 DEF WorkerConnect, Connect
    <3>2. pc'["worker"] # "asleep" /\ \A b \in Actor \ {"worker"} : pc'[b] = pc[b]
      BY <1>1, <3>1, GotoFacts
    <3> QED
      BY <2>1, <3>2 DEF WorkerConnect, Connect, ufVars, workerVars, Returned
  <2>2. CASE WorkerFetch
    <3>1. pc["worker"] \notin Returned /\ pc'["worker"] # "asleep" /\ uffdOpen' = uffdOpen
      BY <2>2, FetchLabels, FetchDescriptor DEF WorkerFetch, FetchPC, Returned
    <3>2. \A b \in Actor \ {"worker"} : pc'[b] = pc[b]
      BY <2>2, FetchFrame DEF WorkerFetch
    <3> QED
      BY <2>2, <3>1, <3>2 DEF WorkerFetch, workerVars
  <2>3. CASE WorkerFilter
    BY <2>3 DEF WorkerFilter, ufVars, Returned
  <2>4. CASE WorkerSleep
    <3>1. pc'["worker"] = "asleep" /\ \A b \in Actor \ {"worker"} : pc'[b] = pc[b]
      BY <1>1, <2>4, GotoFacts DEF WorkerSleep
    <3> QED
      BY <2>4, <3>1 DEF WorkerSleep, ufVars, workerVars, Returned
  <2>5. CASE WorkerStop \/ WorkerTake \/ WorkerFiltered \/ WorkerCount \/ WorkerGiveUp
             \/ WorkerSpuriousWake
    <3>1. \E l \in {"exited", "filter", "check", "send"} : Goto("worker", l)
      BY <2>5 DEF WorkerStop, WorkerTake, WorkerFiltered, WorkerCount, WorkerGiveUp,
                  WorkerSpuriousWake
    <3>2. pc'["worker"] # "asleep" /\ \A b \in Actor \ {"worker"} : pc'[b] = pc[b]
      BY <1>1, <3>1, GotoFacts
    <3>3. pc["worker"] \notin Returned /\ stop' = stop /\ uffdOpen' = uffdOpen
      BY <2>5 DEF WorkerStop, WorkerTake, WorkerFiltered, WorkerCount, WorkerGiveUp,
                  WorkerSpuriousWake, ufVars, workerVars, Returned
    <3> QED
      BY <3>2, <3>3
  <2> QED
    BY <2>1, <2>2, <2>3, <2>4, <2>5 DEF WorkerStep
<1>3. QueueDistinct'
  <2>1. CASE WorkerTake
    <3> DEFINE n == IF Len(queue) < BatchSize THEN Len(queue) ELSE BatchSize
    <3>1. n \in 0 .. Len(queue) /\ queue \in Seq(Page)
      BY <1>1, Constants, PageSeq DEF QueueOK
    <3>2. queue' = SubSeq(queue, n + 1, Len(queue))
      BY <2>1 DEF WorkerTake
    <3> QED
      BY <3>1, <3>2, SuffixDistinct
  <2>2. CASE ~ WorkerTake
    <3>1. queue' = queue
      BY <2>2 DEF WorkerStep, WorkerConnect, WorkerSleep, WorkerStop, WorkerFilter, WorkerFiltered,
                  WorkerFetch, WorkerCount, WorkerGiveUp, WorkerSpuriousWake, workerVars
    <3> QED
      BY <3>1, SameQueue
  <2> QED
    BY <2>1, <2>2
<1>4. NoLostWakeup'
  BY <1>2 DEF NoLostWakeup
<1>5. JoinsOK'
  BY <1>2 DEF JoinsOK
<1> QED
  BY <1>3, <1>4, <1>5 DEF ThreadsRest

LEMMA EagerThreads ==
  ASSUME ThreadsInv, EagerStep, UNCHANGED <<workerVars, loopVars>>
  PROVE  ThreadsRest
<1> USE DEF ThreadsInv
<1>1. LabelsOK /\ UNCHANGED <<queue, stop, grew>>
  BY TypeParts DEF loopVars, workerVars
<1>2. /\ pc["eager"] \notin Returned /\ uffdOpen' = uffdOpen
      /\ pc'["main"] = pc["main"] /\ pc'["worker"] = pc["worker"]
  <2>1. CASE EagerFetching
    BY <2>1, FetchLabels, FetchDescriptor, FetchFrame DEF EagerFetching, Returned
  <2>2. CASE ~ EagerFetching
    <3>1. pc["eager"] \notin Returned /\ uffdOpen' = uffdOpen
      BY <2>2 DEF EagerStep, EagerConnect, Connect, EagerScan, EagerEndOfFile, EagerNextBatch,
                  EagerDone, ufVars, Returned
    <3>2. pc' = pc \/ \E l \in EagerPC : Goto("eager", l)
      BY <2>2 DEF EagerStep, EagerConnect, Connect, EagerScan, EagerEndOfFile, EagerNextBatch,
                  EagerDone, EagerPC, FetchPC
    <3>3. \A b \in Actor \ {"eager"} : pc'[b] = pc[b]
      BY <1>1, <3>2, GotoFacts
    <3> QED
      BY <3>1, <3>3
  <2> QED
    BY <2>1, <2>2
<1> QED
  BY <1>1, <1>2, SameQueue DEF ThreadsRest, NoLostWakeup, JoinsOK

----------------------------------------------------------------------------
(* The main thread.                                                        *)

LEMMA MainFetchThreads ==
  ASSUME ThreadsInv, MainFetch
  PROVE  ThreadsRest
<1> USE DEF ThreadsInv
<1>1. UNCHANGED <<queue, stop, grew>> /\ uffdOpen' = uffdOpen
  BY FetchDescriptor DEF MainFetch, workerVars, loopVars
<1>2. /\ pc["main"] \in {"send", "recv", "record"} /\ pc'["main"] \in FetchPC
      /\ pc'["worker"] = pc["worker"] /\ pc'["eager"] = pc["eager"]
  BY FetchLabels, FetchFrame DEF MainFetch
<1>3. NoLostWakeup'
  BY <1>1, <1>2 DEF NoLostWakeup
<1>4. JoinsOK'
  BY <1>1, <1>2 DEF JoinsOK, FetchPC
<1> QED
  BY <1>1, <1>3, <1>4, SameQueue DEF ThreadsRest

LEMMA EnqueueThreads ==
  ASSUME ThreadsInv, Enqueue
  PROVE  ThreadsRest
<1> USE DEF ThreadsInv
<1>1. /\ QueueOK /\ BlockOK /\ pc["main"] = "enqueue" /\ cands # <<>>
      /\ UNCHANGED <<pc, stop>> /\ uffdOpen' = uffdOpen
  BY TypeParts DEF Enqueue, ufVars
<1>2. Head(cands) \in Page /\ queue \in Seq(Page)
  BY <1>1, PageSeq DEF BlockOK, QueueOK
<1>3. \/ queue' = queue /\ grew' = grew
      \/ Head(cands) \notin QueueElements /\ queue' = Append(queue, Head(cands)) /\ grew' = TRUE
  BY DEF Enqueue
<1>4. QueueDistinct'
  BY <1>2, <1>3, SameQueue, AppendDistinct
<1>5. NoLostWakeup'
  BY <1>1, <1>3 DEF NoLostWakeup
<1>6. JoinsOK'
  BY <1>1 DEF JoinsOK
<1> QED
  BY <1>4, <1>5, <1>6 DEF ThreadsRest

\* The two places that signal the condition variable.
LEMMA SignalThreads ==
  ASSUME ThreadsInv, EnqueueDone \/ StopWorker
  PROVE  ThreadsRest
<1> USE DEF ThreadsInv
<1>1. LabelsOK /\ UNCHANGED <<queue, grew>> /\ uffdOpen' = uffdOpen
  BY TypeParts DEF EnqueueDone, StopWorker, workerVars, loopVars, ufVars
<1>2. CASE \E l \in {"finish", "join worker"} : SignalWorker([pc EXCEPT !["main"] = l])
  <2>1. PICK l \in {"finish", "join worker"} :
          pc' = [[pc EXCEPT !["main"] = l] EXCEPT !["worker"] = IF @ = "asleep" THEN "check" ELSE @]
    BY <1>2 DEF SignalWorker
  <2>2. /\ pc'["main"] \in {"finish", "join worker"} /\ pc'["eager"] = pc["eager"]
        /\ pc'["worker"] # "asleep"
    BY <1>1, <2>1 DEF LabelsOK
  <2>3. pc["main"] # "exited"
    BY DEF EnqueueDone, StopWorker
  <2> QED
    BY <1>1, <2>2, <2>3, SameQueue DEF ThreadsRest, NoLostWakeup, JoinsOK
<1>3. CASE ~ \E l \in {"finish", "join worker"} : SignalWorker([pc EXCEPT !["main"] = l])
  <2>1. CASE EnqueueDone
    <3>1. ~ grew /\ Goto("main", "finish") /\ stop' = stop /\ pc["main"] = "enqueue"
      BY <1>3, <2>1 DEF EnqueueDone, workerVars
    <3>2. pc'["main"] = "finish" /\ \A b \in Actor \ {"main"} : pc'[b] = pc[b]
      BY <1>1, <3>1, GotoFacts
    <3> QED
      BY <1>1, <3>1, <3>2, SameQueue DEF ThreadsRest, NoLostWakeup, JoinsOK
  <2>2. CASE StopWorker
    <3>1. pc["worker"] = "none" /\ Goto("main", "join eager") /\ pc["main"] = "stop"
      BY <1>3, <2>2 DEF StopWorker, WorkerStarted
    <3>2. pc'["main"] = "join eager" /\ \A b \in Actor \ {"main"} : pc'[b] = pc[b]
      BY <1>1, <3>1, GotoFacts
    <3> QED
      BY <1>1, <3>1, <3>2, SameQueue DEF ThreadsRest, NoLostWakeup, JoinsOK, Returned
  <2> QED
    BY <2>1, <2>2
<1> QED
  BY <1>2, <1>3

LEMMA JoinThreads ==
  ASSUME ThreadsInv, JoinWorker \/ JoinEager \/ Close
  PROVE  ThreadsRest
<1> USE DEF ThreadsInv
<1>1. LabelsOK /\ UNCHANGED <<queue, stop, grew>>
  BY TypeParts DEF JoinWorker, JoinEager, Close, workerVars, loopVars
<1>2. PICK l \in {"join eager", "close", "exited"} : Goto("main", l)
  BY DEF JoinWorker, JoinEager, Close
<1>3. pc'["main"] = l /\ \A b \in Actor \ {"main"} : pc'[b] = pc[b]
  BY <1>1, <1>2, GotoFacts
<1>4. NoLostWakeup'
  BY <1>1, <1>3 DEF NoLostWakeup, JoinWorker, JoinEager, Close
<1>5. JoinsOK'
  <2>1. CASE JoinWorker
    <3>1. pc'["main"] = "join eager" /\ pc["worker"] = "exited" /\ uffdOpen' = uffdOpen
          /\ pc["main"] = "join worker"
      BY <1>1, <2>1, GotoFacts DEF JoinWorker, ufVars
    <3> QED
      BY <1>3, <3>1 DEF JoinsOK, Returned
  <2>2. CASE JoinEager
    <3>1. pc'["main"] = "close" /\ pc["eager"] \in Returned /\ uffdOpen' = uffdOpen
          /\ pc["main"] = "join eager"
      BY <1>1, <2>2, GotoFacts DEF JoinEager, EagerStarted, ufVars, Returned
    <3> QED
      BY <1>3, <3>1 DEF JoinsOK
  <2>3. CASE Close
    <3>1. pc'["main"] = "exited" /\ pc["main"] = "close"
      BY <1>1, <2>3, GotoFacts DEF Close
    <3> QED
      BY <1>3, <3>1 DEF JoinsOK
  <2> QED
    BY <2>1, <2>2, <2>3
<1> QED
  BY <1>1, <1>4, <1>5, SameQueue DEF ThreadsRest

\* The steps of the fault loop between poll and the queue, and after it.
LEMMA LoopThreads ==
  ASSUME ThreadsInv, MainStep,
         ~ (MainFetch \/ Enqueue \/ EnqueueDone \/ StopWorker \/ JoinWorker \/ JoinEager \/ Close)
  PROVE  ThreadsRest
<1> USE DEF ThreadsInv
<1>1. LabelsOK
  BY TypeParts
<1>2. UNCHANGED <<queue, stop>> /\ uffdOpen' = uffdOpen
  BY DEF MainStep, PollReturns, PollTimeout, ReadFault, ReadFaultOf, ReadEvent, ReadEventOf,
         ReadNothing, CheckServed, ScanNext, ScanDone, ZeroFallback, CopyEffect, ZeroRecord,
         Fetched, Finish, quiet, workerVars, ufVars
<1>3. /\ pc["main"] \notin {"enqueue", "join worker", "join eager", "close", "exited"}
      /\ pc' = pc \/ \E l \in MainPC \ {"join worker", "join eager", "close", "exited"} : Goto("main", l)
  BY DEF MainStep, PollReturns, PollTimeout, ReadFault, ReadEvent, ReadNothing, CheckServed,
         ScanNext, ScanDone, ZeroFallback, ZeroRecord, Fetched, Finish, AfterFetch, MainPC, FetchPC
<1>4. /\ pc'["worker"] = pc["worker"] /\ pc'["eager"] = pc["eager"]
      /\ pc'["main"] \notin {"join worker", "join eager", "close", "exited"}
  BY <1>1, <1>3, GotoFacts
<1>5. NoLostWakeup'
  BY <1>2, <1>3, <1>4 DEF NoLostWakeup
<1>6. JoinsOK'
  BY <1>2, <1>3, <1>4 DEF JoinsOK
<1> QED
  BY <1>2, <1>5, <1>6, SameQueue DEF ThreadsRest

----------------------------------------------------------------------------

LEMMA ThreadsStep == ThreadsInv /\ [Next]_vars => ThreadsInv'
<1> SUFFICES ASSUME ThreadsInv, [Next]_vars PROVE ThreadsRest
  BY TypeStep DEF ThreadsInv, ThreadsRest
<1>1. CASE Main
  BY <1>1, MainFetchThreads, EnqueueThreads, SignalThreads, JoinThreads, LoopThreads DEF Main
<1>2. CASE Worker \/ (WorkerSpuriousWake /\ UNCHANGED <<loopVars, envVars, hotPos>>)
  BY <1>2, WorkerThreads DEF Worker
<1>3. CASE Eager
  BY <1>3, EagerThreads DEF Eager
<1>4. CASE EnvironmentStep \/ \E t \in Thread : KernelStep(t)
  <2>1. UNCHANGED <<pc, uffdOpen>>
    BY <1>4, OutsideQuiet DEF ThreadsInv
  <2>2. UNCHANGED <<queue, stop, grew>>
    BY <1>4 DEF EnvironmentStep, ProcessStep, KernelStep, CriuFinishes, Signal, handlerVars,
                workerVars, loopVars
  <2> QED
    BY <2>1, <2>2, SameQueue DEF ThreadsInv, ThreadsRest, NoLostWakeup, JoinsOK
<1>5. CASE UNCHANGED vars
  BY <1>5, SameQueue DEF vars, ufVars, fetchVars, workerVars, loopVars, ThreadsInv, ThreadsRest,
                         NoLostWakeup, JoinsOK
<1> QED
  BY <1>1, <1>2, <1>3, <1>4, <1>5 DEF Next, Terminated

LEMMA ThreadsInit == Init => ThreadsInv
<1> SUFFICES ASSUME Init PROVE ThreadsInv
  OBVIOUS
<1>1. TypeOK
  BY TypeInit
<1>2. queue = <<>> /\ uffdOpen
  BY DEF Init, UFInit
<1>3. pc["main"] = "poll" /\ pc["worker"] \in {"connect", "none"}
  <2>1. PICK u \in {"connect", "none"}, e \in {"connect", "none"} :
          pc = [a \in Actor |-> CASE a = "main" -> "poll" [] a = "worker" -> u [] a = "eager" -> e]
    BY Zenon DEF Init
  <2> QED
    BY <2>1
<1>4. QueueDistinct
  BY <1>2 DEF QueueDistinct
<1> QED
  BY <1>1, <1>2, <1>3, <1>4 DEF ThreadsInv, NoLostWakeup, JoinsOK

(***************************************************************************)
(* async_prefetch_enqueue keeps the queue free of repetitions: its search  *)
(* and its append happen under one hold of the mutex, and the worker takes *)
(* requests from the front only, so no page is ever queued twice.          *)
(***************************************************************************)
THEOREM NoPageQueuedTwice == Spec => []QueueDistinct
<1>1. ThreadsInv => QueueDistinct
  BY DEF ThreadsInv
<1> QED
  BY <1>1, ThreadsInit, ThreadsStep, PTL DEF Spec

(***************************************************************************)
(* No lost wakeup between async_prefetch_enqueue and async_prefetch_thread: *)
(* the worker never sleeps beside a request or a stop flag that nobody is  *)
(* about to tell it of.                                                    *)
(***************************************************************************)
THEOREM NoWakeupLost == Spec => []NoLostWakeup
<1>1. ThreadsInv => NoLostWakeup
  BY DEF ThreadsInv
<1> QED
  BY <1>1, ThreadsInit, ThreadsStep, PTL DEF Spec

(***************************************************************************)
(* handle_faults joins both helpers before the descriptor and the served   *)
(* set go away, whichever of them was started and however it ended.        *)
(***************************************************************************)
THEOREM HelpersJoined == Spec => []ThreadsJoined
<1>1. ThreadsInv => ThreadsJoined
  BY DEF ThreadsInv, JoinsOK, ThreadsJoined, Returned
<1> QED
  BY <1>1, ThreadsInit, ThreadsStep, PTL DEF Spec


----------------------------------------------------------------------------
(* The queue's ledger: what is drained, what is counted, who may enqueue.  *)

\* The labels of handle_faults after the stop flag is set.
Stopping == {"join worker", "join eager", "close", "exited"}

(***************************************************************************)
(* Once told to stop, nobody enqueues; a worker whose connection holds     *)
(* returns only after that, its queue and its batch empty.                 *)
(***************************************************************************)
DrainOK ==
  /\ stop => pc["main"] \in Stopping
  /\ taken # <<>> => pc["worker"] = "filter"
  /\ "worker" \notin MayBreak =>
       /\ pc["worker"] # "failed"
       /\ pc["worker"] \notin {"none", "connect", "exited"} => up["worker"]
       /\ pc["worker"] = "exited" => stop /\ queue = <<>>

\* A handler without a worker has an empty queue and never enters the enqueue loop.
IdleOK == ~ WorkerStarted => queue = <<>> /\ counts.dropped = 0 /\ pc["main"] # "enqueue"

\* No candidate is ever listed under a configuration that is off.
CandidatesOK ==
  /\ pc["main"] = "scan" => scan >= 1
  /\ ~ config.enabled => cands = <<>>

LedgerInv == ThreadsInv /\ DrainOK /\ IdleOK /\ NoneWraps /\ CandidatesOK

LedgerRest == DrainOK' /\ IdleOK' /\ NoneWraps' /\ CandidatesOK'

\* No counter goes back.
CountsGrow ==
  /\ counts'.prefetched >= counts.prefetched
  /\ counts'.dropped >= counts.dropped
  /\ counts'.duplicates >= counts.duplicates

LEMMA CountsTyped ==
  ASSUME TypeOK
  PROVE  /\ counts.prefetched \in Nat /\ counts.dropped \in Nat /\ counts.duplicates \in Nat
         /\ last.prefetched \in Nat /\ last.dropped \in Nat /\ last.duplicates \in Nat
BY TypeParts DEF QueueOK, HistoryOK

LEMMA SameCounts ==
  ASSUME TypeOK, counts' = counts
  PROVE  CountsGrow
BY CountsTyped DEF CountsGrow

LEMMA WindowsKept ==
  ASSUME TypeOK, TypeOK', NoneWraps, last' = last, CountsGrow
  PROVE  NoneWraps'
<1>1. /\ last.prefetched \in Nat /\ last.dropped \in Nat /\ last.duplicates \in Nat
      /\ counts.prefetched \in Nat /\ counts.dropped \in Nat /\ counts.duplicates \in Nat
  BY CountsTyped
<1>2. counts'.prefetched \in Nat /\ counts'.dropped \in Nat /\ counts'.duplicates \in Nat
  BY CountsTyped, TypeParts DEF TypeOK, PWTypeOK
<1> QED
  BY <1>1, <1>2 DEF NoneWraps, CountsGrow

\* The worker: it alone takes requests, and it alone counts what it fetched.
LEMMA WorkerLedger ==
  ASSUME LedgerInv, WorkerStep \/ WorkerSpuriousWake, UNCHANGED loopVars, TypeOK'
  PROVE  LedgerRest
<1> USE DEF LedgerInv, ThreadsInv
<1>1. LabelsOK /\ PFTypeOK /\ QueueOK /\ pc["worker"] # "none"
  BY TypeParts DEF WorkerStep, WorkerConnect, Connect, WorkerSleep, WorkerStop, WorkerTake, WorkerFilter,
                   WorkerFiltered, WorkerFetch, Fetch, FetchSend, FetchInstall, FetchRecord, FetchFail,
                   WorkerCount, WorkerGiveUp, WorkerSpuriousWake
<1>2. pc'["main"] = pc["main"] /\ UNCHANGED <<stop, scan, cands, config, last>>
  <2>1. UNCHANGED <<cur, scan, cands, config, last>>
    BY DEF loopVars
  <2>2. pc'["main"] = pc["main"]
    <3>1. CASE WorkerFetch
      BY <3>1, FetchFrame DEF WorkerFetch
    <3>2. CASE ~ WorkerFetch
      BY <2>1, <3>2, WorkerQuiet DEF HelperQuiet
    <3> QED
      BY <3>1, <3>2
  <2>3. stop' = stop
    BY DEF WorkerStep, WorkerConnect, WorkerSleep, WorkerStop, WorkerTake, WorkerFilter,
           WorkerFiltered, WorkerFetch, WorkerCount, WorkerGiveUp, WorkerSpuriousWake, workerVars
  <2> QED
    BY <2>1, <2>2, <2>3
<1>3. /\ pc'["worker"] # "none"
      /\ taken' # <<>> => pc'["worker"] = "filter"
      /\ "worker" \notin MayBreak =>
           /\ pc'["worker"] # "failed"
           /\ pc'["worker"] \notin {"none", "connect", "exited"} => up'["worker"]
           /\ pc'["worker"] = "exited" => stop /\ queue' = <<>>
  <2>1. CASE WorkerConnect
    <3>1. /\ taken' = taken /\ pc["worker"] = "connect"
          /\ \/ Goto("worker", "check") /\ up' = [up EXCEPT !["worker"] = TRUE]
             \/ Goto("worker", "failed") /\ "worker" \in MayBreak
      BY <2>1 DEF WorkerConnect, Connect, workerVars
    <3>2. \/ pc'["worker"] = "check" /\ up'["worker"]
          \/ pc'["worker"] = "failed" /\ "worker" \in MayBreak
      BY <1>1, <3>1, GotoFacts DEF PFTypeOK
    <3> QED
      BY <3>1, <3>2 DEF DrainOK
  <2>2. CASE WorkerSleep \/ WorkerSpuriousWake \/ WorkerCount
    <3>1. /\ UNCHANGED <<up, taken, queue>> /\ pc["worker"] \in {"check", "asleep", "fetched"}
          /\ \E l \in {"check", "asleep"} : Goto("worker", l)
      BY <2>2 DEF WorkerSleep, WorkerSpuriousWake, WorkerCount, workerVars
    <3>2. pc'["worker"] \in {"check", "asleep"}
      BY <1>1, <3>1, GotoFacts
    <3> QED
      BY <3>1, <3>2 DEF DrainOK
  <2>3. CASE WorkerTake \/ WorkerFiltered
    <3>1. /\ up' = up /\ pc["worker"] \in {"check", "filter"}
          /\ \/ Goto("worker", "filter")
             \/ taken' = <<>> /\ \E l \in {"check", "send"} : Goto("worker", l)
      BY <2>3 DEF WorkerTake, WorkerFiltered
    <3>2. pc'["worker"] = "filter" \/ (taken' = <<>> /\ pc'["worker"] \in {"check", "send"})
      BY <1>1, <3>1, GotoFacts
    <3> QED
      BY <3>1, <3>2 DEF DrainOK
  <2>4. CASE WorkerFilter
    BY <2>4 DEF WorkerFilter, DrainOK
  <2>5. CASE WorkerFetch
    <3>1. UNCHANGED <<up, taken, queue>>
      BY <2>5, FetchFrame DEF WorkerFetch, workerVars
    <3>2. pc["worker"] \in {"send", "recv", "record"} /\ pc'["worker"] \in FetchPC
      BY <2>5, FetchLabels DEF WorkerFetch
    <3>3. "worker" \notin MayBreak => pc'["worker"] # "failed"
      <4>1. CASE FetchFail("worker")
        BY <3>2, <4>1 DEF DrainOK, FetchFail
      <4>2. CASE ~ FetchFail("worker")
        <5>1. \E l \in {"recv", "record", "fetched"} : Goto("worker", l)
          BY <2>5, <4>2 DEF WorkerFetch, Fetch, FetchSend, FetchInstall, FetchRecord, AfterTarget
        <5> QED
          BY <1>1, <5>1, GotoFacts
      <4> QED
        BY <4>1, <4>2
    <3> QED
      BY <3>1, <3>2, <3>3 DEF DrainOK, FetchPC
  <2>6. CASE WorkerStop \/ WorkerGiveUp
    <3>1. /\ UNCHANGED <<taken, queue>> /\ Goto("worker", "exited")
          /\ \/ pc["worker"] = "check" /\ queue = <<>> /\ stop
             \/ pc["worker"] = "failed"
      BY <2>6 DEF WorkerStop, WorkerGiveUp, workerVars
    <3>2. pc'["worker"] = "exited"
      BY <1>1, <3>1, GotoFacts
    <3> QED
      BY <3>1, <3>2 DEF DrainOK
  <2> QED
    BY <2>1, <2>2, <2>3, <2>4, <2>5, <2>6 DEF WorkerStep
<1>4. CountsGrow
  <2>1. CASE WorkerCount
    <3>1. counts' = [counts EXCEPT !.prefetched = @ + filtered]
      BY <2>1 DEF WorkerCount
    <3>2. /\ counts'.prefetched = counts.prefetched + filtered
          /\ counts'.dropped = counts.dropped /\ counts'.duplicates = counts.duplicates
      BY <1>1, <3>1 DEF QueueOK
    <3> QED
      BY <3>2, CountsNat DEF CountsGrow
  <2>2. CASE ~ WorkerCount
    <3>1. counts' = counts
      BY <2>2 DEF WorkerStep, WorkerConnect, WorkerSleep, WorkerStop, WorkerTake, WorkerFilter,
                  WorkerFiltered, WorkerFetch, WorkerGiveUp, WorkerSpuriousWake, workerVars
    <3> QED
      BY <3>1, SameCounts
  <2> QED
    BY <2>1, <2>2
<1>5. NoneWraps'
  BY <1>2, <1>4, WindowsKept
<1>6. DrainOK'
  BY <1>2, <1>3 DEF DrainOK
<1>7. IdleOK' /\ CandidatesOK'
  BY <1>2, <1>3 DEF IdleOK, CandidatesOK, WorkerStarted
<1> QED
  BY <1>5, <1>6, <1>7 DEF LedgerRest

LEMMA EagerLedger ==
  ASSUME LedgerInv, EagerStep, UNCHANGED <<workerVars, loopVars>>, TypeOK'
  PROVE  LedgerRest
<1> USE DEF LedgerInv, ThreadsInv
<1>1. PFTypeOK /\ UNCHANGED <<queue, stop, counts, taken, cur, scan, cands, config, last>>
  BY TypeParts DEF workerVars, loopVars
<1>2. pc'["main"] = pc["main"] /\ pc'["worker"] = pc["worker"] /\ up'["worker"] = up["worker"]
  <2>1. CASE EagerFetching
    BY <2>1, FetchFrame DEF EagerFetching
  <2>2. CASE ~ EagerFetching
    <3>1. up'["worker"] = up["worker"]
      BY <1>1, <2>2 DEF EagerStep, EagerConnect, Connect, EagerScan, EagerEndOfFile, EagerNextBatch,
                        EagerDone, PFTypeOK
    <3>2. pc' = pc \/ \E l \in EagerPC : Goto("eager", l)
      BY <2>2 DEF EagerStep, EagerConnect, Connect, EagerScan, EagerEndOfFile, EagerNextBatch,
                  EagerDone, EagerPC, FetchPC
    <3>3. \A b \in Actor \ {"eager"} : pc'[b] = pc[b]
      BY <3>2, GotoFacts, TypeParts
    <3> QED
      BY <3>1, <3>3
  <2> QED
    BY <2>1, <2>2
<1>3. NoneWraps'
  BY <1>1 DEF NoneWraps
<1> QED
  BY <1>1, <1>2, <1>3 DEF LedgerRest, DrainOK, IdleOK, CandidatesOK, WorkerStarted

\* The main thread alone never changes which helpers there are, or their connections.
LEMMA MainHelpers ==
  ASSUME TypeOK, MainStep
  PROVE  /\ up'["worker"] = up["worker"]
         /\ pc'["worker"] = pc["worker"] \/ (pc["worker"] = "asleep" /\ pc'["worker"] = "check")
<1>1. LabelsOK /\ PFTypeOK
  BY TypeParts
<1>2. up'["worker"] = up["worker"]
  BY <1>1, FetchFrame, MainQuiet DEF MainFetch, Close, PFTypeOK
<1>3. CASE EnqueueDone \/ StopWorker
  <2>1. \/ \E l \in {"finish", "join eager"} : Goto("main", l)
        \/ \E l \in {"finish", "join worker"} : SignalWorker([pc EXCEPT !["main"] = l])
    BY <1>3 DEF EnqueueDone, StopWorker
  <2>2. pc'["worker"] = pc["worker"] \/ (pc["worker"] = "asleep" /\ pc'["worker"] = "check")
    BY <1>1, <2>1 DEF LabelsOK, Goto, SignalWorker
  <2> QED
    BY <1>2, <2>2
<1>4. CASE MainFetch
  BY <1>2, <1>4, FetchFrame DEF MainFetch
<1>5. CASE ~ (EnqueueDone \/ StopWorker \/ MainFetch)
  <2>1. pc' = pc \/ \E l \in MainPC : Goto("main", l)
    BY <1>5 DEF MainStep, PollReturns, PollTimeout, ReadFault, ReadEvent, ReadNothing, CheckServed,
                ScanNext, ScanDone, ZeroFallback, ZeroRecord, AfterFetch, Fetched, Enqueue, Finish,
                JoinWorker, JoinEager, Close, MainPC, FetchPC
  <2> QED
    BY <1>1, <1>2, <2>1, GotoFacts
<1> QED
  BY <1>3, <1>4, <1>5

\* Steps of the main thread that leave the queue and the candidates alone.
LEMMA LoopLedger ==
  ASSUME LedgerInv, MainStep, TypeOK',
         ~ (Enqueue \/ EnqueueDone \/ StopWorker \/ CheckServed \/ ScanNext \/ Finish)
  PROVE  LedgerRest
<1> USE DEF LedgerInv, ThreadsInv
<1>1. LabelsOK /\ UNCHANGED <<queue, stop, counts, taken, cands, config, last>>
  BY TypeParts DEF MainStep, PollReturns, PollTimeout, ReadFault, ReadEvent, ReadNothing, ScanDone,
         MainFetch, ZeroFallback, ZeroRecord, Fetched, JoinWorker, JoinEager, Close, quiet, workerVars,
         loopVars
<1>2. /\ up'["worker"] = up["worker"]
      /\ pc'["worker"] = pc["worker"] \/ (pc["worker"] = "asleep" /\ pc'["worker"] = "check")
  BY MainHelpers
<1>3. /\ pc["main"] \in Stopping => pc'["main"] \in Stopping
      /\ pc'["main"] # "scan"
      /\ pc'["main"] = "enqueue" => WorkerStarted
  <2>1. CASE MainFetch
    BY <2>1, FetchLabels DEF MainFetch, FetchPC, Stopping
  <2>2. CASE JoinWorker \/ JoinEager \/ Close
    <3>1. \E l \in {"join eager", "close", "exited"} : Goto("main", l)
      BY <2>2 DEF JoinWorker, JoinEager, Close
    <3> QED
      BY <1>1, <3>1, GotoFacts DEF Stopping
  <2>3. CASE ZeroRecord \/ Fetched
    <3>1. pc["main"] \in {"zeroed", "fetched"} /\ Goto("main", AfterFetch)
      BY <2>3 DEF ZeroRecord, Fetched
    <3>2. pc'["main"] = AfterFetch
      BY <1>1, <3>1, GotoFacts
    <3> QED
      BY <3>1, <3>2 DEF AfterFetch, Stopping
  <2>4. CASE \/ PollReturns \/ PollTimeout \/ ReadNothing \/ ScanDone \/ ZeroFallback
             \/ \E t \in Thread : ReadFault(t) \/ ReadEvent(t)
    <3>1. /\ pc["main"] \in {"poll", "read", "scan", "failed"}
          /\ \E l \in {"read", "stop", "poll", "check", "send", "zeroed"} : Goto("main", l)
      BY <2>4 DEF PollReturns, PollTimeout, ReadFault, ReadEvent, ReadNothing, ScanDone, ZeroFallback
    <3>2. pc'["main"] \in {"read", "stop", "poll", "check", "send", "zeroed"}
      BY <1>1, <3>1, GotoFacts
    <3> QED
      BY <3>1, <3>2 DEF Stopping
  <2> QED
    BY <2>1, <2>2, <2>3, <2>4 DEF MainStep
<1>4. DrainOK'
  BY <1>1, <1>2, <1>3 DEF DrainOK
<1>5. IdleOK' /\ CandidatesOK'
  BY <1>1, <1>2, <1>3 DEF IdleOK, CandidatesOK, WorkerStarted
<1>6. NoneWraps'
  BY <1>1 DEF NoneWraps
<1> QED
  BY <1>4, <1>5, <1>6 DEF LedgerRest

\* The steps that compute the candidates, and the end of a fault.
LEMMA ScanLedger ==
  ASSUME LedgerInv, CheckServed \/ ScanNext \/ Finish, TypeOK'
  PROVE  LedgerRest
<1> USE DEF LedgerInv, ThreadsInv
<1>1. LabelsOK /\ UNCHANGED <<queue, stop, counts, taken>> /\ up' = up
      /\ pc["main"] \in {"check", "scan", "finish"}
  BY TypeParts DEF CheckServed, ScanNext, Finish, quiet
<1>2. /\ pc'["main"] \in {"poll", "scan"} /\ pc'["worker"] = pc["worker"]
      /\ pc'["main"] = "scan" => CheckServed \/ ScanNext
  <2>1. CASE ScanNext
    BY <2>1 DEF ScanNext
  <2>2. CASE CheckServed \/ Finish
    <3>1. \/ Goto("main", "poll")
          \/ CheckServed /\ Goto("main", "scan")
      BY <2>2 DEF CheckServed, Finish
    <3> QED
      BY <1>1, <3>1, GotoFacts
  <2> QED
    BY <2>1, <2>2
<1>3. DrainOK' /\ IdleOK'
  BY <1>1, <1>2 DEF DrainOK, IdleOK, WorkerStarted, Stopping
<1>4. NoneWraps'
  <2>1. last' = last \/ last' = counts
    BY DEF CheckServed, ScanNext, Finish
  <2>2. CASE last' = last
    BY <1>1, <2>2 DEF NoneWraps
  <2>3. CASE last' = counts
    BY <1>1, <2>3, CountsTyped DEF NoneWraps
  <2> QED
    BY <2>1, <2>2, <2>3
<1>5. CandidatesOK'
  <2>1. CASE Finish
    BY <1>2, <2>1 DEF CandidatesOK, Finish, Forget, CheckServed, ScanNext
  <2>2. CASE CheckServed
    <3>1. config' = config /\ (cands' = cands \/ cands' = <<>>) /\ (pc'["main"] = "scan" => scan' = 1)
      <4>1. CASE cur \in served
        <5>1. pc'["main"] = "poll"
          BY <1>1, <2>2, <4>1, GotoFacts DEF CheckServed
        <5> QED
          BY <2>2, <4>1, <5>1 DEF CheckServed, Forget
      <4>2. CASE cur \notin served
        BY <2>2, <4>2 DEF CheckServed
      <4> QED
        BY <4>1, <4>2
    <3> QED
      BY <3>1 DEF CandidatesOK
  <2>3. CASE ScanNext
    <3>1. scan \in Nat /\ scan >= 1
      BY <2>3, TypeParts DEF ScanNext, CandidatesOK, BlockOK
    <3>2. config' = config /\ scan' = scan + 1 /\ scan' >= 1
      BY <2>3, <3>1 DEF ScanNext
    <3>3. config.enabled
      BY <2>3, <3>1 DEF ScanNext, MoreCandidates, Lookahead
    <3> QED
      BY <3>2, <3>3 DEF CandidatesOK
  <2> QED
    BY <2>1, <2>2, <2>3
<1> QED
  BY <1>3, <1>4, <1>5 DEF LedgerRest

\* async_prefetch_enqueue, and telling the worker to stop.
LEMMA EnqueueLedger ==
  ASSUME LedgerInv, Enqueue \/ EnqueueDone \/ StopWorker, TypeOK'
  PROVE  LedgerRest
<1> USE DEF LedgerInv, ThreadsInv
<1>1. LabelsOK /\ UNCHANGED <<taken, config, last, scan>> /\ up' = up
  BY TypeParts DEF Enqueue, EnqueueDone, StopWorker, workerVars, loopVars
<1>2. CASE Enqueue
  <2>1. cands # <<>> /\ pc["main"] = "enqueue" /\ UNCHANGED <<pc, stop>>
    BY <1>2 DEF Enqueue
  <2>2. WorkerStarted /\ config.enabled /\ ~ stop
    BY <2>1 DEF IdleOK, CandidatesOK, DrainOK, Stopping
  <2>3. CountsGrow
    <3>1. Len(cands) \in Nat
      BY TypeParts, PageSeq DEF BlockOK
    <3>2. \/ counts' = counts
          \/ counts' = [counts EXCEPT !.duplicates = counts.duplicates + 1]
          \/ counts' = [counts EXCEPT !.dropped = counts.dropped + Len(cands)]
      BY <1>2 DEF Enqueue
    <3>3. counts \in [prefetched : Nat, dropped : Nat, duplicates : Nat]
      BY TypeParts DEF QueueOK
    <3>4. \/ counts' = counts
          \/ counts'.duplicates = counts.duplicates + 1 /\ counts'.dropped = counts.dropped
             /\ counts'.prefetched = counts.prefetched
          \/ counts'.dropped = counts.dropped + Len(cands) /\ counts'.duplicates = counts.duplicates
             /\ counts'.prefetched = counts.prefetched
      BY <3>2, <3>3
    <3> QED
      BY <3>1, <3>4, CountsTyped DEF CountsGrow
  <2>4. NoneWraps'
    BY <1>1, <2>3, WindowsKept
  <2>5. DrainOK' /\ IdleOK' /\ CandidatesOK'
    BY <1>1, <2>1, <2>2 DEF DrainOK, IdleOK, CandidatesOK, WorkerStarted
  <2> QED
    BY <2>4, <2>5 DEF LedgerRest
<1>3. CASE EnqueueDone \/ StopWorker
  <2>1. /\ UNCHANGED <<queue, counts, cands>>
        /\ stop' = stop \/ StopWorker
        /\ pc["main"] \in {"enqueue", "stop"}
    BY <1>3 DEF EnqueueDone, StopWorker, workerVars, loopVars
  <2>2. /\ StopWorker => pc'["main"] \in {"join worker", "join eager"}
        /\ EnqueueDone => pc'["main"] = "finish"
    <3>1. /\ StopWorker => \/ Goto("main", "join eager")
                           \/ SignalWorker([pc EXCEPT !["main"] = "join worker"])
          /\ EnqueueDone => \/ Goto("main", "finish")
                            \/ SignalWorker([pc EXCEPT !["main"] = "finish"])
      BY DEF EnqueueDone, StopWorker
    <3> QED
      BY <1>1, <3>1 DEF LabelsOK, Goto, SignalWorker
  <2>3. pc'["worker"] = pc["worker"] \/ (pc["worker"] = "asleep" /\ pc'["worker"] = "check")
    BY <1>3, MainHelpers DEF MainStep
  <2>4. DrainOK'
    <3>1. stop' => pc'["main"] \in Stopping
      BY <1>3, <2>1, <2>2 DEF DrainOK, Stopping
    <3>2. stop => stop'
      BY <1>3 DEF EnqueueDone, StopWorker, workerVars
    <3> QED
      BY <1>1, <2>1, <2>3, <3>1, <3>2 DEF DrainOK
  <2>5. IdleOK' /\ CandidatesOK'
    BY <1>1, <1>3, <2>1, <2>2, <2>3 DEF IdleOK, CandidatesOK, WorkerStarted
  <2>6. NoneWraps'
    BY <1>1, <2>1 DEF NoneWraps
  <2> QED
    BY <2>4, <2>5, <2>6 DEF LedgerRest
<1> QED
  BY <1>2, <1>3

LEMMA OutsideLedger ==
  ASSUME LedgerInv, EnvironmentStep \/ \E t \in Thread : KernelStep(t)
  PROVE  LedgerRest
<1> USE DEF LedgerInv, ThreadsInv
<1>1. pc' = pc /\ PFTypeOK
  BY OutsideQuiet, TypeParts
<1>2. UNCHANGED <<queue, stop, counts, taken, scan, cands, config, last>>
  BY DEF EnvironmentStep, ProcessStep, KernelStep, CriuFinishes, Signal, handlerVars, workerVars, loopVars
<1>3. "worker" \notin MayBreak => up'["worker"] = up["worker"]
  <2>1. up' = up \/ \E a \in MayBreak : up' = [up EXCEPT ![a] = FALSE]
    BY DEF EnvironmentStep, ProcessStep, KernelStep, CriuFinishes, Signal, handlerVars, fetchVars, Break
  <2> QED
    BY <1>1, <2>1 DEF PFTypeOK
<1>4. NoneWraps'
  BY <1>2 DEF NoneWraps
<1> QED
  BY <1>1, <1>2, <1>3, <1>4 DEF LedgerRest, DrainOK, IdleOK, CandidatesOK, WorkerStarted

LEMMA LedgerStep == LedgerInv /\ [Next]_vars => LedgerInv'
<1> SUFFICES ASSUME LedgerInv, [Next]_vars PROVE LedgerRest
  BY ThreadsStep DEF LedgerInv, LedgerRest
<1>0. TypeOK'
  BY TypeStep DEF LedgerInv, ThreadsInv
<1>1. CASE Main
  BY <1>0, <1>1, LoopLedger, ScanLedger, EnqueueLedger DEF Main
<1>2. CASE Worker \/ (WorkerSpuriousWake /\ UNCHANGED <<loopVars, envVars, hotPos>>)
  BY <1>0, <1>2, WorkerLedger DEF Worker
<1>3. CASE Eager
  BY <1>0, <1>3, EagerLedger DEF Eager
<1>4. CASE EnvironmentStep \/ \E t \in Thread : KernelStep(t)
  BY <1>4, OutsideLedger
<1>5. CASE UNCHANGED vars
  BY <1>5 DEF vars, fetchVars, workerVars, loopVars, LedgerInv, LedgerRest, DrainOK, IdleOK,
              NoneWraps, CandidatesOK, WorkerStarted
<1> QED
  BY <1>1, <1>2, <1>3, <1>4, <1>5 DEF Next, Terminated

LEMMA LedgerInit == Init => LedgerInv
<1> SUFFICES ASSUME Init PROVE LedgerInv
  OBVIOUS
<1>1. ThreadsInv /\ TypeOK
  BY ThreadsInit DEF ThreadsInv
<1>2. pc["main"] = "poll" /\ pc["worker"] \in {"connect", "none"}
  <2>1. PICK u \in {"connect", "none"}, e \in {"connect", "none"} :
          pc = [a \in Actor |-> CASE a = "main" -> "poll" [] a = "worker" -> u [] a = "eager" -> e]
    BY Zenon DEF Init
  <2> QED
    BY <2>1
<1>3. queue = <<>> /\ stop = FALSE /\ taken = <<>> /\ cands = <<>> /\ counts.dropped = 0
  BY DEF Init
<1>4. NoneWraps
  BY DEF Init, NoneWraps
<1> QED
  BY <1>1, <1>2, <1>3, <1>4 DEF LedgerInv, DrainOK, IdleOK, CandidatesOK

LEMMA LedgerAlways == Spec => []LedgerInv
BY LedgerInit, LedgerStep, PTL DEF Spec

(***************************************************************************)
(* A clean stop drains: async_prefetch_thread looks at its queue before    *)
(* its stop flag, and handle_faults has left the enqueue loop for good     *)
(* when it sets that flag, so a worker whose connection held leaves no     *)
(* accepted request behind when it has been joined.                        *)
(***************************************************************************)
THEOREM StopLeavesNothing == Spec => []StopDrains
<1>1. LedgerInv => StopDrains
  BY DEF LedgerInv, ThreadsInv, JoinsOK, Returned, DrainOK, StopDrains, WorkerStarted
<1> QED
  BY <1>1, LedgerAlways, PTL

(***************************************************************************)
(* Without a worker nothing is ever queued or counted as dropped, whatever *)
(* the adaptive controller does with the configuration.                    *)
(***************************************************************************)
THEOREM NobodyToDrain == Spec => []NoWorkerNoQueue
<1>1. LedgerInv => NoWorkerNoQueue
  BY DEF LedgerInv, IdleOK, NoWorkerNoQueue
<1> QED
  BY <1>1, LedgerAlways, PTL

\* What each label of the fault path still owes the window: a fault that has not
\* listed its candidates may list MaxTargets, one that enqueues has these left.
Owed ==
  CASE pc["main"] \in {"check", "scan", "send", "recv", "record", "failed", "zeroed", "fetched"} -> MaxTargets
    [] pc["main"] = "enqueue" -> Len(cands)
    [] OTHER -> 0

BudgetOK == Len(cands) <= MaxTargets /\ Refused + Owed <= window * MaxTargets

LEMMA BudgetTyped ==
  ASSUME TypeOK
  PROVE  /\ MaxTargets \in Nat /\ window \in Nat /\ window * MaxTargets \in Nat
         /\ (window + 1) * MaxTargets = window * MaxTargets + MaxTargets
         /\ Len(cands) \in Nat /\ Refused \in Int /\ Owed \in Nat
<1>1. MaxTargets \in Nat /\ window \in Nat /\ Len(cands) \in Nat
  BY TypeParts, PageSeq, HistoryAssumption DEF HistoryOK, BlockOK
<1>2. \A m, n \in Nat : n * m \in Nat /\ (n + 1) * m = n * m + m
  OBVIOUS
<1>3. Refused \in Int
  BY CountsTyped DEF Refused
<1> QED
  BY <1>1, <1>2, <1>3 DEF Owed

\* Steps that refuse nothing and owe no more keep the budget.
LEMMA SameBudget ==
  ASSUME TypeOK, TypeOK', BudgetOK, UNCHANGED <<last, window, cands>>,
         counts'.dropped = counts.dropped, counts'.duplicates = counts.duplicates, Owed' <= Owed
  PROVE  BudgetOK'
<1>1. Refused' = Refused
  BY DEF Refused
<1>2. window' = window /\ cands' = cands
  OBVIOUS
<1>3. /\ window * MaxTargets \in Nat /\ Refused \in Int /\ Owed \in Nat
      /\ MaxTargets \in Nat /\ Len(cands) \in Nat
  BY BudgetTyped
<1>4. Owed' \in Nat
  BY <1>2, <1>3 DEF Owed
<1>5. Refused + Owed <= window * MaxTargets /\ Len(cands) <= MaxTargets
  BY DEF BudgetOK
<1>6. Refused + Owed' <= window * MaxTargets
  <2>1. \A r \in Int : \A o, n, b \in Nat : r + o <= b /\ n <= o => r + n <= b
    OBVIOUS
  <2> QED
    BY <1>3, <1>4, <1>5, <2>1
<1> QED
  BY <1>1, <1>2, <1>5, <1>6 DEF BudgetOK

\* The steps of the fault path that neither list nor refuse a candidate.
LEMMA LoopBudget ==
  ASSUME LedgerInv, BudgetOK, MainStep, TypeOK',
         ~ (Enqueue \/ CheckServed \/ ScanNext \/ Finish \/ \E t \in Thread : ReadFault(t))
  PROVE  BudgetOK'
<1> DEFINE Listing == {"check", "scan", "send", "recv", "record", "failed", "zeroed", "fetched"}
           Idle == {"poll", "read", "finish", "stop", "join worker", "join eager", "close", "exited"}
<1>1. TypeOK /\ LabelsOK
  BY TypeParts DEF LedgerInv, ThreadsInv
<1>2. UNCHANGED <<last, window, cands, counts>>
  BY DEF MainStep, PollReturns, PollTimeout, ReadEvent, ReadNothing, ScanDone, MainFetch, ZeroFallback,
         ZeroRecord, Fetched, EnqueueDone, StopWorker, JoinWorker, JoinEager, Close, quiet, workerVars,
         loopVars
<1>3. \/ pc["main"] \in Listing /\ pc'["main"] \in Listing
      \/ pc["main"] \in Listing /\ pc'["main"] = "enqueue"
      \/ pc'["main"] \in Idle
  <2>1. CASE MainFetch
    BY <1>1, <2>1, FetchLabels DEF MainFetch, FetchPC
  <2>2. CASE EnqueueDone \/ StopWorker
    <3>1. \/ \E l \in {"finish", "join eager"} : Goto("main", l)
          \/ \E l \in {"finish", "join worker"} : SignalWorker([pc EXCEPT !["main"] = l])
      BY <2>2 DEF EnqueueDone, StopWorker
    <3> QED
      BY <1>1, <3>1 DEF LabelsOK, Goto, SignalWorker
  <2>3. CASE ZeroRecord \/ Fetched
    <3>1. pc["main"] \in {"zeroed", "fetched"} /\ Goto("main", AfterFetch)
      BY <2>3 DEF ZeroRecord, Fetched
    <3>2. pc'["main"] = AfterFetch
      BY <1>1, <3>1, GotoFacts
    <3> QED
      BY <3>1, <3>2 DEF AfterFetch
  <2>4. CASE ScanDone \/ ZeroFallback
    <3>1. pc["main"] \in {"scan", "failed"} /\ \E l \in {"send", "zeroed"} : Goto("main", l)
      BY <2>4 DEF ScanDone, ZeroFallback
    <3>2. pc'["main"] \in {"send", "zeroed"}
      BY <1>1, <3>1, GotoFacts
    <3> QED
      BY <3>1, <3>2
  <2>5. CASE \/ PollReturns \/ PollTimeout \/ ReadNothing \/ JoinWorker \/ JoinEager \/ Close
             \/ \E t \in Thread : ReadEvent(t)
    <3>1. \E l \in Idle : Goto("main", l)
      BY <2>5 DEF PollReturns, PollTimeout, ReadEvent, ReadNothing, JoinWorker, JoinEager, Close
    <3> QED
      BY <1>1, <3>1, GotoFacts
  <2> QED
    BY <2>1, <2>2, <2>3, <2>4, <2>5 DEF MainStep
<1>4. Owed' <= Owed
  <2>1. Len(cands) \in Nat /\ MaxTargets \in Nat /\ Owed \in Nat /\ Len(cands) <= MaxTargets
    BY <1>1, BudgetTyped DEF BudgetOK
  <2>2. CASE pc["main"] \in Listing /\ pc'["main"] \in Listing
    BY <2>1, <2>2 DEF Owed
  <2>3. CASE pc["main"] \in Listing /\ pc'["main"] = "enqueue"
    BY <1>2, <2>1, <2>3 DEF Owed
  <2>4. CASE pc'["main"] \in Idle
    <3>1. Owed' = 0
      BY <2>4 DEF Owed
    <3> QED
      BY <2>1, <3>1
  <2> QED
    BY <1>3, <2>2, <2>3, <2>4
<1> QED
  BY <1>1, <1>2, <1>4, SameBudget

\* A fault begins, lists its candidates, and offers them to the queue.
LEMMA FaultBudget ==
  ASSUME LedgerInv, BudgetOK, TypeOK',
         Enqueue \/ CheckServed \/ ScanNext \/ \E t \in Thread : ReadFault(t)
  PROVE  BudgetOK'
<1>1. TypeOK /\ LabelsOK /\ BlockOK
  BY TypeParts DEF LedgerInv, ThreadsInv
<1>2. /\ MaxTargets \in Nat /\ window \in Nat /\ window * MaxTargets \in Nat
      /\ (window + 1) * MaxTargets = window * MaxTargets + MaxTargets
      /\ Len(cands) \in Nat /\ Refused \in Int /\ Owed \in Nat
  BY <1>1, BudgetTyped
<1>3. Len(cands) <= MaxTargets /\ Refused + Owed <= window * MaxTargets
  BY DEF BudgetOK
<1>4. cands \in Seq(Page) /\ (cands # <<>> => Len(Tail(cands)) = Len(cands) - 1 /\ Len(cands) >= 1)
  BY <1>1, <1>2, HeadTailProperties, EmptySeq DEF BlockOK
<1>5. Len(<<>>) = 0
  OBVIOUS
<1>6. CASE \E t \in Thread : ReadFault(t)
  <2>1. pc["main"] = "read" /\ window' = window + 1 /\ UNCHANGED <<cands, counts, last>>
        /\ Goto("main", "check")
    BY <1>6 DEF ReadFault, quiet
  <2>2. Owed = 0 /\ Owed' = MaxTargets
    BY <1>1, <2>1, GotoFacts DEF Owed
  <2>3. Refused' = Refused
    BY <2>1 DEF Refused
  <2> QED
    BY <1>2, <1>3, <2>1, <2>2, <2>3 DEF BudgetOK
<1>7. CASE CheckServed
  <2>1. /\ pc["main"] = "check" /\ UNCHANGED <<window, counts, last>>
        /\ \/ Goto("main", "poll") /\ cands' = <<>>
           \/ Goto("main", "scan") /\ cands' = cands
    BY <1>7 DEF CheckServed, Forget, quiet
  <2>2. Owed = MaxTargets /\ Owed' \in {0, MaxTargets}
    BY <1>1, <2>1, GotoFacts DEF Owed
  <2>3. Refused' = Refused
    BY <2>1 DEF Refused
  <2>4. Len(cands') <= MaxTargets
    BY <1>2, <1>3, <1>5, <2>1
  <2>5. Refused + MaxTargets <= window * MaxTargets
    BY <1>3, <2>2
  <2>6. Refused + Owed' <= window * MaxTargets
    <3>1. \A r \in Int : \A m, b \in Nat : r + m <= b => r + 0 <= b
      OBVIOUS
    <3> QED
      BY <1>2, <2>2, <2>5, <3>1
  <2> QED
    BY <2>1, <2>3, <2>4, <2>6 DEF BudgetOK
<1>8. CASE ScanNext
  <2>1. pc["main"] = "scan" /\ UNCHANGED <<pc, window, counts, last>> /\ Len(cands) < MaxTargets
    BY <1>8 DEF ScanNext, MoreCandidates, quiet
  <2>2. cands' = cands \/ \E c : cands' = Append(cands, c)
    BY <1>8 DEF ScanNext
  <2>3. Len(cands') <= Len(cands) + 1
    BY <1>2, <1>4, <2>2, AppendProperties
  <2>4. Owed' = Owed
    BY <2>1 DEF Owed
  <2>5. Refused' = Refused
    BY <2>1 DEF Refused
  <2> QED
    BY <1>2, <1>3, <2>1, <2>3, <2>4, <2>5, BudgetTyped DEF BudgetOK
<1>9. CASE Enqueue
  <2>1. /\ pc["main"] = "enqueue" /\ cands # <<>> /\ UNCHANGED <<pc, window, last>>
        /\ \/ counts' = [counts EXCEPT !.duplicates = counts.duplicates + 1] /\ cands' = Tail(cands)
           \/ counts' = [counts EXCEPT !.dropped = counts.dropped + Len(cands)] /\ cands' = <<>>
           \/ counts' = counts /\ cands' = Tail(cands)
    BY <1>9 DEF Enqueue
  <2>2. Owed = Len(cands) /\ Owed' = Len(cands')
    BY <2>1 DEF Owed
  <2>3. counts \in [prefetched : Nat, dropped : Nat, duplicates : Nat]
    BY <1>1, TypeParts DEF QueueOK
  <2>4. /\ counts.dropped \in Nat /\ counts.duplicates \in Nat
        /\ last.dropped \in Nat /\ last.duplicates \in Nat
    BY <1>1, CountsTyped
  <2>5. CASE counts' = [counts EXCEPT !.duplicates = counts.duplicates + 1] /\ cands' = Tail(cands)
    <3>1. counts'.duplicates = counts.duplicates + 1 /\ counts'.dropped = counts.dropped
      BY <2>3, <2>5
    <3>2. Refused' = (counts'.dropped - last.dropped) + (counts'.duplicates - last.duplicates)
      BY <2>1 DEF Refused
    <3>3. \A d, u, l, m \in Nat : (d - l) + (u + 1 - m) = (d - l) + (u - m) + 1
      OBVIOUS
    <3>4. Refused' = Refused + 1
      BY <2>4, <3>1, <3>2, <3>3 DEF Refused
    <3>5. Len(cands') = Len(cands) - 1
      BY <1>4, <2>1, <2>5
    <3> QED
      BY <1>2, <1>3, <2>1, <2>2, <3>4, <3>5 DEF BudgetOK
  <2>6. CASE counts' = [counts EXCEPT !.dropped = counts.dropped + Len(cands)] /\ cands' = <<>>
    <3>1. counts'.dropped = counts.dropped + Len(cands) /\ counts'.duplicates = counts.duplicates
      BY <2>3, <2>6
    <3>2. Refused' = (counts'.dropped - last.dropped) + (counts'.duplicates - last.duplicates)
      BY <2>1 DEF Refused
    <3>3. \A d, u, l, m, n \in Nat : (d + n - l) + (u - m) = (d - l) + (u - m) + n
      OBVIOUS
    <3>4. Refused' = Refused + Len(cands)
      BY <1>2, <2>4, <3>1, <3>2, <3>3 DEF Refused
    <3> QED
      BY <1>2, <1>3, <1>5, <2>1, <2>2, <2>6, <3>4 DEF BudgetOK
  <2>7. CASE counts' = counts /\ cands' = Tail(cands)
    <3>1. Refused' = Refused
      BY <2>1, <2>7 DEF Refused
    <3> QED
      BY <1>2, <1>3, <1>4, <2>1, <2>2, <2>7, <3>1 DEF BudgetOK
  <2> QED
    BY <2>1, <2>5, <2>6, <2>7
<1> QED
  BY <1>6, <1>7, <1>8, <1>9

\* An adjustment forgets the faults of its window and what they were refused.
LEMMA FinishBudget ==
  ASSUME LedgerInv, BudgetOK, Finish, TypeOK'
  PROVE  BudgetOK'
<1>1. TypeOK /\ LabelsOK
  BY TypeParts DEF LedgerInv, ThreadsInv
<1>2. /\ cands' = <<>> /\ counts' = counts /\ pc["main"] = "finish" /\ Goto("main", "poll")
      /\ \/ last' = counts /\ window' = 0
         \/ last' = last /\ window' = window
  BY DEF Finish, Forget, quiet
<1>3. Owed = 0 /\ Owed' = 0 /\ Len(cands') = 0
  BY <1>1, <1>2, GotoFacts DEF Owed
<1>4. MaxTargets \in Nat /\ Refused \in Int
  BY <1>1, BudgetTyped
<1>5. CASE last' = counts /\ window' = 0
  <2>1. Refused' = 0
    BY <1>1, <1>2, <1>5, CountsTyped DEF Refused
  <2> QED
    BY <1>3, <1>4, <1>5, <2>1 DEF BudgetOK
<1>6. CASE last' = last /\ window' = window
  <2>1. Refused' = Refused
    BY <1>2, <1>6 DEF Refused
  <2> QED
    BY <1>3, <1>4, <1>6, <2>1 DEF BudgetOK
<1> QED
  BY <1>2, <1>5, <1>6

LEMMA BudgetStep ==
  ASSUME LedgerInv, BudgetOK, [Next]_vars
  PROVE  BudgetOK'
<1>1. TypeOK /\ TypeOK' /\ QueueOK
  BY TypeStep, TypeParts DEF LedgerInv, ThreadsInv
<1>2. CASE Main
  BY <1>1, <1>2, LoopBudget, FaultBudget, FinishBudget DEF Main
<1>3. ASSUME pc'["main"] = pc["main"], UNCHANGED <<last, window, cands>>,
             counts'.dropped = counts.dropped, counts'.duplicates = counts.duplicates
      PROVE  BudgetOK'
  <2>1. Owed' = Owed
    BY <1>3 DEF Owed
  <2> QED
    BY <1>1, <1>3, <2>1, SameBudget, BudgetTyped
<1>4. CASE Worker \/ (WorkerSpuriousWake /\ UNCHANGED <<loopVars, envVars, hotPos>>)
  <2>1. (WorkerStep \/ WorkerSpuriousWake) /\ UNCHANGED <<cur, last, window, cands>>
    BY <1>4 DEF Worker, loopVars
  <2>2. pc'["main"] = pc["main"]
    <3>1. CASE WorkerFetch
      BY <1>1, <3>1, FetchFrame DEF WorkerFetch
    <3>2. CASE ~ WorkerFetch
      BY <1>1, <2>1, <3>2, WorkerQuiet DEF HelperQuiet
    <3> QED
      BY <3>1, <3>2
  <2>3. counts' = counts \/ counts' = [counts EXCEPT !.prefetched = counts.prefetched + filtered]
    BY <2>1 DEF WorkerStep, WorkerConnect, WorkerSleep, WorkerStop, WorkerTake, WorkerFilter,
                WorkerFiltered, WorkerFetch, WorkerCount, WorkerGiveUp, WorkerSpuriousWake, workerVars
  <2>4. counts'.dropped = counts.dropped /\ counts'.duplicates = counts.duplicates
    BY <1>1, <2>3 DEF QueueOK
  <2> QED
    BY <1>3, <2>1, <2>2, <2>4
<1>5. CASE Eager
  <2>1. EagerStep /\ UNCHANGED <<cur, last, window, cands, counts>>
    BY <1>5 DEF Eager, loopVars, workerVars
  <2>2. pc'["main"] = pc["main"]
    <3>1. CASE EagerFetching
      BY <1>1, <3>1, FetchFrame DEF EagerFetching
    <3>2. CASE ~ EagerFetching
      BY <1>1, <2>1, <3>2, EagerQuiet DEF HelperQuiet
    <3> QED
      BY <3>1, <3>2
  <2> QED
    BY <1>3, <2>1, <2>2
<1>6. CASE EnvironmentStep \/ \E t \in Thread : KernelStep(t)
  <2>1. UNCHANGED <<last, window, cands, counts>>
    BY <1>6 DEF EnvironmentStep, ProcessStep, KernelStep, CriuFinishes, Signal, handlerVars, workerVars,
                loopVars
  <2> QED
    BY <1>1, <1>3, <1>6, <2>1, OutsideQuiet
<1>7. CASE UNCHANGED vars
  BY <1>3, <1>7 DEF vars, fetchVars, workerVars, loopVars
<1> QED
  BY <1>2, <1>4, <1>5, <1>6, <1>7 DEF Next, Terminated

LEMMA BudgetInit == Init => BudgetOK
<1> SUFFICES ASSUME Init PROVE BudgetOK
  OBVIOUS
<1>1. pc["main"] = "poll" /\ MaxTargets \in Nat
  <2>1. PICK u \in {"connect", "none"}, e \in {"connect", "none"} :
          pc = [a \in Actor |-> CASE a = "main" -> "poll" [] a = "worker" -> u [] a = "eager" -> e]
    BY Zenon DEF Init
  <2> QED
    BY <2>1, HistoryAssumption
<1>2. cands = <<>> /\ window = 0 /\ Refused = 0
  BY DEF Init, Refused
<1>3. Owed = 0
  BY <1>1 DEF Owed
<1> QED
  BY <1>1, <1>2, <1>3 DEF BudgetOK

(***************************************************************************)
(* What handle_faults feeds to maybe_adjust_prefetch_policy is about the   *)
(* window it closes: the unsigned subtractions cannot wrap, though the     *)
(* worker advances a counter meanwhile, and the drops and duplicates are   *)
(* no more than the faults of the window can have caused.                  *)
(***************************************************************************)
THEOREM WindowsAreDifferences == Spec => []WindowsCountOnce
<1>1. LedgerInv /\ BudgetOK => WindowsCountOnce
  <2> SUFFICES ASSUME LedgerInv, BudgetOK PROVE WindowsCountOnce
    OBVIOUS
  <2>1. TypeOK
    BY DEF LedgerInv, ThreadsInv
  <2> QED
    BY <2>1, BudgetTyped DEF LedgerInv, BudgetOK, WindowsCountOnce
<1>2. LedgerInv /\ BudgetOK /\ [Next]_vars => BudgetOK'
  BY BudgetStep
<1> QED
  BY <1>1, <1>2, BudgetInit, LedgerAlways, PTL DEF Spec

LEMMA QuietStep ==
  ASSUME LedgerInv, [Next]_vars, ~ config.enabled
  PROVE  Len(queue') <= Len(queue)
<1> USE DEF LedgerInv, ThreadsInv
<1>1. Len(queue) \in Nat /\ cands = <<>> /\ QueueOK
  BY TypeParts, PageSeq DEF QueueOK, CandidatesOK
<1>2. CASE WorkerTake
  <2> DEFINE n == IF Len(queue) < BatchSize THEN Len(queue) ELSE BatchSize
  <2>1. n \in 0 .. Len(queue) /\ queue \in Seq(Page)
    BY <1>1, Constants DEF QueueOK
  <2>2. queue' = SubSeq(queue, n + 1, Len(queue))
    BY <1>2 DEF WorkerTake
  <2> HIDE DEF n
  <2>3. Len(queue') = Len(queue) - n
    BY <2>1, <2>2, SplitType
  <2> QED
    BY <1>1, <2>1, <2>3
<1>3. CASE ~ WorkerTake
  <2>1. ~ Enqueue
    BY <1>1 DEF Enqueue
  <2>2. MainStep => queue' = queue
    BY <2>1 DEF MainStep, PollReturns, PollTimeout, ReadFault, ReadEvent, ReadNothing, CheckServed,
           ScanNext, ScanDone, MainFetch, ZeroFallback, ZeroRecord, Fetched, EnqueueDone, Finish,
           StopWorker, JoinWorker, JoinEager, Close, quiet, workerVars
  <2>3. WorkerStep \/ WorkerSpuriousWake => queue' = queue
    BY <1>3 DEF WorkerStep, WorkerConnect, WorkerSleep, WorkerStop, WorkerFilter, WorkerFiltered,
                WorkerFetch, WorkerCount, WorkerGiveUp, WorkerSpuriousWake, workerVars
  <2>4. ~ (MainStep \/ WorkerStep \/ WorkerSpuriousWake) => queue' = queue
    BY DEF Next, Main, Worker, Eager, EnvironmentStep, ProcessStep, KernelStep, CriuFinishes, Signal,
           Terminated, handlerVars, workerVars, vars
  <2>5. queue' = queue
    BY <2>2, <2>3, <2>4
  <2> QED
    BY <1>1, <2>5
<1> QED
  BY <1>2, <1>3

(***************************************************************************)
(* Switching prefetch off takes effect at once: no step taken under a      *)
(* configuration that is off makes the queue longer, because the fault     *)
(* that saw it switched off is the last whose candidates were listed       *)
(* (handle_faults adjusts after it has enqueued).                          *)
(***************************************************************************)
THEOREM OffIsQuiet == Spec => OffMeansQuiet
<1>1. LedgerInv /\ [Next]_vars => [~ config.enabled => Len(queue') <= Len(queue)]_vars
  BY QuietStep
<1> QED
  BY <1>1, LedgerAlways, PTL DEF Spec, OffMeansQuiet

----------------------------------------------------------------------------
(* The eager thread misses no page of its file.                            *)

\* p is in the eager thread's batch.
Awaited(p) == \E k \in DOMAIN todo["eager"] : todo["eager"][k] = p

(***************************************************************************)
(* Until its connection fails, every registered page the eager thread has  *)
(* read from the file is there or in its batch, and it is done only at the *)
(* end of the file, with an empty batch.                                   *)
(***************************************************************************)
CoveredOK ==
  /\ todo["eager"] # <<>> => pc["eager"] \in {"scan", "send", "recv", "record"}
  /\ pc["eager"] = "done" /\ HotReadable => hotPos = Len(HotPages) + 1
  /\ ~ Exited /\ pc["eager"] \notin {"failed", "exited"} => \A i \in 1 .. hotPos - 1 :
       HotPages[i] \in Lazy => Present(HotPages[i]) \/ Awaited(HotPages[i])

\* Without lifecycle calls a page that is there stays, and who has exited too.
PresentKept == (\A q \in Page : Present(q) => Present(q)') /\ (Exited => Exited')

LEMMA HeadOrTail ==
  ASSUME NEW s \in Seq(Page), s # <<>>, NEW k \in DOMAIN s
  PROVE  s[k] = Head(s) \/ \E j \in DOMAIN Tail(s) : Tail(s)[j] = s[k]
<1>1. Len(s) \in Nat \ {0} /\ DOMAIN s = 1 .. Len(s)
  BY EmptySeq, LenProperties
<1>2. /\ Head(s) = s[1] /\ DOMAIN Tail(s) = 1 .. Len(s) - 1
      /\ \A i \in 1 .. Len(s) - 1 : Tail(s)[i] = s[i + 1]
  BY <1>1, HeadTailProperties, LenProperties
<1>3. k = 1 \/ k - 1 \in 1 .. Len(s) - 1
  BY <1>1
<1>4. k \in Int /\ k - 1 + 1 = k
  BY <1>1
<1>5. CASE k = 1
  BY <1>2, <1>5
<1>6. CASE k - 1 \in 1 .. Len(s) - 1
  <2>1. Tail(s)[k - 1] = s[k] /\ k - 1 \in DOMAIN Tail(s)
    BY <1>2, <1>4, <1>6
  <2> QED
    BY <2>1
<1> QED
  BY <1>3, <1>5, <1>6

LEMMA AppendHolds ==
  ASSUME NEW s \in Seq(Page), NEW p \in Page
  PROVE  /\ \A k \in DOMAIN s : k \in DOMAIN Append(s, p) /\ Append(s, p)[k] = s[k]
         /\ \E k \in DOMAIN Append(s, p) : Append(s, p)[k] = p
<1>1. Len(s) \in Nat /\ DOMAIN s = 1 .. Len(s)
  BY LenProperties
<1>2. /\ DOMAIN Append(s, p) = 1 .. Len(s) + 1
      /\ \A k \in 1 .. Len(s) : Append(s, p)[k] = s[k]
      /\ Append(s, p)[Len(s) + 1] = p
  BY AppendProperties, LenProperties
<1>3. 1 .. Len(s) \subseteq 1 .. Len(s) + 1 /\ Len(s) + 1 \in 1 .. Len(s) + 1
  BY <1>1
<1> QED
  BY <1>1, <1>2, <1>3

LEMMA PresentStep ==
  ASSUME ServiceInv, NoLifecycleCalls, [Next]_vars
  PROVE  PresentKept
<1> USE DEF ServiceInv
<1>1. UFTypeOK /\ PFTypeOK
  BY TypeParts
<1>2. ASSUME UNCHANGED <<mem, thr>>
      PROVE  PresentKept
  BY <1>2 DEF PresentKept, Present, Exited
<1>3. ASSUME NEW p \in Page, NEW data \in Page \cup {Zero}, CopyEffect(p, data)
      PROVE  PresentKept
  BY <1>3, CopyService DEF PresentKept
<1>4. ASSUME NEW a \in Actor, Fetch(a)
      PROVE  PresentKept
  <2>1. CASE FetchInstall(a)
    <3>1. Head(todo[a]) \in Page /\ Head(sent[a]) \in Page
      BY <1>1, <2>1, PageSeq DEF FetchInstall, Installs, PFTypeOK
    <3>2. Reply(Head(sent[a])) \in Page \cup {Zero}
      BY <3>1 DEF Reply
    <3>3. CopyEffect(Head(todo[a]), Reply(Head(sent[a])))
      BY <2>1 DEF FetchInstall, Installs
    <3> QED
      BY <1>3, <3>1, <3>2, <3>3
  <2>2. CASE ~ FetchInstall(a)
    <3>1. UNCHANGED <<mem, thr>>
      BY <1>4, <2>2 DEF Fetch, FetchSend, FetchRecord, FetchFail, ufVars
    <3> QED
      BY <1>2, <3>1
  <2> QED
    BY <2>1, <2>2
<1>5. CASE Main
  <2>1. CASE MainFetch
    BY <1>4, <2>1 DEF MainFetch
  <2>2. CASE ZeroFallback
    BY <1>3, <2>2, TypeParts DEF ZeroFallback, BlockOK
  <2>3. CASE ~ (MainFetch \/ ZeroFallback)
    <3>1. \A q \in Page : mem'[q] = mem[q]
      BY <1>5, <2>3, MainMemory DEF Main
    <3>2. \A t \in Thread : thr[t].st = "gone" => thr'[t] = thr[t]
      <4>1. CASE Close
        BY <4>1 DEF Close, CloseUffd, Waiting
      <4>2. CASE \E t \in Thread : ReadFault(t) \/ ReadEvent(t)
        <5>1. PICK t \in Thread : ReadFault(t) \/ ReadEvent(t)
          BY <4>2
        <5>2. thr[t].st # "gone" /\ \E st : Enter(t, st, thr[t].pg)
          BY <5>1 DEF ReadFault, ReadFaultOf, FaultPending, ReadEvent, ReadEventOf, EventPending
        <5>3. \A u \in Thread \ {t} : thr'[u] = thr[u]
          BY <1>1, <5>2 DEF Enter, UFTypeOK
        <5> QED
          BY <5>2, <5>3
      <4>3. CASE ~ (Close \/ \E t \in Thread : ReadFault(t) \/ ReadEvent(t))
        BY <1>5, <2>3, <4>3 DEF Main, MainStep, PollReturns, PollTimeout, ReadNothing, CheckServed,
              ScanNext, ScanDone, ZeroRecord, Fetched, Enqueue, EnqueueDone, Finish, StopWorker,
              JoinWorker, JoinEager, ufVars
      <4> QED
        BY <4>1, <4>2, <4>3
    <3> QED
      BY <3>1, <3>2 DEF PresentKept, Present, Exited
  <2> QED
    BY <2>1, <2>2, <2>3
<1>6. CASE Worker \/ (WorkerSpuriousWake /\ UNCHANGED <<loopVars, envVars, hotPos>>)
  <2>1. CASE WorkerFetch
    BY <1>4, <2>1 DEF WorkerFetch
  <2>2. CASE ~ WorkerFetch
    <3>1. (WorkerStep \/ WorkerSpuriousWake) /\ UNCHANGED cur
      BY <1>6 DEF Worker, loopVars
    <3> QED
      BY <1>2, <2>2, <3>1, WorkerQuiet DEF HelperQuiet, ufVars
  <2> QED
    BY <2>1, <2>2
<1>7. CASE Eager
  <2>1. CASE EagerFetching
    BY <1>4, <2>1 DEF EagerFetching
  <2>2. CASE ~ EagerFetching
    <3>1. EagerStep /\ UNCHANGED cur
      BY <1>7 DEF Eager, loopVars
    <3> QED
      BY <1>2, <2>2, <3>1, EagerQuiet DEF HelperQuiet, ufVars
  <2> QED
    BY <2>1, <2>2
<1>8. ASSUME NEW t \in Thread, NEW p \in Page, Touch(t, p)
      PROVE  PresentKept
  <2>1. thr[t].st = "run" /\ mem[p] = Absent
    BY <1>8 DEF Touch
  <2>2. \A q \in Page : mem[q] # Absent => mem'[q] = mem[q]
    BY <1>1, <1>8, <2>1 DEF Touch, UFTypeOK
  <2> QED
    BY <2>1, <2>2 DEF PresentKept, Present, Exited
<1>9. CASE ProcessExit
  BY <1>9 DEF ProcessExit, PresentKept, Present, Exited
<1>10. CASE EnvironmentStep
  <2>1. CASE ProcessStep
    BY <1>8, <1>9, <2>1 DEF ProcessStep, Remove, Unmap, NoLifecycleCalls
  <2>2. CASE ~ ProcessStep
    BY <1>2, <1>10, <2>2 DEF EnvironmentStep, Break, CriuFinishes, Signal, ufVars
  <2> QED
    BY <2>1, <2>2
<1>11. ASSUME NEW t \in Thread, KernelStep(t)
       PROVE  FALSE
  BY <1>11 DEF KernelStep, RemoveNoticed, RemoveDone, UnmapDone, ThreadsOK
<1>12. CASE UNCHANGED vars
  BY <1>2, <1>12 DEF vars, ufVars
<1> QED
  BY <1>5, <1>6, <1>7, <1>10, <1>11, <1>12 DEF Next, Terminated

\* What the other actors do keeps the file covered.
LEMMA CoveredKept ==
  ASSUME TypeOK, CoveredOK, PresentKept, pc'["eager"] = pc["eager"],
         todo'["eager"] = todo["eager"], hotPos' = hotPos
  PROVE  CoveredOK'
<1>1. \A i \in 1 .. hotPos - 1 : HotPages[i] \in Page
  <2>1. Len(HotPages) \in Nat /\ hotPos \in 1 .. Len(HotPages) + 1 /\ HotPages \in Seq(Page)
    BY Constants, PageSeq, TypeParts DEF FileOK
  <2> QED
    BY <2>1, ElementOfSeq
<1>2. ASSUME pc["eager"] \notin {"failed", "exited"}, ~ Exited',
             NEW i \in 1 .. hotPos - 1, HotPages[i] \in Lazy
      PROVE  Present(HotPages[i])' \/ Awaited(HotPages[i])'
  <2>1. Present(HotPages[i]) \/ Awaited(HotPages[i])
    BY <1>2 DEF CoveredOK, PresentKept
  <2>2. Present(HotPages[i]) => Present(HotPages[i])'
    BY <1>1 DEF PresentKept
  <2>3. Awaited(HotPages[i]) => Awaited(HotPages[i])'
    BY DEF Awaited
  <2> QED
    BY <2>1, <2>2, <2>3
<1> QED
  BY <1>2 DEF CoveredOK

\* The steps of the eager thread that read the file.
LEMMA ScanCovered ==
  ASSUME ServiceInv, CoveredOK, EagerStep, ~ EagerFetching, PresentKept, served' = served,
         UNCHANGED ufVars
  PROVE  CoveredOK'
<1> USE DEF ServiceInv
<1>1. LabelsOK /\ PFTypeOK /\ FileOK
  BY TypeParts
<1>2. Len(HotPages) \in Nat /\ hotPos \in 1 .. Len(HotPages) + 1 /\ HotPages \in Seq(Page)
  BY <1>1, Constants, PageSeq DEF FileOK
<1>3. \A i \in 1 .. Len(HotPages) : HotPages[i] \in Page
  BY <1>2, ElementOfSeq
<1>4. \A p : Present(p)' <=> Present(p)
  BY DEF Present, ufVars
<1>5. Exited' <=> Exited
  BY DEF Exited, ufVars
<1>6. CASE EagerScan
  <2>1. /\ pc["eager"] = "scan" /\ hotPos \in 1 .. Len(HotPages) /\ hotPos' = hotPos + 1 /\ up' = up
    BY <1>2, <1>6 DEF EagerScan
  <2>2. pc'["eager"] \in {"scan", "send"} /\ (todo'["eager"] # <<>> => pc'["eager"] \in {"scan", "send"})
    <3>1. pc' = pc \/ Goto("eager", "send")
      BY <1>6 DEF EagerScan
    <3> QED
      BY <1>1, <2>1, <3>1, GotoFacts
  <2>3. \/ HotPages[hotPos] \in served /\ todo' = todo
        \/ todo'["eager"] = Append(todo["eager"], HotPages[hotPos])
    BY <1>1, <1>6 DEF EagerScan, PFTypeOK
  <2>4. HotPages[hotPos] \in Page /\ todo["eager"] \in Seq(Page)
    BY <1>1, <1>3, <2>1 DEF PFTypeOK
  <2>5. \A p : Awaited(p) => Awaited(p)'
    BY <2>3, <2>4, AppendHolds DEF Awaited
  <2>6. ~ Exited => Present(HotPages[hotPos]) \/ \E k \in DOMAIN todo'["eager"] : todo'["eager"][k] = HotPages[hotPos]
    BY <2>3, <2>4, AppendHolds DEF ServedIsPresent
  <2>7. \A i \in 1 .. hotPos' - 1 : i \in 1 .. hotPos - 1 \/ i = hotPos
    BY <1>2, <2>1
  <2>8. ASSUME ~ Exited, NEW i \in 1 .. hotPos' - 1, HotPages[i] \in Lazy
        PROVE  Present(HotPages[i])' \/ Awaited(HotPages[i])'
    <3>1. CASE i \in 1 .. hotPos - 1
      BY <1>4, <2>1, <2>5, <2>8, <3>1 DEF CoveredOK
    <3>2. CASE i = hotPos
      BY <1>4, <2>6, <2>8, <3>2 DEF Awaited
    <3> QED
      BY <2>7, <3>1, <3>2
  <2> QED
    BY <1>5, <2>2, <2>8 DEF CoveredOK
<1>7. CASE ~ EagerScan
  <2>1. hotPos' = hotPos /\ todo' = todo
    BY <1>7 DEF EagerStep, EagerConnect, Connect, EagerEndOfFile, EagerNextBatch, EagerDone
  <2>2. \A p : Awaited(p)' <=> Awaited(p)
    BY <2>1 DEF Awaited
  <2>3. /\ todo["eager"] # <<>> => pc'["eager"] \in {"scan", "send", "recv", "record"}
        /\ pc'["eager"] = "done" /\ HotReadable => hotPos = Len(HotPages) + 1
        /\ pc["eager"] \in {"failed", "exited"} => pc'["eager"] \in {"failed", "exited"}
    <3>1. CASE EagerConnect
      <4>1. /\ pc["eager"] = "connect"
            /\ \/ Goto("eager", IF HotReadable THEN "scan" ELSE "done")
               \/ Goto("eager", "failed")
        BY <3>1 DEF EagerConnect, Connect
      <4>2. \/ pc'["eager"] = (IF HotReadable THEN "scan" ELSE "done")
            \/ pc'["eager"] = "failed"
        BY <1>1, <4>1, GotoFacts
      <4> QED
        BY <4>1, <4>2 DEF CoveredOK
    <3>2. CASE EagerEndOfFile
      <4>1. pc["eager"] = "scan" /\ hotPos = Len(HotPages) + 1
            /\ Goto("eager", IF todo["eager"] = <<>> THEN "done" ELSE "send")
        BY <3>2 DEF EagerEndOfFile
      <4>2. pc'["eager"] = IF todo["eager"] = <<>> THEN "done" ELSE "send"
        BY <1>1, <4>1, GotoFacts
      <4> QED
        BY <4>1, <4>2 DEF CoveredOK
    <3>3. CASE EagerNextBatch
      <4>1. pc["eager"] = "fetched" /\ pc'["eager"] = "scan"
        BY <1>1, <3>3, GotoFacts DEF EagerNextBatch
      <4> QED
        BY <4>1 DEF CoveredOK
    <3>4. CASE EagerDone
      <4>1. pc["eager"] \in {"failed", "done"} /\ pc'["eager"] = "exited"
        BY <1>1, <3>4, GotoFacts DEF EagerDone
      <4> QED
        BY <4>1 DEF CoveredOK
    <3> QED
      BY <1>7, <3>1, <3>2, <3>3, <3>4 DEF EagerStep
  <2> QED
    BY <1>4, <1>5, <2>1, <2>2, <2>3 DEF CoveredOK
<1> QED
  BY <1>6, <1>7

(***************************************************************************)
(* The steps of its fetch: a page leaves the batch once it is recorded, or *)
(* when its copy is refused, which without lifecycle calls means that the  *)
(* process has gone or that the page was never registered.                 *)
(***************************************************************************)
LEMMA FetchCovered ==
  ASSUME ServiceInv, CoveredOK, Fetch("eager"), PresentKept, hotPos' = hotPos
  PROVE  CoveredOK'
<1> USE DEF ServiceInv
<1>1. LabelsOK /\ PFTypeOK /\ FileOK
  BY TypeParts
<1>2. pc["eager"] \in {"send", "recv", "record"} /\ pc'["eager"] \in FetchPC
  BY FetchLabels
<1>3. todo["eager"] \in Seq(Page)
  BY <1>1 DEF PFTypeOK
<1>4. \A i \in 1 .. hotPos - 1 : HotPages[i] \in Page
  <2>1. Len(HotPages) \in Nat /\ hotPos \in 1 .. Len(HotPages) + 1 /\ HotPages \in Seq(Page)
    BY <1>1, Constants, PageSeq DEF FileOK
  <2> QED
    BY <2>1, ElementOfSeq
\* What each step does to the batch.
<1>5. \/ todo'["eager"] = <<>> /\ pc'["eager"] = "failed"
      \/ todo'["eager"] = todo["eager"] /\ pc'["eager"] \in {"recv", "record"}
      \/ /\ todo["eager"] # <<>> /\ todo'["eager"] = Tail(todo["eager"])
         /\ ~ Exited' /\ Head(todo["eager"]) \in Lazy => mem'[Head(todo["eager"])] # Absent
         /\ pc'["eager"] = AfterTarget("eager")
  <2>1. CASE FetchSend("eager")
    BY <1>1, <2>1, GotoFacts DEF FetchSend
  <2>2. CASE FetchFail("eager")
    BY <1>1, <2>2, GotoFacts DEF FetchFail, PFTypeOK
  <2>3. CASE FetchRecord("eager")
    <3>1. todo["eager"] # <<>> /\ Head(todo["eager"]) \in Page /\ pc["eager"] = "record"
          /\ todo'["eager"] = Tail(todo["eager"])
      BY <1>1, <1>3, <2>3, PageSeq DEF FetchRecord, PFTypeOK
    <3>2. ~ Exited' => mem'[Head(todo["eager"])] # Absent
      BY <3>1 DEF InstalledOK, PresentKept, Present
    <3> QED
      BY <1>1, <2>3, <3>1, <3>2, GotoFacts DEF FetchRecord
  <2>4. CASE FetchInstall("eager")
    <3>1. todo["eager"] # <<>> /\ Head(todo["eager"]) \in Page /\ Head(sent["eager"]) \in Page
      BY <1>1, <2>4, PageSeq DEF FetchInstall, Installs, PFTypeOK
    <3>2. CASE CopyRefused(Head(todo["eager"]))
      <4>1. Exited \/ Head(todo["eager"]) \notin Lazy
        BY <3>1, <3>2 DEF CopyRefused, Changing, ThreadsOK
      <4>2. todo'["eager"] = Tail(todo["eager"]) /\ Goto("eager", AfterTarget("eager"))
        BY <1>1, <2>4, <3>2 DEF FetchInstall, Installs, PFTypeOK
      <4> QED
        BY <1>1, <3>1, <4>1, <4>2, GotoFacts DEF PresentKept
    <3>3. CASE ~ CopyRefused(Head(todo["eager"]))
      BY <1>1, <2>4, <3>3, GotoFacts DEF FetchInstall, Installs
    <3> QED
      BY <3>2, <3>3
  <2> QED
    BY <2>1, <2>2, <2>3, <2>4 DEF Fetch
<1>6. todo'["eager"] # <<>> => pc'["eager"] \in {"recv", "record"}
  <2>1. CASE todo'["eager"] = Tail(todo["eager"]) /\ todo["eager"] # <<>> /\ pc'["eager"] = AfterTarget("eager")
    <3>1. Len(todo["eager"]) = 1 => todo'["eager"] = <<>>
      BY <1>3, <2>1, LastOne
    <3> QED
      BY <2>1, <3>1 DEF AfterTarget
  <2>2. CASE ~ (todo'["eager"] = Tail(todo["eager"]) /\ todo["eager"] # <<>> /\ pc'["eager"] = AfterTarget("eager"))
    BY <1>5, <2>2
  <2> QED
    BY <2>1, <2>2
<1>7. ASSUME pc'["eager"] # "failed", ~ Exited', NEW i \in 1 .. hotPos - 1, HotPages[i] \in Lazy
      PROVE  Present(HotPages[i])' \/ Awaited(HotPages[i])'
  <2>1. Present(HotPages[i]) \/ Awaited(HotPages[i])
    BY <1>2, <1>7 DEF CoveredOK, PresentKept
  <2>2. Present(HotPages[i]) => Present(HotPages[i])'
    BY <1>4 DEF PresentKept
  <2>3. CASE Awaited(HotPages[i])
    <3>1. PICK k \in DOMAIN todo["eager"] : todo["eager"][k] = HotPages[i]
      BY <2>3 DEF Awaited
    <3>2. CASE todo'["eager"] = todo["eager"]
      BY <3>1, <3>2 DEF Awaited
    <3>3. CASE todo'["eager"] # todo["eager"]
      <4>1. /\ todo["eager"] # <<>> /\ todo'["eager"] = Tail(todo["eager"])
            /\ Head(todo["eager"]) \in Lazy => mem'[Head(todo["eager"])] # Absent
        BY <1>5, <1>7, <3>3
      <4>2. todo["eager"][k] = Head(todo["eager"])
            \/ \E j \in DOMAIN Tail(todo["eager"]) : Tail(todo["eager"])[j] = todo["eager"][k]
        BY <1>3, <4>1, HeadOrTail
      <4> QED
        BY <1>7, <3>1, <4>1, <4>2 DEF Awaited, Present
    <3> QED
      BY <3>2, <3>3
  <2> QED
    BY <2>1, <2>2, <2>3
<1> QED
  BY <1>2, <1>6, <1>7 DEF CoveredOK, FetchPC

LEMMA CoveredStep ==
  ASSUME ServiceInv, CoveredOK, NoLifecycleCalls, [Next]_vars
  PROVE  CoveredOK'
<1>1. PresentKept /\ TypeOK /\ LabelsOK /\ PFTypeOK
  BY PresentStep, TypeParts DEF ServiceInv
<1>2. CASE Eager
  <2>1. CASE EagerFetching
    BY <1>1, <2>1, FetchCovered DEF EagerFetching
  <2>2. CASE ~ EagerFetching
    <3>1. EagerStep /\ UNCHANGED cur
      BY <1>2 DEF Eager, loopVars
    <3>2. UNCHANGED <<ufVars, served>>
      BY <1>1, <2>2, <3>1, EagerQuiet DEF HelperQuiet
    <3> QED
      BY <1>1, <2>2, <3>1, <3>2, ScanCovered
  <2> QED
    BY <2>1, <2>2
<1>3. CASE Main
  <2>1. hotPos' = hotPos /\ MainStep
    BY <1>3 DEF Main
  <2>2. pc'["eager"] = pc["eager"] /\ todo'["eager"] = todo["eager"]
    <3>1. CASE MainFetch
      BY <1>1, <3>1, FetchFrame DEF MainFetch
    <3>2. CASE EnqueueDone \/ StopWorker
      <4>1. \/ \E l \in {"finish", "join eager"} : Goto("main", l)
            \/ \E l \in {"finish", "join worker"} : SignalWorker([pc EXCEPT !["main"] = l])
        BY <3>2 DEF EnqueueDone, StopWorker
      <4>2. pc'["eager"] = pc["eager"]
        BY <1>1, <4>1 DEF LabelsOK, Goto, SignalWorker
      <4>3. todo' = todo
        BY <3>2 DEF EnqueueDone, StopWorker
      <4> QED
        BY <4>2, <4>3
    <3>3. CASE ~ (MainFetch \/ EnqueueDone \/ StopWorker)
      <4>1. pc' = pc \/ \E l \in MainPC : Goto("main", l)
        BY <2>1, <3>3 DEF MainStep, PollReturns, PollTimeout, ReadFault, ReadEvent, ReadNothing,
              CheckServed, ScanNext, ScanDone, ZeroFallback, ZeroRecord, AfterFetch, Fetched, Enqueue,
              Finish, JoinWorker, JoinEager, Close, MainPC, FetchPC
      <4>2. pc'["eager"] = pc["eager"]
        BY <1>1, <4>1, GotoFacts
      <4>3. todo' \in {todo, [todo EXCEPT !["main"] = <<cur>>]}
        BY <2>1, <3>3 DEF MainStep, PollReturns, PollTimeout, ReadFault, ReadEvent, ReadNothing,
              CheckServed, ScanNext, ScanDone, ZeroFallback, ZeroRecord, Fetched, Enqueue,
              Finish, JoinWorker, JoinEager, Close
      <4> QED
        BY <1>1, <4>2, <4>3 DEF PFTypeOK
    <3> QED
      BY <3>1, <3>2, <3>3
  <2> QED
    BY <1>1, <2>1, <2>2, CoveredKept
<1>4. CASE Worker \/ (WorkerSpuriousWake /\ UNCHANGED <<loopVars, envVars, hotPos>>)
  <2>1. hotPos' = hotPos /\ (WorkerStep \/ WorkerSpuriousWake)
    BY <1>4 DEF Worker
  <2>2. pc'["eager"] = pc["eager"] /\ todo'["eager"] = todo["eager"]
    <3>1. CASE WorkerFetch
      BY <1>1, <3>1, FetchFrame DEF WorkerFetch
    <3>2. CASE ~ WorkerFetch
      <4>1. pc' = pc \/ \E l \in WorkerPC : Goto("worker", l)
        BY <2>1, <3>2 DEF WorkerStep, WorkerConnect, Connect, WorkerSleep, WorkerStop, WorkerTake,
              WorkerFilter, WorkerFiltered, WorkerCount, WorkerGiveUp, WorkerSpuriousWake, WorkerPC, FetchPC
      <4>2. pc'["eager"] = pc["eager"]
        BY <1>1, <4>1, GotoFacts
      <4>3. todo' = todo \/ \E s : todo' = [todo EXCEPT !["worker"] = s]
        BY <2>1, <3>2 DEF WorkerStep, WorkerConnect, Connect, WorkerSleep, WorkerStop, WorkerTake,
              WorkerFilter, WorkerFiltered, WorkerCount, WorkerGiveUp, WorkerSpuriousWake
      <4> QED
        BY <1>1, <4>2, <4>3 DEF PFTypeOK
    <3> QED
      BY <3>1, <3>2
  <2> QED
    BY <1>1, <2>1, <2>2, CoveredKept
<1>5. CASE EnvironmentStep \/ \E t \in Thread : KernelStep(t)
  <2>1. UNCHANGED <<pc, todo>>
    BY <1>1, <1>5, OutsideQuiet
  <2>2. hotPos' = hotPos
    BY <1>5 DEF EnvironmentStep, ProcessStep, KernelStep, CriuFinishes, Signal, handlerVars
  <2> QED
    BY <1>1, <2>1, <2>2, CoveredKept
<1>6. CASE UNCHANGED vars
  BY <1>1, <1>6, CoveredKept DEF vars, fetchVars
<1> QED
  BY <1>2, <1>3, <1>4, <1>5, <1>6 DEF Next, Terminated

(***************************************************************************)
(* eager_fetch_thread misses nothing: for a process that makes no          *)
(* lifecycle calls, when the thread is done, and not because its           *)
(* connection failed, every registered page of a readable hot-pages file   *)
(* is there, the pages it skipped as served and its last, partial batch    *)
(* included.                                                               *)
(***************************************************************************)
THEOREM EagerMissesNothing == NoLifecycleCalls => (Spec => []EagerComplete)
<1> SUFFICES ASSUME NoLifecycleCalls PROVE Spec => []EagerComplete
  OBVIOUS
<1>1. Init => CoveredOK
  <2> SUFFICES ASSUME Init PROVE CoveredOK
    OBVIOUS
  <2>1. pc["eager"] \in {"connect", "none"}
    <3>1. PICK u \in {"connect", "none"}, e \in {"connect", "none"} :
            pc = [a \in Actor |-> CASE a = "main" -> "poll" [] a = "worker" -> u [] a = "eager" -> e]
      BY Zenon DEF Init
    <3> QED
      BY <3>1
  <2>2. todo["eager"] = <<>> /\ hotPos = 1
    BY DEF Init
  <2> QED
    BY <2>1, <2>2 DEF CoveredOK
<1>2. ServiceInv /\ CoveredOK /\ [Next]_vars => CoveredOK'
  BY CoveredStep
<1>3. ServiceInv /\ CoveredOK => EagerComplete
  <2> SUFFICES ASSUME ServiceInv, CoveredOK, pc["eager"] = "done", HotReadable, ~ Exited,
                      NEW i \in DOMAIN HotPages, HotPages[i] \in mapped
               PROVE  Present(HotPages[i])
    BY DEF EagerComplete
  <2>1. Len(HotPages) \in Nat /\ DOMAIN HotPages = 1 .. Len(HotPages)
    BY Constants, LenProperties
  <2>2. hotPos = Len(HotPages) + 1 /\ todo["eager"] = <<>>
    BY DEF CoveredOK
  <2>3. i \in 1 .. hotPos - 1
    BY <2>1, <2>2
  <2>4. HotPages[i] \in Lazy
    BY DEF ServiceInv, ThreadsOK
  <2>5. ~ Awaited(HotPages[i])
    BY <2>2 DEF Awaited
  <2> QED
    BY <2>3, <2>4, <2>5 DEF CoveredOK
<1> QED
  BY <1>1, <1>2, <1>3, ServiceAlways, PTL DEF Spec

=============================================================================
