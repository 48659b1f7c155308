# DistriProc in TLA+

DistriProc restores a checkpointed process lazily: CRIU rebuilds its address
space without the pages, registers the areas with a `userfaultfd`, and hands the
descriptor to `src/lazy_handler.c`, which fetches each page from a TCP page
server when a thread faults on it.  Two more threads of the handler fetch pages
that nobody has asked for yet: a prefetch worker fed by the fault path, and an
eager thread that reads a list of hot pages.  A controller changes how far the
prefetching looks ahead.  Around the handler stand the page server, a profiler
that finds the hot pages of a live process, a benchmark harness, and the scripts
that turn its measurements into a report and figures.

This directory models the handler and what it promises to the restored process,
the page servers, the profiler, one iteration of the benchmark, and the reports.
TLC checks the models on small instances; TLAPS proves their safety properties
for every instance.

Paths below are relative to the repository.

## 1. Inventory

| component | code | state | operations |
|---|---|---|---|
| fault loop | `handle_faults` | `restore_finished`, the fault's targets, history, statistics, window, `last_*` | poll, read a fault or a lifecycle event, look up, choose candidates, fetch, fall back to zeros, enqueue, adjust, stop and join |
| fetch and install | `pipeline_fetch_install`, `install_page`, `recv_exact`, `connect_page_server` | one TCP connection per thread | send all, receive and install in order, give up |
| served set | `struct served_state`, `hashset.h` | the set of installed pages, one mutex | insert, contains, count |
| prefetch queue and worker | `async_prefetch_*` | ring of 8192 addresses, mutex, condition variable, stop flag, three counters | enqueue, stop, snapshot; wait, take a batch, filter, fetch, count |
| eager fetch | `eager_fetch_thread` | position in the hot-pages file, the batch | scan, fetch a full batch, flush |
| fault history | `history_push`, `detect_stride` | ring of 8 addresses | push, detect |
| adaptive controller | `maybe_adjust_prefetch_policy` | `struct prefetch_config`, `struct adaptive_window` | adjust at the end of a window |
| start-up | `main`, `setup_unix_socket`, `recv_pid`, `recv_uffd` | sockets | bind, connect, accept, receive the descriptor |
| page server | `criu_page_server.py` | page map, one thread and file cache per connection | build the map entry by entry, accept, receive, look up, seek, read, send, close |
| development server | `page_server.py` | one connection at a time | accept, receive, send |
| hot-page profiler | `hot_pages.py` | areas read so far, count per page | clear the accessed bits, sleep, read `smaps`, count, vote |
| PyTorch workload | `eval/workloads/pytorch_infer.py`, `pytorch.sh` | three files shared with the harness | load, wait for a trigger, answer it once |
| harness | `eval/bench.sh`, `eval/*.sh` | pids, `results.csv` | warm up, profile, dump, restore, probe, stop, record |
| reports | `eval/report.py`, `figures.py`, `crosshost_figure.py` | the rows loaded | group, average, judge, draw |
| orchestration, demos, shell tests | `distriproc.sh`, `test_uffd*.c`, `test_loop.c`, `tests/*.sh` | processes, pid files | not modelled |

How they interact.  CRIU connects to the handler's Unix socket, sends a pid and
the descriptor, and later the restore-finish magic.  The kernel queues messages
on the descriptor; the three handler threads all write pages through it with
`UFFDIO_COPY`, each over a TCP connection of its own, and share the served set
(one mutex).  The fault loop is the only producer of the prefetch queue, the
worker its only consumer (another mutex, one condition variable).  The controller
runs inside the fault loop on differences of counters the worker advances.  The
page server's threads share the finished page map and nothing else.  The profiler
reads a process that runs on meanwhile; the harness talks to the workload through
files that are part of what CRIU dumps, and to the handler through signals and its
last lines of output.  The reports see nothing but the csv rows and one log.

What is hard here:

* the look at the served set, the fetch, the copy and the record of a page are
  four steps, taken by three threads for the same page at the same time;
* answers of the page server carry no address: their order is all there is, on a
  stream that may be cut anywhere;
* a copy may be refused (another thread is in `madvise` or `munmap`), may find the
  page present, or may succeed and wake a thread whose message is still unread;
* connections end at any time, and no thread reconnects;
* the process exits, unmaps and gives pages back under the handler, and remaps or
  dies under the profiler;
* a signal is looked at only when nothing happens for a second;
* shutdown frees what two other threads use;
* a process answers one trigger in its life, may have been asked before its dump,
  and goes on in the restored copy from wherever the dump caught it;
* a failed iteration leaves a row like any other, with -1 and zeros in it.

Properties that make each component correct: nobody who faults is forgotten, or
gets bytes of another page, or gets zeros from a healthy handler (fault loop, fetch); the set
contains only pages that can be read (served set); no wakeup is lost, nothing is
queued twice, an accepted request is honoured, a stop drains (queue, worker); every
hot page arrives, the last batch too (eager); a window counts only its own faults, off means
quiet, a disabled controller comes back exactly when it should, no
window leaves one on that prefetches nothing (controller); the map is the dump's, every request gets its own
page in its turn, and no client holds up another (page server); pages are called hot by
a majority of rounds that each saw a whole map, and of bits of their own, which they do not get (profiler); the time
measured is of an answer given after the restore, and nothing is left running (harness); a
failure never looks like a success, and tables and figures agree (reports).
`PROJECT.json` lists the hazards one by one, at their lines.

## 2. Modules

The handler:

| module | models | state and actions against the code |
|---|---|---|
| `UserFault` | the kernel's descriptor and the process (external) | `mem`: page contents; `thr`: what each thread waits for; `Touch`, `Remove*`, `Unmap*`, `ProcessExit`; `CopyEffect` is `UFFDIO_COPY`, `ReadFaultOf` and `ReadEventOf` are `read` |
| `PageFetch` | fetch and install, connections, served set | `sent`: requests without an answer; `todo`: targets of the batch; `FetchSend`, `FetchInstall`, `FetchRecord`, `FetchFail`, instantiated by all three threads |
| `PrefetchWorker` | queue and worker | `queue`, `stop`, `counts`, `taken`; one action per critical section of the worker |
| `EagerFetch` | eager thread | `hotPos`; `EagerScan`, `EagerEndOfFile`, ... |
| `FaultHistory` | history, stride, candidates | operators only |
| `PolicyRules` | the controller's rules | operators only; `Adjust` is the whole function |
| `FaultLoop` | `handle_faults` | one action per step between two shared-state accesses, `pc["main"]` names where it is |
| `LazyHandler` | the composition, with its environment | `Spec`, `FairSpec`, the properties |
| `AdaptivePolicy` | the controller alone, window after window | `WindowEnds` |
| `ServedState` | the hash set behind its mutex, slot by slot | `slots`, `cap`, `count`, `holder`; one step per slot looked at; `Grow`, `Move`, `Copy`, `Swap` are `hashset_rehash`, `grown` its new table |
| `Rings` | the two rings as the code has them, an array and its indices | operators only: `RingPush`, `RingStride`; `RingHas`, `RingEnqueue`, `RingTake` |
| `AtomicSet` | a set whose operations take effect at one instant | abstract specification: `Call`, `Look`, `Insert`, `Return` |
| `DemandPaging` | what post-copy restore promises | abstract specification: `Fault`, `Arrive`, `Degrade`, `Release` |

The page servers:

| module | models | state and actions against the code |
|---|---|---|
| `PageWire` | the TCP connections and their clients | `asked`, `part`: requests written whole and the bytes of the next; `pos`, `buf`: how far the server has read; `answered`, `taken`: pages sent and read |
| `ImageServer` | `criu_page_server.py` | `Build`: `build_page_map` by pagemap entries; `Accept`; `Receive`, `LookUp`, `OpenFile`, `Seek`, `Read`, `Send`, `EndThread`: a connection's thread, `fds` its file cache |
| `DevServer` | `page_server.py` | one connection at a time, one `recv` per request |
| `PageServers` | either server with its clients | `Spec`, `FairSpec`, the properties |
| `PageProtocol` | what a page server promises | abstract specification: `Ask`, `Answer`, `Close` |

Measuring:

| module | models | state and actions against the code |
|---|---|---|
| `PytorchWorkload` | the benchmark's process and its files | `wpc` is the place in `main`; `trigger`, `result`: the files; `areas`, `accessed`: its memory as the kernel shows it |
| `HotPageProfiler` | `hot_pages.py` | one action per look at the process: `ClearRefs`, `SleepInterval`, `OpenSmaps`, `ReadArea`, `EndOfSmaps`, `CountSample`, `Vote` |
| `BenchIteration` | `run_iteration` of `bench.sh`, with both | one action per command that another process can notice; of the handler only what the harness sees of it |
| `ResultRows`, `Report`, `Figures`, `CrosshostFigure` | the rows and every number made of them | operators only; means are exact fractions |
| `Evaluation` | a suite or a sweep, then its report and figures; `phase` says how far | `RunIteration`, `MakeReport`, `MakeFigures`, `MeasureSweep`, `MakeCrosshost` |

`MCLazyHandler`, `MCAdaptivePolicy`, `MCServedState`, `MCPageServers`,
`MCBenchIteration` and `MCEvaluation` hold the instances for TLC; `LazyHandlerProofs`,
`LazyHandlerSafety`, `LazyHandlerThreads`, `ServedStateProofs`, `RingAndPolicyProofs`,
`PageServersProofs`, `BenchProofs` and `EvaluationProofs` the theorems.

Abstractions, and why they lose nothing the properties speak of:

* Addresses are page numbers `0 .. AddrPages-1`; address arithmetic wraps there as
  it does at 2^64.  A page's content is absent, zero, or the number of the dump page
  whose bytes it holds.
* In the handler's model a connection is the sequence of its unanswered requests, and
  the server answers in order from a map that never changes, so the answer is computed
  when it is received.  `PageServers` shows that a server's connection is that.
* The queue and the history are sequences.  `Rings` has the arrays and indices,
  and `RingAndPolicyProofs` proves that they hold these sequences.
  The served set is a set in `PageFetch`: all its uses are inside
  its mutex, and `ServedStateProofs` proves that the table behind the mutex is one.
* The queue's mutex is held by the fault loop through `async_prefetch_enqueue`,
  which is modelled target by target: the worker cannot enter meanwhile.
* `restore_finished` is set by the magic and by a closed socket alike.
* `Fetched`, `Finish` and similar steps group local computation with the one shared
  access that follows it.
* A stream of requests is positions in it, not bytes: a request that was begun in the
  middle decodes to a number that is no address.  A page is the place in the dump it
  was read from and how much of it the file had.
* The handler logs and statistics are left out, but for the counts that feed the
  controller and the one the harness records.  Decoding CRIU's images is pycriu's.

Operators whose comment begins with "Mutant" are not part of the model: each is a
plausible bug in the definition it names or follows, kept to show that a property can fail.

## 3. Runs

| run | checks | instance |
|---|---|---|
| `core` | `TypeOK`, `BlockedIsHandled`, `ServedIsPresent`, `ContentCorrect`, `NoLostWakeup`, `QueueDistinct`, `ThreadsJoined`, `StopDrains`, `EagerComplete`, `WindowsCountOnce`, `NoWorkerNoQueue`, `OffMeansQuiet` | 2 threads, 3 lazy pages of which one is not in the dump, a candidate address past the area, 4 faults, queue of 3, batches of 2, a hot-pages file of 2, `--adaptive-prefetch` with a window of 2 faults, a signal; the eager thread's connection may break |
| `service` | `ServedIsPresent`, `ImplementsService`, `FaultResolved`, `SignalStops`, `QueuedIsInstalled` | `FairSpec`; 2 threads, 2 pages of which the dump has one, no hot pages; the fault path's and the worker's connections may break, the process may exit; a signal |
| `lifecycle` | `LifecycleCallsReturn` | `FairSpec`; one page may be removed, the other unmapped; the process may exit |
| `policy` | `EnabledLooksAhead`, `ProbeAfterCooldown`, `PressureNarrows`, `ReenabledOnceDrained`, `DeepQueueTurnsOff` | the controller alone: queue of 64, windows on both sides of every threshold, start-up configurations below, at, between and above the maxima, and one that looks no page ahead |
| `served_set` | `RoomLeft`, `CountExact`, `ImplementsSet` | 2 threads, 4 pages in two colliding pairs and address zero, a table of 4 slots that may grow to 8; any allocation may fail |
| `page_server` | `MapFaithful`, `ImplementsProtocol`, `BatchAnswered` | `FairSpec`; both programs; 2 connections, requests of 2 bytes in batches of 2; three dumps; opening a file may fail |
| `bench` | `MajorityDecides`, `ReadingIsComplete`, `AnswerIsFresh`, `NothingLeftRunning`, `IterationEnds` | `FairSpec`; 3 pages, 2 memory maps, 2 rounds; the workload may die; dump, restore and page server may fail |
| `report` | `TypeOK`, `PassIsMeasured`, `QuestionsAreMeasured`, `FailuresNeverHelp`, `FiguresAgree`, `SweepsMerged` | suites of up to 5 iterations in three plans, stopped anywhere, five outcomes for each; sweeps of 3 rows over three files |

Bounds of the handler's runs.  Two threads are enough for two messages on the descriptor, or one thread
in a lifecycle call while the other faults; three helper roles times two pages give
every race for one page.  A queue of two or three with batches of two is full, empty and in
between with three candidates.  `MaxFaults` bounds the faults raised; in `service`
it is never reached (two threads and two pages without `madvise` give at most four faults), so no
liveness property holds because the bound stops the process.  `HistorySize` is
4, the least from which a stride can be read; `WindowFaults` 2 stands for 128
and `Cooldown` 1 or more for 16.  Symmetry over threads is used in runs of safety
properties only.  With all three threads and a window of faults the run `core` is already the
largest (2.9 million states), so the eager thread is left out of `service`: what `core` shows of the three threads
together is safety, with the eager thread's connection breaking at any time, and that the three
threads implement `DemandPaging` is what TLAPS proves (section 5).

In `served_set` three pages load the table, so the fourth insertion grows it or fails; one
pair of pages starts at the last slot, so its probes wrap.  Two threads are enough
because only the holder of the mutex takes steps.  The handler's multiplier is
`FIB_HASH`, whose remainder modulo 8 is 5.

In `page_server` a request of two bytes can be cut in the middle and joined to the next one, which is
all that cutting eight can do.  The dumps are: one with a page left to the parent
between two stored entries and a file cut short; one of three processes, of which one has
no pages file and two share an address; and one with no pagemap at all.  One connection sends a batch of two
and reads its answers, the other sends one request, or half of one, and may then do nothing for
ever.

In `bench` and `stale_ballot` two rounds are the least in which a majority can be missed by an even split
and a round can be given bits of the one before; an area that grows by one page lets the
kernel show it again behind the reader.  In `report` every group of a suite can be absent, failed, partly failed, fast
or slow; "partly" needs two iterations, which each plan has for some modes.

The type invariants of the policy, the served set, the page servers and the benchmark are in
their modules and listed by no run; they are proved, as parts of the inductive invariants.

The eight runs above pass.  The other four show where a document, or a comment, and the
code disagree; each is expected to find a violation.

| run | property | what it shows |
|---|---|---|
| `removed_page_hit` | `HitIsPresent` | a page given back with `madvise` stays in the served set, its next fault is taken for a hit and its thread is never woken |
| `refused_copy` | `BlockedIsHandled` | a copy the kernel refuses with `EAGAIN` counts as a successful fetch, and the faulting thread sleeps on |
| `unmap_exit` | `DumpContents` | an `munmap` after the restore ends the handler, and the pages still missing read as zeros |
| `stale_ballot` | `BallotIsFresh` | the profiler's write of 4 to `clear_refs` clears soft-dirty bits and leaves the accessed bits, so a round votes for pages nobody has touched since the round began |

The first three need a process that makes lifecycle calls; `NoLifecycleCalls` in the
theorems below excludes exactly these.  In the fourth, a page once touched counts as referenced in
every later round (unless the kernel ages it meanwhile, which the model leaves out), so the majority of
rounds repeats the first; `docs/proposal.md:405` writes 1, which would clear the bits.

What the other runs say that one might not expect:

* `page_server`: a page that an entry leaves to the parent dump is answered with zeros; the docstring
  (`criu_page_server.py:7`) names zeros only for pages that are in no pagemap.  Of two
  processes of one dump that use an address the later file wins.  A client that
  resets a connection of the development server during a send may end that server.
* `bench`: a process that was asked while it was profiled, and dumped before it had answered,
  answers in its restored copy; the harness takes that for the answer to its probe, and
  the answer is fresh all the same.  One that had answered before the dump never answers again: -1.
  The harness can wait for ever, after a failed dump of a live process (`IterationEnds` says so).
  The handler's output is unbuffered (`lazy_handler.c:793`) and its counts come with its last lines: a handler
  killed before it has printed them leaves a row with zeros, one killed after, a row with its counts.  A handler
  that dies as it starts, beside a page server that is up, is one of the outcomes of `StartServers`.
* `policy`: `-s 0 -S 0` starts an enabled controller that prefetches nothing, and no clean window ever
  changes that, since a clean window is one that prefetched; `EnabledLooksAhead` says that no window brings
  the controller there.
* `report`: "100 % faster with hot pages" (RQ3) means that no restore with hot pages was ever answered.

## 4. Fairness

`Fairness` in `LazyHandler` is weak fairness of each of the handler's three threads, of the
kernel's half of a lifecycle call, and strong fairness of reading a given thread's
lifecycle message.  The threads are ordinary pthreads under the operating system's
scheduler; a blocked thread (`recv`, `pthread_cond_wait`, `pthread_join`, the
mutex) has no enabled step.  A worker that waits for an answer has one: a working
server answers, and a connection that breaks enables `FetchFail`.  A server that is
connected and silent for ever is therefore excluded: the sockets have no timeout and the
code would wait for ever.  The strong fairness stands for the kernel's
queue of lifecycle messages being first in first out: a second thread's messages may be
read before the first's, but not for ever.  The process, CRIU, failures and
signals have no fairness.  In `AdaptivePolicy`, windows keep ending.

`SignalStops` holds although the signal is only looked at when poll times out,
because a process without `madvise` raises finitely many faults (each page is
installed once); with lifecycle calls going on for ever it would not.

In `PageServers` the image server's main thread and the threads of its connections run on, and the
clients in `Prompt` read answers that have arrived; no client need send anything or finish
a request it has begun.  In `BenchIteration` the scripts and the profiler run on and every deadline of theirs comes;
the workload and the handler need not do anything.

## 5. Proofs

Every theorem is for all values of the constants, under the ASSUMEs of the modules, which
TLC evaluates in every run.  Each inductive invariant was checked by TLC before it was proved.

`LazyHandlerProofs`: `TypeCorrect == Spec => []TypeOK`.  `TypeOK` is inductive as it stands, because the
guards of the steps that take a head or shift a queue say that it is there; the proof goes module by
module, one lemma per group of actions.

`LazyHandlerSafety`:

* `ContentSafety == Spec => []ContentCorrect`, for every process and every failure.
  The invariant is `ContentInv`: beside `ContentCorrect` it says that on every
  connection the unanswered requests are the head of the targets to come
  (`PairingOK`: in "recv" they are equal, in "record" they lag by the
  page just installed, elsewhere there is nothing unanswered), and that the fault
  path is in its fallback only when its connection has gone (`DegradedOK`).
* `NoFaultFallsThrough == NoLifecycleCalls => (Spec => []BlockedIsHandled)` and
  `ServedSafety == NoLifecycleCalls => (Spec => []ServedIsPresent)`.
  `ServiceInv` adds three facts.  `ThreadsOK`: a thread waits only for a missing page of a
  mapped area, and nobody is inside a lifecycle call.  `TargetOK`: while
  the fault loop handles a fault, its target is that fault's page.  `InstalledOK`: between the copy and the
  record, the head of the batch is present.  From these, a page in the served set
  is present, so a thread that is blocked on a missing page can never be taken
  for a hit; and a page whose waiters have been released is present.
  `NoLifecycleCalls` is needed: `removed_page_hit` and `refused_copy` are
  counterexamples without it.

* `HandlerImplementsService == NoLifecycleCalls => (Spec => ImplementsService)`, a
  refinement: a step of any of the three threads, of the process or of the kernel is a step of `DemandPaging`
  or one the process cannot see.  An install is an arrival because `PairingOK` and the page map
  say what was received and `InstalledOK` for whom; it wakes those who wait for that page
  and nobody else.  The end of the service needs that at the last step nobody waits any more.

`LazyHandlerThreads`: `NoPageQueuedTwice`, `NoWakeupLost` and `HelpersJoined` prove
`QueueDistinct`, `NoLostWakeup` and `ThreadsJoined` for every process and every failure.
Their invariant `ThreadsInv` is `TypeOK`, the first two, which are inductive together, and
`JoinsOK`: past the join of a helper that helper has returned or was never started, and the
descriptor is closed only by the last step. The queue stays free of repetitions because an
append follows a search under the same hold of the mutex and the worker only removes a prefix.
No wakeup is lost because `grew` is TRUE from the first append to the signal, and
the stop flag is set in the step that signals.

Four more follow from `LedgerInv`, which adds who may still touch the queue and the counters:

* `StopLeavesNothing == Spec => []StopDrains`.  `DrainOK`: once the stop flag is set the fault loop is past its
  enqueue loop, and a worker that is on its way out with its connection up has seen the queue empty.
* `NobodyToDrain == Spec => []NoWorkerNoQueue`.  `IdleOK`: without a worker nothing is queued or dropped,
  and there is no candidate list when the configuration has no room for one (`CandidatesOK`).
* `WindowsAreDifferences == Spec => []WindowsCountOnce`.  No counter ever falls (`CountsGrow`), so no difference wraps;
  and each window is told of its own faults only, by a budget (`BudgetOK`): what was refused since the last adjustment
  and what the fault in hand may still have refused (`Owed`) never exceed `MaxTargets` for each fault of the window.
  An adjustment that kept an old `last` would break it.
* `OffIsQuiet == Spec => OffMeansQuiet`, an action property: an append needs a candidate, and
  candidates are listed only while the configuration is on.

`EagerMissesNothing == NoLifecycleCalls => (Spec => []EagerComplete)` rests on `CoveredOK`: every
registered page of the file before `hotPos` is present or in the eager thread's batch (`Awaited`), unless the thread has
given up on its connection and will not report that it is done; and
`PresentKept`: without lifecycle calls a page that is present stays.

`ServedStateProofs`: `RoomSafety`, `CountSafety` and `ServedStateIsSet == Spec => ImplementsSet`,
a refinement, for every multiplier, table size and load factor that leaves a new table one empty slot
(`100 <= InitialCap * (100 - LoadFactor)` in `TableAssumption`; the code has 256 and 75).
`TableInv` says:

* `Chained`: between a page's home and its slot, round the end of the table, there is neither an empty slot
  nor the page itself.  So a probe that ends at an empty slot has missed nothing (`SearchMisses`),
  and no page is stored twice (`StoredOnce`), which makes the count the number of pages as well as of slots.
* `SearchOK`: what a probe has gone through (`Searched`), and that an insertion which passed its load
  check leaves a slot empty.
* `GrowthOK`: the new table is chained for its own size and holds exactly the pages of the slots gone through, so the
  swap changes no member.
* `MutexOK` and `AnswerOK`: whose steps these are, and that an operation has its answer exactly
  from the step at which the set's operation takes effect: a miss at the empty slot, a hit at the
  page's slot, an insertion at the store.

`RingAndPolicyProofs`: `EnabledSafety`, `ProbeSafety` and `PressureSafety`, with the type
invariant.  `EnabledSafety` is about a step, for every configuration the command line may give without negative counts:
the controller looks at no page ahead only if it did so before, since
halving that leaves nothing disables, and growth and a probe leave something.  `CooldownCounts` is what `ProbeSafety` needs: while prefetch is off, the cooldown
left and the drained windows gone by add up to `Cooldown`, or the handler started disabled
and has one window to wait.

In the same module `RingIsHistory`, `RingStrideIsStride`, `RingEnqueueAppends` and
`RingTakesOldest` are about operators.  The abstraction functions `Pushed` and `Waiting` read
a ring from its oldest cell; each operation on the ring is the operation on the sequence that the
other modules use, for every size and every position in the array.  The argument is that an
index passes the end of the array at most once (`OneTurn`).

`PageServersProofs`:

* `MapSafety == Spec => []MapFaithful`.  `OffsetOK`, that the running offset is the place where
  the next entry's pages begin, is the fact about the loop that makes `MapOK` inductive; it
  rests on `WellFormed`, how CRIU lays out its pages files.
* `ProtocolSafety == Spec => ImplementsProtocol`, a refinement: every step of either server or
  of a client is a step of `PageProtocol` or a stutter.  `StreamOK` says that a thread which is
  not in the middle of a request stands exactly behind as many requests as it has answered,
  that while it collects one the bytes in its buffer are the bytes beyond that point, and that
  between its seek and its read its own file is where the map says.  `QueueOK` says that who waits to be
  accepted has not been served, and that nobody is served before the map is finished; with
  `MapOK` the page that is read is then the dump's.
* `FilesSafety == Spec => []FilesClosed`: however a connection ends, its files are closed.

`BenchProofs`: `AnswerSafety`, `LeftoverSafety` and `RowSafety`.  `BenchInv` says who can run
at which step of the harness (`RunningOK`), who has touched the trigger file (`TriggerOK`), that the
copy goes on from its image (`FollowsImage`), and of whom a result file can be (`ResultOK`).

In the same module `MajoritySafety` and `ReadingSafety` are about the profiler.  `VoteInv` says that a
page's count is the number of rounds that voted for it (`TallyOK`), and that an undisturbed reading has the map up to the cursor
(`MapOK`); that two areas in succession are the nearest needs a least-number principle,
taken from the well-foundedness of inclusion of finite sets.

`EvaluationProofs`: `ReportTypeSafety`, `PassSafety`, `QuestionSafety`, `FailureSafety`,
`AgreeSafety` and `SweepSafety` prove the six properties of the run `report`, for files of
any length.  The invariant `EvalInv` is short: whatever has been reported or drawn is what
the programs make of the rows that are still in the files (`ResultsOK`), and the rows are
as the suite writes them (`FilesOK`).  The rest is arithmetic of means:

* `Total` is a recursive function; `RunningExists` builds its running totals by induction
  over the numbers up to the length (`UpTo`, from the least-number principle on
  subsets of an interval), and from them follow the sign of a total and the
  total of two lists in succession (`TotalSign`, `TotalOfConcat`).
* The mean of a group is one of a column `w` over the rows of a kind `P` (`MeanIn`), so
  that the report, the figures and the sweeps share their lemmas: `SumOfMerged`,
  and `SumOfRemoved` for a file with one row less.
* `ReportMean` and `FigureMean` prove that report.py and figures.py, which load and filter with code of
  their own, make the same mean `MeanOf` of the same file.
* `AnsweredMean`: a mean is positive exactly if something was answered, since an answer took at least a
  millisecond.  Without that, a mode answered in no time would count as one that never
  was (`report.py:246`).  `EvaluationAssumption` has it, with two more facts about the
  inputs: the suites run the workloads and modes of the table, and no sweep injects the
  10 us at which the figure draws loopback.  The delays of `crosshost_netem.sh:43` and the
  sweeps that are kept in `eval/results` do not.

Only model-checked: the liveness properties `FaultResolved`, `SignalStops`,
`QueuedIsInstalled`, `LifecycleCallsReturn`, `ReenabledOnceDrained`, `DeepQueueTurnsOff`,
`BatchAnswered` and `IterationEnds`, because fairness and ENABLED are out of the prover's
reach.  What each step contributes to two of them is proved: `ProbeSafety` and `PressureSafety`
are the steps on which `ReenabledOnceDrained` and `DeepQueueTurnsOff` rest.  Every invariant, action
property and refinement that a passing run checks has a theorem.

## 6. Not modelled

In the handler: partial writes of a request (`send` of 8 bytes) count as a failed send, as in the code;
`FORK` and `REMAP` events, which the handler reads and ignores; a wrong magic
on CRIU's socket; failures of `calloc`, `posix_memalign` and mutex creation; negative
look-ahead counts on the command line (`-s` and `-S` go unchecked, and zero for both is modelled).  `POLLHUP` on the descriptor is taken to mean what
the handler takes it for, that the process has gone.  Of `main`, the handshake with CRIU; a
signal that arrives while it waits in `accept` only sets a flag and the call is
restarted (`lazy_handler.c:1185`), which `BenchIteration` has as a handler in "accept" that only
SIGKILL ends.

The header of `hashset.h` says that one writer and one reader need no mutex, and also
that growth is not thread-safe; `hashset_insert` grows.  The handler always takes the mutex,
and `ServedState` models that; the lock-free use is not modelled.

In the harness: the Redis and test_loop workloads; the wrappers that repeat `bench.sh` under other
settings or on two machines, but for the rows they record; CRIU's own reopening of files, beyond
that a file unlinked after it was opened is still written to.  A page server started by
`$(start_page_server)` (`bench.sh:165`) loses its entry in `TRACKED_PIDS` to the subshell; the
harness stops it by pid, as the model has it.  The error row of `bench.sh:267-268` is written
only if `run_iteration` returns a failure, and inside `if !` errexit is off, so that most failures inside it end in
an ordinary row; `Evaluation` lets any iteration record either.  Reports: standard
deviations, formatting and drawing; rows torn in the middle.

`distriproc.sh` is a sequential front end to criu, the page server and the handler; the C demos
are single-threaded exercises of `userfaultfd`; `proto_analysis` is a copy of CRIU's schema and generated
code; the shell tests were read for what they expect.

Differences between text and code that were read off the code and have no run of their
own:

* `docs/howto.md:219` says the hit rate is always 0, but a page installed between
  the fault's message and the look-up counts as a hit;
* `paper/paper.tex:456` grows the look-ahead in any clean window, the code only in
  one that prefetched something;
* `paper/CLAIMS.md:164` and `paper/paper.tex:411,549` speak of duplicates as requests for pages already
  served; the counter counts requests for pages that are still queued;
* `docs/howto.md:115` and `paper/paper.tex:452` disable prefetch on either signal; the code
  looks at the duplicate rate only in a window that prefetched something.

## 7. Plan

1. Done: the handler, its controller and its service; the served set; the rings; the page
   servers; the profiler, the benchmark's iteration, the reports; and the theorems above.
2. Done: a theorem for every safety property and refinement of the passing runs.
3. Start-up and end of the session: `main`'s handshake with CRIU, signals
   during `accept`, what is open when, with `distriproc.sh` as its caller.
4. The Redis workload, whose probe goes over a connection instead of files.
