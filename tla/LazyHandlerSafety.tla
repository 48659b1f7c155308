------------------------- MODULE LazyHandlerSafety -------------------------
(***************************************************************************)
(* The safety of the page service, proved for every number of pages,       *)
(* threads and queue entries and every environment the assumptions allow,  *)
(* and that the handler implements DemandPaging.                           *)
(***************************************************************************)
EXTENDS LazyHandlerProofs

USE DEF Actor

(***************************************************************************)
(* Answers and targets go in pairs: what a connection still owes is what   *)
(* its thread still waits for, one answer less while an install is being   *)
(* recorded, and nothing between two fetches.                              *)
(***************************************************************************)
PairingOK ==
  \A a \in Actor :
    /\ pc[a] = "recv" => sent[a] = todo[a]
    /\ pc[a] = "record" => todo[a] # <<>> /\ sent[a] = Tail(todo[a])
    /\ pc[a] \notin {"recv", "record"} => sent[a] = <<>>

\* Who installs zeros has lost the fault path's connection.
DegradedOK == (pc["main"] = "failed" \/ ~ uffdOpen) => ~ up["main"]

ContentInv == TypeOK /\ PairingOK /\ DegradedOK /\ ContentCorrect

\* Without lifecycle calls a thread runs, waits for a missing page, or is gone.
ThreadsOK ==
  /\ mapped = Lazy
  /\ \A t \in Thread :
       /\ thr[t].st \in {"run", "pending", "blocked", "gone"}
       /\ Waiting(t) => thr[t].pg \in Lazy /\ mem[thr[t].pg] = Absent /\ uffdOpen

\* The fault path handles a registered page, and fetches that page alone.
TargetOK ==
  /\ pc["main"] \in {"check", "scan", "send", "recv", "failed"} => cur \in Lazy
  /\ pc["main"] \in {"send", "recv", "record"} => todo["main"] = <<cur>>

\* What is about to be recorded has been installed.
InstalledOK ==
  /\ \A a \in Actor : pc[a] = "record" => todo[a] # <<>>
  /\ ~ Exited =>
       /\ \A a \in Actor : pc[a] = "record" => Present(Head(todo[a]))
       /\ pc["main"] = "zeroed" => Present(cur)

ServiceInv ==
  TypeOK /\ ThreadsOK /\ TargetOK /\ InstalledOK /\ ServedIsPresent /\ BlockedIsHandled

----------------------------------------------------------------------------
(* What the steps that fetch nothing leave alone.                          *)

\* Nobody's fetch is disturbed.
Undisturbed ==
  \A a \in Actor :
    /\ sent'[a] = sent[a]
    /\ \/ pc'[a] = pc[a] /\ todo'[a] = todo[a]
       \/ pc[a] \notin {"recv", "record"} /\ pc'[a] \notin {"recv", "record"}

HelperQuiet ==
  /\ UNCHANGED <<ufVars, served, cur>>
  /\ pc'["main"] = pc["main"] /\ todo'["main"] = todo["main"] /\ up'["main"] = up["main"]
  /\ Undisturbed

LEMMA GotoFacts ==
  ASSUME LabelsOK, NEW a \in Actor, NEW l, Goto(a, l)
  PROVE  pc'[a] = l /\ \A b \in Actor \ {a} : pc'[b] = pc[b]
BY DEF LabelsOK, Goto

LEMMA ConnectQuiet ==
  ASSUME TypeOK, NEW a \in {"worker", "eager"}, NEW l \in {"check", "scan", "done"}, Connect(a, l)
  PROVE  /\ UNCHANGED <<ufVars, served>>
         /\ pc'["main"] = pc["main"] /\ todo'["main"] = todo["main"] /\ up'["main"] = up["main"]
         /\ Undisturbed
<1>1. a \in Actor /\ a # "main" /\ LabelsOK /\ PFTypeOK
  BY TypeParts
<1>2. \E m \in {l, "failed"} : Goto(a, m)
  BY DEF Connect
<1>3. pc'[a] \in {l, "failed"} /\ \A b \in Actor \ {a} : pc'[b] = pc[b]
  BY <1>1, <1>2, GotoFacts
<1>4. pc[a] = "connect" /\ up'["main"] = up["main"] /\ UNCHANGED <<ufVars, served, sent, todo>>
  BY <1>1 DEF Connect, PFTypeOK
<1> QED
  BY <1>1, <1>3, <1>4 DEF Undisturbed

LEMMA WorkerQuiet ==
  ASSUME TypeOK, WorkerStep \/ WorkerSpuriousWake, ~ WorkerFetch, UNCHANGED cur
  PROVE  HelperQuiet
<1> USE DEF PFTypeOK
<1>1. LabelsOK /\ PFTypeOK
  BY TypeParts
<1>2. CASE WorkerConnect
  BY <1>2, ConnectQuiet DEF WorkerConnect, HelperQuiet
<1>3. CASE WorkerFilter
  BY <1>1, <1>3 DEF WorkerFilter, HelperQuiet, Undisturbed
<1>4. CASE WorkerTake
  <2>1. Goto("worker", "filter")
    BY <1>4 DEF WorkerTake
  <2>2. pc'["worker"] = "filter" /\ \A b \in Actor \ {"worker"} : pc'[b] = pc[b]
    BY <1>1, <2>1, GotoFacts
  <2> QED
    BY <1>1, <1>4, <2>2 DEF WorkerTake, HelperQuiet, Undisturbed
<1>5. CASE WorkerSleep \/ WorkerSpuriousWake \/ WorkerStop \/ WorkerFiltered \/ WorkerCount \/ WorkerGiveUp
  <2>1. \E l \in {"check", "asleep", "exited", "send"} : Goto("worker", l)
    BY <1>5 DEF WorkerSleep, WorkerSpuriousWake, WorkerStop, WorkerFiltered, WorkerCount, WorkerGiveUp
  <2>2. pc'["worker"] \in {"check", "asleep", "exited", "send"}
        /\ \A b \in Actor \ {"worker"} : pc'[b] = pc[b]
    BY <1>1, <2>1, GotoFacts
  <2>3. UNCHANGED <<ufVars, served, sent, todo>> /\ up' \in {up, [up EXCEPT !["worker"] = FALSE]}
    BY <1>5 DEF WorkerSleep, WorkerSpuriousWake, WorkerStop, WorkerFiltered, WorkerCount, WorkerGiveUp
  <2>4. pc["worker"] \in {"check", "asleep", "filter", "fetched", "failed"}
    BY <1>5 DEF WorkerSleep, WorkerSpuriousWake, WorkerStop, WorkerFiltered, WorkerCount, WorkerGiveUp
  <2> QED
    BY <1>1, <2>2, <2>3, <2>4 DEF HelperQuiet, Undisturbed
<1> QED
  BY <1>2, <1>3, <1>4, <1>5 DEF WorkerStep

LEMMA EagerQuiet ==
  ASSUME TypeOK, EagerStep, ~ EagerFetching, UNCHANGED cur
  PROVE  HelperQuiet
<1> USE DEF PFTypeOK
<1>1. LabelsOK /\ PFTypeOK
  BY TypeParts
<1>2. CASE EagerConnect
  BY <1>2, ConnectQuiet DEF EagerConnect, HelperQuiet
<1>3. CASE EagerScan
  <2>1. pc' = pc \/ Goto("eager", "send")
    BY <1>3 DEF EagerScan
  <2>2. pc'["eager"] \in {"scan", "send"} /\ \A b \in Actor \ {"eager"} : pc'[b] = pc[b]
    BY <1>1, <1>3, <2>1, GotoFacts DEF EagerScan
  <2>3. UNCHANGED <<ufVars, served, up, sent>> /\ todo'["main"] = todo["main"]
        /\ todo'["worker"] = todo["worker"]
    BY <1>1, <1>3 DEF EagerScan
  <2>4. pc["eager"] = "scan"
    BY <1>3 DEF EagerScan
  <2> QED
    BY <2>2, <2>3, <2>4 DEF HelperQuiet, Undisturbed
<1>4. CASE EagerEndOfFile \/ EagerNextBatch \/ EagerDone
  <2>1. \E l \in {"done", "send", "scan", "exited"} : Goto("eager", l)
    BY <1>4 DEF EagerEndOfFile, EagerNextBatch, EagerDone
  <2>2. pc'["eager"] \in {"done", "send", "scan", "exited"}
        /\ \A b \in Actor \ {"eager"} : pc'[b] = pc[b]
    BY <1>1, <2>1, GotoFacts
  <2>3. UNCHANGED <<ufVars, served, sent, todo>> /\ up' \in {up, [up EXCEPT !["eager"] = FALSE]}
    BY <1>4 DEF EagerEndOfFile, EagerNextBatch, EagerDone
  <2>4. pc["eager"] \in {"scan", "fetched", "failed", "done"}
    BY <1>4 DEF EagerEndOfFile, EagerNextBatch, EagerDone
  <2> QED
    BY <1>1, <2>2, <2>3, <2>4 DEF HelperQuiet, Undisturbed
<1> QED
  BY <1>2, <1>3, <1>4 DEF EagerStep

----------------------------------------------------------------------------
(* The pipelined fetch, whoever runs it.                                   *)

\* UFFDIO_COPY touches the page it is given and nothing else.
LEMMA CopyFacts ==
  ASSUME UFTypeOK, NEW p \in Page, NEW data, CopyEffect(p, data)
  PROVE  /\ mapped' = mapped /\ uffdOpen' = uffdOpen
         /\ \A q \in Page : mem'[q] = mem[q] \/ (q = p /\ mem[q] = Absent /\ mem'[q] = data)
BY DEF CopyEffect, UFTypeOK, ufVars

LEMMA FetchFrame ==
  ASSUME TypeOK, NEW a \in Actor, Fetch(a)
  PROVE  /\ up' = up
         /\ \A b \in Actor \ {a} : pc'[b] = pc[b] /\ todo'[b] = todo[b] /\ sent'[b] = sent[b]
<1>1. LabelsOK /\ PFTypeOK
  BY TypeParts
<1>2. \E l \in FetchPC : Goto(a, l)
  BY DEF Fetch, FetchSend, FetchInstall, FetchRecord, FetchFail, FetchPC, AfterTarget
<1>3. \A b \in Actor \ {a} : pc'[b] = pc[b]
  BY <1>1, <1>2, GotoFacts
<1>4. \A b \in Actor \ {a} : todo'[b] = todo[b] /\ sent'[b] = sent[b]
  BY <1>1 DEF Fetch, FetchSend, FetchInstall, FetchRecord, FetchFail, PFTypeOK
<1>5. up' = up
  BY DEF Fetch, FetchSend, FetchInstall, FetchRecord, FetchFail
<1> QED
  BY <1>3, <1>4, <1>5

LEMMA LastOne ==
  ASSUME NEW s \in Seq(Page), s # <<>>, Len(s) = 1
  PROVE  Tail(s) = <<>>
<1>1. Tail(s) \in Seq(Page) /\ Len(Tail(s)) = 0
  BY PageSeq
<1> QED
  BY <1>1, EmptySeq

\* Each step of a fetch keeps answers and targets paired.
LEMMA FetchPairing ==
  ASSUME TypeOK, PairingOK, NEW a \in Actor, Fetch(a)
  PROVE  PairingOK'
<1>1. LabelsOK /\ PFTypeOK
  BY TypeParts
<1>2. \A b \in Actor \ {a} : pc'[b] = pc[b] /\ todo'[b] = todo[b] /\ sent'[b] = sent[b]
  BY FetchFrame
<1>3. /\ pc'[a] = "recv" => sent'[a] = todo'[a]
      /\ pc'[a] = "record" => todo'[a] # <<>> /\ sent'[a] = Tail(todo'[a])
      /\ pc'[a] \notin {"recv", "record"} => sent'[a] = <<>>
  <2>1. CASE FetchSend(a)
    <3>1. pc'[a] = "recv"
      BY <1>1, <2>1, GotoFacts DEF FetchSend
    <3>2. sent[a] = <<>> /\ todo[a] \in Seq(Page) /\ <<>> \in Seq(Page)
      BY <1>1, <2>1, PageSeq DEF FetchSend, PFTypeOK, PairingOK
    <3>3. <<>> \o todo[a] = todo[a]
      BY <3>2, ConcatEmptySeq
    <3>4. sent'[a] = todo'[a]
      BY <1>1, <2>1, <3>2, <3>3 DEF FetchSend, PFTypeOK
    <3> QED
      BY <3>1, <3>4
  <2>2. CASE FetchInstall(a)
    <3>1. pc[a] = "recv" /\ sent[a] = todo[a] /\ todo[a] # <<>>
      BY <2>2 DEF FetchInstall, Installs, PairingOK
    <3>2. sent'[a] = Tail(sent[a])
      BY <1>1, <2>2 DEF FetchInstall, Installs, PFTypeOK
    <3>3. CASE CopyRefused(Head(todo[a]))
      <4>1. todo'[a] = Tail(todo[a]) /\ Goto(a, AfterTarget(a))
        BY <1>1, <2>2, <3>3 DEF FetchInstall, Installs, PFTypeOK
      <4>2. pc'[a] \in {"fetched", "recv"}
        BY <1>1, <4>1, GotoFacts DEF AfterTarget
      <4>3. pc'[a] = "fetched" => Tail(todo[a]) = <<>>
        BY <1>1, <3>1, <4>1, GotoFacts, LastOne DEF AfterTarget, PFTypeOK
      <4> QED
        BY <3>1, <3>2, <4>1, <4>2, <4>3
    <3>4. CASE ~ CopyRefused(Head(todo[a]))
      <4>1. todo'[a] = todo[a] /\ Goto(a, "record")
        BY <2>2, <3>4 DEF FetchInstall, Installs
      <4>2. pc'[a] = "record"
        BY <1>1, <4>1, GotoFacts
      <4> QED
        BY <3>1, <3>2, <4>1, <4>2
    <3> QED
      BY <3>3, <3>4
  <2>3. CASE FetchRecord(a)
    <3>1. sent[a] = Tail(todo[a]) /\ sent'[a] = sent[a]
      BY <2>3 DEF FetchRecord, PairingOK
    <3>2. todo'[a] = Tail(todo[a]) /\ Goto(a, AfterTarget(a))
      BY <1>1, <2>3 DEF FetchRecord, PFTypeOK
    <3>3. pc'[a] \in {"fetched", "recv"}
      BY <1>1, <3>2, GotoFacts DEF AfterTarget
    <3>4. pc'[a] = "fetched" => Tail(todo[a]) = <<>>
      BY <1>1, <2>3, <3>2, GotoFacts, LastOne DEF AfterTarget, FetchRecord, PFTypeOK
    <3> QED
      BY <3>1, <3>2, <3>3, <3>4
  <2>4. CASE FetchFail(a)
    <3>1. pc'[a] = "failed"
      BY <1>1, <2>4, GotoFacts DEF FetchFail
    <3>2. sent'[a] = <<>>
      BY <1>1, <2>4 DEF FetchFail, PFTypeOK
    <3> QED
      BY <3>1, <3>2
  <2> QED
    BY <2>1, <2>2, <2>3, <2>4 DEF Fetch
<1> QED
  BY <1>2, <1>3 DEF PairingOK

\* An answer reaches the page it was asked for.
LEMMA FetchContents ==
  ASSUME TypeOK, PairingOK, NEW a \in Actor, Fetch(a)
  PROVE  /\ uffdOpen' = uffdOpen
         /\ \A q \in Page : mem'[q] \in {mem[q], Reply(q)}
<1>1. UFTypeOK /\ PFTypeOK
  BY TypeParts
<1>2. CASE FetchInstall(a)
  <2>1. todo[a] # <<>> /\ sent[a] = todo[a] /\ todo[a] \in Seq(Page)
    BY <1>1, <1>2 DEF FetchInstall, Installs, PairingOK, PFTypeOK
  <2>2. Head(todo[a]) \in Page
    BY <2>1, PageSeq
  <2>3. CopyEffect(Head(todo[a]), Reply(Head(todo[a])))
    BY <1>2, <2>1 DEF FetchInstall, Installs
  <2> QED
    BY <1>1, <2>2, <2>3, CopyFacts
<1>3. CASE ~ FetchInstall(a)
  BY <1>3 DEF Fetch, FetchSend, FetchRecord, FetchFail, ufVars
<1> QED
  BY <1>2, <1>3

----------------------------------------------------------------------------
(* The main thread outside its fetch, and the environment.                 *)

SignalPC == {"poll", "read", "check", "scan", "send", "zeroed", "enqueue", "finish", "stop",
             "join worker", "join eager", "close", "exited"}

LEMMA MainQuiet ==
  ASSUME TypeOK, MainStep, ~ MainFetch
  PROVE  /\ Undisturbed
         /\ pc'["main"] \in SignalPC
         /\ up' = up \/ (Close /\ up'["main"] = FALSE)
<1>1. LabelsOK /\ PFTypeOK
  BY TypeParts
<1>2. CASE ScanNext \/ Enqueue
  <2>1. UNCHANGED <<pc, todo, sent, up>> /\ pc["main"] \in {"scan", "enqueue"}
    BY <1>2 DEF ScanNext, Enqueue
  <2> QED
    BY <2>1 DEF Undisturbed, SignalPC
<1>3. CASE EnqueueDone \/ StopWorker
  <2>1. \/ \E l \in {"finish", "join eager"} : Goto("main", l)
        \/ \E l \in {"finish", "join worker"} : SignalWorker([pc EXCEPT !["main"] = l])
    BY <1>3 DEF EnqueueDone, StopWorker
  <2>2. UNCHANGED <<todo, sent, up>>
    BY <1>3 DEF EnqueueDone, StopWorker
  <2>3. /\ pc'["main"] \in {"finish", "join eager", "join worker"}
        /\ pc'["eager"] = pc["eager"]
        /\ pc'["worker"] = pc["worker"] \/ (pc["worker"] = "asleep" /\ pc'["worker"] = "check")
    BY <1>1, <2>1 DEF LabelsOK, Goto, SignalWorker
  <2>4. pc["main"] \in {"enqueue", "stop"}
    BY <1>3 DEF EnqueueDone, StopWorker
  <2> QED
    BY <2>2, <2>3, <2>4 DEF Undisturbed, SignalPC
<1>4. CASE ~ (ScanNext \/ Enqueue \/ EnqueueDone \/ StopWorker)
  <2>1. MainStep /\ ~ (ScanNext \/ Enqueue \/ EnqueueDone \/ StopWorker) /\ ~ MainFetch
    BY <1>4
  <2>2. \E l \in SignalPC : Goto("main", l)
    BY <2>1 DEF MainStep, PollReturns, PollTimeout, ReadFault, ReadEvent, ReadNothing, CheckServed,
                ScanDone, ZeroFallback, ZeroRecord, AfterFetch, Fetched, Finish, JoinWorker,
                JoinEager, Close, SignalPC
  <2>3. pc'["main"] \in SignalPC /\ \A b \in Actor \ {"main"} : pc'[b] = pc[b]
    BY <1>1, <2>2, GotoFacts
  <2>4. sent' = sent /\ (todo' = todo \/ ScanDone)
    BY <2>1 DEF MainStep, PollReturns, PollTimeout, ReadFault, ReadEvent, ReadNothing, CheckServed,
                ScanDone, ZeroFallback, ZeroRecord, Fetched, Finish, JoinWorker, JoinEager, Close
  <2>5. \A b \in Actor \ {"main"} : todo'[b] = todo[b]
    BY <1>1, <2>4 DEF ScanDone, PFTypeOK
  <2>6. up' = up \/ (Close /\ up'["main"] = FALSE)
    <3>1. CASE Close
      BY <1>1, <3>1 DEF Close, PFTypeOK
    <3>2. CASE ~ Close
      BY <2>1, <3>2 DEF MainStep, PollReturns, PollTimeout, ReadFault, ReadEvent, ReadNothing,
                CheckServed, ScanDone, ZeroFallback, ZeroRecord, Fetched, Finish, JoinWorker, JoinEager
    <3> QED
      BY <3>1, <3>2
  <2>7. pc["main"] \notin {"recv", "record"}
    BY <2>1 DEF MainStep, PollReturns, PollTimeout, ReadFault, ReadEvent, ReadNothing, CheckServed,
                ScanDone, ZeroFallback, ZeroRecord, Fetched, Finish, JoinWorker, JoinEager, Close
  <2> QED
    BY <2>3, <2>4, <2>5, <2>6, <2>7 DEF Undisturbed, SignalPC
<1> QED
  BY <1>2, <1>3, <1>4

\* What the main thread does to the process outside its fetch.
LEMMA MainMemory ==
  ASSUME TypeOK, MainStep, ~ MainFetch
  PROVE  /\ \A q \in Page : mem'[q] = mem[q] \/ (ZeroFallback /\ mem'[q] = Zero)
         /\ uffdOpen' = uffdOpen \/ Close
<1>1. CASE ZeroFallback
  BY <1>1, CopyFacts, TypeParts DEF ZeroFallback, BlockOK
<1>2. CASE ~ ZeroFallback
  BY <1>2 DEF MainStep, PollReturns, PollTimeout, ReadFault, ReadFaultOf, ReadEvent, ReadEventOf,
              ReadNothing, CheckServed, ScanNext, ScanDone, ZeroRecord, Fetched, Enqueue, EnqueueDone,
              Finish, StopWorker, JoinWorker, JoinEager, Close, CloseUffd, ufVars
<1> QED
  BY <1>1, <1>2

LEMMA OutsideQuiet ==
  ASSUME TypeOK, EnvironmentStep \/ \E t \in Thread : KernelStep(t)
  PROVE  /\ UNCHANGED <<served, sent, todo, pc, cur, uffdOpen>>
         /\ up'["main"] => up["main"]
         /\ \A q \in Page : mem'[q] \in {mem[q], Absent} \/ (~ uffdOpen /\ mem'[q] = Zero)
<1>1. PFTypeOK /\ UFTypeOK
  BY TypeParts
<1>2. CASE ProcessStep
  <2>1. UNCHANGED <<served, sent, todo, pc, cur, up>>
    BY <1>2 DEF ProcessStep, handlerVars, fetchVars, loopVars
  <2>2. uffdOpen' = uffdOpen
        /\ \A q \in Page : mem'[q] \in {mem[q], Absent} \/ (~ uffdOpen /\ mem'[q] = Zero)
    BY <1>1, <1>2 DEF ProcessStep, Touch, Remove, Unmap, ProcessExit, UFTypeOK
  <2> QED
    BY <2>1, <2>2
<1>3. ASSUME NEW t \in Thread, KernelStep(t)
      PROVE  /\ UNCHANGED <<served, sent, todo, pc, cur, up, uffdOpen>>
             /\ \A q \in Page : mem'[q] \in {mem[q], Absent}
  BY <1>1, <1>3 DEF KernelStep, RemoveNoticed, RemoveDone, UnmapDone, UFTypeOK,
                    handlerVars, fetchVars, loopVars
<1>4. ASSUME NEW a \in Actor, Break(a), UNCHANGED loopVars
      PROVE  UNCHANGED <<ufVars, served, sent, todo, pc, cur>> /\ (up'["main"] => up["main"])
  BY <1>1, <1>4 DEF Break, PFTypeOK, loopVars
<1>5. CASE CriuFinishes \/ Signal
  BY <1>5 DEF CriuFinishes, Signal, fetchVars, loopVars, ufVars
<1> QED
  BY <1>2, <1>3, <1>4, <1>5 DEF EnvironmentStep, ufVars

----------------------------------------------------------------------------
(* The process never reads another page's bytes.                           *)

LEMMA ContentStep ==
  ASSUME ContentInv, [Next]_vars
  PROVE  PairingOK' /\ DegradedOK' /\ ContentCorrect'
<1> USE DEF ContentInv
<1>1. PFTypeOK /\ UFTypeOK /\ LabelsOK
  BY TypeParts
<1>3. ASSUME Undisturbed
      PROVE  PairingOK'
  BY <1>3 DEF Undisturbed, PairingOK
<1>4. ASSUME up'["main"] => up["main"],
             \A q \in Page : \/ mem'[q] \in {mem[q], Absent, Reply(q)}
                             \/ ~ up["main"] /\ mem'[q] = Zero
      PROVE  ContentCorrect'
  BY <1>4 DEF ContentCorrect, Reply
<1>5. ASSUME HelperQuiet
      PROVE  PairingOK' /\ DegradedOK' /\ ContentCorrect'
  BY <1>3, <1>4, <1>5 DEF HelperQuiet, DegradedOK, ufVars
<1>6. ASSUME NEW a \in Actor, Fetch(a)
      PROVE  PairingOK' /\ DegradedOK' /\ ContentCorrect'
  <2>1. PairingOK'
    BY <1>6, FetchPairing
  <2>2. up' = up /\ \A b \in Actor \ {a} : pc'[b] = pc[b]
    BY <1>6, FetchFrame
  <2>3. uffdOpen' = uffdOpen /\ \A q \in Page : mem'[q] \in {mem[q], Reply(q)}
    BY <1>6, FetchContents
  <2>4. pc'["main"] = "failed" => ~ up["main"]
    <3>1. CASE a # "main"
      BY <2>2, <3>1 DEF DegradedOK
    <3>2. CASE a = "main"
      <4>1. CASE FetchFail(a)
        BY <2>2, <3>2, <4>1 DEF FetchFail
      <4>2. CASE ~ FetchFail(a)
        <5>1. \E l \in {"recv", "record", "fetched"} : Goto(a, l)
          BY <1>6, <4>2 DEF Fetch, FetchSend, FetchInstall, FetchRecord, AfterTarget
        <5> QED
          BY <1>1, <3>2, <5>1, GotoFacts
      <4> QED
        BY <4>1, <4>2
    <3> QED
      BY <3>1, <3>2
  <2> QED
    BY <1>4, <2>1, <2>2, <2>3, <2>4 DEF DegradedOK
<1>7. CASE Main
  <2>1. CASE MainFetch
    BY <1>6, <2>1 DEF MainFetch
  <2>2. CASE ~ MainFetch
    <3>1. /\ Undisturbed
          /\ pc'["main"] # "failed"
          /\ up' = up \/ (Close /\ up'["main"] = FALSE)
      BY <1>7, <2>2, MainQuiet DEF Main, SignalPC
    <3>2. /\ \A q \in Page : mem'[q] = mem[q] \/ (ZeroFallback /\ mem'[q] = Zero)
          /\ uffdOpen' = uffdOpen \/ Close
      BY <1>7, <2>2, MainMemory DEF Main
    <3>3. ZeroFallback => ~ up["main"]
      BY DEF ZeroFallback, DegradedOK
    <3>4. Close => up'["main"] = FALSE
      BY <1>1 DEF Close, PFTypeOK
    <3>5. ContentCorrect'
      BY <1>4, <3>1, <3>2, <3>3
    <3>6. DegradedOK'
      BY <3>1, <3>2, <3>4 DEF DegradedOK
    <3> QED
      BY <1>3, <3>1, <3>5, <3>6
  <2> QED
    BY <2>1, <2>2
<1>8. CASE Worker \/ (WorkerSpuriousWake /\ UNCHANGED <<loopVars, envVars, hotPos>>)
  <2>1. (WorkerStep \/ WorkerSpuriousWake) /\ UNCHANGED cur
    BY <1>8 DEF Worker, loopVars
  <2> QED
    BY <1>5, <1>6, <2>1, WorkerQuiet DEF WorkerFetch
<1>9. CASE Eager
  <2>1. EagerStep /\ UNCHANGED cur
    BY <1>9 DEF Eager, loopVars
  <2> QED
    BY <1>5, <1>6, <2>1, EagerQuiet DEF EagerFetching
<1>10. CASE EnvironmentStep \/ \E t \in Thread : KernelStep(t)
  <2>1. /\ UNCHANGED <<served, sent, todo, pc, cur, uffdOpen>>
        /\ up'["main"] => up["main"]
        /\ \A q \in Page : mem'[q] \in {mem[q], Absent} \/ (~ uffdOpen /\ mem'[q] = Zero)
    BY <1>10, OutsideQuiet
  <2>2. PairingOK' /\ DegradedOK'
    BY <2>1 DEF PairingOK, DegradedOK
  <2>3. ContentCorrect'
    BY <1>4, <2>1 DEF DegradedOK
  <2> QED
    BY <2>2, <2>3
<1>11. CASE UNCHANGED vars
  BY <1>11 DEF vars, ufVars, fetchVars, PairingOK, DegradedOK, ContentCorrect
<1> QED
  BY <1>7, <1>8, <1>9, <1>10, <1>11 DEF Next, Terminated

LEMMA ContentAlways == Spec => []ContentInv
<1>1. Init => ContentInv
  <2>1. Init => TypeOK
    BY TypeInit
  <2>2. Init => PairingOK /\ DegradedOK /\ ContentCorrect
    BY DEF Init, UFInit, PairingOK, DegradedOK, ContentCorrect
  <2> QED
    BY <2>1, <2>2 DEF ContentInv
<1>2. ContentInv /\ [Next]_vars => ContentInv'
  BY TypeStep, ContentStep DEF ContentInv
<1> QED
  BY <1>1, <1>2, PTL DEF Spec

(***************************************************************************)
(* Whatever breaks, leaves or is refused, and however the three pipelined  *)
(* connections interleave, a page holds its own bytes of the image, or     *)
(* zeros once the fault path's connection has ended.  No assumption about  *)
(* lifecycle calls is needed.                                              *)
(***************************************************************************)
THEOREM ContentSafety == Spec => []ContentCorrect
<1>1. ContentInv => ContentCorrect
  BY DEF ContentInv
<1> QED
  BY <1>1, ContentAlways, PTL

----------------------------------------------------------------------------
(* Every fault is handled, and what is served is there.                    *)

ServiceRest ==
  ThreadsOK' /\ TargetOK' /\ InstalledOK' /\ ServedIsPresent' /\ BlockedIsHandled'

Handling == {"check", "scan", "send", "recv", "failed"}

\* Steps that touch neither the process nor the served set.
LEMMA IdleService ==
  ASSUME ServiceInv, UNCHANGED <<ufVars, served>>, Undisturbed,
         \/ /\ pc["main"] \notin Handling
            /\ pc'["main"] \notin Handling \cup {"record", "zeroed"}
         \/ /\ pc["main"] \in {"check", "scan"} /\ cur' = cur
            /\ \/ pc'["main"] = "scan"
               \/ pc'["main"] = "send" /\ todo'["main"] = <<cur>>
         \/ pc'["main"] = pc["main"] /\ todo'["main"] = todo["main"] /\ cur' = cur
  PROVE  ServiceRest
<1>1. ThreadsOK' /\ ServedIsPresent'
  BY DEF ServiceInv, ThreadsOK, ServedIsPresent, Waiting, Exited, Present, ufVars
<1>2. TargetOK'
  BY DEF ServiceInv, TargetOK, Handling
<1>3. InstalledOK'
  BY DEF ServiceInv, InstalledOK, Undisturbed, Exited, Present, ufVars
<1>4. BlockedIsHandled'
  BY DEF ServiceInv, BlockedIsHandled, Handling, ufVars
<1> QED
  BY <1>1, <1>2, <1>3, <1>4 DEF ServiceRest

(***************************************************************************)
(* A copy into a registered page: what was there stays, the page is there  *)
(* afterwards unless the process is gone, and whoever waited for it runs.  *)
(***************************************************************************)
LEMMA CopyService ==
  ASSUME TypeOK, ThreadsOK, NEW p \in Page, NEW data \in Page \cup {Zero}, CopyEffect(p, data)
  PROVE  /\ ThreadsOK'
         /\ Exited' => Exited
         /\ Exited => Exited'
         /\ \A q \in Page : Present(q) => Present(q)'
         /\ ~ CopyRefused(p) => Present(p)'
         /\ CopyRefused(p) => Exited \/ p \notin Lazy
         /\ \A t \in Thread : thr'[t].st = "blocked" =>
              thr'[t] = thr[t] /\ (~ CopyRefused(p) => thr[t].pg # p)
<1>1. UFTypeOK /\ data # Absent
  BY TypeParts, ContentAssumption
<1>2. CopyRefused(p) => Exited \/ p \notin Lazy
  BY DEF CopyRefused, Changing, ThreadsOK
<1>3. CASE CopyRefused(p) \/ mem[p] # Absent
  <2>1. UNCHANGED ufVars
    BY <1>3 DEF CopyEffect
  <2>2. ~ CopyRefused(p) => mem[p] # Absent
    BY <1>3
  <2>3. \A t \in Thread : thr[t].st = "blocked" /\ ~ CopyRefused(p) => thr[t].pg # p
    BY <2>2 DEF ThreadsOK, Waiting
  <2> QED
    BY <1>2, <2>1, <2>2, <2>3 DEF ThreadsOK, Waiting, Exited, Present, ufVars
<1>4. CASE ~ CopyRefused(p) /\ mem[p] = Absent
  <2>1. /\ mem' = [mem EXCEPT ![p] = data] /\ mapped' = mapped /\ uffdOpen' = uffdOpen
        /\ thr' = [t \in Thread |-> IF Waiting(t) /\ thr[t].pg = p
                                    THEN [st |-> "run", pg |-> 0] ELSE thr[t]]
    BY <1>4 DEF CopyEffect
  <2>2. \A t \in Thread : \/ thr'[t] = thr[t] /\ ~ (Waiting(t) /\ thr[t].pg = p)
                          \/ thr'[t].st = "run" /\ Waiting(t)
    BY <2>1
  <2>3. \A q \in Page : mem'[q] = IF q = p THEN data ELSE mem[q]
    BY <1>1, <2>1 DEF UFTypeOK
  <2>4. ThreadsOK'
    <3>1. \A t \in Thread : thr[t].pg \in Page
      BY <1>1, ThreadPage
    <3> QED
      BY <2>1, <2>2, <2>3, <3>1 DEF ThreadsOK, Waiting
  <2>5. \A t \in Thread : thr'[t].st = "gone" <=> thr[t].st = "gone"
    BY <2>2 DEF Waiting
  <2>6. \A t \in Thread : thr'[t].st = "blocked" => thr'[t] = thr[t] /\ thr[t].pg # p
    BY <2>2 DEF Waiting
  <2> QED
    BY <1>1, <1>2, <1>4, <2>3, <2>4, <2>5, <2>6 DEF Exited, Present
<1> QED
  BY <1>3, <1>4

LEMMA FetchService ==
  ASSUME ServiceInv, NEW a \in Actor, Fetch(a), UNCHANGED cur
  PROVE  ServiceRest
<1> USE DEF ServiceInv
<1>1. LabelsOK /\ PFTypeOK /\ UFTypeOK
  BY TypeParts
<1>2. \A b \in Actor \ {a} : pc'[b] = pc[b] /\ todo'[b] = todo[b] /\ sent'[b] = sent[b]
  BY FetchFrame
<1>3. CASE FetchSend(a) \/ FetchFail(a)
  <2>1. UNCHANGED <<ufVars, served>> /\ pc[a] \in {"send", "recv"}
    BY <1>3 DEF FetchSend, FetchFail
  <2>2. pc'[a] = "failed" \/ (pc'[a] = "recv" /\ todo'[a] = todo[a])
    BY <1>1, <1>3, GotoFacts DEF FetchSend, FetchFail
  <2>3. ThreadsOK' /\ ServedIsPresent'
    BY <2>1 DEF ThreadsOK, ServedIsPresent, Waiting, Exited, Present, ufVars
  <2>4. InstalledOK'
    BY <1>2, <2>1, <2>2 DEF InstalledOK, Exited, Present, ufVars
  <2>5. TargetOK' /\ BlockedIsHandled'
    <3>1. CASE a = "main"
      BY <2>1, <2>2, <3>1 DEF TargetOK, BlockedIsHandled, ufVars
    <3>2. CASE a # "main"
      BY <1>2, <2>1, <3>2 DEF TargetOK, BlockedIsHandled, ufVars
    <3> QED
      BY <3>1, <3>2
  <2> QED
    BY <2>3, <2>4, <2>5 DEF ServiceRest
<1>4. CASE FetchRecord(a)
  <2>1. /\ UNCHANGED ufVars /\ pc[a] = "record" /\ todo[a] # <<>>
        /\ served' = served \cup {Head(todo[a])}
    BY <1>4 DEF FetchRecord
  <2>2. pc'[a] = AfterTarget(a)
    BY <1>1, <1>4, GotoFacts DEF FetchRecord
  <2>3. ThreadsOK' /\ ServedIsPresent'
    BY <2>1 DEF ThreadsOK, ServedIsPresent, InstalledOK, Waiting, Exited, Present, ufVars
  <2>4. InstalledOK'
    BY <1>2, <2>1, <2>2 DEF InstalledOK, AfterTarget, Exited, Present, ufVars
  <2>5. TargetOK' /\ BlockedIsHandled'
    <3>1. CASE a = "main"
      <4>1. todo[a] = <<cur>> /\ Len(<<cur>>) = 1
        BY <2>1, <3>1 DEF TargetOK
      <4>2. pc'["main"] = "fetched"
        BY <2>2, <3>1, <4>1 DEF AfterTarget
      <4> QED
        BY <2>1, <3>1, <4>2 DEF TargetOK, BlockedIsHandled, ufVars
    <3>2. CASE a # "main"
      BY <1>2, <2>1, <3>2 DEF TargetOK, BlockedIsHandled, ufVars
    <3> QED
      BY <3>1, <3>2
  <2> QED
    BY <2>3, <2>4, <2>5 DEF ServiceRest
<1>5. CASE FetchInstall(a)
  <2>1. Head(todo[a]) \in Page /\ Head(sent[a]) \in Page
    BY <1>1, <1>5, PageSeq DEF FetchInstall, Installs, PFTypeOK
  <2> PICK p \in Page : p = Head(todo[a])
    BY <2>1
  <2>2. CopyEffect(p, Reply(Head(sent[a]))) /\ served' = served /\ pc[a] = "recv"
    BY <1>5 DEF FetchInstall, Installs
  <2>3. Reply(Head(sent[a])) \in Page \cup {Zero}
    BY <2>1 DEF Reply
  <2>4. /\ ThreadsOK'
        /\ Exited' => Exited
        /\ Exited => Exited'
        /\ \A q \in Page : Present(q) => Present(q)'
        /\ ~ CopyRefused(p) => Present(p)'
        /\ CopyRefused(p) => Exited \/ p \notin Lazy
        /\ \A t \in Thread : thr'[t].st = "blocked" =>
             thr'[t] = thr[t] /\ (~ CopyRefused(p) => thr[t].pg # p)
    BY <2>1, <2>2, <2>3, CopyService
  <2>5. \/ CopyRefused(p) /\ pc'[a] = AfterTarget(a)
        \/ ~ CopyRefused(p) /\ pc'[a] = "record" /\ todo'[a] = todo[a]
    <3>1. \/ CopyRefused(p) /\ Goto(a, AfterTarget(a))
          \/ ~ CopyRefused(p) /\ Goto(a, "record") /\ UNCHANGED todo
      BY <1>5 DEF FetchInstall, Installs
    <3> QED
      BY <1>1, <3>1, GotoFacts
  <2>6. ServedIsPresent'
    BY <1>1, <2>2, <2>4 DEF ServedIsPresent, PFTypeOK
  <2>7. InstalledOK'
    <3>1. ASSUME ~ Exited', NEW b \in Actor, pc'[b] = "record"
          PROVE  Present(Head(todo[b]))'
      <4>1. CASE b = a
        BY <2>4, <2>5, <3>1, <4>1 DEF AfterTarget, Present
      <4>2. CASE b # a
        <5>1. pc[b] = "record" /\ todo'[b] = todo[b] /\ todo[b] # <<>> /\ Present(Head(todo[b]))
          BY <1>2, <2>4, <3>1, <4>2 DEF InstalledOK
        <5>2. Head(todo[b]) \in Page
          BY <1>1, <5>1, PageSeq DEF PFTypeOK
        <5> QED
          BY <2>4, <5>1, <5>2 DEF Present
      <4> QED
        BY <4>1, <4>2
    <3>2. ASSUME ~ Exited', pc'["main"] = "zeroed"
          PROVE  Present(cur)'
      <4>1. a # "main" /\ pc["main"] = "zeroed" /\ ~ Exited
        BY <1>2, <2>4, <2>5, <3>2 DEF AfterTarget
      <4>2. cur \in Page /\ Present(cur)
        BY <4>1, TypeParts DEF InstalledOK, BlockOK
      <4> QED
        BY <2>4, <4>2 DEF Present
    <3>3. ASSUME NEW b \in Actor, pc'[b] = "record"
          PROVE  todo'[b] # <<>>
      BY <1>2, <1>5, <2>5, <3>3 DEF FetchInstall, Installs, InstalledOK, AfterTarget
    <3> QED
      BY <3>1, <3>2, <3>3 DEF InstalledOK
  <2>8. TargetOK' /\ BlockedIsHandled'
    <3>1. CASE a = "main"
      <4>1. todo["main"] = <<cur>> /\ p = cur /\ cur \in Lazy
        BY <2>2, <3>1 DEF TargetOK
      <4>2. pc'["main"] \in {"record", "fetched"} /\ (pc'["main"] = "record" => todo'["main"] = <<cur>>)
        <5>1. AfterTarget("main") = "fetched"
          BY <4>1 DEF AfterTarget
        <5> QED
          BY <2>5, <3>1, <4>1, <5>1
      <4>3. TargetOK'
        BY <4>1, <4>2 DEF TargetOK
      <4>4. \A t \in Thread : thr'[t].st # "blocked"
        BY <2>4, <4>1 DEF BlockedIsHandled, Exited
      <4> QED
        BY <4>3, <4>4 DEF BlockedIsHandled
    <3>2. CASE a # "main"
      BY <1>2, <2>4, <3>2 DEF TargetOK, BlockedIsHandled
    <3> QED
      BY <3>1, <3>2
  <2> QED
    BY <2>4, <2>6, <2>7, <2>8 DEF ServiceRest
<1> QED
  BY <1>3, <1>4, <1>5 DEF Fetch

\* The hit path: nobody sleeps on a page that is served.
LEMMA CheckService ==
  ASSUME ServiceInv, CheckServed
  PROVE  ServiceRest
<1> USE DEF ServiceInv
<1>1. LabelsOK
  BY TypeParts
<1>2. UNCHANGED <<ufVars, served, sent, todo>> /\ pc["main"] = "check"
  BY DEF CheckServed
<1>3. CASE cur \notin served
  <2>1. cur' = cur /\ Goto("main", "scan")
    BY <1>3 DEF CheckServed
  <2>2. pc'["main"] = "scan" /\ \A b \in Actor \ {"main"} : pc'[b] = pc[b]
    BY <1>1, <2>1, GotoFacts
  <2> QED
    BY <1>2, <2>1, <2>2, IdleService DEF Undisturbed
<1>4. CASE cur \in served
  <2>1. pc'["main"] = "poll" /\ \A b \in Actor \ {"main"} : pc'[b] = pc[b]
    BY <1>1, <1>4, GotoFacts DEF CheckServed
  <2>2. \A t \in Thread : thr[t].st # "blocked"
    <3>1. ASSUME NEW t \in Thread, thr[t].st = "blocked"
          PROVE  FALSE
      <4>1. thr[t].pg = cur /\ mem[cur] = Absent
        BY <3>1 DEF BlockedIsHandled, ThreadsOK, Waiting
      <4>2. ~ Exited
        BY <3>1 DEF Exited
      <4> QED
        BY <1>4, <4>1, <4>2 DEF ServedIsPresent, Present
    <3> QED
      BY <3>1
  <2>3. ThreadsOK' /\ ServedIsPresent'
    BY <1>2 DEF ThreadsOK, ServedIsPresent, Waiting, Exited, Present, ufVars
  <2>4. TargetOK' /\ InstalledOK' /\ BlockedIsHandled'
    BY <1>2, <2>1, <2>2 DEF TargetOK, InstalledOK, BlockedIsHandled, Exited, Present, ufVars
  <2> QED
    BY <2>3, <2>4 DEF ServiceRest
<1> QED
  BY <1>3, <1>4

\* The message of a fault becomes the fault being handled.
LEMMA ReadService ==
  ASSUME ServiceInv, NEW t \in Thread, ReadFault(t)
  PROVE  ServiceRest
<1> USE DEF ServiceInv
<1>1. LabelsOK /\ UFTypeOK
  BY TypeParts
<1>2. /\ thr[t].st = "pending" /\ pc["main"] = "read" /\ cur' = thr[t].pg
      /\ UNCHANGED <<mem, mapped, uffdOpen, served, sent, todo>>
      /\ thr' = [thr EXCEPT ![t] = [st |-> "blocked", pg |-> thr[t].pg]]
  BY DEF ReadFault, ReadFaultOf, FaultPending, Enter
<1>3. pc'["main"] = "check" /\ \A b \in Actor \ {"main"} : pc'[b] = pc[b]
  BY <1>1, GotoFacts DEF ReadFault
<1>4. /\ thr'[t].st = "blocked" /\ thr'[t].pg = thr[t].pg
      /\ \A u \in Thread \ {t} : thr'[u] = thr[u]
  BY <1>1, <1>2 DEF UFTypeOK
<1>5. ThreadsOK'
  BY <1>2, <1>4 DEF ThreadsOK, Waiting
<1>6. ~ Exited /\ ~ Exited'
  BY <1>2, <1>4 DEF Exited
<1>7. ServedIsPresent' /\ InstalledOK'
  BY <1>2, <1>3, <1>6 DEF ServedIsPresent, InstalledOK, Present
<1>8. TargetOK'
  BY <1>2, <1>3 DEF TargetOK, ThreadsOK, Waiting
<1>9. BlockedIsHandled'
  BY <1>2, <1>3, <1>4 DEF BlockedIsHandled
<1> QED
  BY <1>5, <1>7, <1>8, <1>9 DEF ServiceRest

\* The zero page wakes the faulter like the page itself would.
LEMMA ZeroService ==
  ASSUME ServiceInv, ZeroFallback
  PROVE  ServiceRest
<1> USE DEF ServiceInv
<1>1. LabelsOK /\ UFTypeOK /\ PFTypeOK
  BY TypeParts
<1> PICK p \in Page : p = cur
  BY TypeParts DEF BlockOK
<1>2. /\ CopyEffect(p, Zero) /\ pc["main"] = "failed" /\ p \in Lazy
      /\ UNCHANGED <<served, sent, todo, cur>>
  BY DEF ZeroFallback, TargetOK, loopVars
<1>3. /\ ThreadsOK'
      /\ Exited' => Exited
      /\ \A q \in Page : Present(q) => Present(q)'
      /\ ~ CopyRefused(p) => Present(p)'
      /\ CopyRefused(p) => Exited \/ p \notin Lazy
      /\ Exited => Exited'
      /\ \A t \in Thread : thr'[t].st = "blocked" =>
           thr'[t] = thr[t] /\ (~ CopyRefused(p) => thr[t].pg # p)
  BY <1>2, CopyService
<1>4. pc'["main"] = "zeroed" /\ \A b \in Actor \ {"main"} : pc'[b] = pc[b]
  BY <1>1, GotoFacts DEF ZeroFallback
<1>5. ServedIsPresent'
  BY <1>1, <1>2, <1>3 DEF ServedIsPresent, PFTypeOK
<1>6. InstalledOK'
  <2>1. ASSUME NEW b \in Actor, pc'[b] = "record"
        PROVE  todo'[b] # <<>> /\ (~ Exited' => Present(Head(todo[b]))')
    <3>1. pc[b] = "record" /\ todo'[b] = todo[b] /\ todo[b] # <<>>
      BY <1>2, <1>4, <2>1 DEF InstalledOK
    <3>2. Head(todo[b]) \in Page
      BY <1>1, <3>1, PageSeq DEF PFTypeOK
    <3>3. ~ Exited' => Present(Head(todo[b]))
      BY <1>3, <3>1 DEF InstalledOK
    <3> QED
      BY <1>3, <3>1, <3>2, <3>3 DEF Present
  <2>2. ~ Exited' => Present(cur)'
    BY <1>2, <1>3 DEF Present
  <2> QED
    BY <2>1, <2>2, <1>2 DEF InstalledOK
<1>7. TargetOK'
  BY <1>4 DEF TargetOK
<1>8. \A t \in Thread : thr'[t].st # "blocked"
  BY <1>2, <1>3 DEF BlockedIsHandled, Exited
<1> QED
  BY <1>3, <1>5, <1>6, <1>7, <1>8 DEF ServiceRest, BlockedIsHandled

LEMMA MainService ==
  ASSUME ServiceInv, Main
  PROVE  ServiceRest
<1> USE DEF ServiceInv
<1>1. MainStep /\ LabelsOK /\ PFTypeOK /\ UFTypeOK
  BY TypeParts DEF Main
<1>2. CASE MainFetch
  BY <1>2, FetchService DEF MainFetch, loopVars
<1>3. CASE CheckServed \/ ZeroFallback \/ \E t \in Thread : ReadFault(t)
  BY <1>3, CheckService, ZeroService, ReadService
<1>4. ASSUME NEW t \in Thread, ReadEvent(t)
      PROVE  FALSE
  BY <1>4 DEF ReadEvent, ReadEventOf, EventPending, ThreadsOK
<1>5. CASE ScanNext \/ ScanDone
  <2>1. Undisturbed
    BY <1>1, <1>5, MainQuiet DEF ScanNext, ScanDone, MainFetch, Fetch, FetchSend, FetchInstall,
                                  FetchRecord, FetchFail
  <2>2. UNCHANGED <<ufVars, served, cur>> /\ pc["main"] = "scan"
    BY <1>5 DEF ScanNext, ScanDone, loopVars
  <2>3. \/ pc'["main"] = "scan"
        \/ pc'["main"] = "send" /\ todo'["main"] = <<cur>>
    BY <1>1, <1>5, GotoFacts DEF ScanNext, ScanDone, PFTypeOK
  <2> QED
    BY <2>1, <2>2, <2>3, IdleService
<1>6. CASE ZeroRecord
  <2>1. /\ UNCHANGED <<ufVars, sent, todo, cur>> /\ pc["main"] = "zeroed"
        /\ served' = served \cup {cur}
    BY <1>6 DEF ZeroRecord, loopVars
  <2>2. pc'["main"] \in {"enqueue", "finish"} /\ \A b \in Actor \ {"main"} : pc'[b] = pc[b]
    BY <1>1, <1>6, GotoFacts DEF ZeroRecord, AfterFetch
  <2>3. ThreadsOK' /\ ServedIsPresent'
    BY <2>1 DEF ThreadsOK, ServedIsPresent, InstalledOK, Waiting, Exited, Present, ufVars
  <2>4. TargetOK' /\ InstalledOK' /\ BlockedIsHandled'
    BY <2>1, <2>2 DEF TargetOK, InstalledOK, BlockedIsHandled, Exited, Present, ufVars
  <2> QED
    BY <2>3, <2>4 DEF ServiceRest
<1>7. CASE Close
  <2>1. /\ uffdOpen' = FALSE /\ UNCHANGED <<mem, mapped, served, sent, todo>> /\ pc["main"] = "close"
        /\ \A t \in Thread : \/ thr'[t].st = "run" /\ Waiting(t)
                             \/ thr'[t] = thr[t] /\ ~ Waiting(t)
    <3>1. ASSUME NEW t \in Thread
          PROVE  \/ thr'[t].st = "run" /\ Waiting(t)
                 \/ thr'[t] = thr[t] /\ ~ Waiting(t)
      <4>1. thr[t].st # "remove" /\ thr[t].st # "unmap"
        BY DEF ThreadsOK
      <4>2. thr'[t] = IF Waiting(t) THEN [st |-> "run", pg |-> 0] ELSE thr[t]
        BY <1>7, <4>1 DEF Close, CloseUffd
      <4> QED
        BY <4>2
    <3>2. /\ uffdOpen' = FALSE /\ UNCHANGED <<mem, mapped, served, sent, todo>>
          /\ pc["main"] = "close"
      BY <1>7 DEF Close, CloseUffd
    <3> QED
      BY <3>1, <3>2
  <2>2. pc'["main"] = "exited" /\ \A b \in Actor \ {"main"} : pc'[b] = pc[b]
    BY <1>1, <1>7, GotoFacts DEF Close
  <2>3. ThreadsOK'
    BY <2>1 DEF ThreadsOK, Waiting
  <2>4. Exited => Exited'
    <3>1. \A t \in Thread : thr[t].st = "gone" => thr'[t].st = "gone"
      BY <2>1 DEF Waiting
    <3> QED
      BY <3>1 DEF Exited
  <2>5. ServedIsPresent' /\ InstalledOK' /\ TargetOK'
    <3>1. ServedIsPresent'
      BY <2>1, <2>4 DEF ServedIsPresent, Present
    <3>2. TargetOK'
      BY <2>2 DEF TargetOK
    <3>3. InstalledOK'
      BY <2>1, <2>2, <2>4 DEF InstalledOK, Present
    <3> QED
      BY <3>1, <3>2, <3>3
  <2>6. BlockedIsHandled'
    <3>1. \A t \in Thread : thr[t].st # "blocked"
      BY <2>1 DEF BlockedIsHandled
    <3> QED
      BY <2>1, <3>1 DEF BlockedIsHandled
  <2> QED
    BY <2>3, <2>5, <2>6 DEF ServiceRest
<1>8. CASE \/ PollReturns \/ PollTimeout \/ ReadNothing \/ Fetched \/ Enqueue \/ EnqueueDone
           \/ Finish \/ StopWorker \/ JoinWorker \/ JoinEager
  <2>1. UNCHANGED <<ufVars, served>>
    BY <1>8 DEF PollReturns, PollTimeout, ReadNothing, Fetched, Enqueue, EnqueueDone, Finish,
                StopWorker, JoinWorker, JoinEager
  <2>2. pc["main"] \in {"poll", "read", "fetched", "enqueue", "finish", "stop", "join worker", "join eager"}
    BY <1>8 DEF PollReturns, PollTimeout, ReadNothing, Fetched, Enqueue, EnqueueDone, Finish,
                StopWorker, JoinWorker, JoinEager
  <2>3. ~ MainFetch
    BY <2>2 DEF MainFetch, Fetch, FetchSend, FetchInstall, FetchRecord, FetchFail
  <2>4. Undisturbed
    BY <1>1, <2>3, MainQuiet
  <2>5. pc'["main"] \in {"poll", "read", "stop", "enqueue", "finish", "join worker", "join eager", "close"}
    <3>1. CASE Enqueue
      BY <3>1 DEF Enqueue
    <3>2. CASE EnqueueDone \/ StopWorker
      BY <1>1, <3>2 DEF EnqueueDone, StopWorker, SignalWorker, Goto, LabelsOK
    <3>3. CASE \/ PollReturns \/ PollTimeout \/ ReadNothing \/ Fetched \/ Finish \/ JoinWorker
               \/ JoinEager
      BY <1>1, <3>3, GotoFacts DEF PollReturns, PollTimeout, ReadNothing, Fetched, AfterFetch, Finish,
                JoinWorker, JoinEager
    <3> QED
      BY <1>8, <3>1, <3>2, <3>3
  <2> QED
    BY <2>1, <2>2, <2>4, <2>5, IdleService DEF Handling
<1> QED
  BY <1>1, <1>2, <1>3, <1>4, <1>5, <1>6, <1>7, <1>8 DEF MainStep

LEMMA OutsideService ==
  ASSUME ServiceInv, NoLifecycleCalls, EnvironmentStep \/ \E t \in Thread : KernelStep(t)
  PROVE  ServiceRest
<1> USE DEF ServiceInv
<1>1. UFTypeOK /\ UNCHANGED <<served, sent, todo, pc, cur, uffdOpen>>
  BY OutsideQuiet, TypeParts
<1>2. ASSUME UNCHANGED ufVars
      PROVE  ServiceRest
  BY <1>1, <1>2, IdleService DEF Undisturbed
<1>3. ASSUME NEW t \in Thread, NEW p \in Page, Touch(t, p)
      PROVE  ServiceRest
  <2>1. thr[t].st = "run" /\ p \in Lazy /\ mem[p] = Absent /\ mapped' = mapped
    BY <1>3 DEF Touch, ThreadsOK
  <2>2. ~ Exited
    BY <2>1 DEF Exited
  <2>3. CASE uffdOpen
    <3>1. mem' = mem /\ thr' = [thr EXCEPT ![t] = [st |-> "pending", pg |-> p]]
      BY <1>3, <2>3 DEF Touch, Enter
    <3>2. /\ thr'[t].st = "pending" /\ thr'[t].pg = p
          /\ \A u \in Thread \ {t} : thr'[u] = thr[u]
      BY <1>1, <3>1 DEF UFTypeOK
    <3>3. ThreadsOK'
      BY <1>1, <2>1, <2>3, <3>1, <3>2 DEF ThreadsOK, Waiting
    <3> QED
      BY <1>1, <2>2, <3>1, <3>2, <3>3
         DEF ServiceRest, TargetOK, InstalledOK, ServedIsPresent, BlockedIsHandled, Present
  <2>4. CASE ~ uffdOpen
    <3>1. thr' = thr /\ mem' = [mem EXCEPT ![p] = Zero]
      BY <1>3, <2>4 DEF Touch
    <3>2. \A q : mem'[q] = mem[q] \/ (q = p /\ mem'[q] = Zero)
      BY <1>1, <3>1 DEF UFTypeOK
    <3>3. ThreadsOK'
      BY <1>1, <2>1, <2>4, <3>1 DEF ThreadsOK, Waiting
    <3> QED
      BY <1>1, <3>1, <3>2, <3>3, ContentAssumption
         DEF ServiceRest, TargetOK, InstalledOK, ServedIsPresent, BlockedIsHandled, Present, Exited
  <2> QED
    BY <2>3, <2>4
<1>4. CASE ProcessExit
  <2>1. /\ UNCHANGED <<mem, mapped>>
        /\ \A t \in Thread : thr'[t].st = "gone"
    BY <1>4 DEF ProcessExit
  <2> QED
    BY <1>1, <2>1 DEF ServiceRest, ThreadsOK, Waiting, TargetOK, InstalledOK, ServedIsPresent,
                      BlockedIsHandled, Exited
<1>5. CASE ProcessStep
  BY <1>3, <1>4, <1>5 DEF ProcessStep, Remove, Unmap, NoLifecycleCalls
<1>6. ASSUME NEW t \in Thread, KernelStep(t)
      PROVE  FALSE
  BY <1>6 DEF KernelStep, RemoveNoticed, RemoveDone, UnmapDone, ThreadsOK
<1>7. CASE EnvironmentStep /\ ~ ProcessStep
  BY <1>2, <1>7 DEF EnvironmentStep, Break, CriuFinishes, Signal
<1> QED
  BY <1>5, <1>6, <1>7

LEMMA ServiceStep ==
  ASSUME ServiceInv, NoLifecycleCalls, [Next]_vars
  PROVE  ServiceRest
<1> USE DEF ServiceInv
<1>1. ASSUME HelperQuiet
      PROVE  ServiceRest
  BY <1>1, IdleService DEF HelperQuiet
<1>2. CASE Main
  BY <1>2, MainService
<1>3. CASE Worker \/ (WorkerSpuriousWake /\ UNCHANGED <<loopVars, envVars, hotPos>>)
  <2>1. (WorkerStep \/ WorkerSpuriousWake) /\ UNCHANGED cur
    BY <1>3 DEF Worker, loopVars
  <2> QED
    BY <1>1, <2>1, WorkerQuiet, FetchService DEF WorkerFetch
<1>4. CASE Eager
  <2>1. EagerStep /\ UNCHANGED cur
    BY <1>4 DEF Eager, loopVars
  <2> QED
    BY <1>1, <2>1, EagerQuiet, FetchService DEF EagerFetching
<1>5. CASE EnvironmentStep \/ \E t \in Thread : KernelStep(t)
  BY <1>5, OutsideService
<1>6. CASE UNCHANGED vars
  BY <1>1, <1>6 DEF vars, fetchVars, loopVars, HelperQuiet, Undisturbed
<1> QED
  BY <1>2, <1>3, <1>4, <1>5, <1>6 DEF Next, Terminated

LEMMA ServiceAlways == NoLifecycleCalls => (Spec => []ServiceInv)
<1> SUFFICES ASSUME NoLifecycleCalls PROVE Spec => []ServiceInv
  OBVIOUS
<1>1. Init => ServiceInv
  <2>1. Init => TypeOK
    BY TypeInit
  <2>2. Init => ThreadsOK /\ TargetOK /\ InstalledOK /\ ServedIsPresent /\ BlockedIsHandled
    <3> SUFFICES ASSUME Init
                 PROVE  ThreadsOK /\ TargetOK /\ InstalledOK /\ ServedIsPresent /\ BlockedIsHandled
      OBVIOUS
    <3>1. mapped = Lazy /\ served = {} /\ \A t \in Thread : thr[t].st = "run"
      BY DEF Init, UFInit
    <3>2. pc["main"] = "poll" /\ pc["worker"] \in {"connect", "none"} /\ pc["eager"] \in {"connect", "none"}
      <4>1. PICK u \in {"connect", "none"}, e \in {"connect", "none"} :
              pc = [a \in Actor |-> CASE a = "main" -> "poll" [] a = "worker" -> u [] a = "eager" -> e]
        BY Zenon DEF Init
      <4> QED
        BY <4>1
    <3> QED
      BY <3>1, <3>2 DEF ThreadsOK, TargetOK, InstalledOK, ServedIsPresent, BlockedIsHandled, Waiting
  <2> QED
    BY <2>1, <2>2 DEF ServiceInv
<1>2. ServiceInv /\ [Next]_vars => ServiceInv'
  BY TypeStep, ServiceStep DEF ServiceInv, ServiceRest
<1> QED
  BY <1>1, <1>2, PTL DEF Spec

(***************************************************************************)
(* No fault falls through.  For a process that makes no lifecycle calls, a *)
(* thread whose message has been read is blocked only while the main       *)
(* thread still has that page to install: in particular the hit path,      *)
(* which wakes nobody, is never taken while the faulter sleeps.            *)
(***************************************************************************)
THEOREM NoFaultFallsThrough == NoLifecycleCalls => (Spec => []BlockedIsHandled)
<1>1. ServiceInv => BlockedIsHandled
  BY DEF ServiceInv
<1> QED
  BY <1>1, ServiceAlways, PTL

(***************************************************************************)
(* A page in the served set can be read, whichever thread put it there and *)
(* whether it was copied, found already mapped, or filled with zeros.      *)
(***************************************************************************)
THEOREM ServedSafety == NoLifecycleCalls => (Spec => []ServedIsPresent)
<1>1. ServiceInv => ServedIsPresent
  BY DEF ServiceInv
<1> QED
  BY <1>1, ServiceAlways, PTL

----------------------------------------------------------------------------
(* The handler implements demand paging.                                   *)

\* Who waits for what, as the service sees it.
Waiters == {w \in Thread \X Page : Waiting(w[1]) /\ thr[w[1]].pg = w[2]}

RefinementInv == ServiceInv /\ ContentInv

\* A step of the service, or one it does not see.
ServiceStepOK == Service!Next \/ UNCHANGED Service!dpVars

LEMMA WaitersSame ==
  ASSUME \A t \in Thread : /\ Waiting(t)' <=> Waiting(t)
                           /\ Waiting(t) => thr'[t].pg = thr[t].pg
  PROVE  Waiters' = Waiters
<1>1. \A w \in Thread \X Page : w[1] \in Thread
  OBVIOUS
<1>2. \A w \in Thread \X Page : w \in Waiters' <=> w \in Waiters
  BY <1>1 DEF Waiters
<1> QED
  BY <1>2 DEF Waiters

LEMMA NobodyWaits ==
  ASSUME \A t \in Thread : ~ Waiting(t)
  PROVE  Waiters = {}
<1>1. \A w \in Thread \X Page : w[1] \in Thread
  OBVIOUS
<1> QED
  BY <1>1 DEF Waiters

\* The service sees nothing of a step that leaves all this alone.
LEMMA Unseen ==
  ASSUME mem' = mem, up'["main"] = up["main"], uffdOpen' = uffdOpen, Exited' <=> Exited,
         Waiters' = Waiters
  PROVE  ServiceStepOK
<1>1. UNCHANGED <<Waiters, mem, ~ up["main"], ~ uffdOpen \/ Exited>>
  OBVIOUS
<1> QED
  BY <1>1 DEF ServiceStepOK, Service!dpVars, Waiters

LEMMA UnseenQuiet ==
  ASSUME UNCHANGED ufVars, up'["main"] = up["main"]
  PROVE  ServiceStepOK
<1>1. mem' = mem /\ thr' = thr /\ uffdOpen' = uffdOpen
  BY DEF ufVars
<1>2. Waiters' = Waiters
  BY <1>1, WaitersSame DEF Waiting
<1>3. Exited' <=> Exited
  BY <1>1 DEF Exited
<1> QED
  BY <1>1, <1>2, <1>3, Unseen

\* UFFDIO_COPY of a page's own bytes, or of zeros once degraded, is an arrival.
LEMMA CopyArrives ==
  ASSUME RefinementInv, NEW p \in Page, NEW data, CopyEffect(p, data), up'["main"] = up["main"],
         data = Reply(p) \/ (data = Zero /\ ~ up["main"])
  PROVE  ServiceStepOK
<1>1. UFTypeOK
  BY TypeParts DEF RefinementInv, ServiceInv
<1>2. CASE CopyRefused(p) \/ mem[p] # Absent
  BY <1>2, UnseenQuiet DEF CopyEffect
<1>3. CASE ~ CopyRefused(p) /\ mem[p] = Absent
  <2>1. /\ mem' = [mem EXCEPT ![p] = data] /\ uffdOpen' = uffdOpen
        /\ thr' = [t \in Thread |-> IF Waiting(t) /\ thr[t].pg = p
                                    THEN [st |-> "run", pg |-> 0] ELSE thr[t]]
    BY <1>3 DEF CopyEffect
  <2>2. \A t \in Thread : \/ thr'[t] = thr[t] /\ ~ (Waiting(t) /\ thr[t].pg = p)
                          \/ thr'[t].st = "run" /\ Waiting(t) /\ thr[t].pg = p
    BY <2>1
  <2>3. \A w \in Thread \X Page : w \in Waiters' <=> w \in Waiters /\ w[2] # p
    <3>1. \A w \in Thread \X Page : w[1] \in Thread
      OBVIOUS
    <3> QED
      BY <2>2, <3>1 DEF Waiters, Waiting
  <2>4. Waiters' = Waiters \ (Thread \X {p})
    <3>1. \A w \in Thread \X Page : w \in Thread \X {p} <=> w[2] = p
      OBVIOUS
    <3>2. Waiters \subseteq Thread \X Page /\ Waiters' \subseteq Thread \X Page
      BY DEF Waiters
    <3> QED
      BY <2>3, <3>1, <3>2
  <2>5. Exited' <=> Exited
    BY <2>2 DEF Exited, Waiting
  <2>6. UNCHANGED <<~ up["main"], ~ uffdOpen \/ Exited>>
    BY <2>1, <2>5
  <2>7. Service!Arrive(p)
    <3>1. \/ mem' = [mem EXCEPT ![p] = Reply(p)]
          \/ ~ up["main"] /\ mem' = [mem EXCEPT ![p] = Zero]
      BY <2>1
    <3> QED
      BY <1>3, <2>4, <2>6, <3>1 DEF Service!Arrive, Waiters
  <2> QED
    BY <2>7 DEF ServiceStepOK, Service!Next
<1> QED
  BY <1>2, <1>3

\* An answer reaches the page it was asked for: the fetch of any of the three threads.
LEMMA FetchImplements ==
  ASSUME RefinementInv, NEW a \in Actor, Fetch(a)
  PROVE  ServiceStepOK
<1> USE DEF RefinementInv, ServiceInv
<1>1. PFTypeOK /\ up' = up
  BY FetchFrame, TypeParts
<1>2. CASE FetchInstall(a)
  <2>1. todo[a] # <<>> /\ sent[a] = todo[a] /\ todo[a] \in Seq(Page)
    BY <1>1, <1>2 DEF FetchInstall, Installs, ContentInv, PairingOK, PFTypeOK
  <2>2. Head(todo[a]) \in Page
    BY <2>1, PageSeq
  <2>3. CopyEffect(Head(todo[a]), Reply(Head(todo[a])))
    BY <1>2, <2>1 DEF FetchInstall, Installs
  <2> QED
    BY <1>1, <2>2, <2>3, CopyArrives
<1>3. CASE ~ FetchInstall(a)
  <2>1. UNCHANGED ufVars
    BY <1>3 DEF Fetch, FetchSend, FetchRecord, FetchFail
  <2> QED
    BY <1>1, <2>1, UnseenQuiet
<1> QED
  BY <1>2, <1>3

LEMMA MainImplements ==
  ASSUME RefinementInv, MainStep
  PROVE  ServiceStepOK
<1> USE DEF RefinementInv, ServiceInv
<1>1. PFTypeOK /\ UFTypeOK /\ LabelsOK
  BY TypeParts
<1>2. CASE MainFetch
  BY <1>2, FetchImplements DEF MainFetch
<1>3. CASE ZeroFallback
  <2>1. cur \in Page /\ ~ up["main"] /\ up' = up /\ CopyEffect(cur, Zero)
    BY <1>3, TypeParts DEF ZeroFallback, BlockOK, ContentInv, DegradedOK
  <2> QED
    BY <2>1, CopyArrives
<1>4. CASE Close
  <2>1. /\ mem' = mem /\ uffdOpen' = FALSE /\ up'["main"] = FALSE
        /\ \A t \in Thread : ~ Waiting(t)'
    <3>1. \A t \in Thread : thr'[t] = IF Waiting(t) THEN [st |-> "run", pg |-> 0] ELSE thr[t]
      BY <1>4 DEF Close, CloseUffd, ThreadsOK
    <3> QED
      BY <1>1, <1>4, <3>1 DEF Close, CloseUffd, Waiting, PFTypeOK
  <2>2. Waiters' = {}
    <3>1. \A w \in Thread \X Page : w[1] \in Thread
      OBVIOUS
    <3> QED
      BY <2>1, <3>1 DEF Waiters
  <2>3. Service!Release
    BY <2>1, <2>2 DEF Service!Release, Waiters
  <2> QED
    BY <2>3 DEF ServiceStepOK, Service!Next
<1>5. ASSUME NEW t \in Thread, ReadFault(t)
      PROVE  ServiceStepOK
  <2>1. /\ mem' = mem /\ uffdOpen' = uffdOpen /\ up' = up /\ thr[t].st = "pending"
        /\ thr' = [thr EXCEPT ![t] = [st |-> "blocked", pg |-> thr[t].pg]]
    BY <1>5 DEF ReadFault, ReadFaultOf, FaultPending, Enter
  <2>2. /\ thr'[t].st = "blocked" /\ thr'[t].pg = thr[t].pg
        /\ \A u \in Thread \ {t} : thr'[u] = thr[u]
    BY <1>1, <2>1 DEF UFTypeOK
  <2>3. Waiters' = Waiters
    BY <2>1, <2>2, WaitersSame DEF Waiting
  <2>4. Exited' <=> Exited
    BY <2>1, <2>2 DEF Exited
  <2> QED
    BY <2>1, <2>3, <2>4, Unseen
<1>6. ASSUME NEW t \in Thread, ReadEvent(t)
      PROVE  FALSE
  BY <1>6 DEF ReadEvent, ReadEventOf, EventPending, ThreadsOK
<1>7. CASE ~ (MainFetch \/ ZeroFallback \/ Close \/ \E t \in Thread : ReadFault(t) \/ ReadEvent(t))
  <2>1. UNCHANGED ufVars /\ up' = up
    BY <1>7 DEF MainStep, PollReturns, PollTimeout, ReadNothing, CheckServed, ScanNext, ScanDone,
                ZeroRecord, Fetched, Enqueue, EnqueueDone, Finish, StopWorker, JoinWorker, JoinEager
  <2> QED
    BY <2>1, UnseenQuiet
<1> QED
  BY <1>2, <1>3, <1>4, <1>5, <1>6, <1>7

LEMMA OutsideImplements ==
  ASSUME RefinementInv, NoLifecycleCalls, EnvironmentStep \/ \E t \in Thread : KernelStep(t)
  PROVE  ServiceStepOK
<1> USE DEF RefinementInv, ServiceInv
<1>1. PFTypeOK /\ UFTypeOK
  BY TypeParts
<1>2. ASSUME NEW t \in Thread, NEW p \in Page, Touch(t, p), up' = up
      PROVE  ServiceStepOK
  <2>1. thr[t].st = "run" /\ mem[p] = Absent /\ uffdOpen' = uffdOpen
    BY <1>2 DEF Touch
  <2>2. ~ Exited
    BY <2>1 DEF Exited
  <2>3. CASE uffdOpen
    <3>1. mem' = mem /\ thr' = [thr EXCEPT ![t] = [st |-> "pending", pg |-> p]]
      BY <1>2, <2>3 DEF Touch, Enter
    <3>2. /\ thr'[t].st = "pending" /\ thr'[t].pg = p
          /\ \A u \in Thread \ {t} : thr'[u] = thr[u]
      BY <1>1, <3>1 DEF UFTypeOK
    <3>3. \A w \in Thread \X Page : w \in Waiters' <=> w \in Waiters \/ w = <<t, p>>
      <4>1. \A w \in Thread \X Page : w[1] \in Thread /\ w[2] \in Page /\ w = <<w[1], w[2]>>
        OBVIOUS
      <4>2. \A w \in Thread \X Page : w \in Waiters <=> Waiting(w[1]) /\ thr[w[1]].pg = w[2]
        BY DEF Waiters
      <4>3. \A w \in Thread \X Page : w \in Waiters' <=> Waiting(w[1])' /\ thr'[w[1]].pg = w[2]
        BY DEF Waiters
      <4>4. Waiting(t)' /\ ~ Waiting(t) /\ \A u \in Thread \ {t} : Waiting(u)' <=> Waiting(u)
        BY <2>1, <3>2 DEF Waiting
      <4> QED
        BY <3>2, <4>1, <4>2, <4>3, <4>4
    <3>4. Waiters' = Waiters \cup {<<t, p>>}
      BY <3>3 DEF Waiters
    <3>5. \A q \in Page : <<t, q>> \notin Waiters
      BY <2>1 DEF Waiters, Waiting
    <3>6. ~ Exited'
      BY <3>2 DEF Exited
    <3>7. Service!Fault(t, p)
      BY <1>2, <2>1, <2>2, <2>3, <3>1, <3>4, <3>5, <3>6 DEF Service!Fault, Waiters
    <3> QED
      BY <3>7 DEF ServiceStepOK, Service!Next
  <2>4. CASE ~ uffdOpen
    <3>1. thr' = thr /\ mem' = [mem EXCEPT ![p] = Zero] /\ ~ up["main"]
      BY <1>2, <2>4 DEF Touch, ContentInv, DegradedOK
    <3>2. \A u \in Thread : ~ Waiting(u)
      BY <2>4 DEF ThreadsOK
    <3>3. Waiters = {} /\ Waiters' = Waiters
      BY <3>1, <3>2, NobodyWaits, WaitersSame DEF Waiting
    <3>4. Waiters' = Waiters \ (Thread \X {p})
      BY <3>3
    <3>5. Exited' <=> Exited
      BY <3>1 DEF Exited
    <3>6. Service!Arrive(p)
      BY <1>2, <2>1, <3>1, <3>4, <3>5 DEF Service!Arrive, Waiters
    <3> QED
      BY <3>6 DEF ServiceStepOK, Service!Next
  <2> QED
    BY <2>3, <2>4
<1>3. ASSUME ProcessExit, up' = up
      PROVE  ServiceStepOK
  <2>1. mem' = mem /\ uffdOpen' = uffdOpen /\ \A t \in Thread : thr'[t].st = "gone"
    BY <1>3 DEF ProcessExit
  <2>2. Exited' /\ Waiters' = {}
    <3>1. \A w \in Thread \X Page : w[1] \in Thread
      OBVIOUS
    <3> QED
      BY <2>1, <3>1 DEF Exited, Waiters, Waiting
  <2>3. Service!Release
    BY <1>3, <2>1, <2>2 DEF Service!Release, Waiters
  <2> QED
    BY <2>3 DEF ServiceStepOK, Service!Next
<1>4. CASE ProcessStep
  <2>1. up' = up
    BY <1>4 DEF ProcessStep, handlerVars, fetchVars
  <2> QED
    BY <1>2, <1>3, <1>4, <2>1 DEF ProcessStep, Remove, Unmap, NoLifecycleCalls
<1>5. ASSUME NEW a \in Actor, Break(a)
      PROVE  ServiceStepOK
  <2>1. UNCHANGED ufVars /\ up' = [up EXCEPT ![a] = FALSE]
    BY <1>5 DEF Break
  <2>2. CASE a # "main"
    <3>1. up'["main"] = up["main"]
      BY <1>1, <2>1, <2>2 DEF PFTypeOK
    <3> QED
      BY <2>1, <3>1, UnseenQuiet
  <2>3. CASE a = "main"
    <3>1. ~ up'["main"]
      BY <1>1, <2>1, <2>3 DEF PFTypeOK
    <3>2. mem' = mem /\ thr' = thr /\ uffdOpen' = uffdOpen
      BY <2>1 DEF ufVars
    <3>3. Waiters' = Waiters /\ (Exited' <=> Exited)
      BY <3>2, WaitersSame DEF Waiting, Exited
    <3>4. Service!Degrade
      BY <3>1, <3>2, <3>3 DEF Service!Degrade, Waiters
    <3> QED
      BY <3>4 DEF ServiceStepOK, Service!Next
  <2> QED
    BY <2>2, <2>3
<1>6. CASE CriuFinishes \/ Signal
  <2>1. UNCHANGED ufVars /\ up' = up
    BY <1>6 DEF CriuFinishes, Signal, fetchVars
  <2> QED
    BY <2>1, UnseenQuiet
<1>7. ASSUME NEW t \in Thread, KernelStep(t)
      PROVE  FALSE
  BY <1>7 DEF KernelStep, RemoveNoticed, RemoveDone, UnmapDone, ThreadsOK
<1> QED
  BY <1>4, <1>5, <1>6, <1>7 DEF EnvironmentStep

LEMMA StepImplements ==
  ASSUME RefinementInv, NoLifecycleCalls, [Next]_vars
  PROVE  ServiceStepOK
<1>1. TypeOK
  BY DEF RefinementInv, ServiceInv
<1>2. HelperQuiet => ServiceStepOK
  BY UnseenQuiet DEF HelperQuiet
<1>3. CASE Main
  BY <1>3, MainImplements DEF Main
<1>4. CASE Worker \/ (WorkerSpuriousWake /\ UNCHANGED <<loopVars, envVars, hotPos>>)
  <2>1. (WorkerStep \/ WorkerSpuriousWake) /\ UNCHANGED cur
    BY <1>4 DEF Worker, loopVars
  <2> QED
    BY <1>1, <1>2, <2>1, WorkerQuiet, FetchImplements DEF WorkerFetch
<1>5. CASE Eager
  <2>1. EagerStep /\ UNCHANGED cur
    BY <1>5 DEF Eager, loopVars
  <2> QED
    BY <1>1, <1>2, <2>1, EagerQuiet, FetchImplements DEF EagerFetching
<1>6. CASE EnvironmentStep \/ \E t \in Thread : KernelStep(t)
  BY <1>6, OutsideImplements
<1>7. CASE UNCHANGED vars
  BY <1>7, UnseenQuiet DEF vars, fetchVars
<1> QED
  BY <1>3, <1>4, <1>5, <1>6, <1>7 DEF Next, Terminated

LEMMA InitImplements == Init => Service!Init
<1> SUFFICES ASSUME Init PROVE Service!Init
  OBVIOUS
<1>1. /\ mem = [p \in Page |-> Absent] /\ uffdOpen = TRUE /\ up["main"] = TRUE
      /\ \A t \in Thread : thr[t].st = "run"
  BY DEF Init, UFInit
<1>2. ~ Exited
  BY <1>1, AddrAssumption DEF Exited
<1>3. Waiters = {}
  BY <1>1, NobodyWaits DEF Waiting
<1> QED
  BY <1>1, <1>2, <1>3 DEF Service!Init, Waiters

(***************************************************************************)
(* For a process that makes no lifecycle calls the handler implements      *)
(* demand paging: whichever of the three threads installs a page, and      *)
(* however they interleave, every step of theirs is the arrival of a       *)
(* page's own bytes (or of zeros once degraded), which releases those who  *)
(* wait for that page and nobody else, or a step the process cannot see.   *)
(***************************************************************************)
THEOREM HandlerImplementsService == NoLifecycleCalls => (Spec => ImplementsService)
<1> SUFFICES ASSUME NoLifecycleCalls PROVE Spec => ImplementsService
  OBVIOUS
<1>1. Init => Service!Init
  BY InitImplements
<1>2. ServiceInv /\ ContentInv /\ [Next]_vars => [Service!Next]_(Service!dpVars)
  BY StepImplements DEF RefinementInv, ServiceStepOK
<1> QED
  BY <1>1, <1>2, ServiceAlways, ContentAlways, PTL DEF Spec, ImplementsService, Service!Spec

=============================================================================
