------------------------- MODULE LazyHandlerProofs -------------------------
(***************************************************************************)
(* Theorems about the lazy handler, for every number of pages, threads,    *)
(* queue entries, batch and history sizes, and every environment.          *)
(***************************************************************************)
EXTENDS LazyHandler, TLAPS, SequenceTheorems

USE DEF Actor


----------------------------------------------------------------------------
(* Sequences of pages, and the types of the operators.                     *)

LEMMA PageSeq ==
  /\ <<>> \in Seq(Page) /\ Len(<<>>) = 0
  /\ \A s \in Seq(Page) : Len(s) \in Nat
  /\ \A s \in Seq(Page) : s # <<>> =>
       Head(s) \in Page /\ Tail(s) \in Seq(Page) /\ Len(s) > 0 /\ Len(Tail(s)) = Len(s) - 1
  /\ \A s \in Seq(Page), p \in Page : Append(s, p) \in Seq(Page) /\ Len(Append(s, p)) = Len(s) + 1
<1>1. <<>> \in Seq(Page) /\ Len(<<>>) = 0
  BY EmptySeq
<1>2. \A s \in Seq(Page) : Len(s) \in Nat
  BY LenProperties
<1>3. ASSUME NEW s \in Seq(Page), s # <<>>
      PROVE  Head(s) \in Page /\ Tail(s) \in Seq(Page) /\ Len(s) > 0 /\ Len(Tail(s)) = Len(s) - 1
  <2>1. Len(s) \in Nat \ {0}
    BY <1>3, EmptySeq
  <2> QED
    BY <1>3, <2>1, HeadTailProperties
<1>4. ASSUME NEW s \in Seq(Page), NEW p \in Page
      PROVE  Append(s, p) \in Seq(Page) /\ Len(Append(s, p)) = Len(s) + 1
  BY AppendProperties
<1> QED
  BY <1>1, <1>2, <1>3, <1>4

LEMMA SplitType ==
  ASSUME NEW s \in Seq(Page), NEW n \in 0 .. Len(s)
  PROVE  /\ SubSeq(s, 1, n) \in Seq(Page)
         /\ SubSeq(s, n + 1, Len(s)) \in Seq(Page)
         /\ Len(SubSeq(s, n + 1, Len(s))) = Len(s) - n
<1>1. Len(s) \in Nat /\ n \in Nat /\ n <= Len(s)
  BY PageSeq
<1>2. \A i \in 1 .. Len(s) : s[i] \in Page
  BY ElementOfSeq
<1>3. \A i \in 1 .. n : s[i] \in Page
  BY <1>1, <1>2
<1>4. \A i \in n + 1 .. Len(s) : s[i] \in Page
  BY <1>1, <1>2
<1>5. SubSeq(s, 1, n) \in Seq(Page)
  BY <1>1, <1>3, SubSeqProperties
<1>6. /\ SubSeq(s, n + 1, Len(s)) \in Seq(Page)
      /\ Len(SubSeq(s, n + 1, Len(s))) = IF n + 1 <= Len(s) THEN Len(s) - (n + 1) + 1 ELSE 0
  BY <1>1, <1>4, SubSeqProperties
<1> QED
  BY <1>1, <1>5, <1>6

LEMMA PageIsInt == \A p \in Page : p \in Int
BY DEF Page

LEMMA ZeroIsPage == 0 \in Page
BY AddrAssumption DEF Page

\* Every assumption the module makes about its constants.
LEMMA Constants ==
  /\ AddrPages \in Nat \ {0} /\ Lazy \subseteq Page \ {0} /\ Image \subseteq Lazy
  /\ QueueSize \in Nat \ {0} /\ BatchSize \in Nat \ {0}
  /\ HotPages \in Seq(Page) /\ EagerBatch \in Nat \ {0}
  /\ HistorySize \in Nat /\ HistorySize >= 4
  /\ MaxSeq \in Nat /\ MaxStrideCount \in Nat /\ Cooldown \in Nat \ {0}
  /\ InitialConfig \in Config
BY AddrAssumption, QueueAssumption, HotAssumption, HistoryAssumption, PolicyAssumption,
   LoopAssumption

\* A candidate is an address, however far the stride reaches.
LEMMA CandidateType ==
  ASSUME NEW h, NEW p \in Int, NEW i \in Int, DetectStride(h) \in Int
  PROVE  Candidate(h, p, i, AddrPages) \in Page
<1> DEFINE s == IF DetectStride(h) # 0 THEN DetectStride(h) ELSE 1
<1> HIDE DEF s
<1>1. p + i * s \in Int
  BY DEF s
<1>2. AddrPages \in Nat \ {0}
  BY Constants
<1>3. (p + i * s) % AddrPages \in 0 .. AddrPages - 1
  BY <1>1, <1>2
<1> QED
  BY <1>3 DEF Candidate, s, Page

LEMMA StrideType ==
  ASSUME NEW h \in Seq(Page)
  PROVE  DetectStride(h) \in Int
<1>1. CASE Len(h) >= 4
  <2>1. \A i \in 1 .. Len(h) : h[i] \in Int
    BY ElementOfSeq, PageIsInt
  <2>2. Len(h) \in Nat /\ Len(h) \in 1 .. Len(h) /\ Len(h) - 1 \in 1 .. Len(h)
    BY <1>1, PageSeq
  <2>3. h[Len(h)] - h[Len(h) - 1] \in Int
    BY <2>1, <2>2
  <2> QED
    BY <2>3 DEF DetectStride
<1>2. CASE ~ (Len(h) >= 4)
  BY <1>2 DEF DetectStride
<1> QED
  BY <1>1, <1>2

LEMMA HistoryPushType ==
  ASSUME NEW h \in Seq(Page), Len(h) <= HistorySize, NEW p \in Page
  PROVE  HistoryPush(h, p) \in Seq(Page) /\ Len(HistoryPush(h, p)) <= HistorySize
<1>1. CASE Len(h) < HistorySize
  BY <1>1, Constants, PageSeq DEF HistoryPush
<1>2. CASE ~ (Len(h) < HistorySize)
  <2>1. h # <<>> /\ Len(h) = HistorySize /\ Len(h) \in Nat
    BY <1>2, Constants, PageSeq
  <2>2. Tail(h) \in Seq(Page) /\ Len(Tail(h)) = Len(h) - 1
    BY <2>1, PageSeq
  <2>3. Append(Tail(h), p) \in Seq(Page) /\ Len(Append(Tail(h), p)) = Len(Tail(h)) + 1
    BY <2>2, PageSeq
  <2> QED
    BY <1>2, <2>1, <2>2, <2>3 DEF HistoryPush
<1> QED
  BY <1>1, <1>2

\* The controller maps configurations to configurations, whatever it is fed.
LEMMA AdjustType ==
  ASSUME NEW cfg \in Config, NEW win
  PROVE  Adjust(cfg, win) \in Config
<1>1. Disabled \in Config
  BY Constants DEF Disabled, Config
<1>2. WhileDisabled(cfg, win) \in Config
  BY DEF WhileDisabled, Config
<1>3. Halve(cfg) \in Config
  <2>1. \A n \in Nat : n \div 2 \in Nat
    OBVIOUS
  <2>2. cfg.seq \div 2 \in Nat /\ cfg.stride \div 2 \in Nat
    BY <2>1 DEF Config
  <2>3. [cfg EXCEPT !.seq = cfg.seq \div 2, !.stride = cfg.stride \div 2] \in Config
    BY <2>2 DEF Config
  <2> QED
    BY <1>1, <2>3 DEF Halve
<1>4. Grow(cfg) \in Config
  <2>1. GrowTo(cfg.seq, 2, MaxSeq) \in Nat /\ GrowTo(cfg.stride, 1, MaxStrideCount) \in Nat
    BY Constants DEF GrowTo, Config
  <2> QED
    BY <2>1 DEF Grow, Config
<1> QED
  BY <1>1, <1>2, <1>3, <1>4 DEF Adjust

----------------------------------------------------------------------------
(* Type correctness.                                                       *)

LEMMA TypeInit == Init => TypeOK
<1> SUFFICES ASSUME Init PROVE TypeOK
  OBVIOUS
<1>1. UFTypeOK
  BY Constants, ZeroIsPage DEF Init, UFInit, UFTypeOK, Content, ThreadState
<1>2. PFTypeOK
  BY PageSeq DEF Init, PFTypeOK
<1>3. /\ pc \in [Actor -> MainPC \cup WorkerPC \cup EagerPC]
      /\ pc["main"] = "poll"
      /\ pc["worker"] \in {"connect", "none"}
      /\ pc["eager"] \in {"connect", "none"}
  <2>1. PICK u \in {"connect", "none"}, e \in {"connect", "none"} :
          pc = [a \in Actor |-> CASE a = "main" -> "poll" [] a = "worker" -> u [] a = "eager" -> e]
    BY Zenon DEF Init
  <2> QED
    BY <2>1 DEF MainPC, WorkerPC, EagerPC, FetchPC
<1>4. PWTypeOK
  <2>1. queue = <<>> /\ taken = <<>> /\ stop = FALSE /\ filtered = 0
        /\ counts = [prefetched |-> 0, dropped |-> 0, duplicates |-> 0]
    BY DEF Init
  <2>2. Len(queue) <= QueueSize
    BY <2>1, Constants, PageSeq
  <2>3. pc["worker"] \in WorkerPC
    BY <1>3 DEF WorkerPC
  <2> QED
    BY <2>1, <2>2, <2>3, PageSeq DEF PWTypeOK
<1>5. EFTypeOK
  BY <1>3, Constants, PageSeq, ZeroIsPage DEF Init, EFTypeOK, EagerPC
<1>6. FLTypeOK
  <2>1. /\ cur = 0 /\ scan = 0 /\ cands = <<>> /\ grew = FALSE /\ history = <<>>
        /\ config = InitialConfig /\ window = 0 /\ faults = 0 /\ hits = 0
        /\ last = [prefetched |-> 0, dropped |-> 0, duplicates |-> 0]
        /\ sock = "quiet" /\ gotSignal = FALSE
    BY DEF Init
  <2>2. Len(history) <= HistorySize
    BY <2>1, Constants, PageSeq
  <2>3. pc["main"] \in MainPC
    BY <1>3 DEF MainPC
  <2> QED
    BY <2>1, <2>2, <2>3, PageSeq, ZeroIsPage, Constants DEF FLTypeOK
<1> QED
  BY <1>1, <1>2, <1>3, <1>4, <1>5, <1>6 DEF TypeOK

\* UFFDIO_COPY of a page's content, or of zeros.
LEMMA CopyType ==
  ASSUME UFTypeOK, NEW p \in Page, NEW data \in Content, CopyEffect(p, data)
  PROVE  UFTypeOK'
<1>1. CASE CopyRefused(p) \/ mem[p] # Absent
  BY <1>1 DEF CopyEffect, ufVars, UFTypeOK
<1>2. CASE ~ (CopyRefused(p) \/ mem[p] # Absent)
  <2>1. mem' = [mem EXCEPT ![p] = data] /\ mapped' = mapped /\ uffdOpen' = uffdOpen
    BY <1>2 DEF CopyEffect
  <2>2. thr' \in [Thread -> [st : ThreadState, pg : Page]]
    BY <1>2, ZeroIsPage DEF CopyEffect, UFTypeOK, ThreadState
  <2> QED
    BY <2>1, <2>2 DEF UFTypeOK
<1> QED
  BY <1>1, <1>2

LEMMA ReplyType ==
  ASSUME NEW p \in Page
  PROVE  Reply(p) \in Content
BY DEF Reply, Content

\* A connection's thread moving to a label of the pipelined fetch.
LEMMA GotoFetchType ==
  ASSUME TypeOK, NEW a \in Actor, NEW l \in FetchPC, Goto(a, l)
  PROVE  /\ pc' \in [Actor -> MainPC \cup WorkerPC \cup EagerPC]
         /\ pc'["main"] \in MainPC /\ pc'["worker"] \in WorkerPC /\ pc'["eager"] \in EagerPC
BY DEF TypeOK, FLTypeOK, PWTypeOK, EFTypeOK, Goto, MainPC, WorkerPC, EagerPC

LEMMA FetchType ==
  ASSUME TypeOK, NEW a \in Actor, Fetch(a)
  PROVE  /\ UFTypeOK' /\ PFTypeOK'
         /\ pc' \in [Actor -> MainPC \cup WorkerPC \cup EagerPC]
         /\ pc'["main"] \in MainPC /\ pc'["worker"] \in WorkerPC /\ pc'["eager"] \in EagerPC
<1> USE DEF FetchPC
<1>1. CASE FetchSend(a)
  <2>1. sent[a] \o todo[a] \in Seq(Page)
    BY ConcatProperties DEF TypeOK, PFTypeOK
  <2>2. UFTypeOK' /\ PFTypeOK'
    BY <1>1, <2>1 DEF TypeOK, FetchSend, UFTypeOK, PFTypeOK, ufVars
  <2> QED
    BY <1>1, <2>2, GotoFetchType DEF FetchSend
<1>2. CASE FetchInstall(a)
  <2>1. Head(todo[a]) \in Page /\ Head(sent[a]) \in Page
        /\ Tail(todo[a]) \in Seq(Page) /\ Tail(sent[a]) \in Seq(Page)
    BY <1>2, PageSeq DEF TypeOK, PFTypeOK, FetchInstall
  <2>2. UFTypeOK'
    BY <1>2, <2>1, CopyType, ReplyType DEF FetchInstall, Installs, TypeOK
  <2>3. PFTypeOK'
    BY <1>2, <2>1 DEF TypeOK, PFTypeOK, FetchInstall
  <2>4. \E l \in FetchPC : Goto(a, l)
    BY <1>2 DEF FetchInstall, AfterTarget
  <2> QED
    BY <2>2, <2>3, <2>4, GotoFetchType
<1>3. CASE FetchRecord(a)
  <2>1. Head(todo[a]) \in Page /\ Tail(todo[a]) \in Seq(Page)
    BY <1>3, PageSeq DEF TypeOK, PFTypeOK, FetchRecord
  <2>2. UFTypeOK' /\ PFTypeOK'
    BY <1>3, <2>1 DEF TypeOK, FetchRecord, UFTypeOK, PFTypeOK, ufVars
  <2>3. \E l \in FetchPC : Goto(a, l)
    BY <1>3 DEF FetchRecord, AfterTarget
  <2> QED
    BY <2>2, <2>3, GotoFetchType
<1>4. CASE FetchFail(a)
  <2>1. UFTypeOK' /\ PFTypeOK'
    BY <1>4, PageSeq DEF TypeOK, FetchFail, UFTypeOK, PFTypeOK, ufVars
  <2> QED
    BY <1>4, <2>1, GotoFetchType DEF FetchFail
<1> QED
  BY <1>1, <1>2, <1>3, <1>4 DEF Fetch

LEMMA CountsNat ==
  ASSUME TypeOK
  PROVE  /\ counts.prefetched \in Nat /\ counts.dropped \in Nat /\ counts.duplicates \in Nat
         /\ filtered \in Nat /\ counts.prefetched + filtered \in Nat
<1>1. /\ counts.prefetched \in Nat /\ counts.dropped \in Nat /\ counts.duplicates \in Nat
      /\ filtered \in Nat
  BY DEF TypeOK, PWTypeOK
<1> QED
  BY <1>1

LEMMA WorkerType ==
  ASSUME TypeOK, Worker \/ (WorkerSpuriousWake /\ UNCHANGED <<loopVars, envVars, hotPos>>)
  PROVE  TypeOK'
<1> USE DEF TypeOK, UFTypeOK, PFTypeOK, PWTypeOK, EFTypeOK, FLTypeOK,
            ufVars, workerVars, loopVars, envVars, WorkerPC, FetchPC
<1> UNCHANGED <<loopVars, envVars, hotPos>>
  BY DEF Worker
<1>1. CASE WorkerConnect
  <2>1. up' \in [Actor -> BOOLEAN] /\ UNCHANGED <<ufVars, served, sent, todo, workerVars>>
    BY <1>1 DEF WorkerConnect, Connect
  <2>2. \E l \in WorkerPC : Goto("worker", l)
    BY <1>1 DEF WorkerConnect, Connect
  <2>3. /\ pc' \in [Actor -> MainPC \cup WorkerPC \cup EagerPC]
        /\ pc'["worker"] \in WorkerPC /\ pc'["main"] = pc["main"] /\ pc'["eager"] = pc["eager"]
    <3>1. PICK l \in WorkerPC : pc' = [pc EXCEPT !["worker"] = l]
      BY <2>2 DEF Goto
    <3> HIDE DEF WorkerPC, FetchPC
    <3> QED
      BY <3>1 DEF Actor
  <2>4. UFTypeOK' /\ PFTypeOK'
    BY <2>1
  <2>5. PWTypeOK' /\ EFTypeOK' /\ FLTypeOK'
    BY <2>1, <2>3
  <2> HIDE DEF UFTypeOK, PFTypeOK, PWTypeOK, EFTypeOK, FLTypeOK
  <2> QED
    BY <2>3, <2>4, <2>5
<1>2. CASE WorkerSleep
  BY <1>2 DEF WorkerSleep, Goto
<1>3. CASE WorkerSpuriousWake
  BY <1>3 DEF WorkerSpuriousWake, Goto
<1>4. CASE WorkerStop
  BY <1>4 DEF WorkerStop, Goto
<1>5. CASE WorkerTake
  <2> DEFINE n == IF Len(queue) < BatchSize THEN Len(queue) ELSE BatchSize
  <2>1. n \in 0 .. Len(queue) /\ Len(queue) \in Nat
    BY Constants, PageSeq
  <2> HIDE DEF n
  <2>2. /\ SubSeq(queue, 1, n) \in Seq(Page)
        /\ SubSeq(queue, n + 1, Len(queue)) \in Seq(Page)
        /\ Len(SubSeq(queue, n + 1, Len(queue))) = Len(queue) - n
    BY <2>1, SplitType
  <2>3. Len(SubSeq(queue, n + 1, Len(queue))) <= QueueSize
    <3>1. Len(queue) <= QueueSize /\ QueueSize \in Nat /\ n \in Nat
      BY <2>1, Constants
    <3>2. Len(queue) - n <= QueueSize
      BY <2>1, <3>1
    <3> QED
      BY <2>2, <3>2
  <2>4. taken' = SubSeq(queue, 1, n) /\ queue' = SubSeq(queue, n + 1, Len(queue))
    BY <1>5 DEF WorkerTake, n
  <2>5. todo' \in [Actor -> Seq(Page)]
    BY <1>5, PageSeq DEF WorkerTake
  <2> QED
    BY <1>5, <2>2, <2>3, <2>4, <2>5 DEF WorkerTake, Goto
<1>6. CASE WorkerFilter
  <2>1. Head(taken) \in Page /\ Tail(taken) \in Seq(Page)
    BY <1>6, PageSeq DEF WorkerFilter
  <2>2. Append(todo["worker"], Head(taken)) \in Seq(Page)
    BY <2>1, PageSeq
  <2> QED
    BY <1>6, <2>1, <2>2 DEF WorkerFilter
<1>7. CASE WorkerFiltered
  BY <1>7, PageSeq DEF WorkerFiltered, Goto
<1>8. CASE WorkerFetch
  <2>1. /\ UFTypeOK' /\ PFTypeOK'
        /\ pc' \in [Actor -> MainPC \cup WorkerPC \cup EagerPC]
        /\ pc'["main"] \in MainPC /\ pc'["worker"] \in WorkerPC /\ pc'["eager"] \in EagerPC
    BY <1>8, FetchType DEF WorkerFetch
  <2> QED
    BY <1>8, <2>1 DEF WorkerFetch
<1>9. CASE WorkerCount
  <2>1. counts' \in [prefetched : Nat, dropped : Nat, duplicates : Nat]
    <3>1. counts.prefetched + filtered \in Nat
      BY CountsNat
    <3>2. counts' = [counts EXCEPT !.prefetched = counts.prefetched + filtered]
      BY <1>9 DEF WorkerCount
    <3> QED
      BY <3>1, <3>2
  <2> QED
    BY <1>9, <2>1 DEF WorkerCount, Goto
<1>10. CASE WorkerGiveUp
  BY <1>10 DEF WorkerGiveUp, Goto
<1> QED
  BY <1>1, <1>2, <1>3, <1>4, <1>5, <1>6, <1>7, <1>8, <1>9, <1>10 DEF Worker, WorkerStep

LEMMA EagerType ==
  ASSUME TypeOK, Eager
  PROVE  TypeOK'
<1> USE DEF TypeOK, UFTypeOK, PFTypeOK, PWTypeOK, EFTypeOK, FLTypeOK,
            ufVars, workerVars, loopVars, envVars, EagerPC, FetchPC
<1> UNCHANGED <<workerVars, loopVars, envVars>>
  BY DEF Eager
<1>1. CASE EagerConnect
  <2>1. up' \in [Actor -> BOOLEAN] /\ UNCHANGED <<ufVars, served, sent, todo, hotPos>>
    BY <1>1 DEF EagerConnect, Connect
  <2>2. \E l \in EagerPC \ {"none", "exited"} : Goto("eager", l)
    BY <1>1 DEF EagerConnect, Connect
  <2>3. /\ pc' \in [Actor -> MainPC \cup WorkerPC \cup EagerPC]
        /\ pc'["eager"] \in EagerPC /\ pc'["main"] = pc["main"] /\ pc'["worker"] = pc["worker"]
    <3>1. PICK l \in EagerPC : pc' = [pc EXCEPT !["eager"] = l]
      BY <2>2 DEF Goto
    <3> HIDE DEF EagerPC, FetchPC
    <3> QED
      BY <3>1 DEF Actor
  <2>4. UFTypeOK' /\ PFTypeOK'
    BY <2>1
  <2>5. PWTypeOK' /\ EFTypeOK' /\ FLTypeOK'
    BY <2>1, <2>3
  <2> HIDE DEF UFTypeOK, PFTypeOK, PWTypeOK, EFTypeOK, FLTypeOK
  <2> QED
    BY <2>3, <2>4, <2>5
<1>2. CASE EagerScan
  <2>1. Len(HotPages) \in Nat
    BY Constants, PageSeq
  <2>2. hotPos \in 1 .. Len(HotPages) /\ hotPos' \in 1 .. Len(HotPages) + 1
    BY <1>2, <2>1 DEF EagerScan
  <2>3. Append(todo["eager"], HotPages[hotPos]) \in Seq(Page)
    BY <2>2, Constants, ElementOfSeq, PageSeq
  <2>4. todo' \in [Actor -> Seq(Page)]
    <3>1. CASE HotPages[hotPos] \in served
      <4>1. todo' = todo
        BY <1>2, <3>1 DEF EagerScan
      <4> QED
        BY <4>1
    <3>2. CASE HotPages[hotPos] \notin served
      <4>1. todo' = [todo EXCEPT !["eager"] = Append(todo["eager"], HotPages[hotPos])]
        BY <1>2, <3>2 DEF EagerScan
      <4> QED
        BY <2>3, <4>1
    <3> QED
      BY <3>1, <3>2
  <2>5. pc' = pc \/ Goto("eager", "send")
    BY <1>2 DEF EagerScan
  <2> QED
    <3>1. UNCHANGED <<ufVars, served, up, sent>> /\ Len(HotPages) \in Nat
      BY <1>2, <2>1 DEF EagerScan
    <3>2. pc' \in [Actor -> MainPC \cup WorkerPC \cup EagerPC]
          /\ pc'["main"] = pc["main"] /\ pc'["worker"] = pc["worker"] /\ pc'["eager"] \in EagerPC
      BY <2>5 DEF Goto
    <3> QED
      BY <2>2, <2>4, <3>1, <3>2
<1>3. CASE EagerEndOfFile
  BY <1>3 DEF EagerEndOfFile, Goto
<1>4. CASE EagerFetching
  <2>1. /\ UFTypeOK' /\ PFTypeOK'
        /\ pc' \in [Actor -> MainPC \cup WorkerPC \cup EagerPC]
        /\ pc'["main"] \in MainPC /\ pc'["worker"] \in WorkerPC /\ pc'["eager"] \in EagerPC
    BY <1>4, FetchType DEF EagerFetching
  <2> QED
    BY <1>4, <2>1 DEF EagerFetching
<1>5. CASE EagerNextBatch
  BY <1>5 DEF EagerNextBatch, Goto
<1>6. CASE EagerDone
  BY <1>6 DEF EagerDone, Goto
<1> QED
  BY <1>1, <1>2, <1>3, <1>4, <1>5, <1>6 DEF Eager, EagerStep

----------------------------------------------------------------------------
(* The parts of TypeOK the main thread disturbs, each with a name.         *)

LabelsOK ==
  /\ pc \in [Actor -> MainPC \cup WorkerPC \cup EagerPC]
  /\ pc["main"] \in MainPC /\ pc["worker"] \in WorkerPC /\ pc["eager"] \in EagerPC

QueueOK ==
  /\ queue \in Seq(Page) /\ Len(queue) <= QueueSize
  /\ stop \in BOOLEAN
  /\ counts \in [prefetched : Nat, dropped : Nat, duplicates : Nat]
  /\ taken \in Seq(Page)
  /\ filtered \in Nat

BlockOK == cur \in Page /\ scan \in Nat /\ cands \in Seq(Page) /\ grew \in BOOLEAN

HistoryOK ==
  /\ history \in Seq(Page) /\ Len(history) <= HistorySize
  /\ config \in Config
  /\ window \in Nat
  /\ last \in [prefetched : Nat, dropped : Nat, duplicates : Nat]
  /\ faults \in Nat /\ hits \in Nat

EnvOK == sock \in {"quiet", "ready", "done"} /\ gotSignal \in BOOLEAN

FileOK == hotPos \in 1 .. Len(HotPages) + 1

LEMMA TypeParts ==
  TypeOK <=> UFTypeOK /\ PFTypeOK /\ LabelsOK /\ QueueOK /\ BlockOK /\ HistoryOK /\ EnvOK /\ FileOK
BY DEF TypeOK, PWTypeOK, EFTypeOK, FLTypeOK, LabelsOK, QueueOK, BlockOK, HistoryOK, EnvOK, FileOK

LEMMA TypeAssembled ==
  UFTypeOK' /\ PFTypeOK' /\ LabelsOK' /\ QueueOK' /\ BlockOK' /\ HistoryOK' /\ EnvOK' /\ FileOK'
    => TypeOK'
BY DEF TypeOK, PWTypeOK, EFTypeOK, FLTypeOK, LabelsOK, QueueOK, BlockOK, HistoryOK, EnvOK, FileOK

\* What a step leaves alone keeps its type.
LEMMA Unchanged ==
  /\ UFTypeOK /\ UNCHANGED ufVars => UFTypeOK'
  /\ PFTypeOK /\ UNCHANGED <<served, up, sent, todo>> => PFTypeOK'
  /\ QueueOK /\ UNCHANGED workerVars => QueueOK'
  /\ BlockOK /\ UNCHANGED <<cur, scan, cands, grew>> => BlockOK'
  /\ HistoryOK /\ UNCHANGED <<history, config, window, last, faults, hits>> => HistoryOK'
  /\ EnvOK /\ UNCHANGED envVars => EnvOK'
  /\ FileOK /\ UNCHANGED hotPos => FileOK'
<1>1. UFTypeOK /\ UNCHANGED ufVars => UFTypeOK'
  BY DEF ufVars, UFTypeOK
<1>2. PFTypeOK /\ UNCHANGED <<served, up, sent, todo>> => PFTypeOK'
  BY DEF PFTypeOK
<1>3. QueueOK /\ UNCHANGED workerVars => QueueOK'
  BY DEF QueueOK, workerVars
<1>4. BlockOK /\ UNCHANGED <<cur, scan, cands, grew>> => BlockOK'
  BY DEF BlockOK
<1>5. HistoryOK /\ UNCHANGED <<history, config, window, last, faults, hits>> => HistoryOK'
  BY DEF HistoryOK
<1>6. EnvOK /\ UNCHANGED envVars => EnvOK'
  BY DEF EnvOK, envVars
<1>7. FileOK /\ UNCHANGED hotPos => FileOK'
  BY DEF FileOK
<1> QED
  BY <1>1, <1>2, <1>3, <1>4, <1>5, <1>6, <1>7

LEMMA GotoMain ==
  ASSUME LabelsOK, NEW l \in MainPC, Goto("main", l)
  PROVE  LabelsOK'
BY DEF LabelsOK, Goto

LEMMA SignalLabels ==
  ASSUME LabelsOK, NEW l \in MainPC, SignalWorker([pc EXCEPT !["main"] = l])
  PROVE  LabelsOK'
<1>1. pc' = [[pc EXCEPT !["main"] = l] EXCEPT !["worker"] = IF @ = "asleep" THEN "check" ELSE @]
  BY DEF SignalWorker
<1>2. /\ pc'["main"] = l /\ pc'["eager"] = pc["eager"]
      /\ pc'["worker"] \in {pc["worker"], "check"}
      /\ DOMAIN pc' = Actor /\ pc' = [a \in Actor |-> pc'[a]]
  BY <1>1 DEF LabelsOK
<1>3. pc'["worker"] \in WorkerPC
  BY <1>2 DEF LabelsOK, WorkerPC
<1> QED
  BY <1>2, <1>3 DEF LabelsOK

LEMMA EnterType ==
  ASSUME UFTypeOK, NEW t \in Thread, NEW st \in ThreadState, NEW p \in Page, Enter(t, st, p)
  PROVE  thr' \in [Thread -> [st : ThreadState, pg : Page]]
BY DEF UFTypeOK, Enter

LEMMA ThreadPage ==
  ASSUME UFTypeOK, NEW t \in Thread
  PROVE  thr[t].pg \in Page /\ thr[t].st \in ThreadState
BY DEF UFTypeOK

LEMMA ForgetType == Forget => BlockOK'
BY PageSeq, ZeroIsPage DEF Forget, BlockOK

----------------------------------------------------------------------------
(* The main thread, one lemma per group of steps.                          *)

MainRest == UFTypeOK' /\ PFTypeOK' /\ LabelsOK' /\ QueueOK' /\ BlockOK' /\ HistoryOK' /\ EnvOK'

LEMMA PollType ==
  ASSUME TypeOK, PollReturns \/ PollTimeout \/ ReadNothing
  PROVE  MainRest
<1>1. UNCHANGED <<ufVars, served, up, sent, todo, workerVars, loopVars>> /\ EnvOK'
  BY TypeParts DEF PollReturns, PollTimeout, ReadNothing, EnvOK, envVars
<1>2. \E l \in {"read", "stop", "poll"} : Goto("main", l)
  BY DEF PollReturns, PollTimeout, ReadNothing
<1>3. LabelsOK'
  BY <1>2, TypeParts, GotoMain DEF MainPC
<1> QED
  BY <1>1, <1>3, TypeParts, Unchanged DEF MainRest, loopVars

LEMMA ReadType ==
  ASSUME TypeOK, NEW t \in Thread, ReadFault(t) \/ ReadEvent(t)
  PROVE  MainRest
<1>1. thr[t].pg \in Page
  BY TypeParts, ThreadPage
<1>2. \E st \in {"blocked", "removing", "unmapping"} : Enter(t, st, thr[t].pg)
  BY DEF ReadFault, ReadEvent, ReadFaultOf, ReadEventOf
<1>3. thr' \in [Thread -> [st : ThreadState, pg : Page]]
  BY <1>1, <1>2, TypeParts, EnterType DEF ThreadState
<1>4. UFTypeOK'
  BY <1>3, TypeParts DEF ReadFault, ReadEvent, ReadFaultOf, ReadEventOf, UFTypeOK
<1>5. \E l \in {"check", "stop", "poll"} : Goto("main", l)
  BY DEF ReadFault, ReadEvent
<1>6. LabelsOK'
  BY <1>5, TypeParts, GotoMain DEF MainPC
<1>7. UNCHANGED <<served, up, sent, todo, workerVars, envVars>>
  BY DEF ReadFault, ReadEvent, quiet, workerVars
<1>8. BlockOK' /\ HistoryOK'
  <2>1. CASE ReadFault(t)
    <3>1. cur' = thr[t].pg /\ UNCHANGED <<scan, cands, grew>>
      BY <2>1 DEF ReadFault
    <3>2. faults' = faults + 1 /\ window' = window + 1 /\ UNCHANGED <<history, config, last, hits>>
      BY <2>1 DEF ReadFault
    <3> QED
      BY <1>1, <3>1, <3>2, TypeParts DEF BlockOK, HistoryOK
  <2>2. CASE ReadEvent(t)
    BY <2>2, TypeParts, Unchanged DEF ReadEvent, loopVars
  <2> QED
    BY <2>1, <2>2
<1> QED
  BY <1>4, <1>6, <1>7, <1>8, TypeParts, Unchanged DEF MainRest

LEMMA ScanType ==
  ASSUME TypeOK, CheckServed \/ ScanNext \/ ScanDone
  PROVE  MainRest
<1>1. UNCHANGED <<ufVars, served, up, sent, workerVars, envVars>>
      /\ UNCHANGED <<history, config, window, last, faults>>
  BY DEF CheckServed, ScanNext, ScanDone, quiet, workerVars, loopVars
<1>2. CASE CheckServed
  <2>1. UNCHANGED todo /\ \E l \in {"poll", "scan"} : Goto("main", l)
    BY <1>2 DEF CheckServed
  <2>2. LabelsOK'
    BY <2>1, TypeParts, GotoMain DEF MainPC
  <2>3. BlockOK'
    <3>1. CASE Forget
      BY <3>1, ForgetType
    <3>2. CASE scan' = 1 /\ UNCHANGED <<cur, cands, grew>>
      BY <3>2, TypeParts DEF BlockOK
    <3> QED
      BY <1>2, <3>1, <3>2 DEF CheckServed
  <2>4. HistoryOK'
    <3>1. hits' = hits \/ hits' = hits + 1
      BY <1>2 DEF CheckServed
    <3> QED
      BY <1>1, <3>1, TypeParts DEF HistoryOK
  <2> QED
    BY <1>1, <2>1, <2>2, <2>3, <2>4, TypeParts, Unchanged DEF MainRest
<1>3. CASE ScanNext
  <2>1. Candidate(history, cur, scan, AddrPages) \in Page
    <3>1. history \in Seq(Page) /\ cur \in Int /\ scan \in Int
      BY TypeParts, PageIsInt DEF HistoryOK, BlockOK
    <3> QED
      BY <3>1, StrideType, CandidateType
  <2>2. cands' = cands \/ cands' = Append(cands, Candidate(history, cur, scan, AddrPages))
    BY <1>3 DEF ScanNext
  <2>3. cands' \in Seq(Page)
    BY <2>1, <2>2, TypeParts, PageSeq DEF BlockOK
  <2>4. scan' = scan + 1 /\ UNCHANGED <<cur, grew, hits, pc, todo>>
    BY <1>3 DEF ScanNext
  <2>5. BlockOK'
    BY <2>3, <2>4, TypeParts DEF BlockOK
  <2>6. LabelsOK'
    BY <2>4, TypeParts DEF LabelsOK
  <2> QED
    BY <1>1, <2>4, <2>5, <2>6, TypeParts, Unchanged DEF MainRest
<1>4. CASE ScanDone
  <2>1. <<cur>> \in Seq(Page)
    <3>1. cur \in Page
      BY TypeParts DEF BlockOK
    <3>2. <<cur>> = Append(<<>>, cur)
      OBVIOUS
    <3>3. Append(<<>>, cur) \in Seq(Page)
      BY <3>1, PageSeq
    <3> QED
      BY <3>2, <3>3
  <2>2. PFTypeOK'
    BY <1>1, <1>4, <2>1, TypeParts DEF ScanDone, PFTypeOK
  <2>3. LabelsOK'
    BY <1>4, TypeParts, GotoMain DEF ScanDone, MainPC, FetchPC
  <2> QED
    BY <1>1, <1>4, <2>2, <2>3, TypeParts, Unchanged DEF ScanDone, MainRest, loopVars
<1> QED
  BY <1>2, <1>3, <1>4

LEMMA ServeType ==
  ASSUME TypeOK, MainFetch \/ ZeroFallback \/ ZeroRecord \/ Fetched
  PROVE  MainRest
<1>1. UNCHANGED <<workerVars, loopVars, envVars>>
  BY DEF MainFetch, ZeroFallback, ZeroRecord, Fetched
<1>2. CASE MainFetch
  <2>1. UFTypeOK' /\ PFTypeOK' /\ LabelsOK'
    BY <1>2, FetchType DEF MainFetch, LabelsOK
  <2> QED
    BY <1>1, <2>1, TypeParts, Unchanged DEF MainRest, loopVars
<1>3. CASE ~ MainFetch
  <2>1. \E l \in {"zeroed", "enqueue", "finish"} : Goto("main", l)
    BY <1>3 DEF ZeroFallback, ZeroRecord, Fetched, AfterFetch
  <2>2. LabelsOK'
    BY <2>1, TypeParts, GotoMain DEF MainPC
  <2>3. UFTypeOK'
    BY <1>3, CopyType, TypeParts, Unchanged DEF ZeroFallback, ZeroRecord, Fetched, Content, BlockOK
  <2>4. PFTypeOK'
    BY <1>3, TypeParts DEF ZeroFallback, ZeroRecord, Fetched, PFTypeOK, BlockOK
  <2> QED
    BY <1>1, <2>2, <2>3, <2>4, TypeParts, Unchanged DEF MainRest, loopVars
<1> QED
  BY <1>2, <1>3

LEMMA EnqueueType ==
  ASSUME TypeOK, Enqueue \/ EnqueueDone
  PROVE  MainRest
<1>1. UNCHANGED <<ufVars, served, up, sent, todo, envVars>>
      /\ UNCHANGED <<history, config, window, last, faults, hits>>
  BY DEF Enqueue, EnqueueDone, loopVars
<1>2. CASE Enqueue
  <2>1. cands # <<>> /\ UNCHANGED <<pc, stop, taken, filtered, cur, scan>>
    BY <1>2 DEF Enqueue
  <2>2. Head(cands) \in Page /\ Tail(cands) \in Seq(Page) /\ Len(cands) \in Nat
    BY <2>1, TypeParts, PageSeq DEF BlockOK
  <2>3. cands' \in {Tail(cands), <<>>} /\ grew' \in {TRUE, grew}
    BY <1>2 DEF Enqueue
  <2>4. BlockOK'
    BY <2>1, <2>2, <2>3, TypeParts, PageSeq DEF BlockOK
  <2>5. queue' = queue \/ (~ QueueFull /\ queue' = Append(queue, Head(cands)))
    BY <1>2 DEF Enqueue
  <2>6. queue' \in Seq(Page) /\ Len(queue') <= QueueSize
    <3>1. queue \in Seq(Page) /\ Len(queue) <= QueueSize /\ Len(queue) \in Nat /\ QueueSize \in Nat
      BY TypeParts, PageSeq, Constants DEF QueueOK
    <3>2. Append(queue, Head(cands)) \in Seq(Page) /\ Len(Append(queue, Head(cands))) = Len(queue) + 1
      BY <2>2, <3>1, PageSeq
    <3>3. ~ QueueFull => Len(queue) + 1 <= QueueSize
      BY <3>1 DEF QueueFull
    <3> QED
      BY <2>5, <3>1, <3>2, <3>3
  <2>7. counts' \in [prefetched : Nat, dropped : Nat, duplicates : Nat]
    <3>1. counts.duplicates + 1 \in Nat /\ counts.dropped + Len(cands) \in Nat
      BY <2>2, CountsNat
    <3>2. \/ counts' = counts
          \/ counts' = [counts EXCEPT !.duplicates = counts.duplicates + 1]
          \/ counts' = [counts EXCEPT !.dropped = counts.dropped + Len(cands)]
      BY <1>2 DEF Enqueue
    <3> QED
      BY <3>1, <3>2, TypeParts DEF QueueOK
  <2>8. QueueOK' /\ LabelsOK'
    BY <2>1, <2>6, <2>7, TypeParts DEF QueueOK, LabelsOK
  <2> QED
    BY <1>1, <2>4, <2>8, TypeParts, Unchanged DEF MainRest
<1>3. CASE EnqueueDone
  <2>1. LabelsOK'
    BY <1>3, TypeParts, GotoMain, SignalLabels DEF EnqueueDone, MainPC
  <2> QED
    BY <1>1, <1>3, <2>1, TypeParts, Unchanged DEF EnqueueDone, MainRest, loopVars
<1> QED
  BY <1>2, <1>3

LEMMA FinishType ==
  ASSUME TypeOK, Finish
  PROVE  MainRest
<1>1. UNCHANGED <<ufVars, served, up, sent, todo, workerVars, envVars, faults, hits>>
  BY DEF Finish, quiet, workerVars
<1>2. history' \in Seq(Page) /\ Len(history') <= HistorySize
  BY TypeParts, HistoryPushType DEF Finish, HistoryOK, BlockOK
<1>3. config' \in Config
  <2>1. config' = config \/ config' = Adjust(config, WindowSummary)
    BY DEF Finish
  <2> QED
    BY <2>1, TypeParts, AdjustType DEF HistoryOK
<1>4. last' \in {last, counts} /\ window' \in {window, 0}
  BY DEF Finish
<1>5. HistoryOK'
  BY <1>1, <1>2, <1>3, <1>4, TypeParts DEF HistoryOK, QueueOK
<1>6. BlockOK' /\ LabelsOK'
  BY TypeParts, ForgetType, GotoMain DEF Finish, MainPC
<1> QED
  BY <1>1, <1>5, <1>6, TypeParts, Unchanged DEF MainRest

LEMMA ShutdownType ==
  ASSUME TypeOK, StopWorker \/ JoinWorker \/ JoinEager \/ Close
  PROVE  MainRest
<1>1. UNCHANGED <<served, sent, todo, queue, counts, taken, filtered, loopVars, envVars>>
  BY DEF StopWorker, JoinWorker, JoinEager, Close, workerVars
<1>2. \/ \E l \in {"join worker", "join eager", "close", "exited"} : Goto("main", l)
      \/ SignalWorker([pc EXCEPT !["main"] = "join worker"])
  BY DEF StopWorker, JoinWorker, JoinEager, Close
<1>3. LabelsOK'
  BY <1>2, TypeParts, GotoMain, SignalLabels DEF MainPC
<1>4. stop' \in {stop, TRUE} /\ up' \in {up, [up EXCEPT !["main"] = FALSE]}
  BY DEF StopWorker, JoinWorker, JoinEager, Close, workerVars
<1>5. QueueOK' /\ PFTypeOK'
  BY <1>1, <1>4, TypeParts DEF QueueOK, PFTypeOK
<1>6. UFTypeOK'
  <2>1. CASE Close
    <3>1. \A t \in Thread : thr[t] \in [st : ThreadState, pg : Page]
      BY TypeParts DEF UFTypeOK
    <3>2. \A r \in [st : ThreadState, pg : Page] :
            /\ [r EXCEPT !.st = "removing"] \in [st : ThreadState, pg : Page]
            /\ [r EXCEPT !.st = "unmapping"] \in [st : ThreadState, pg : Page]
            /\ [st |-> "run", pg |-> 0] \in [st : ThreadState, pg : Page]
      BY ZeroIsPage DEF ThreadState
    <3>3. thr' \in [Thread -> [st : ThreadState, pg : Page]]
      BY <2>1, <3>1, <3>2, ZeroIsPage DEF Close, CloseUffd, ThreadState
    <3> QED
      BY <2>1, <3>3, TypeParts DEF Close, CloseUffd, UFTypeOK
  <2>2. CASE ~ Close
    BY <2>2, TypeParts, Unchanged DEF StopWorker, JoinWorker, JoinEager
  <2> QED
    BY <2>1, <2>2
<1> QED
  BY <1>1, <1>3, <1>5, <1>6, TypeParts, Unchanged DEF MainRest, loopVars

LEMMA MainType ==
  ASSUME TypeOK, Main
  PROVE  TypeOK'
<1>1. MainStep /\ UNCHANGED hotPos
  BY DEF Main
<1>2. MainRest
  BY <1>1, PollType, ReadType, ScanType, ServeType, EnqueueType, FinishType, ShutdownType DEF MainStep
<1>3. FileOK'
  BY <1>1, TypeParts, Unchanged
<1> QED
  BY <1>2, <1>3, TypeAssembled DEF MainRest

----------------------------------------------------------------------------
(* The process, the kernel, CRIU, the network and the signal.              *)

LEMMA ProcessType ==
  ASSUME UFTypeOK, ProcessStep \/ \E t \in Thread : KernelStep(t)
  PROVE  UFTypeOK'
<1>1. ASSUME NEW t \in Thread, NEW p \in Page, Touch(t, p) \/ Remove(t, p) \/ Unmap(t, p)
      PROVE  UFTypeOK'
  <2>1. thr' = thr \/ \E st \in {"pending", "remove", "unmap"} : Enter(t, st, p)
    BY <1>1 DEF Touch, Remove, Unmap
  <2>2. thr' \in [Thread -> [st : ThreadState, pg : Page]]
    <3>1. CASE thr' = thr
      BY <3>1 DEF UFTypeOK
    <3>2. CASE \E st \in {"pending", "remove", "unmap"} : Enter(t, st, p)
      BY <3>2, EnterType DEF ThreadState
    <3> QED
      BY <2>1, <3>1, <3>2
  <2>3. mem' \in {mem, [mem EXCEPT ![p] = Zero], [mem EXCEPT ![p] = Absent]}
    BY <1>1 DEF Touch, Remove, Unmap
  <2>4. mapped' \in {mapped, mapped \ {p}} /\ uffdOpen' = uffdOpen
    BY <1>1 DEF Touch, Remove, Unmap
  <2> QED
    BY <2>2, <2>3, <2>4 DEF UFTypeOK, Content
<1>2. CASE ProcessExit
  BY <1>2, ZeroIsPage DEF ProcessExit, UFTypeOK, ThreadState
<1>3. ASSUME NEW t \in Thread, KernelStep(t)
      PROVE  UFTypeOK'
  <2>1. Enter(t, "zapping", thr[t].pg) \/ Enter(t, "run", 0)
    BY <1>3 DEF KernelStep, RemoveNoticed, RemoveDone, UnmapDone
  <2>2. thr' \in [Thread -> [st : ThreadState, pg : Page]]
    BY <2>1, ThreadPage, EnterType, ZeroIsPage DEF ThreadState
  <2>3. mem' \in {mem, [mem EXCEPT ![thr[t].pg] = Absent]} /\ UNCHANGED <<mapped, uffdOpen>>
    BY <1>3 DEF KernelStep, RemoveNoticed, RemoveDone, UnmapDone
  <2> QED
    BY <2>2, <2>3 DEF UFTypeOK, Content
<1> QED
  BY <1>1, <1>2, <1>3 DEF ProcessStep

LEMMA OutsideType ==
  ASSUME TypeOK, EnvironmentStep \/ \E t \in Thread : KernelStep(t)
  PROVE  TypeOK'
<1>1. CASE ProcessStep \/ \E t \in Thread : KernelStep(t)
  <2>1. UFTypeOK'
    BY <1>1, TypeParts, ProcessType
  <2>2. UNCHANGED <<served, up, sent, todo, pc, workerVars, loopVars, envVars, hotPos>>
    BY <1>1 DEF ProcessStep, KernelStep, handlerVars, fetchVars
  <2>3. LabelsOK'
    BY <2>2, TypeParts DEF LabelsOK
  <2> QED
    BY <2>1, <2>2, <2>3, TypeParts, Unchanged, TypeAssembled DEF loopVars
<1>2. ASSUME NEW a \in Actor, Break(a), UNCHANGED <<workerVars, loopVars, envVars, hotPos>>
      PROVE  TypeOK'
  <2>1. UNCHANGED <<ufVars, pc>> /\ PFTypeOK'
    BY <1>2, TypeParts DEF Break, PFTypeOK
  <2>2. LabelsOK'
    BY <2>1, TypeParts DEF LabelsOK
  <2> QED
    BY <1>2, <2>1, <2>2, TypeParts, Unchanged, TypeAssembled DEF loopVars
<1>3. CASE (CriuFinishes \/ Signal) /\ UNCHANGED hotPos
  <2>1. UNCHANGED <<ufVars, served, up, sent, todo, pc, workerVars, loopVars, hotPos>> /\ EnvOK'
    BY <1>3, TypeParts DEF CriuFinishes, Signal, fetchVars, EnvOK
  <2>2. LabelsOK'
    BY <2>1, TypeParts DEF LabelsOK
  <2> QED
    BY <2>1, <2>2, TypeParts, Unchanged, TypeAssembled DEF loopVars
<1> QED
  BY <1>1, <1>2, <1>3 DEF EnvironmentStep

LEMMA TypeStep == TypeOK /\ [Next]_vars => TypeOK'
<1> SUFFICES ASSUME TypeOK, [Next]_vars PROVE TypeOK'
  OBVIOUS
<1>1. CASE UNCHANGED vars
  BY <1>1 DEF vars, ufVars, fetchVars, workerVars, loopVars, envVars,
              TypeOK, UFTypeOK, PFTypeOK, PWTypeOK, EFTypeOK, FLTypeOK
<1>2. CASE Next
  BY <1>1, <1>2, WorkerType, EagerType, MainType, OutsideType DEF Next, Terminated
<1> QED
  BY <1>1, <1>2

(***************************************************************************)
(* Every reachable state has the types of the source: in particular the    *)
(* queue never exceeds its array, whatever is enqueued, and a candidate is *)
(* an address whatever stride was detected.                                *)
(***************************************************************************)
THEOREM TypeCorrect == Spec => []TypeOK
<1>1. Init => TypeOK
  BY TypeInit
<1>2. TypeOK /\ [Next]_vars => TypeOK'
  BY TypeStep
<1> QED
  BY <1>1, <1>2, PTL DEF Spec

=============================================================================
