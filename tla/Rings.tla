-------------------------------- MODULE Rings --------------------------------
(***************************************************************************)
(* The two rings of lazy_handler.c as the code has them, an array and its  *)
(* indices: the fault history and the queue of the prefetch worker.  The   *)
(* other modules speak of sequences; RingAndPolicyProofs shows that these  *)
(* are what the rings hold.                                                *)
(***************************************************************************)
EXTENDS FaultHistory

----------------------------------------------------------------------------
(* struct fault_history: pos is the cell the next page goes to.            *)

HistoryRing ==
  [addrs : [0 .. HistorySize - 1 -> Int], pos : 0 .. HistorySize - 1, count : 0 .. HistorySize]

RingPush(r, p) ==
  [addrs |-> [r.addrs EXCEPT ![r.pos] = p],
   pos   |-> (r.pos + 1) % HistorySize,
   count |-> IF r.count < HistorySize THEN r.count + 1 ELSE r.count]

\* a[i] of detect_stride, i = 0 .. 3.
Recent(r, i) == r.addrs[(r.pos - 4 + i + HistorySize) % HistorySize]

RingStride(r) ==
  LET d1 == Recent(r, 1) - Recent(r, 0)
      d2 == Recent(r, 2) - Recent(r, 1)
      d3 == Recent(r, 3) - Recent(r, 2)
  IN  IF /\ r.count >= 4
         /\ d1 = d2 /\ d2 = d3 /\ d1 # 0
         /\ (IF d1 < 0 THEN - d1 ELSE d1) \in 1 .. MaxStride
      THEN d1
      ELSE 0

\* The pages in the ring, oldest first: they end at the cell before pos.
Pushed(r) ==
  [i \in 1 .. r.count |-> r.addrs[(r.pos - r.count + i - 1 + HistorySize) % HistorySize]]

----------------------------------------------------------------------------
(* The queue of struct async_prefetch_ctx, of any size.                    *)

RequestRing(Size) ==
  {q \in [queue : [0 .. Size - 1 -> Int], head : 0 .. Size - 1, tail : 0 .. Size - 1,
          count : 0 .. Size] : q.tail = (q.head + q.count) % Size}

\* async_prefetch_enqueue's search for one target.
RingHas(q, p, Size) == \E j \in 0 .. q.count - 1 : q.queue[(q.head + j) % Size] = p

\* What it then does with a target: a duplicate or a full ring leaves it out.
RingEnqueue(q, p, Size) ==
  IF RingHas(q, p, Size) \/ q.count = Size
  THEN q
  ELSE [q EXCEPT !.queue[q.tail] = p, !.tail = (q.tail + 1) % Size, !.count = @ + 1]

\* One turn of the loop that fills the worker's batch.
RingOldest(q) == q.queue[q.head]
RingTake(q, Size) == [q EXCEPT !.head = (q.head + 1) % Size, !.count = @ - 1]

\* The requests in the ring, oldest first.
Waiting(q, Size) == [i \in 1 .. q.count |-> q.queue[(q.head + i - 1) % Size]]

=============================================================================
