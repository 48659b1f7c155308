------------------------ MODULE RingAndPolicyProofs ------------------------
(***************************************************************************)
(* The parts of the fault loop that stand on their own: its rings, of any  *)
(* size and wherever in the array they begin, and its adaptive controller, *)
(* for every queue size, threshold, cooldown and sequence of windows.      *)
(***************************************************************************)
EXTENDS AdaptivePolicy, Rings, TLAPS

(***************************************************************************)
(* I.  The rings hold the sequences that the other modules speak of.       *)
(***************************************************************************)

\* An index that has passed the end once is brought back by one remainder.
LEMMA OneTurn ==
  ASSUME NEW n \in Nat \ {0}, NEW x \in 0 .. 2 * n - 1
  PROVE  x % n = (IF x < n THEN x ELSE x - n)
<1>1. CASE x < n
  <2>1. x \in 0 .. n - 1
    BY <1>1
  <2> QED
    BY <1>1, <2>1
<1>2. CASE x >= n
  <2>1. x \in n .. 2 * n - 1
    BY <1>2
  <2> QED
    BY <1>2, <2>1
<1> QED
  BY <1>1, <1>2

----------------------------------------------------------------------------
(* The fault history.                                                      *)

\* Where the i-th oldest page of a history ring lies.
Cell(r, i) ==
  LET x == r.pos - r.count + i - 1
  IN  IF x < 0 THEN x + HistorySize ELSE x

LEMMA HistorySizes == HistorySize \in Nat \ {0} /\ HistorySize >= 4 /\ MaxStride \in Nat \ {0}
BY HistoryAssumption

LEMMA CellOf ==
  ASSUME NEW r \in HistoryRing, NEW i \in 1 .. r.count
  PROVE  /\ (r.pos - r.count + i - 1 + HistorySize) % HistorySize = Cell(r, i)
         /\ Cell(r, i) \in 0 .. HistorySize - 1
<1>1. r.pos \in 0 .. HistorySize - 1 /\ r.count \in 0 .. HistorySize
  BY DEF HistoryRing
<1> DEFINE x == r.pos - r.count + i - 1 + HistorySize
<1>2. x \in 0 .. 2 * HistorySize - 1
  BY <1>1, HistorySizes
<1>3. x % HistorySize = (IF x < HistorySize THEN x ELSE x - HistorySize)
  BY <1>2, HistorySizes, OneTurn
<1> QED
  BY <1>1, <1>2, <1>3, HistorySizes DEF Cell

LEMMA PushedIs ==
  ASSUME NEW r \in HistoryRing
  PROVE  /\ Pushed(r) \in Seq(Int) /\ Len(Pushed(r)) = r.count /\ r.count \in Nat
         /\ \A i \in 1 .. r.count : Pushed(r)[i] = r.addrs[Cell(r, i)]
<1>1. r.count \in Nat /\ r.addrs \in [0 .. HistorySize - 1 -> Int]
  BY HistorySizes DEF HistoryRing
<1>2. Pushed(r) = [i \in 1 .. r.count |-> r.addrs[Cell(r, i)]]
  BY CellOf DEF Pushed
<1>3. \A i \in 1 .. r.count : r.addrs[Cell(r, i)] \in Int
  BY <1>1, CellOf
<1>4. Pushed(r) \in [1 .. r.count -> Int]
  BY <1>2, <1>3
<1>5. Pushed(r) \in Seq(Int)
  BY <1>1, <1>4
<1>6. Len(Pushed(r)) = r.count
  BY <1>1, <1>2
<1> QED
  BY <1>1, <1>2, <1>5, <1>6

(***************************************************************************)
(* history_push keeps the ring a ring and appends to what it holds,        *)
(* dropping the oldest page once the array is full.                        *)
(***************************************************************************)
THEOREM RingIsHistory ==
  ASSUME NEW r \in HistoryRing, NEW p \in Int
  PROVE  RingPush(r, p) \in HistoryRing /\ Pushed(RingPush(r, p)) = HistoryPush(Pushed(r), p)
<1> DEFINE s == RingPush(r, p)
<1>1. /\ r.pos \in 0 .. HistorySize - 1 /\ r.count \in 0 .. HistorySize
      /\ r.addrs \in [0 .. HistorySize - 1 -> Int]
  BY DEF HistoryRing
<1>2. /\ s.pos = IF r.pos + 1 < HistorySize THEN r.pos + 1 ELSE 0
      /\ s.count = IF r.count < HistorySize THEN r.count + 1 ELSE r.count
      /\ s.addrs = [r.addrs EXCEPT ![r.pos] = p]
  <2>1. r.pos + 1 \in 0 .. 2 * HistorySize - 1
    BY <1>1, HistorySizes
  <2>2. (r.pos + 1) % HistorySize = (IF r.pos + 1 < HistorySize THEN r.pos + 1 ELSE 0)
    <3>1. /\ r.pos \in Nat /\ HistorySize \in Nat \ {0}
          /\ r.pos + 1 \in 0 .. HistorySize - 1 \/ r.pos + 1 = HistorySize
      BY <1>1, HistorySizes
    <3>2. CASE r.pos + 1 \in 0 .. HistorySize - 1
      BY <3>1, <3>2
    <3>3. CASE r.pos + 1 = HistorySize
      BY <3>1, <3>3
    <3> QED
      BY <3>1, <3>2, <3>3
  <2> QED
    BY <2>2 DEF RingPush
<1>3. s \in HistoryRing
  <2>1. s.pos \in 0 .. HistorySize - 1 /\ s.count \in 0 .. HistorySize
        /\ s.addrs \in [0 .. HistorySize - 1 -> Int]
    <3>1. HistorySize \in Nat /\ r.pos \in Nat /\ r.count \in Nat
      BY <1>1, HistorySizes
    <3>2. s.pos \in 0 .. HistorySize - 1
      BY <1>2, <3>1, HistorySizes
    <3>3. s.count \in 0 .. HistorySize
      BY <1>1, <1>2, <3>1
    <3>4. s.addrs \in [0 .. HistorySize - 1 -> Int]
      BY <1>1, <1>2
    <3> QED
      BY <3>2, <3>3, <3>4
  <2> QED
    BY <2>1 DEF HistoryRing, RingPush
<1> HIDE DEF s
<1>4. /\ Pushed(r) \in Seq(Int) /\ Len(Pushed(r)) = r.count
      /\ Pushed(s) \in Seq(Int) /\ Len(Pushed(s)) = s.count
      /\ r.count \in Nat /\ s.count \in Nat
      /\ \A i \in 1 .. r.count : Pushed(r)[i] = r.addrs[Cell(r, i)]
      /\ \A i \in 1 .. s.count : Pushed(s)[i] = s.addrs[Cell(s, i)]
  BY <1>3, PushedIs
\* The cells of s are those of r, one further on where the oldest page has gone.
<1>8. ASSUME NEW i \in 1 .. s.count
      PROVE  /\ i = s.count => Cell(s, i) = r.pos
             /\ i < s.count => Cell(s, i) \in 0 .. HistorySize - 1 /\ Cell(s, i) # r.pos
             /\ i < s.count /\ r.count < HistorySize => Cell(s, i) = Cell(r, i)
             /\ i < s.count /\ r.count = HistorySize => Cell(s, i) = Cell(r, i + 1)
  <2>0. /\ HistorySize \in Nat /\ HistorySize >= 4
        /\ r.pos \in Nat /\ r.pos < HistorySize /\ r.count \in Nat /\ r.count <= HistorySize
    BY <1>1, HistorySizes
  <2>1. s.pos \in Nat /\ s.count \in Nat /\ i \in Nat /\ i >= 1 /\ i <= s.count
    BY <1>2, <1>4, <2>0
  <2>2. CASE r.count < HistorySize
    BY <1>2, <2>0, <2>1, <2>2 DEF Cell
  <2>3. CASE r.count = HistorySize
    BY <1>2, <2>0, <2>1, <2>3 DEF Cell
  <2> QED
    BY <2>0, <2>2, <2>3
<1>5. Pushed(s)[s.count] = p
  <2>1. s.count \in 1 .. s.count
    <3>1. s.count >= 1
      BY <1>1, <1>2, <1>4, HistorySizes
    <3> QED
      BY <1>4, <3>1
  <2>4. Cell(s, s.count) = r.pos
    BY <1>8, <2>1
  <2>2. s.addrs[r.pos] = p
    BY <1>1, <1>2
  <2> QED
    BY <1>4, <2>1, <2>2, <2>4
<1>6. CASE r.count < HistorySize
  <2>1. HistoryPush(Pushed(r), p) = Append(Pushed(r), p)
    BY <1>4, <1>6 DEF HistoryPush
  <2>2. ASSUME NEW i \in 1 .. r.count PROVE Pushed(s)[i] = Pushed(r)[i]
    <3>1. Cell(s, i) = Cell(r, i) /\ Cell(r, i) # r.pos /\ Cell(r, i) \in 0 .. HistorySize - 1
      <4>1. i \in 1 .. s.count /\ i < s.count
        BY <1>2, <1>4, <1>6
      <4> QED
        BY <1>6, <1>8, <4>1
    <3>2. s.addrs[Cell(r, i)] = r.addrs[Cell(r, i)]
      BY <1>1, <1>2, <3>1
    <3>3. i \in 1 .. s.count
      BY <1>1, <1>2, <1>6
    <3> QED
      BY <1>4, <3>1, <3>2, <3>3
  <2>3. s.count = r.count + 1
    BY <1>2, <1>6
  <2>4. Pushed(s) = Append(Pushed(r), p)
    BY <1>4, <1>5, <2>2, <2>3
  <2> QED
    BY <1>3, <2>1, <2>4 DEF s
<1>7. CASE r.count = HistorySize
  <2>1. HistoryPush(Pushed(r), p) = Append(Tail(Pushed(r)), p)
    BY <1>4, <1>7, HistorySizes DEF HistoryPush
  <2>2. ASSUME NEW i \in 1 .. r.count - 1 PROVE Pushed(s)[i] = Pushed(r)[i + 1]
    <3>1. /\ Cell(s, i) = Cell(r, i + 1) /\ Cell(s, i) # r.pos
          /\ Cell(s, i) \in 0 .. HistorySize - 1
      <4>1. i \in 1 .. s.count /\ i < s.count
        BY <1>2, <1>4, <1>7, HistorySizes
      <4> QED
        BY <1>7, <1>8, <4>1
    <3>2. s.addrs[Cell(s, i)] = r.addrs[Cell(s, i)]
      BY <1>1, <1>2, <3>1
    <3>3. i \in 1 .. s.count /\ i + 1 \in 1 .. r.count
      BY <1>1, <1>2, <1>7
    <3> QED
      BY <1>4, <3>1, <3>2, <3>3
  <2>3. s.count = r.count /\ Pushed(r) # <<>>
    BY <1>2, <1>4, <1>7, HistorySizes
  <2>4. /\ Tail(Pushed(r)) \in Seq(Int) /\ Len(Tail(Pushed(r))) = r.count - 1
        /\ \A i \in 1 .. r.count - 1 : Tail(Pushed(r))[i] = Pushed(r)[i + 1]
    BY <1>4, <2>3
  <2>5. Pushed(s) = Append(Tail(Pushed(r)), p)
    <3> DEFINE t == Tail(Pushed(r))
               u == Pushed(s)
    <3>1. /\ t \in Seq(Int) /\ Len(t) = r.count - 1 /\ u \in Seq(Int) /\ Len(u) = r.count
          /\ \A i \in 1 .. r.count - 1 : u[i] = t[i]
          /\ u[r.count] = p /\ r.count \in Nat
      BY <1>4, <1>5, <2>2, <2>3, <2>4
    <3> HIDE DEF t, u
    <3>2. u = Append(t, p)
      BY <3>1
    <3> QED
      BY <3>2 DEF t, u
  <2> QED
    BY <1>3, <2>1, <2>5 DEF s
<1> QED
  BY <1>1, <1>6, <1>7, HistorySizes

(***************************************************************************)
(* detect_stride finds in the ring what the sequence says, although the    *)
(* last four pages may lie on both sides of the end of the array.          *)
(***************************************************************************)
THEOREM RingStrideIsStride ==
  ASSUME NEW r \in HistoryRing
  PROVE  RingStride(r) = DetectStride(Pushed(r))
<1> DEFINE h == Pushed(r)
           n == r.count
<1>1. h \in Seq(Int) /\ Len(h) = n /\ n \in Nat /\ \A i \in 1 .. n : h[i] = r.addrs[Cell(r, i)]
  BY PushedIs
<1> HIDE DEF h
<1>2. CASE n < 4
  BY <1>1, <1>2 DEF RingStride, DetectStride, h
<1>3. CASE n >= 4
  <2>1. ASSUME NEW i \in 0 .. 3 PROVE Recent(r, i) = h[n - 3 + i]
    <3>1. n - 3 + i \in 1 .. n
      <4>1. n \in Nat
        BY <1>1
      <4> HIDE DEF n
      <4> QED
        BY <1>3, <4>1
    <3>2. /\ r.pos \in Nat /\ n \in Nat /\ HistorySize \in Nat
          /\ r.pos - n + (n - 3 + i) - 1 + HistorySize = r.pos - 4 + i + HistorySize
      BY <1>1, HistorySizes DEF HistoryRing
    <3>3. (r.pos - 4 + i + HistorySize) % HistorySize = Cell(r, n - 3 + i)
      BY <3>1, <3>2, CellOf
    <3> QED
      BY <1>1, <3>1, <3>3 DEF Recent
  <2>2. /\ Recent(r, 0) = h[n - 3] /\ Recent(r, 1) = h[n - 2]
        /\ Recent(r, 2) = h[n - 1] /\ Recent(r, 3) = h[n]
    <3>1. n - 3 + 0 = n - 3 /\ n - 3 + 1 = n - 2 /\ n - 3 + 2 = n - 1 /\ n - 3 + 3 = n
      BY <1>1
    <3> QED
      BY <2>1, <3>1
  <2>3. h[n - 3] \in Int /\ h[n - 2] \in Int /\ h[n - 1] \in Int /\ h[n] \in Int
    <3>1. n - 3 \in 1 .. n /\ n - 2 \in 1 .. n /\ n - 1 \in 1 .. n /\ n \in 1 .. n
      <4>1. n \in Nat
        BY <1>1
      <4> HIDE DEF n
      <4> QED
        BY <1>3, <4>1
    <3>2. \A i \in 1 .. n : h[i] \in Int
      <4> HIDE DEF n
      <4> QED
        BY <1>1
    <3> HIDE DEF n
    <3> QED
      BY <3>1, <3>2
  <2>4. RingStride(r) = DetectStride(h)
    <3> DEFINE d1 == h[n - 2] - h[n - 3]
               d2 == h[n - 1] - h[n - 2]
               d3 == h[n] - h[n - 1]
    <3>1. d1 \in Int /\ d2 \in Int /\ d3 \in Int
      BY <2>3
    <3>2. RingStride(r) =
            IF /\ d1 = d2 /\ d2 = d3 /\ d1 # 0
               /\ (IF d1 < 0 THEN - d1 ELSE d1) \in 1 .. MaxStride
            THEN d1 ELSE 0
      BY <1>3, <2>2 DEF RingStride
    <3>3. DetectStride(h) =
            IF d2 = d3 /\ d1 = d3 /\ d3 # 0 /\ d3 \in - MaxStride .. MaxStride THEN d3 ELSE 0
      BY <1>1, <1>3 DEF DetectStride
    <3> HIDE DEF d1, d2, d3
    <3>4. d3 # 0 => ((IF d3 < 0 THEN - d3 ELSE d3) \in 1 .. MaxStride <=> d3 \in - MaxStride .. MaxStride)
      BY <3>1, HistorySizes
    <3>5. CASE d1 = d3 /\ d2 = d3
      BY <3>2, <3>3, <3>4, <3>5
    <3>6. CASE ~ (d1 = d3 /\ d2 = d3)
      BY <3>2, <3>3, <3>6
    <3> QED
      BY <3>5, <3>6
  <2> QED
    BY <2>4 DEF h
<1> QED
  BY <1>1, <1>2, <1>3

----------------------------------------------------------------------------
(* The queue.                                                              *)

\* Where the i-th request lies.
Slot(q, i, Size) ==
  LET x == q.head + i - 1
  IN  IF x < Size THEN x ELSE x - Size

\* A slot is told by its distance from the start of the array.
LEMMA SameSlot ==
  ASSUME NEW q, NEW t, NEW i, NEW j, NEW Size, t.head + i - 1 = q.head + j - 1
  PROVE  Slot(t, i, Size) = Slot(q, j, Size)
<1> DEFINE Wrapped(x) == IF x < Size THEN x ELSE x - Size
<1>1. Slot(t, i, Size) = Wrapped(t.head + i - 1) /\ Slot(q, j, Size) = Wrapped(q.head + j - 1)
  BY DEF Slot
<1> HIDE DEF Wrapped
<1> QED
  BY <1>1

LEMMA RingParts ==
  ASSUME NEW Size \in Nat \ {0}, NEW q \in RequestRing(Size)
  PROVE  /\ q.head \in Nat /\ q.head < Size /\ q.count \in Nat /\ q.count <= Size
         /\ q.tail \in Nat /\ q.tail < Size
         /\ q.queue \in [0 .. Size - 1 -> Int]
         /\ q.tail = IF q.head + q.count < Size THEN q.head + q.count ELSE q.head + q.count - Size
<1>1. /\ q \in [queue : [0 .. Size - 1 -> Int], head : 0 .. Size - 1, tail : 0 .. Size - 1,
                 count : 0 .. Size]
      /\ q.tail = (q.head + q.count) % Size
  BY DEF RequestRing
<1>2. /\ q.head \in Nat /\ q.head < Size /\ q.count \in Nat /\ q.count <= Size
      /\ q.tail \in Nat /\ q.tail < Size /\ q.queue \in [0 .. Size - 1 -> Int]
  BY <1>1
<1> DEFINE x == q.head + q.count
<1>3. x \in 0 .. 2 * Size - 1 /\ q.tail = x % Size
  <2>1. q.tail = x % Size
    BY <1>1
  <2>2. x \in 0 .. 2 * Size - 1
    BY <1>2
  <2> QED
    BY <2>1, <2>2
<1>4. q.tail = (IF x < Size THEN x ELSE x - Size)
  <2> HIDE DEF x
  <2> QED
    BY <1>3, OneTurn
<1> QED
  BY <1>2, <1>4

LEMMA SlotOf ==
  ASSUME NEW Size \in Nat \ {0}, NEW q \in RequestRing(Size), NEW i \in 1 .. q.count
  PROVE  (q.head + i - 1) % Size = Slot(q, i, Size) /\ Slot(q, i, Size) \in 0 .. Size - 1
<1> DEFINE x == q.head + i - 1
<1>1. x \in 0 .. 2 * Size - 1
  BY RingParts
<1>2. x % Size = (IF x < Size THEN x ELSE x - Size)
  <2> HIDE DEF x
  <2> QED
    BY <1>1, OneTurn
<1>3. x < Size => x \in 0 .. Size - 1
  BY <1>1
<1>4. ~ (x < Size) => x - Size \in 0 .. Size - 1
  BY <1>1
<1>5. CASE x < Size
  <2>1. Slot(q, i, Size) = x
    BY <1>5 DEF Slot
  <2> QED
    BY <1>2, <1>3, <1>5, <2>1
<1>6. CASE ~ (x < Size)
  <2>1. Slot(q, i, Size) = x - Size
    <3>1. ~ (q.head + i - 1 < Size)
      BY <1>6
    <3> QED
      BY <3>1, RingParts DEF Slot
  <2> QED
    BY <1>2, <1>4, <1>6, <2>1
<1> QED
  BY <1>5, <1>6

LEMMA WaitingIs ==
  ASSUME NEW Size \in Nat \ {0}, NEW q \in RequestRing(Size)
  PROVE  /\ Waiting(q, Size) \in Seq(Int) /\ Len(Waiting(q, Size)) = q.count
         /\ \A i \in 1 .. q.count : Waiting(q, Size)[i] = q.queue[Slot(q, i, Size)]
<1>1. q.count \in Nat /\ q.queue \in [0 .. Size - 1 -> Int]
  BY RingParts
<1>2. Waiting(q, Size) = [i \in 1 .. q.count |-> q.queue[Slot(q, i, Size)]]
  BY SlotOf DEF Waiting
<1>3. \A i \in 1 .. q.count : q.queue[Slot(q, i, Size)] \in Int
  BY <1>1, SlotOf
<1>4. Waiting(q, Size) \in [1 .. q.count -> Int]
  BY <1>2, <1>3
<1>5. Waiting(q, Size) \in Seq(Int)
  BY <1>1, <1>4
<1>6. Len(Waiting(q, Size)) = q.count
  BY <1>1, <1>2
<1> QED
  BY <1>2, <1>5, <1>6

\* The slots of the waiting requests differ.
LEMMA SlotsDiffer ==
  ASSUME NEW Size \in Nat \ {0}, NEW q \in RequestRing(Size), NEW i \in 1 .. q.count
  PROVE  q.count < Size => Slot(q, i, Size) # q.tail
<1>1. /\ q.head \in Nat /\ q.count \in Nat /\ q.head < Size
      /\ q.tail = IF q.head + q.count < Size THEN q.head + q.count ELSE q.head + q.count - Size
  BY RingParts
<1>2. i \in Nat /\ i >= 1 /\ i <= q.count
  BY <1>1
<1>3. CASE q.head + i - 1 < Size
  BY <1>1, <1>2, <1>3 DEF Slot
<1>4. CASE ~ (q.head + i - 1 < Size)
  BY <1>1, <1>2, <1>4 DEF Slot
<1> QED
  BY <1>3, <1>4

\* The search for duplicates looks at exactly the requests that wait.
LEMMA HasIsElement ==
  ASSUME NEW Size \in Nat \ {0}, NEW q \in RequestRing(Size), NEW p \in Int
  PROVE  RingHas(q, p, Size) <=> \E i \in 1 .. q.count : Waiting(q, Size)[i] = p
<1>1. q.count \in Nat /\ q.head \in Nat
  BY RingParts
<1>2. ASSUME NEW j \in 0 .. q.count - 1, q.queue[(q.head + j) % Size] = p
      PROVE  \E i \in 1 .. q.count : Waiting(q, Size)[i] = p
  <2>1. j + 1 \in 1 .. q.count /\ q.head + (j + 1) - 1 = q.head + j
    BY <1>1
  <2> QED
    BY <1>2, <2>1 DEF Waiting
<1>3. ASSUME NEW i \in 1 .. q.count, Waiting(q, Size)[i] = p
      PROVE  \E j \in 0 .. q.count - 1 : q.queue[(q.head + j) % Size] = p
  <2>1. i - 1 \in 0 .. q.count - 1 /\ q.head + i - 1 = q.head + (i - 1)
    BY <1>1
  <2>2. q.queue[(q.head + (i - 1)) % Size] = p
    BY <1>3, <2>1 DEF Waiting
  <2> QED
    BY <2>1, <2>2
<1> QED
  BY <1>2, <1>3 DEF RingHas

(***************************************************************************)
(* A target that async_prefetch_enqueue is offered is left out when it     *)
(* waits already or the array is full, and is the newest request           *)
(* otherwise; no other request moves or is overwritten.                    *)
(***************************************************************************)
THEOREM RingEnqueueAppends ==
  ASSUME NEW Size \in Nat \ {0}, NEW q \in RequestRing(Size), NEW p \in Int
  PROVE  LET waiting == Waiting(q, Size)
             e == RingEnqueue(q, p, Size)
         IN  /\ e \in RequestRing(Size)
             /\ Waiting(e, Size) =
                  IF (\E i \in 1 .. Len(waiting) : waiting[i] = p) \/ Len(waiting) = Size
                  THEN waiting ELSE Append(waiting, p)
<1> DEFINE waiting == Waiting(q, Size)
           e == RingEnqueue(q, p, Size)
<1>1. /\ waiting \in Seq(Int) /\ Len(waiting) = q.count /\ q.count \in Nat
      /\ \A i \in 1 .. q.count : waiting[i] = q.queue[Slot(q, i, Size)]
  BY WaitingIs, RingParts
<1>2. RingHas(q, p, Size) <=> \E i \in 1 .. Len(waiting) : waiting[i] = p
  <2>1. RingHas(q, p, Size) <=> \E i \in 1 .. q.count : waiting[i] = p
    BY HasIsElement
  <2> HIDE DEF waiting
  <2> QED
    BY <1>1, <2>1
<1>3. CASE RingHas(q, p, Size) \/ q.count = Size
  BY <1>1, <1>2, <1>3 DEF RingEnqueue
<1>4. CASE ~ (RingHas(q, p, Size) \/ q.count = Size)
  <2>1. /\ q \in [queue : [0 .. Size - 1 -> Int], head : 0 .. Size - 1, tail : 0 .. Size - 1,
                   count : 0 .. Size]
        /\ q.tail = (q.head + q.count) % Size
    BY DEF RequestRing
  <2>2. e = [q EXCEPT !.queue[q.tail] = p, !.tail = (q.tail + 1) % Size, !.count = @ + 1]
    BY <1>4 DEF RingEnqueue
  <2>3. /\ e.queue = [q.queue EXCEPT ![q.tail] = p] /\ e.head = q.head
        /\ e.tail = (q.tail + 1) % Size /\ e.count = q.count + 1
    BY <2>1, <2>2
  <2>4. q.count < Size /\ q.count + 1 \in 0 .. Size
    BY <1>4, RingParts
  <2>5. e.tail = (e.head + e.count) % Size /\ e.tail \in 0 .. Size - 1
    <3> DEFINE x == q.tail + 1
               y == q.head + (q.count + 1)
    <3>0. /\ q.head \in Nat /\ q.head < Size /\ q.count \in Nat /\ q.count < Size
          /\ q.tail \in Nat /\ q.tail < Size
          /\ q.tail = IF q.head + q.count < Size THEN q.head + q.count
                      ELSE q.head + q.count - Size
      BY <2>4, RingParts
    <3>1. /\ x \in 0 .. 2 * Size - 1 /\ y \in 0 .. 2 * Size - 1
          /\ (IF x < Size THEN x ELSE x - Size) = (IF y < Size THEN y ELSE y - Size)
          /\ (IF x < Size THEN x ELSE x - Size) \in 0 .. Size - 1
      <4>1. CASE q.head + q.count < Size
        BY <3>0, <4>1
      <4>2. CASE ~ (q.head + q.count < Size)
        BY <3>0, <4>2
      <4> QED
        BY <4>1, <4>2
    <3>2. e.tail = x % Size /\ (e.head + e.count) % Size = y % Size
      BY <2>3
    <3> HIDE DEF x, y
    <3> QED
      BY <3>1, <3>2, OneTurn
  <2>6. e \in RequestRing(Size)
    <3>1. e.queue \in [0 .. Size - 1 -> Int]
      BY <2>1, <2>3
    <3>2. e \in [queue : [0 .. Size - 1 -> Int], head : 0 .. Size - 1, tail : 0 .. Size - 1,
                 count : 0 .. Size]
      BY <2>1, <2>2, <2>3, <2>4, <2>5, <3>1
    <3> QED
      BY <2>5, <3>2 DEF RequestRing
  <2> HIDE DEF e
  <2>7. /\ Waiting(e, Size) \in Seq(Int) /\ Len(Waiting(e, Size)) = e.count
        /\ \A i \in 1 .. e.count : Waiting(e, Size)[i] = e.queue[Slot(e, i, Size)]
    BY <2>6, WaitingIs
  <2>8. \A i : Slot(e, i, Size) = Slot(q, i, Size)
    BY <2>3 DEF Slot
  <2>9. ASSUME NEW i \in 1 .. q.count PROVE Waiting(e, Size)[i] = waiting[i]
    <3>1. Slot(q, i, Size) \in 0 .. Size - 1 /\ Slot(q, i, Size) # q.tail
      BY <2>4, SlotOf, SlotsDiffer
    <3>2. e.queue[Slot(q, i, Size)] = q.queue[Slot(q, i, Size)]
      BY <2>1, <2>3, <3>1
    <3>3. i \in 1 .. e.count
      BY <1>1, <2>3
    <3> QED
      BY <1>1, <2>7, <2>8, <3>2, <3>3
  <2>10. Waiting(e, Size)[q.count + 1] = p
    <3>1. Slot(q, q.count + 1, Size) = q.tail
      BY <2>4, RingParts DEF Slot
    <3>2. e.queue[q.tail] = p
      BY <2>1, <2>3
    <3>3. q.count + 1 \in 1 .. e.count
      BY <1>1, <2>3
    <3> QED
      BY <2>7, <2>8, <3>1, <3>2, <3>3
  <2>11. Waiting(e, Size) = Append(waiting, p)
    <3> HIDE DEF waiting
    <3> QED
      BY <1>1, <2>3, <2>7, <2>9, <2>10
  <2>12. ~ ((\E i \in 1 .. Len(waiting) : waiting[i] = p) \/ Len(waiting) = Size)
    BY <1>1, <1>2, <1>4
  <2> QED
    BY <2>6, <2>11, <2>12 DEF e
<1> QED
  BY <1>3, <1>4

(***************************************************************************)
(* The worker takes the oldest request, and the others wait on in their    *)
(* order.                                                                  *)
(***************************************************************************)
THEOREM RingTakesOldest ==
  ASSUME NEW Size \in Nat \ {0}, NEW q \in RequestRing(Size), q.count > 0
  PROVE  /\ RingTake(q, Size) \in RequestRing(Size)
         /\ RingOldest(q) = Head(Waiting(q, Size))
         /\ Waiting(RingTake(q, Size), Size) = Tail(Waiting(q, Size))
<1> DEFINE waiting == Waiting(q, Size)
           t == RingTake(q, Size)
<1>1. /\ waiting \in Seq(Int) /\ Len(waiting) = q.count /\ q.count \in Nat
      /\ \A i \in 1 .. q.count : waiting[i] = q.queue[Slot(q, i, Size)]
  BY WaitingIs, RingParts
<1>2. /\ q \in [queue : [0 .. Size - 1 -> Int], head : 0 .. Size - 1, tail : 0 .. Size - 1,
                 count : 0 .. Size]
      /\ q.tail = (q.head + q.count) % Size
  BY DEF RequestRing
<1>3. /\ t = [q EXCEPT !.head = (q.head + 1) % Size, !.count = @ - 1]
      /\ t.queue = q.queue /\ t.tail = q.tail
      /\ t.head = (q.head + 1) % Size /\ t.count = q.count - 1
  BY <1>2 DEF RingTake
<1>4. t.head = (IF q.head + 1 < Size THEN q.head + 1 ELSE 0) /\ t.head \in 0 .. Size - 1
  <2> DEFINE x == q.head + 1
  <2>1. x \in 0 .. 2 * Size - 1 /\ (~ (x < Size) => x - Size = 0)
        /\ (x < Size => x \in 0 .. Size - 1) /\ 0 \in 0 .. Size - 1
    BY RingParts
  <2>2. t.head = x % Size
    BY <1>3
  <2>3. t.head = (IF x < Size THEN x ELSE 0) /\ t.head \in 0 .. Size - 1
    <3> HIDE DEF x
    <3> QED
      BY <2>1, <2>2, OneTurn
  <2> QED
    BY <2>3
<1>5. t \in RequestRing(Size)
  <2> DEFINE y == t.head + t.count
  <2>1. y \in 0 .. 2 * Size - 1 /\ (IF y < Size THEN y ELSE y - Size) = q.tail
    <3>0. /\ q.head \in Nat /\ q.head < Size /\ q.count \in Nat /\ q.count <= Size /\ q.count > 0
          /\ q.tail = IF q.head + q.count < Size THEN q.head + q.count
                      ELSE q.head + q.count - Size
      BY RingParts
    <3>1. CASE q.head + 1 < Size
      BY <1>3, <1>4, <3>0, <3>1
    <3>2. CASE ~ (q.head + 1 < Size)
      BY <1>3, <1>4, <3>0, <3>2
    <3> QED
      BY <3>1, <3>2
  <2>2. t.tail = (t.head + t.count) % Size
    <3>1. (t.head + t.count) % Size = y % Size
      OBVIOUS
    <3> HIDE DEF y
    <3> QED
      BY <1>3, <2>1, <3>1, OneTurn
  <2>3. t.count \in 0 .. Size
    BY <1>3, RingParts
  <2>4. t \in [queue : [0 .. Size - 1 -> Int], head : 0 .. Size - 1, tail : 0 .. Size - 1,
               count : 0 .. Size]
    BY <1>2, <1>3, <1>4, <2>3
  <2> QED
    BY <2>2, <2>4 DEF RequestRing
<1> HIDE DEF t
<1>6. RingOldest(q) = Head(waiting)
  <2>1. Slot(q, 1, Size) = q.head /\ 1 \in 1 .. q.count
    BY RingParts DEF Slot
  <2> HIDE DEF waiting
  <2> QED
    BY <1>1, <2>1 DEF RingOldest
<1>7. Waiting(t, Size) = Tail(waiting)
  <2>1. /\ Waiting(t, Size) \in Seq(Int) /\ Len(Waiting(t, Size)) = t.count
        /\ \A i \in 1 .. t.count : Waiting(t, Size)[i] = t.queue[Slot(t, i, Size)]
    BY <1>5, WaitingIs
  <2>2. ASSUME NEW i \in 1 .. q.count - 1 PROVE Waiting(t, Size)[i] = waiting[i + 1]
    <3>0. q.head \in Nat /\ q.head < Size /\ q.count \in Nat /\ i \in Nat
      BY RingParts
    <3>1. Slot(t, i, Size) = Slot(q, i + 1, Size)
      <4>1. t.head = IF q.head + 1 < Size THEN q.head + 1 ELSE 0
        BY <1>4
      <4>2. CASE q.head + 1 < Size
        <5>1. t.head = q.head + 1 /\ q.head \in Nat /\ i \in Nat
          BY <3>0, <4>1, <4>2
        <5>2. \A a, b, j \in Nat : b = a + 1 => b + j - 1 = a + (j + 1) - 1
          OBVIOUS
        <5>3. t.head + i - 1 = q.head + (i + 1) - 1
          BY <5>1, <5>2
        <5> QED
          BY <5>3, SameSlot
      <4>3. CASE q.head + 1 >= Size
        <5>1. t.head = 0 /\ q.head = Size - 1
          BY <3>0, <4>1, <4>3
        <5>2. i - 1 < Size /\ i \in Nat
          BY RingParts
        <5>3. Slot(t, i, Size) = i - 1
          BY <5>1, <5>2 DEF Slot
        <5>4. Slot(q, i + 1, Size) = i - 1
          BY <5>1, <5>2 DEF Slot
        <5> QED
          BY <5>3, <5>4
      <4> QED
        BY <3>0, <4>2, <4>3
    <3>2. i \in 1 .. t.count /\ i + 1 \in 1 .. q.count
      BY <1>1, <1>3
    <3> QED
      <4>1. Waiting(t, Size)[i] = q.queue[Slot(q, i + 1, Size)]
        BY <1>3, <2>1, <3>1, <3>2
      <4> HIDE DEF waiting
      <4> QED
        BY <1>1, <3>2, <4>1
  <2> HIDE DEF waiting
  <2>3. /\ Tail(waiting) \in Seq(Int) /\ Len(Tail(waiting)) = q.count - 1
        /\ \A i \in 1 .. q.count - 1 : Tail(waiting)[i] = waiting[i + 1]
    BY <1>1
  <2> QED
    <3> DEFINE v == Waiting(t, Size)
               tl == Tail(waiting)
    <3>1. /\ v \in Seq(Int) /\ tl \in Seq(Int) /\ Len(v) = Len(tl)
          /\ \A i \in 1 .. Len(tl) : v[i] = tl[i]
      BY <1>3, <2>1, <2>2, <2>3
    <3> HIDE DEF v, tl
    <3>2. v = tl
      BY <3>1
    <3> QED
      BY <3>2 DEF v, tl
<1> QED
  BY <1>5, <1>6, <1>7 DEF t

----------------------------------------------------------------------------
(***************************************************************************)
(* II.  The adaptive controller.                                           *)
(***************************************************************************)

(***************************************************************************)
(* While prefetch is off, the cooldown left and the windows drained so far *)
(* add up: a handler that starts disabled has one window to wait.          *)
(***************************************************************************)
CooldownCounts ==
  ~ config.enabled =>
    \/ config.cooldown = 0 /\ drained = Cooldown - 1
    \/ config.cooldown > 0 /\ config.cooldown + drained = Cooldown

PolicyInv == TypeOK /\ CooldownCounts

----------------------------------------------------------------------------
(* What the rules do to a configuration.                                   *)

LEMMA DisabledConfig ==
  Disabled \in Config /\ ~ Disabled.enabled /\ Disabled.cooldown = Cooldown
BY PolicyAssumption DEF Disabled, Config

LEMMA ConfigFields ==
  ASSUME NEW c \in Config
  PROVE  c.enabled \in BOOLEAN /\ c.seq \in Nat /\ c.stride \in Nat /\ c.cooldown \in Nat
BY DEF Config

LEMMA Halved ==
  ASSUME NEW n \in Nat
  PROVE  n \div 2 \in Nat /\ n \div 2 <= n /\ (n > 0 => n \div 2 < n)
OBVIOUS

\* Halving an enabled configuration narrows it or turns it off.
LEMMA HalveNarrows ==
  ASSUME NEW c \in Config, c.enabled
  PROVE  /\ Halve(c) \in Config
         /\ ~ Halve(c).enabled => Halve(c) = Disabled
         /\ Halve(c).enabled => /\ Halve(c).seq + Halve(c).stride > 0
                                /\ Halve(c).seq + Halve(c).stride < c.seq + c.stride
<1> DEFINE half == [c EXCEPT !.seq = @ \div 2, !.stride = @ \div 2]
<1>1. c.seq \in Nat /\ c.stride \in Nat /\ c.cooldown \in Nat
  BY ConfigFields
<1>2. /\ c.seq \div 2 \in Nat /\ c.seq \div 2 <= c.seq /\ (c.seq > 0 => c.seq \div 2 < c.seq)
      /\ c.stride \div 2 \in Nat /\ c.stride \div 2 <= c.stride
      /\ c.stride > 0 => c.stride \div 2 < c.stride
  BY <1>1, Halved
<1>3. half \in Config /\ half.seq = c.seq \div 2 /\ half.stride = c.stride \div 2 /\ half.enabled
  BY <1>2 DEF Config
<1>4. half.seq + half.stride > 0 => half.seq + half.stride < c.seq + c.stride
  <2> HIDE DEF half
  <2> QED
    BY <1>1, <1>2, <1>3
<1>5. CASE half.seq = 0 /\ half.stride = 0
  BY <1>5, DisabledConfig DEF Halve
<1>6. CASE ~ (half.seq = 0 /\ half.stride = 0)
  <2>1. Halve(c) = half
    BY <1>6 DEF Halve
  <2>2. half.seq + half.stride > 0
    <3> HIDE DEF half
    <3> QED
      BY <1>2, <1>3, <1>6
  <2> QED
    BY <1>3, <1>4, <2>1, <2>2
<1> QED
  BY <1>5, <1>6

\* Growing leaves an enabled configuration alone or looking ahead.
LEMMA GrowWidens ==
  ASSUME NEW c \in Config, c.enabled
  PROVE  Grow(c) \in Config /\ Grow(c).enabled /\ (Blind(Grow(c)) => Grow(c) = c)
<1>1. c.seq \in Nat /\ c.stride \in Nat /\ c.cooldown \in Nat
  BY ConfigFields
<1>2. /\ GrowTo(c.seq, 2, MaxSeq) \in Nat /\ GrowTo(c.seq, 2, MaxSeq) >= c.seq
      /\ GrowTo(c.stride, 1, MaxStrideCount) \in Nat
      /\ GrowTo(c.stride, 1, MaxStrideCount) >= c.stride
  BY <1>1, PolicyAssumption DEF GrowTo
<1>3. /\ Grow(c) \in Config /\ Grow(c).enabled
      /\ Grow(c).seq = GrowTo(c.seq, 2, MaxSeq)
      /\ Grow(c).stride = GrowTo(c.stride, 1, MaxStrideCount)
  BY <1>2 DEF Grow, Config
<1>4. ASSUME Blind(Grow(c))
      PROVE  Grow(c) = c
  <2>1. GrowTo(c.seq, 2, MaxSeq) = c.seq /\ GrowTo(c.stride, 1, MaxStrideCount) = c.stride
    BY <1>1, <1>2, <1>3, <1>4 DEF Blind
  <2> QED
    BY <2>1 DEF Grow, Config
<1> QED
  BY <1>3, <1>4

\* While prefetch is off a window leaves it alone, counts it down, or probes.
LEMMA DisabledWindow ==
  ASSUME NEW c \in Config, ~ c.enabled, NEW win \in Window
  PROVE  \/ Backlog(win) /\ WhileDisabled(c, win) = c
         \/ /\ ~ Backlog(win) /\ c.cooldown > 1
            /\ WhileDisabled(c, win) = [c EXCEPT !.cooldown = c.cooldown - 1]
         \/ /\ ~ Backlog(win) /\ c.cooldown <= 1
            /\ WhileDisabled(c, win) = [enabled |-> TRUE, seq |-> 1, stride |-> 0, cooldown |-> 0]
<1>1. c.cooldown \in Nat
  BY ConfigFields
<1> QED
  BY <1>1 DEF WhileDisabled, Backlog

LEMMA EnabledWindow ==
  ASSUME NEW c \in Config, c.enabled, NEW win
  PROVE  Adjust(c, win) \in {Disabled, Halve(c), Grow(c), c}
BY DEF Adjust

----------------------------------------------------------------------------
(* The invariant.                                                          *)

LEMMA InitPolicy == Init => PolicyInv
<1> SUFFICES ASSUME Init PROVE PolicyInv
  OBVIOUS
<1>1. config \in Config /\ config.cooldown = 0
  BY DriverAssumption DEF Init
<1>2. w \in Window
  BY DEF Init, Quiet, Window
<1>3. drained \in 0 .. Cooldown /\ (~ config.enabled => drained = Cooldown - 1)
  BY PolicyAssumption DEF Init
<1> QED
  BY <1>1, <1>2, <1>3 DEF PolicyInv, TypeOK, CooldownCounts

LEMMA WindowPolicy ==
  ASSUME PolicyInv, NEW win \in Windows, w' = win, config' = Adjust(config, win),
         drained' = IF config.enabled \/ config'.enabled THEN 0
                    ELSE IF Backlog(win) \/ drained = Cooldown THEN drained ELSE drained + 1
  PROVE  PolicyInv'
<1> USE DEF PolicyInv, TypeOK
<1>1. win \in Window /\ config \in Config /\ drained \in 0 .. Cooldown
  BY DriverAssumption
<1>2. CASE config.enabled
  <2>1. config' \in {Disabled, Halve(config), Grow(config), config}
    BY <1>1, <1>2, EnabledWindow
  <2>2. config' \in Config /\ (~ config'.enabled => config' = Disabled)
    BY <1>1, <1>2, <2>1, DisabledConfig, HalveNarrows, GrowWidens
  <2>3. drained' = 0
    BY <1>2
  <2>4. CooldownCounts'
    BY <2>2, <2>3, DisabledConfig, PolicyAssumption DEF CooldownCounts
  <2> QED
    BY <1>1, <2>2, <2>3, <2>4, PolicyAssumption
<1>3. CASE ~ config.enabled
  <2>1. config' = WhileDisabled(config, win)
    BY <1>3 DEF Adjust
  <2>2. config.cooldown \in Nat /\ config.seq \in Nat /\ config.stride \in Nat
    BY <1>1, ConfigFields
  <2>3. CASE Backlog(win) /\ config' = config
    BY <1>1, <1>3, <2>3 DEF CooldownCounts
  <2>4. CASE ~ Backlog(win) /\ config.cooldown > 1
             /\ config' = [config EXCEPT !.cooldown = config.cooldown - 1]
    <3>1. /\ config' \in Config /\ ~ config'.enabled
          /\ config'.cooldown = config.cooldown - 1 /\ config'.cooldown > 0
      BY <1>1, <1>3, <2>2, <2>4 DEF Config
    <3>2. config.cooldown + drained = Cooldown
      BY <1>3, <2>2, <2>4 DEF CooldownCounts
    <3>3. drained' = drained + 1
      BY <1>1, <1>3, <2>2, <2>4, <3>1, <3>2, PolicyAssumption
    <3>4. config'.cooldown + drained' = Cooldown /\ drained' \in 0 .. Cooldown
      BY <1>1, <2>2, <2>4, <3>1, <3>2, <3>3, PolicyAssumption
    <3> QED
      BY <1>1, <3>1, <3>4 DEF CooldownCounts
  <2>5. CASE ~ Backlog(win) /\ config.cooldown <= 1
             /\ config' = [enabled |-> TRUE, seq |-> 1, stride |-> 0, cooldown |-> 0]
    BY <1>1, <2>5, PolicyAssumption DEF Config, CooldownCounts
  <2> QED
    BY <1>1, <1>3, <2>1, <2>3, <2>4, <2>5, DisabledWindow
<1> QED
  BY <1>2, <1>3

LEMMA NextPolicy == PolicyInv /\ [Next]_policyVars => PolicyInv'
<1> SUFFICES ASSUME PolicyInv, [Next]_policyVars PROVE PolicyInv'
  OBVIOUS
<1>1. CASE Next
  <2>1. PICK win \in Windows : /\ w' = win
                               /\ config' = Adjust(config, win)
                               /\ drained' = IF config.enabled \/ config'.enabled THEN 0
                                    ELSE IF Backlog(win) \/ drained = Cooldown THEN drained
                                    ELSE drained + 1
    BY <1>1 DEF Next, WindowEnds
  <2> QED
    BY <2>1, WindowPolicy
<1>2. CASE UNCHANGED policyVars
  BY <1>2 DEF policyVars, PolicyInv, TypeOK, CooldownCounts
<1> QED
  BY <1>1, <1>2

LEMMA PolicySafety == Spec => []PolicyInv
BY InitPolicy, NextPolicy, PTL DEF Spec

----------------------------------------------------------------------------

(***************************************************************************)
(* The configuration keeps its type, the cooldown its bound: the unsigned  *)
(* cooldown is never decremented below zero.                               *)
(***************************************************************************)
THEOREM TypeCorrect == Spec => []TypeOK
<1>1. PolicyInv => TypeOK
  BY DEF PolicyInv
<1> QED
  BY <1>1, PolicySafety, PTL

(***************************************************************************)
(* No window makes an enabled controller that looks ahead to nothing: one  *)
(* that the command line started without a lookahead stays as it is until  *)
(* a window turns it off or gives it one.                                  *)
(***************************************************************************)
THEOREM EnabledSafety == Spec => EnabledLooksAhead
<1>1. ASSUME PolicyInv, [Next]_policyVars, ~ UNCHANGED policyVars, Blind(config')
      PROVE  config' = config
  <2>1. PICK win \in Windows : w' = win /\ config' = Adjust(config, win)
    BY <1>1 DEF Next, WindowEnds
  <2>2. win \in Window /\ config \in Config
    BY <1>1, DriverAssumption DEF PolicyInv, TypeOK
  <2>3. config'.enabled /\ config'.seq + config'.stride = 0
    BY <1>1 DEF Blind
  <2>4. CASE config.enabled
    <3>1. config' \in {Disabled, Halve(config), Grow(config), config}
      BY <2>1, <2>2, <2>4, EnabledWindow
    <3>2. config' # Disabled
      BY <2>3, DisabledConfig
    <3>3. config' # Halve(config)
      <4>1. Halve(config).enabled => Halve(config).seq + Halve(config).stride > 0
                                     /\ Halve(config) \in Config
        BY <2>2, <2>4, HalveNarrows
      <4>2. Halve(config).enabled => Halve(config).seq + Halve(config).stride # 0
        BY <4>1, ConfigFields
      <4> QED
        BY <2>3, <4>2
    <3> QED
      BY <1>1, <2>2, <2>4, <3>1, <3>2, <3>3, GrowWidens
  <2>5. CASE ~ config.enabled
    <3>1. config' = WhileDisabled(config, win)
      BY <2>1, <2>5 DEF Adjust
    <3>2. ~ [config EXCEPT !.cooldown = config.cooldown - 1].enabled
      BY <2>2, <2>5 DEF Config
    <3>3. config' = [enabled |-> TRUE, seq |-> 1, stride |-> 0, cooldown |-> 0]
      BY <2>2, <2>3, <2>5, <3>1, <3>2, DisabledWindow
    <3> QED
      BY <2>3, <3>3
  <2> QED
    BY <2>4, <2>5
<1>2. PolicyInv /\ [Next]_policyVars => [Blind(config') => config' = config]_policyVars
  BY <1>1
<1> QED
  BY <1>2, PolicySafety, PTL DEF Spec, EnabledLooksAhead

(***************************************************************************)
(* The probe comes after exactly Cooldown windows without a backlog.       *)
(***************************************************************************)
THEOREM ProbeSafety == Spec => ProbeAfterCooldown
<1>1. ASSUME PolicyInv, [Next]_policyVars, ~ UNCHANGED policyVars,
             ~ config.enabled, config'.enabled
      PROVE  drained + 1 = Cooldown /\ ~ Backlog(w')
  <2>1. PICK win \in Windows : w' = win /\ config' = Adjust(config, win)
    BY <1>1 DEF Next, WindowEnds
  <2>2. win \in Window /\ config \in Config /\ drained \in 0 .. Cooldown
    BY <1>1, DriverAssumption DEF PolicyInv, TypeOK
  <2>3. config.cooldown \in Nat
    BY <2>2, ConfigFields
  <2>4. config' = WhileDisabled(config, win)
    BY <1>1, <2>1 DEF Adjust
  <2>5. ~ Backlog(win) /\ config.cooldown <= 1
    <3>1. ~ [config EXCEPT !.cooldown = config.cooldown - 1].enabled
      BY <1>1, <2>2 DEF Config
    <3> QED
      BY <1>1, <2>2, <2>4, <3>1, DisabledWindow
  <2>6. CooldownCounts
    BY <1>1 DEF PolicyInv
  <2> QED
    BY <1>1, <2>1, <2>2, <2>3, <2>5, <2>6, PolicyAssumption DEF CooldownCounts
<1>2. PolicyInv /\ [Next]_policyVars =>
        [~ config.enabled /\ config'.enabled => drained + 1 = Cooldown /\ ~ Backlog(w')]_policyVars
  BY <1>1
<1> QED
  BY <1>2, PolicySafety, PTL DEF Spec, ProbeAfterCooldown

(***************************************************************************)
(* A window under pressure narrows the lookahead or turns prefetch off.    *)
(***************************************************************************)
THEOREM PressureSafety == Spec => PressureNarrows
<1> DEFINE Pressure(win) == \/ win.dropped > 0
                            \/ win.depth > PolicyQueue \div 4
                            \/ win.prefetched > 0 /\ DupRate(win) >= DupHalve
           Narrower == \/ ~ config'.enabled
                       \/ config'.seq + config'.stride < config.seq + config.stride
<1>1. ASSUME PolicyInv, [Next]_policyVars, ~ UNCHANGED policyVars, config.enabled, Pressure(w')
      PROVE  Narrower
  <2>1. PICK win \in Windows : w' = win /\ config' = Adjust(config, win)
    BY <1>1 DEF Next, WindowEnds
  <2>2. config \in Config
    BY <1>1 DEF PolicyInv, TypeOK
  <2>3. Saturated(win) \/ Pressed(win)
    BY <1>1, <2>1 DEF Saturated, Pressed, DupAtLeast
  <2>4. config' = Disabled \/ config' = Halve(config)
    BY <1>1, <2>1, <2>3 DEF Adjust
  <2> QED
    BY <1>1, <2>2, <2>4, DisabledConfig, HalveNarrows
<1>2. PolicyInv /\ [Next]_policyVars => [config.enabled /\ Pressure(w') => Narrower]_policyVars
  BY <1>1
<1> QED
  BY <1>2, PolicySafety, PTL DEF Spec, PressureNarrows

=============================================================================
