--------------------------- MODULE EvaluationProofs ---------------------------
(***************************************************************************)
(* Theorems about the reports and the figures, for every suite, every      *)
(* outcome of its iterations and every pair of sweeps.                     *)
(***************************************************************************)
EXTENDS Evaluation, FiniteSetTheorems, SequenceTheorems, WellFoundedInduction, TLAPS

(***************************************************************************)
(* I.  Totals of columns, which report.py's mean divides.                  *)
(***************************************************************************)

\* Numbers up to n, one by one.
LEMMA UpTo ==
  ASSUME NEW n \in Nat, NEW S,
         0 \in S, \A k \in 0 .. n - 1 : k \in S => k + 1 \in S
  PROVE  \A k \in 0 .. n : k \in S
<1> DEFINE Missed == {k \in 0 .. n : k \notin S}
           Tails == {0 .. k : k \in Missed}
<1> SUFFICES ASSUME Missed # {} PROVE FALSE
  OBVIOUS
<1>1. IsFiniteSet(0 .. n)
  BY FS_Interval
<1>2. Tails # {} /\ \A T \in Tails : T \subseteq 0 .. n
  OBVIOUS
<1>3. Tails \subseteq FiniteSubsetsOf(0 .. n)
  <2> HIDE DEF Tails
  <2> QED
    BY <1>1, <1>2, FS_Subset DEF FiniteSubsetsOf
<1>4. PICK T \in Tails : \A U \in Tails : ~ (<<U, T>> \in StrictSubsetOrdering(0 .. n))
  <2> HIDE DEF Tails
  <2> QED
    BY <1>1, <1>2, <1>3, FS_StrictSubsetOrderingWellFounded, WFMin
<1>5. PICK m \in Missed : T = 0 .. m
  OBVIOUS
<1>6. m # 0 /\ m - 1 \in 0 .. n - 1
  OBVIOUS
<1>7. m - 1 \in Missed
  <2>1. m - 1 \in S => m \in S
    BY <1>6
  <2> QED
    BY <1>6, <2>1
<1>8. 0 .. (m - 1) \subseteq 0 .. m /\ m \in 0 .. m /\ m \notin 0 .. (m - 1)
  BY <1>6
<1>9. <<0 .. (m - 1), T>> \in StrictSubsetOrdering(0 .. n)
  <2>1. 0 .. (m - 1) \in Tails
    BY <1>7
  <2> HIDE DEF Tails, Missed
  <2> QED
    BY <1>2, <1>5, <1>8, <2>1 DEF StrictSubsetOrdering
<1> QED
  BY <1>4, <1>7, <1>9

\* The sum of the first k numbers of a list, at k.
Running(list) ==
  CHOOSE sum : sum = [k \in 0 .. Len(list) |-> IF k = 0 THEN 0 ELSE sum[k - 1] + list[k]]

LEMMA TotalIsLast == ASSUME NEW list PROVE Total(list) = Running(list)[Len(list)]
BY DEF Total, Running

LEMMA RunningExists ==
  ASSUME NEW list \in Seq(Int)
  PROVE  \E f \in [0 .. Len(list) -> Int] :
           f[0] = 0 /\ \A k \in 1 .. Len(list) : f[k] = f[k - 1] + list[k]
<1> DEFINE n == Len(list)
           Sums(k) == {f \in [0 .. k -> Int] : f[0] = 0 /\ \A j \in 1 .. k : f[j] = f[j - 1] + list[j]}
           S == {k \in 0 .. n : Sums(k) # {}}
<1>1. n \in Nat /\ \A k \in 1 .. n : list[k] \in Int
  OBVIOUS
<1> HIDE DEF n
<1>2. 0 \in S
  <2>1. [k \in 0 .. 0 |-> 0] \in Sums(0)
    OBVIOUS
  <2> QED
    BY <1>1, <2>1
<1>3. ASSUME NEW k \in 0 .. n - 1, k \in S PROVE k + 1 \in S
  <2>1. PICK f \in Sums(k) : TRUE
    BY <1>3
  <2> DEFINE g == [j \in 0 .. k + 1 |-> IF j = k + 1 THEN f[k] + list[k + 1] ELSE f[j]]
  <2>2. k \in Nat /\ list[k + 1] \in Int /\ k + 1 \in 0 .. n
    BY <1>1
  <2>3. f \in [0 .. k -> Int] /\ f[0] = 0 /\ \A j \in 1 .. k : f[j] = f[j - 1] + list[j]
    BY <2>1
  <2>4. g \in [0 .. k + 1 -> Int]
    BY <2>2, <2>3
  <2>5. g[0] = 0
    BY <2>2, <2>3
  <2>6. ASSUME NEW j \in 1 .. k + 1 PROVE g[j] = g[j - 1] + list[j]
    BY <2>2, <2>3
  <2>7. g \in Sums(k + 1)
    <3> HIDE DEF g
    <3> QED
      BY <2>4, <2>5, <2>6
  <2> QED
    BY <2>2, <2>7
<1>4. n \in S
  <2> HIDE DEF S
  <2>1. \A k \in 0 .. n : k \in S
    BY <1>1, <1>2, <1>3, UpTo
  <2> QED
    BY <1>1, <2>1
<1> QED
  BY <1>4 DEF n

LEMMA RunningSums ==
  ASSUME NEW list \in Seq(Int)
  PROVE  /\ Running(list)[0] = 0
         /\ \A k \in 1 .. Len(list) : Running(list)[k] = Running(list)[k - 1] + list[k]
         /\ \A k \in 0 .. Len(list) : Running(list)[k] \in Int
<1> DEFINE n == Len(list)
           Is(sum) == sum = [k \in 0 .. n |-> IF k = 0 THEN 0 ELSE sum[k - 1] + list[k]]
           R == Running(list)
           S == {k \in 0 .. n : R[k] \in Int}
<1>1. n \in Nat /\ \A k \in 1 .. n : list[k] \in Int
  OBVIOUS
<1>2. PICK f \in [0 .. n -> Int] : f[0] = 0 /\ \A k \in 1 .. n : f[k] = f[k - 1] + list[k]
  BY RunningExists
<1>3. R = CHOOSE sum : Is(sum)
  BY DEF Running
<1> HIDE DEF n, R
<1>4. Is(f)
  <2>1. \A k \in 0 .. n : f[k] = IF k = 0 THEN 0 ELSE f[k - 1] + list[k]
    BY <1>1, <1>2
  <2> QED
    BY <1>2, <2>1
<1>5. Is(R)
  <2> HIDE DEF Is
  <2> QED
    BY <1>3, <1>4
<1>6. R[0] = 0 /\ \A k \in 1 .. n : R[k] = R[k - 1] + list[k]
  BY <1>1, <1>5
<1>7. \A k \in 0 .. n : k \in S
  <2>1. 0 \in S
    BY <1>1, <1>6
  <2>2. ASSUME NEW k \in 0 .. n - 1, k \in S PROVE k + 1 \in S
    <3>1. k + 1 \in 1 .. n /\ k + 1 - 1 = k
      BY <1>1
    <3>2. R[k + 1] = R[k] + list[k + 1]
      BY <1>6, <3>1
    <3> QED
      BY <1>1, <2>2, <3>1, <3>2
  <2> HIDE DEF S
  <2> QED
    BY <1>1, <2>1, <2>2, UpTo
<1> QED
  BY <1>6, <1>7 DEF n, R

LEMMA TotalInt ==
  ASSUME NEW list \in Seq(Int)
  PROVE  Total(list) \in Int /\ Total(<<>>) = 0
<1>1. Len(list) \in 0 .. Len(list) /\ Len(<<>>) = 0 /\ <<>> \in Seq(Int)
  OBVIOUS
<1> QED
  BY <1>1, RunningSums, TotalIsLast

\* The total of numbers that are not negative is positive when one of them is.
LEMMA TotalSign ==
  ASSUME NEW list \in Seq(Nat)
  PROVE  /\ Total(list) \in Nat
         /\ Total(list) > 0 <=> \E k \in 1 .. Len(list) : list[k] > 0
<1> DEFINE n == Len(list)
           R == Running(list)
           S == {k \in 0 .. n : R[k] \in Nat /\ (R[k] > 0 <=> \E j \in 1 .. k : list[j] > 0)}
<1>1. n \in Nat /\ \A k \in 1 .. n : list[k] \in Nat
  OBVIOUS
<1>2. R[0] = 0 /\ \A k \in 1 .. n : R[k] = R[k - 1] + list[k]
  <2>1. list \in Seq(Int)
    OBVIOUS
  <2> QED
    BY <2>1, RunningSums
<1> HIDE DEF n, R
<1>3. \A k \in 0 .. n : k \in S
  <2>1. 0 \in S
    BY <1>1, <1>2
  <2>2. ASSUME NEW k \in 0 .. n - 1, k \in S PROVE k + 1 \in S
    <3>1. k + 1 \in 1 .. n /\ k + 1 - 1 = k /\ k \in Nat
      BY <1>1
    <3>2. R[k + 1] = R[k] + list[k + 1] /\ list[k + 1] \in Nat
      BY <1>1, <1>2, <3>1
    <3>3. R[k] \in Nat /\ (R[k] > 0 <=> \E j \in 1 .. k : list[j] > 0)
      BY <2>2
    <3>4. (\E j \in 1 .. k + 1 : list[j] > 0) <=> (\E j \in 1 .. k : list[j] > 0) \/ list[k + 1] > 0
      BY <1>1, <3>1
    <3>5. R[k + 1] \in Nat /\ (R[k + 1] > 0 <=> R[k] > 0 \/ list[k + 1] > 0)
      BY <3>2, <3>3
    <3> QED
      BY <3>1, <3>3, <3>4, <3>5
  <2> HIDE DEF S
  <2> QED
    BY <1>1, <2>1, <2>2, UpTo
<1>4. Total(list) = R[n] /\ n \in 0 .. n
  BY <1>1, TotalIsLast DEF R, n
<1> QED
  BY <1>3, <1>4 DEF n

LEMMA TotalOfConcat ==
  ASSUME NEW a \in Seq(Int), NEW b \in Seq(Int)
  PROVE  Total(a \o b) = Total(a) + Total(b)
<1> DEFINE c == a \o b
           m == Len(a)
           n == Len(b)
           A == Running(a)
           B == Running(b)
           C == Running(c)
           Head1 == {k \in 0 .. m : C[k] = A[k]}
           Tail1 == {k \in 0 .. n : C[m + k] = A[m] + B[k]}
<1>1. m \in Nat /\ n \in Nat /\ c \in Seq(Int) /\ Len(c) = m + n
  OBVIOUS
<1>2. (\A k \in 1 .. m : c[k] = a[k] /\ a[k] \in Int) /\ \A k \in 1 .. n : c[m + k] = b[k] /\ b[k] \in Int
  OBVIOUS
<1>3. /\ A[0] = 0 /\ \A k \in 1 .. m : A[k] = A[k - 1] + a[k]
      /\ \A k \in 0 .. m : A[k] \in Int
  BY RunningSums
<1>4. /\ B[0] = 0 /\ \A k \in 1 .. n : B[k] = B[k - 1] + b[k]
      /\ \A k \in 0 .. n : B[k] \in Int
  BY RunningSums
<1>5. C[0] = 0 /\ \A k \in 1 .. m + n : C[k] = C[k - 1] + c[k]
  <2> HIDE DEF c
  <2> QED
    BY <1>1, RunningSums
<1>6. Total(a) = A[m] /\ Total(b) = B[n] /\ Total(c) = C[m + n]
  <2> HIDE DEF c
  <2> QED
    BY <1>1, TotalIsLast
<1> HIDE DEF c, m, n, A, B, C
<1>7. \A k \in 0 .. m : k \in Head1
  <2>1. 0 \in Head1
    BY <1>1, <1>3, <1>5
  <2>2. ASSUME NEW k \in 0 .. m - 1, k \in Head1 PROVE k + 1 \in Head1
    <3>1. k + 1 \in 1 .. m /\ k + 1 - 1 = k /\ k + 1 \in 1 .. m + n
      BY <1>1
    <3>2. A[k + 1] = A[k] + a[k + 1] /\ C[k + 1] = C[k] + c[k + 1] /\ c[k + 1] = a[k + 1]
      BY <1>2, <1>3, <1>5, <3>1
    <3> QED
      BY <2>2, <3>1, <3>2
  <2> HIDE DEF Head1
  <2> QED
    BY <1>1, <2>1, <2>2, UpTo
<1>8. \A k \in 0 .. n : k \in Tail1
  <2>1. 0 \in Tail1
    BY <1>1, <1>3, <1>4, <1>7
  <2>2. ASSUME NEW k \in 0 .. n - 1, k \in Tail1 PROVE k + 1 \in Tail1
    <3>1. k + 1 \in 1 .. n /\ k + 1 - 1 = k /\ m + (k + 1) \in 1 .. m + n /\ m + (k + 1) - 1 = m + k /\ m \in 0 .. m
      BY <1>1
    <3>2. B[k + 1] = B[k] + b[k + 1] /\ C[m + (k + 1)] = C[m + k] + c[m + (k + 1)] /\ c[m + (k + 1)] = b[k + 1]
      BY <1>2, <1>4, <1>5, <3>1
    <3>3. k \in 0 .. n
      BY <1>1
    <3>4. A[m] \in Int /\ B[k] \in Int /\ b[k + 1] \in Int
      BY <1>2, <1>3, <1>4, <3>1, <3>3
    <3>5. C[m + k] = A[m] + B[k]
      BY <2>2
    <3> QED
      BY <3>1, <3>2, <3>3, <3>4, <3>5
  <2> HIDE DEF Tail1
  <2> QED
    BY <1>1, <2>1, <2>2, UpTo
<1> QED
  BY <1>1, <1>6, <1>8 DEF c

----------------------------------------------------------------------------
(***************************************************************************)
(* The mean of a group is that of a column over the rows of some kind: w   *)
(* is the number in the column for every row, P the rows of that kind.     *)
(***************************************************************************)

Weighed(rows, w) == [i \in DOMAIN rows |-> w[rows[i]]]
Picked(rows, P) == {i \in DOMAIN rows : rows[i] \in P}
Listed(rows, w, P) == Only(Weighed(rows, w), Picked(rows, P))
SumIn(rows, w, P) == Total(Listed(rows, w, P))
CountIn(rows, P) == Cardinality(Picked(rows, P))
MeanIn(rows, w, P) == [sum |-> SumIn(rows, w, P), n |-> CountIn(rows, P)]

LEMMA MeanIsMeanIn ==
  ASSUME NEW rows, NEW w, NEW P
  PROVE  MeanOver(Weighed(rows, w), Picked(rows, P)) = MeanIn(rows, w, P)
BY DEF MeanOver, MeanIn, SumIn, Listed, CountIn

LEMMA PickedFinite ==
  ASSUME NEW R, NEW rows \in Seq(R), NEW P
  PROVE  /\ IsFiniteSet(Picked(rows, P)) /\ Cardinality(Picked(rows, P)) \in Nat
         /\ Cardinality(Picked(rows, P)) = 0 <=> Picked(rows, P) = {}
<1>1. Picked(rows, P) \in SUBSET (1 .. Len(rows)) /\ Len(rows) \in Nat
  BY DEF Picked
<1>2. IsFiniteSet(1 .. Len(rows))
  BY <1>1, FS_Interval
<1>3. IsFiniteSet(Picked(rows, P))
  BY <1>1, <1>2, FS_Subset
<1> QED
  BY <1>3, FS_CardinalityType, FS_EmptySet

LEMMA OnlyPicked ==
  ASSUME NEW R, NEW w \in [R -> Int], NEW P
  PROVE  \A rows \in Seq(R) :
           /\ Listed(rows, w, P) \in Seq(Int) /\ Len(Listed(rows, w, P)) = Len(rows)
           /\ \A i \in 1 .. Len(rows) :
                Listed(rows, w, P)[i] = IF rows[i] \in P THEN w[rows[i]] ELSE 0
<1> TAKE rows \in Seq(R)
<1> DEFINE column == Weighed(rows, w)
           list == Only(column, Picked(rows, P))
           n == Len(rows)
<1>1. n \in Nat /\ DOMAIN rows = 1 .. n /\ \A i \in 1 .. n : rows[i] \in R /\ w[rows[i]] \in Int
  OBVIOUS
<1>2. DOMAIN column = 1 .. n /\ \A i \in 1 .. n : column[i] = w[rows[i]]
  BY <1>1 DEF Weighed
<1>3. \A i \in 1 .. n : i \in Picked(rows, P) <=> rows[i] \in P
  BY <1>1 DEF Picked
<1>4. list = [i \in 1 .. n |-> IF i \in Picked(rows, P) THEN column[i] ELSE 0]
  BY <1>2 DEF Only
<1> HIDE DEF column, list, n
<1>5. \A i \in 1 .. n : list[i] = (IF rows[i] \in P THEN w[rows[i]] ELSE 0) /\ list[i] \in Int
  BY <1>1, <1>2, <1>3, <1>4
<1>6. list \in [1 .. n -> Int]
  BY <1>4, <1>5
<1>7. list \in Seq(Int) /\ Len(list) = n
  BY <1>1, <1>6
<1> QED
  BY <1>5, <1>7 DEF column, list, n, Listed

LEMMA SumsAreNumbers ==
  ASSUME NEW R, NEW rows \in Seq(R), NEW w \in [R -> Int], NEW P
  PROVE  SumIn(rows, w, P) \in Int
BY OnlyPicked, TotalInt DEF SumIn

LEMMA CountsAreNumbers ==
  ASSUME NEW R, NEW rows \in Seq(R), NEW P
  PROVE  CountIn(rows, P) \in Nat /\ (CountIn(rows, P) = 0 <=> Picked(rows, P) = {})
BY PickedFinite DEF CountIn

LEMMA SumSign ==
  ASSUME NEW R, NEW rows \in Seq(R), NEW w \in [R -> Int], NEW P,
         \A r \in R \cap P : w[r] >= 0
  PROVE  /\ SumIn(rows, w, P) \in Nat
         /\ SumIn(rows, w, P) > 0 <=> \E i \in Picked(rows, P) : w[rows[i]] > 0
<1> DEFINE list == Listed(rows, w, P)
<1>1. /\ list \in Seq(Int) /\ Len(list) = Len(rows)
      /\ \A i \in 1 .. Len(rows) : list[i] = IF rows[i] \in P THEN w[rows[i]] ELSE 0
  BY OnlyPicked
<1>2. \A i \in 1 .. Len(rows) : rows[i] \in R /\ w[rows[i]] \in Int
  OBVIOUS
<1>3. SumIn(rows, w, P) = Total(list)
  BY DEF SumIn
<1> HIDE DEF list
<1>4. \A i \in 1 .. Len(list) : list[i] \in Nat
  BY <1>1, <1>2
<1>5. list \in Seq(Nat)
  <2>1. Len(list) \in Nat /\ DOMAIN list = 1 .. Len(list) /\ list = [i \in DOMAIN list |-> list[i]]
    BY <1>1
  <2>2. list \in [1 .. Len(list) -> Nat]
    BY <1>4, <2>1
  <2> QED
    BY <2>1, <2>2
<1>6. (\E i \in 1 .. Len(list) : list[i] > 0) <=> \E i \in Picked(rows, P) : w[rows[i]] > 0
  <2>1. DOMAIN rows = 1 .. Len(rows) /\ Len(rows) \in Nat
    OBVIOUS
  <2>2. \A i \in 1 .. Len(rows) : i \in Picked(rows, P) <=> rows[i] \in P
    BY <2>1 DEF Picked
  <2>3. \A i \in 1 .. Len(rows) : list[i] > 0 <=> i \in Picked(rows, P) /\ w[rows[i]] > 0
    BY <1>1, <2>2
  <2>4. \A i \in Picked(rows, P) : i \in 1 .. Len(rows)
    BY <2>1 DEF Picked
  <2> QED
    BY <1>1, <2>3, <2>4
<1> QED
  BY <1>3, <1>5, <1>6, TotalSign

LEMMA MergedRows ==
  ASSUME NEW R, NEW a \in Seq(R), NEW b \in Seq(R)
  PROVE  /\ Merged(a, b) \in Seq(R) /\ Len(Merged(a, b)) = Len(a) + Len(b)
         /\ \A i \in 1 .. Len(a) + Len(b) :
              Merged(a, b)[i] = IF i <= Len(a) THEN a[i] ELSE b[i - Len(a)]
BY ConcatProperties DEF Merged

\* Rows that follow one another are counted and added up apart.
LEMMA SumOfMerged ==
  ASSUME NEW R, NEW w \in [R -> Int], NEW P
  PROVE  \A a, b \in Seq(R) : /\ SumIn(Merged(a, b), w, P) = SumIn(a, w, P) + SumIn(b, w, P)
                             /\ CountIn(Merged(a, b), P) = CountIn(a, P) + CountIn(b, P)
<1>2. ASSUME NEW rows \in Seq(R)
      PROVE  /\ Listed(rows, w, P) \in Seq(Int) /\ Len(Listed(rows, w, P)) = Len(rows)
             /\ \A i \in 1 .. Len(rows) :
                  Listed(rows, w, P)[i] = IF rows[i] \in P THEN w[rows[i]] ELSE 0
  BY OnlyPicked
<1> DEFINE List(rows) == Listed(rows, w, P)
<1> SUFFICES ASSUME NEW a \in Seq(R), NEW b \in Seq(R)
             PROVE  /\ SumIn(Merged(a, b), w, P) = SumIn(a, w, P) + SumIn(b, w, P)
                    /\ CountIn(Merged(a, b), P) = CountIn(a, P) + CountIn(b, P)
  OBVIOUS
<1> DEFINE c == Merged(a, b)
           m == Len(a)
           n == Len(b)
<1>1. /\ m \in Nat /\ n \in Nat /\ c \in Seq(R) /\ Len(c) = m + n
      /\ \A i \in 1 .. m + n : c[i] = IF i <= m THEN a[i] ELSE b[i - m]
      /\ DOMAIN a = 1 .. m /\ DOMAIN b = 1 .. n /\ DOMAIN c = 1 .. m + n
  BY DEF Merged
<1> HIDE DEF c, m, n
<1>3. List(c) = List(a) \o List(b)
  <2>1. List(a) \in Seq(Int) /\ List(b) \in Seq(Int) /\ Len(List(a)) = m /\ Len(List(b)) = n
    BY <1>2 DEF m, n
  <2>2. List(c) \in Seq(Int) /\ Len(List(c)) = m + n
    BY <1>1, <1>2
  <2>4. /\ List(a) \o List(b) \in Seq(Int) /\ Len(List(a) \o List(b)) = m + n
        /\ \A i \in 1 .. m + n :
             (List(a) \o List(b))[i] = IF i <= m THEN List(a)[i] ELSE List(b)[i - m]
    BY <2>1, ConcatProperties
  <2>3. ASSUME NEW i \in 1 .. m + n PROVE List(c)[i] = (List(a) \o List(b))[i]
    <3>1. List(c)[i] = IF c[i] \in P THEN w[c[i]] ELSE 0
      BY <1>1, <1>2
    <3>2. CASE i <= m
      <4>1. i \in 1 .. m
        BY <1>1, <3>2
      <4>2. c[i] = a[i] /\ (List(a) \o List(b))[i] = List(a)[i]
        BY <1>1, <2>4, <3>2
      <4>3. List(a)[i] = IF a[i] \in P THEN w[a[i]] ELSE 0
        BY <1>2, <4>1 DEF m
      <4> QED
        BY <3>1, <4>2, <4>3
    <3>3. CASE ~ (i <= m)
      <4>1. i - m \in 1 .. n
        BY <1>1, <3>3
      <4>2. c[i] = b[i - m] /\ (List(a) \o List(b))[i] = List(b)[i - m]
        BY <1>1, <2>4, <3>3
      <4>3. List(b)[i - m] = IF b[i - m] \in P THEN w[b[i - m]] ELSE 0
        BY <1>2, <4>1 DEF n
      <4> QED
        BY <3>1, <4>2, <4>3
    <3> QED
      BY <3>2, <3>3
  <2> QED
    BY <2>2, <2>3, <2>4, SeqEqual
<1>4. Total(List(c)) = Total(List(a)) + Total(List(b))
  BY <1>2, <1>3, TotalOfConcat
<1>5. Cardinality(Picked(c, P)) = Cardinality(Picked(a, P)) + Cardinality(Picked(b, P))
  <2> DEFINE B == {m + i : i \in Picked(b, P)}
  <2>1. Picked(c, P) = Picked(a, P) \cup B
    <3>1. ASSUME NEW i \in Picked(c, P) PROVE i \in Picked(a, P) \cup B
      <4>1. i \in 1 .. m + n /\ c[i] \in P
        BY <1>1, <3>1 DEF Picked
      <4>2. CASE i <= m
        BY <1>1, <4>1, <4>2 DEF Picked
      <4>3. CASE ~ (i <= m)
        <5>1. i - m \in 1 .. n /\ b[i - m] \in P /\ i = m + (i - m)
          BY <1>1, <4>1, <4>3
        <5>2. i - m \in Picked(b, P)
          BY <1>1, <5>1 DEF Picked
        <5> QED
          BY <5>1, <5>2
      <4> QED
        BY <4>2, <4>3
    <3>2. ASSUME NEW i \in Picked(a, P) PROVE i \in Picked(c, P)
      BY <1>1, <3>2 DEF Picked
    <3>3. ASSUME NEW i \in Picked(b, P) PROVE m + i \in Picked(c, P)
      <4>1. i \in 1 .. n /\ b[i] \in P
        BY <1>1, <3>3 DEF Picked
      <4>2. m + i \in 1 .. m + n /\ ~ (m + i <= m) /\ (m + i) - m = i
        BY <1>1, <4>1
      <4> QED
        BY <1>1, <4>1, <4>2 DEF Picked
    <3> QED
      BY <3>1, <3>2, <3>3
  <2>2. Picked(a, P) \cap B = {}
    BY <1>1 DEF Picked
  <2>3. IsFiniteSet(Picked(a, P)) /\ IsFiniteSet(Picked(b, P))
    BY PickedFinite
  <2>4. IsFiniteSet(B) /\ Cardinality(B) = Cardinality(Picked(b, P))
    <3> DEFINE f == [i \in Picked(b, P) |-> m + i]
    <3>1. \A i, j \in Picked(b, P) : m + i = m + j => i = j
      BY <1>1 DEF Picked
    <3>2. f \in [Picked(b, P) -> B] /\ \A t \in B : \E s \in Picked(b, P) : f[s] = t
      OBVIOUS
    <3>3. \A i, j \in Picked(b, P) : f[i] = f[j] => i = j
      BY <3>1
    <3> HIDE DEF f, B
    <3>4. f \in Bijection(Picked(b, P), B)
      BY <3>2, <3>3 DEF Bijection, Injection, Surjection, IsInjective
    <3>5. ExistsBijection(Picked(b, P), B)
      BY <3>4 DEF ExistsBijection
    <3> QED
      BY <2>3, <3>5, FS_Bijection
  <2> HIDE DEF B
  <2>5. Cardinality(Picked(a, P) \cap B) = 0
    BY <2>2, FS_EmptySet
  <2>6. Cardinality(Picked(c, P)) = Cardinality(Picked(a, P)) + Cardinality(B) - Cardinality(Picked(a, P) \cap B)
    BY <2>1, <2>3, <2>4, FS_Union
  <2>7. Cardinality(Picked(a, P)) \in Nat /\ Cardinality(Picked(b, P)) \in Nat
    BY <2>3, FS_CardinalityType
  <2> QED
    BY <2>4, <2>5, <2>6, <2>7
<1> QED
  BY <1>4, <1>5 DEF SumIn, CountIn, List, c

LEMMA SumOfOne ==
  ASSUME NEW R, NEW x \in R, NEW w \in [R -> Int], NEW P
  PROVE  /\ SumIn(<<x>>, w, P) = IF x \in P THEN w[x] ELSE 0
         /\ CountIn(<<x>>, P) = IF x \in P THEN 1 ELSE 0
<1> DEFINE y == <<x>>
           list == Listed(y, w, P)
<1>1. y \in Seq(R) /\ Len(y) = 1 /\ y[1] = x /\ DOMAIN y = 1 .. 1
  OBVIOUS
<1> HIDE DEF y
<1>2. list \in Seq(Int) /\ Len(list) = 1 /\ list[1] = IF x \in P THEN w[x] ELSE 0
  <2>1. /\ list \in Seq(Int) /\ Len(list) = Len(y)
        /\ \A i \in 1 .. Len(y) : list[i] = IF y[i] \in P THEN w[y[i]] ELSE 0
    BY <1>1, OnlyPicked
  <2> HIDE DEF list
  <2>2. 1 \in 1 .. Len(y)
    BY <1>1
  <2> QED
    BY <1>1, <2>1, <2>2
<1> HIDE DEF list
<1>3. Total(list) = list[1]
  <2>1. /\ Running(list)[0] = 0
        /\ \A k \in 1 .. 1 : Running(list)[k] = Running(list)[k - 1] + list[k]
    BY <1>2, RunningSums
  <2>2. Running(list)[1] = 0 + list[1]
    BY <2>1
  <2>3. list[1] \in Int
    BY <1>2
  <2>4. Total(list) = Running(list)[1]
    BY <1>2, TotalIsLast
  <2> QED
    BY <2>2, <2>3, <2>4
<1>4. Cardinality(Picked(y, P)) = IF x \in P THEN 1 ELSE 0
  <2>1. CASE x \in P
    <3>1. Picked(y, P) = {1}
      BY <1>1, <2>1 DEF Picked
    <3> QED
      BY <2>1, <3>1, FS_Singleton
  <2>2. CASE x \notin P
    <3>1. Picked(y, P) = {}
      BY <1>1, <2>2 DEF Picked
    <3> QED
      BY <2>2, <3>1, FS_EmptySet
  <2> QED
    BY <2>1, <2>2
<1> QED
  BY <1>2, <1>3, <1>4 DEF SumIn, CountIn, list, y

\* A row that is taken out takes what it added with it.
LEMMA SumOfRemoved ==
  ASSUME NEW R, NEW rows \in Seq(R), NEW i \in 1 .. Len(rows), NEW w \in [R -> Int], NEW P
  PROVE  LET rest == RemoveAt(rows, i)
         IN  /\ rest \in Seq(R)
             /\ SumIn(rows, w, P) = SumIn(rest, w, P) + (IF rows[i] \in P THEN w[rows[i]] ELSE 0)
             /\ CountIn(rows, P) = CountIn(rest, P) + (IF rows[i] \in P THEN 1 ELSE 0)
<1> DEFINE n == Len(rows)
           a == SubSeq(rows, 1, i - 1)
           b == SubSeq(rows, i + 1, n)
           x == rows[i]
           y == <<x>>
           c == Merged(a, y)
           d == Merged(c, b)
           rest == Merged(a, b)
<1>0. \A f, g \in Seq(R) : /\ SumIn(Merged(f, g), w, P) = SumIn(f, w, P) + SumIn(g, w, P)
                          /\ CountIn(Merged(f, g), P) = CountIn(f, P) + CountIn(g, P)
  BY SumOfMerged, Zenon
<1>1. n \in Nat /\ i \in 1 .. n /\ x \in R
  <2>1. Len(rows) \in Nat /\ rows[i] \in R
    BY ElementOfSeq, LenProperties, Zenon
  <2> QED
    BY <2>1
<1>2. a \in Seq(R) /\ Len(a) = i - 1 /\ \A k \in 1 .. i - 1 : a[k] = rows[k]
  OBVIOUS
<1>3. b \in Seq(R) /\ Len(b) = n - i /\ \A k \in 1 .. n - i : b[k] = rows[i + k]
  OBVIOUS
<1>4. RemoveAt(rows, i) = rest
  BY DEF RemoveAt, Merged
<1> HIDE DEF n, a, b, x
<1>5. SumIn(y, w, P) = (IF x \in P THEN w[x] ELSE 0) /\ CountIn(y, P) = (IF x \in P THEN 1 ELSE 0)
  BY <1>1, SumOfOne
<1>14. y \in Seq(R) /\ Len(y) = 1 /\ y[1] = x
  BY <1>1
<1> HIDE DEF y
<1>6. a \in Seq(R) /\ b \in Seq(R) /\ y \in Seq(R)
  BY <1>2, <1>3, <1>14
<1>7. /\ c \in Seq(R) /\ Len(c) = Len(a) + Len(y)
      /\ \A k \in 1 .. Len(a) + Len(y) : c[k] = IF k <= Len(a) THEN a[k] ELSE y[k - Len(a)]
  BY <1>6, MergedRows, Zenon
<1>8. SumIn(c, w, P) = SumIn(a, w, P) + SumIn(y, w, P) /\ CountIn(c, P) = CountIn(a, P) + CountIn(y, P)
  BY <1>0, <1>6, Zenon
<1>9. rest \in Seq(R) /\ SumIn(rest, w, P) = SumIn(a, w, P) + SumIn(b, w, P) /\ CountIn(rest, P) = CountIn(a, P) + CountIn(b, P)
  <2>1. rest \in Seq(R)
    BY <1>6, MergedRows, Zenon
  <2> QED
    BY <1>0, <1>6, <2>1, Zenon
<1> HIDE DEF c, rest
<1>10. c \in Seq(R)
  BY <1>7
<1>11. /\ d \in Seq(R) /\ Len(d) = Len(c) + Len(b)
       /\ \A k \in 1 .. Len(c) + Len(b) : d[k] = IF k <= Len(c) THEN c[k] ELSE b[k - Len(c)]
  BY <1>6, <1>10, MergedRows, Zenon
<1>12. SumIn(d, w, P) = SumIn(c, w, P) + SumIn(b, w, P) /\ CountIn(d, P) = CountIn(c, P) + CountIn(b, P)
  BY <1>0, <1>6, <1>10, Zenon
<1> HIDE DEF d
<1>13. rows = d
  <2>1. Len(c) = i /\ Len(d) = n
    BY <1>1, <1>2, <1>3, <1>7, <1>11, <1>14
  <2>2. ASSUME NEW k \in 1 .. i PROVE c[k] = rows[k]
    <3>1. CASE k = i
      <4>1. ~ (k <= Len(a)) /\ k - Len(a) = 1 /\ k \in 1 .. Len(a) + Len(y)
        BY <1>1, <1>2, <1>14, <3>1
      <4> QED
        BY <1>7, <1>14, <3>1, <4>1 DEF x
    <3>2. CASE k # i
      <4>1. k \in 1 .. i - 1 /\ k <= Len(a) /\ k \in 1 .. Len(a) + Len(y)
        BY <1>1, <1>2, <1>14, <3>2
      <4> QED
        BY <1>2, <1>7, <4>1
    <3> QED
      BY <3>1, <3>2
  <2>3. ASSUME NEW k \in 1 .. n PROVE d[k] = rows[k]
    <3>1. k \in 1 .. Len(c) + Len(b)
      BY <1>11, <2>1
    <3>2. CASE k <= i
      <4>1. k \in 1 .. i
        BY <1>1, <3>2
      <4> QED
        BY <1>11, <2>1, <2>2, <3>1, <3>2, <4>1
    <3>3. CASE ~ (k <= i)
      <4>1. k - i \in 1 .. n - i /\ i + (k - i) = k
        BY <1>1, <3>3
      <4>2. b[k - i] = rows[i + (k - i)]
        BY <1>3, <4>1
      <4> QED
        BY <1>11, <2>1, <3>1, <3>3, <4>1, <4>2
    <3> QED
      BY <3>2, <3>3
  <2>4. rows \in Seq(R) /\ d \in Seq(R) /\ Len(rows) = Len(d)
    BY <1>11, <2>1 DEF n
  <2> QED
    BY <2>1, <2>3, <2>4, SeqEqual DEF n
<1>16. SumIn(a, w, P) \in Int /\ SumIn(b, w, P) \in Int /\ SumIn(y, w, P) \in Int /\ CountIn(a, P) \in Int /\ CountIn(b, P) \in Int /\ CountIn(y, P) \in Int
  BY <1>6, SumsAreNumbers, CountsAreNumbers
<1>15. SumIn(rows, w, P) = SumIn(rest, w, P) + SumIn(y, w, P) /\ CountIn(rows, P) = CountIn(rest, P) + CountIn(y, P)
  <2>1. SumIn(rows, w, P) = SumIn(d, w, P) /\ CountIn(rows, P) = CountIn(d, P)
    BY <1>13
  <2> QED
    BY <1>8, <1>9, <1>12, <1>16, <2>1
<1> QED
  BY <1>4, <1>5, <1>9, <1>15 DEF x

----------------------------------------------------------------------------
(***************************************************************************)
(* II.  What report.py and figures.py make of the rows of results.csv.     *)
(***************************************************************************)

Row == [workload : Workload, mode : Mode, val : Outcome]

\* The number in column f, as either program loads it.
Cell(f) == [r \in Row |-> IF r.val[f] = Bad THEN 0 ELSE r.val[f]]
Cells(wl, mode, f) == {r \in Row : r.workload = wl /\ r.mode = mode /\ Cell(f)[r] >= 0}
MeanOf(rows, wl, mode, f) ==
  IF Picked(rows, Cells(wl, mode, f)) = {} THEN NoMean ELSE MeanIn(rows, Cell(f), Cells(wl, mode, f))

LEMMA CellIsNumber ==
  ASSUME NEW f \in ReportFields
  PROVE  Cell(f) \in [Row -> Int]
<1>1. ASSUME NEW r \in Row PROVE (IF r.val[f] = Bad THEN 0 ELSE r.val[f]) \in Int
  <2>1. r.val \in [ReportFields -> Int \cup {Bad}]
    BY EvaluationAssumption DEF Row
  <2>2. r.val[f] \in Int \cup {Bad}
    BY <2>1
  <2> QED
    BY <2>2
<1> QED
  BY <1>1 DEF Cell

LEMMA LoadedRow ==
  ASSUME NEW rows \in Seq(Row), NEW fields \in SUBSET ReportFields, NEW i \in DOMAIN rows
  PROVE  LET row == Converted(rows, fields)[i]
         IN  /\ row.workload = rows[i].workload /\ row.mode = rows[i].mode
             /\ \A f \in fields : row.val[f] = Cell(f)[rows[i]]
<1> DEFINE r == rows[i]
           val == [f \in DOMAIN r.val |-> IF f \in fields /\ r.val[f] = Bad THEN 0 ELSE r.val[f]]
           row == Converted(rows, fields)[i]
<1>1. r \in Row
  BY ElementOfSeq, LenProperties
<1>2. row = [r EXCEPT !.val = val]
  BY DEF Converted
<1> HIDE DEF r, val, row
<1>3. row.workload = r.workload /\ row.mode = r.mode /\ row.val = val
  BY <1>1, <1>2 DEF Row
<1>4. DOMAIN r.val = ReportFields
  BY <1>1, EvaluationAssumption DEF Row
<1>5. \A f \in fields : val[f] = Cell(f)[r]
  BY <1>1, <1>4 DEF val, Cell
<1> QED
  BY <1>3, <1>5 DEF r, row

LEMMA LoadedRows ==
  ASSUME NEW rows \in Seq(Row), NEW fields \in SUBSET ReportFields
  PROVE  LET L == Converted(rows, fields)
         IN  /\ DOMAIN L = DOMAIN rows
             /\ \A wl, mode : GroupOf(L, wl, mode) = GroupOf(rows, wl, mode)
             /\ \A f \in fields : Column(L, f) = Weighed(rows, Cell(f))
             /\ \A wl, mode : \A f \in fields :
                  {i \in GroupOf(L, wl, mode) : L[i].val[f] >= 0} = Picked(rows, Cells(wl, mode, f))
<1> DEFINE L == Converted(rows, fields)
<1>1. DOMAIN L = DOMAIN rows
  BY DEF Converted
<1>2. \A i \in DOMAIN rows : /\ L[i].workload = rows[i].workload /\ L[i].mode = rows[i].mode
                             /\ \A f \in fields : L[i].val[f] = Cell(f)[rows[i]]
  BY LoadedRow
<1>3. \A i \in DOMAIN rows : rows[i] \in Row
  BY ElementOfSeq, LenProperties
<1> HIDE DEF L
<1>4. \A wl, mode : GroupOf(L, wl, mode) = GroupOf(rows, wl, mode)
  BY <1>1, <1>2 DEF GroupOf
<1>5. \A f \in fields : Column(L, f) = Weighed(rows, Cell(f))
  BY <1>1, <1>2 DEF Column, Weighed
<1>6. ASSUME NEW wl, NEW mode, NEW f \in fields
      PROVE  {i \in GroupOf(L, wl, mode) : L[i].val[f] >= 0} = Picked(rows, Cells(wl, mode, f))
  <2>1. \A i \in DOMAIN rows : rows[i] \in Cells(wl, mode, f) <=>
            rows[i].workload = wl /\ rows[i].mode = mode /\ L[i].val[f] >= 0
    BY <1>2, <1>3 DEF Cells
  <2> QED
    <3> DEFINE G == {i \in GroupOf(rows, wl, mode) : L[i].val[f] >= 0}
    <3>1. {i \in GroupOf(L, wl, mode) : L[i].val[f] >= 0} = G
      BY <1>4
    <3>2. \A i : i \in G <=> i \in DOMAIN rows /\ rows[i] \in Cells(wl, mode, f)
      BY <2>1 DEF GroupOf
    <3>3. \A i : i \in Picked(rows, Cells(wl, mode, f)) <=> i \in DOMAIN rows /\ rows[i] \in Cells(wl, mode, f)
      BY DEF Picked
    <3> HIDE DEF G
    <3> QED
      BY <3>1, <3>2, <3>3
<1> QED
  BY <1>1, <1>4, <1>5, <1>6 DEF L

\* Both programs compute the same means.
LEMMA ReportMean ==
  ASSUME NEW rows \in Seq(Row), NEW wl, NEW mode, NEW f \in ReportFields
  PROVE  GroupMean(Load(rows), wl, mode, f) = MeanOf(rows, wl, mode, f)
<1>1. /\ Column(Load(rows), f) = Weighed(rows, Cell(f))
      /\ Counted(Load(rows), GroupOf(Load(rows), wl, mode), f) = Picked(rows, Cells(wl, mode, f))
  BY LoadedRows DEF Load, Counted
<1> QED
  BY <1>1, MeanIsMeanIn DEF GroupMean, MeanStd, MeanOf

LEMMA FigureMean ==
  ASSUME NEW rows \in Seq(Row), NEW wl, NEW mode, NEW f \in FigureFields
  PROVE  Bar(LoadForFigures(rows), wl, mode, f) = MeanOf(rows, wl, mode, f)
<1>1. FigureFields \subseteq ReportFields
  BY DEF FigureFields, ReportFields
<1>2. /\ Column(LoadForFigures(rows), f) = Weighed(rows, Cell(f))
      /\ Drawn(LoadForFigures(rows), GroupOf(LoadForFigures(rows), wl, mode), f)
           = Picked(rows, Cells(wl, mode, f))
  BY <1>1, LoadedRows DEF LoadForFigures, Drawn
<1> QED
  BY <1>2, MeanIsMeanIn DEF Bar, Ms, MeanOf

\* What is counted is not negative, so no mean is.
LEMMA MeanOfFacts ==
  ASSUME NEW rows \in Seq(Row), NEW wl, NEW mode, NEW f \in ReportFields
  PROVE  LET q == MeanOf(rows, wl, mode, f)
         IN  q \in Fraction /\ q.sum \in Nat /\ q.n \in Nat \ {0}
<1> DEFINE P == Cells(wl, mode, f)
           w == Cell(f)
<1>1. w \in [Row -> Int]
  BY CellIsNumber
<1>2. \A r \in Row \cap P : w[r] >= 0
  BY DEF Cells
<1>3. NoMean \in Fraction /\ NoMean.sum = 0 /\ NoMean.n = 1
  BY DEF NoMean, Fraction
<1> HIDE DEF P, w
<1>4. SumIn(rows, w, P) \in Nat
  BY <1>1, <1>2, SumSign
<1>5. Picked(rows, P) # {} => CountIn(rows, P) \in Nat \ {0}
  BY CountsAreNumbers
<1>6. Picked(rows, P) # {} =>
        LET q == MeanIn(rows, w, P) IN q \in Fraction /\ q.sum \in Nat /\ q.n \in Nat \ {0}
  BY <1>4, <1>5 DEF MeanIn, Fraction
<1> QED
  BY <1>3, <1>6 DEF MeanOf, P, w

----------------------------------------------------------------------------
(***************************************************************************)
(* III.  The inductive invariant: the report and the figures are those of  *)
(* the rows that are still in the files.                                   *)
(***************************************************************************)

FilesOK ==
  /\ phase \in {"bench", "reported", "drawn", "sweep", "swept", "crashed"}
  /\ todo \in Seq(Groups) /\ csv \in Seq(Row) /\ sweeps \in [Files -> Seq(SweepRow)]

ResultsOK ==
  /\ Recorded => report = GenerateReport(Load(csv))
  /\ phase = "drawn" => figures = Draw(LoadForFigures(csv), log)
  /\ phase = "swept" => /\ \A k \in Files : Readable(sweeps[k])
                        /\ figures = CrosshostLines(sweeps["coarse"], sweeps["fine"], sweeps["lan"])

EvalInv == FilesOK /\ ResultsOK

LEMMA EvalInvInit == Init => EvalInv
<1> SUFFICES ASSUME Init PROVE EvalInv
  OBVIOUS
<1>1. phase \in {"bench", "sweep"} /\ todo \in Plan /\ csv = <<>> /\ sweeps = [k \in Files |-> <<>>]
  BY DEF Init
<1>2. <<>> \in Seq(Row) /\ <<>> \in Seq(SweepRow)
  OBVIOUS
<1>3. sweeps \in [Files -> Seq(SweepRow)]
  BY <1>1, <1>2
<1>4. todo \in Seq(Groups)
  BY <1>1, EvaluationAssumption
<1> QED
  BY <1>1, <1>2, <1>3, <1>4 DEF EvalInv, FilesOK, ResultsOK, Recorded

LEMMA EvalInvStep == EvalInv /\ [Next]_vars => EvalInv'
<1> SUFFICES ASSUME EvalInv, [Next]_vars PROVE EvalInv'
  OBVIOUS
<1>1. /\ phase \in {"bench", "reported", "drawn", "sweep", "swept", "crashed"}
      /\ todo \in Seq(Groups) /\ csv \in Seq(Row) /\ sweeps \in [Files -> Seq(SweepRow)]
  BY DEF EvalInv, FilesOK
<1>2. CASE RunIteration
  <2>1. /\ phase = "bench" /\ todo # <<>> /\ todo' = Tail(todo) /\ phase' = "bench" /\ sweeps' = sweeps
        /\ \E v \in Outcome : csv' = Append(csv, [workload |-> Head(todo)[1], mode |-> Head(todo)[2], val |-> v])
    BY <1>2 DEF RunIteration
  <2>2. PICK v \in Outcome : csv' = Append(csv, [workload |-> Head(todo)[1], mode |-> Head(todo)[2], val |-> v])
    BY <2>1
  <2>3. Head(todo) \in Groups /\ Tail(todo) \in Seq(Groups)
    BY <1>1, <2>1, HeadTailProperties
  <2>4. [workload |-> Head(todo)[1], mode |-> Head(todo)[2], val |-> v] \in Row
    BY <2>3 DEF Groups, Row
  <2>5. csv' \in Seq(Row)
    BY <1>1, <2>2, <2>4
  <2> QED
    BY <1>1, <2>1, <2>3, <2>5 DEF EvalInv, FilesOK, ResultsOK, Recorded
<1>3. CASE MakeReport
  <2>1. /\ phase' = "reported" /\ report' = GenerateReport(Load(csv))
        /\ csv' = csv /\ todo' = todo /\ sweeps' = sweeps
    BY <1>3 DEF MakeReport, inputs
  <2> QED
    BY <1>1, <2>1 DEF EvalInv, FilesOK, ResultsOK, Recorded
<1>4. CASE MakeFigures
  <2>1. /\ phase = "reported" /\ phase' = "drawn" /\ figures' = Draw(LoadForFigures(csv), log)
        /\ csv' = csv /\ todo' = todo /\ sweeps' = sweeps /\ log' = log /\ report' = report
    BY <1>4 DEF MakeFigures, inputs
  <2>2. report = GenerateReport(Load(csv))
    BY <2>1 DEF EvalInv, ResultsOK, Recorded
  <2> QED
    BY <1>1, <2>1, <2>2 DEF EvalInv, FilesOK, ResultsOK, Recorded
<1>5. CASE MeasureSweep
  <2>1. /\ phase' = "sweep" /\ csv' = csv /\ todo' = todo
        /\ \E k \in Files, r \in SweepRow : sweeps' = [sweeps EXCEPT ![k] = Append(@, r)]
    BY <1>5 DEF MeasureSweep
  <2>2. PICK k \in Files, r \in SweepRow : sweeps' = [sweeps EXCEPT ![k] = Append(sweeps[k], r)]
    BY <2>1
  <2>3. Append(sweeps[k], r) \in Seq(SweepRow)
    BY <1>1
  <2>4. sweeps' \in [Files -> Seq(SweepRow)]
    BY <1>1, <2>2, <2>3
  <2> QED
    BY <1>1, <2>1, <2>4 DEF EvalInv, FilesOK, ResultsOK, Recorded
<1>6. CASE MakeCrosshost
  <2>1. /\ csv' = csv /\ todo' = todo /\ sweeps' = sweeps
        /\ \/ /\ \A k \in Files : Readable(sweeps[k])
              /\ phase' = "swept"
              /\ figures' = CrosshostLines(sweeps["coarse"], sweeps["fine"], sweeps["lan"])
           \/ phase' = "crashed"
    BY <1>6 DEF MakeCrosshost, inputs
  <2> QED
    BY <1>1, <2>1 DEF EvalInv, FilesOK, ResultsOK, Recorded
<1>7. CASE UNCHANGED vars
  BY <1>7 DEF EvalInv, FilesOK, ResultsOK, Recorded, vars
<1>8. CASE Finished
  BY <1>7, <1>8 DEF Finished
<1> QED
  BY <1>2, <1>3, <1>4, <1>5, <1>6, <1>7, <1>8 DEF Next

LEMMA EvalInvAlways == Spec => []EvalInv
BY EvalInvInit, EvalInvStep, PTL DEF Spec

----------------------------------------------------------------------------
(* What a report says, in terms of the rows of the file.                   *)

LEMMA HasLoaded ==
  ASSUME NEW rows \in Seq(Row), NEW wl, NEW mode
  PROVE  Has(Load(rows), wl, mode) <=> Has(rows, wl, mode)
BY LoadedRows DEF Load, Has

\* Where nothing answered, nothing was counted.
LEMMA NoRowsNoMean ==
  ASSUME NEW rows \in Seq(Row), NEW wl, NEW mode, NEW f, ~ Has(rows, wl, mode)
  PROVE  MeanOf(rows, wl, mode, f) = NoMean
<1>1. \A i \in DOMAIN rows : rows[i] \notin Cells(wl, mode, f)
  BY DEF Has, GroupOf, Cells
<1>2. Picked(rows, Cells(wl, mode, f)) = {}
  BY <1>1 DEF Picked
<1> QED
  BY <1>2 DEF MeanOf

----------------------------------------------------------------------------
(* Fractions with a divisor.                                               *)

Sound(q) == q \in Fraction /\ q.n > 0

LEMMA ProductPositive ==
  ASSUME NEW j \in Nat \ {0}, NEW k \in Nat \ {0}
  PROVE  j * k \in Nat \ {0}
OBVIOUS

LEMMA ProductMonotone ==
  ASSUME NEW j \in Nat, NEW k \in Nat, NEW l \in Nat, k <= j
  PROVE  k * l <= j * l
<1>1. PICK d \in Nat : j = k + d
  <2>1. j - k \in Nat /\ j = k + (j - k)
    OBVIOUS
  <2> QED
    BY <2>1
<1>2. (k + d) * l = k * l + d * l
  OBVIOUS
<1>3. k * l \in Nat /\ d * l \in Nat
  OBVIOUS
<1> QED
  BY <1>1, <1>2, <1>3

LEMMA ProductNumber ==
  ASSUME NEW j \in Int, NEW k \in Int
  PROVE  j * k \in Int
OBVIOUS

LEMMA SoundFields ==
  ASSUME NEW q, Sound(q)
  PROVE  q.sum \in Int /\ q.n \in Nat \ {0} /\ q \notin {Absent, Failed} /\ q = [sum |-> q.sum, n |-> q.n]
BY ResultAssumption DEF Sound, Fraction

LEMMA OverSound ==
  ASSUME NEW q, NEW r, Sound(q), Sound(r), Positive(r)
  PROVE  Sound(Over(q, r))
<1>1. q.sum \in Int /\ q.n \in Nat \ {0} /\ r.n \in Nat \ {0} /\ r.sum \in Nat \ {0}
  BY SoundFields DEF Positive
<1>2. q.sum * r.n \in Int /\ q.n * r.sum \in Nat \ {0}
  BY <1>1, ProductPositive, ProductNumber
<1> QED
  BY <1>2 DEF Over, Sound, Fraction

LEMMA MinusSound ==
  ASSUME NEW q, NEW r, Sound(q), Sound(r)
  PROVE  Sound(Minus(q, r))
<1>1. q.sum \in Int /\ q.n \in Nat \ {0} /\ r.n \in Nat \ {0} /\ r.sum \in Int
  BY SoundFields
<1>2. q.sum * r.n \in Int /\ r.sum * q.n \in Int /\ q.n * r.n \in Nat \ {0}
  BY <1>1, ProductPositive, ProductNumber
<1> QED
  BY <1>2 DEF Minus, Sound, Fraction

LEMMA WholeSound ==
  ASSUME NEW k \in Int
  PROVE  Sound(Whole(k)) /\ Whole(k).sum = k /\ Whole(k).n = 1
BY DEF Whole, Sound, Fraction

LEMMA ChangeSound ==
  ASSUME NEW q, NEW r, Sound(q), Sound(r)
  PROVE  Sound(Change(q, r))
<1>1. Sound(Whole(0))
  BY WholeSound
<1>2. Positive(q) => Sound(Over(Minus(r, q), q))
  BY MinusSound, OverSound
<1> QED
  BY <1>1, <1>2 DEF Change

LEMMA MeanSound ==
  ASSUME NEW rows \in Seq(Row), NEW wl, NEW mode, NEW f \in ReportFields
  PROVE  Sound(MeanOf(rows, wl, mode, f)) /\ Sound(GroupMean(Load(rows), wl, mode, f))
<1>1. Sound(MeanOf(rows, wl, mode, f))
  BY MeanOfFacts DEF Sound
<1> QED
  BY <1>1, ReportMean

LEMMA NamedMeans ==
  ASSUME NEW rows \in Seq(Row), NEW wl, NEW mode
  PROVE  LET L == Load(rows)
         IN  /\ Ttfr(L, wl, mode) = MeanOf(rows, wl, mode, "ttfr_ms") /\ Sound(Ttfr(L, wl, mode))
             /\ Baseline(L, wl) = MeanOf(rows, wl, "full", "throughput_ops_sec")
             /\ Sound(Baseline(L, wl))
<1>1. "ttfr_ms" \in ReportFields /\ "throughput_ops_sec" \in ReportFields
  BY DEF ReportFields
<1> QED
  BY <1>1, ReportMean, MeanSound DEF Ttfr, Baseline

LEMMA SoundDefined ==
  ASSUME NEW q, Sound(q)
  PROVE  Defined(q) /\ Defined(Shown(q))
BY DEF Sound, Defined, Shown

LEMMA CheckpointDefined ==
  ASSUME NEW rows \in Seq(Row), NEW wl \in Workload
  PROVE  Defined(Checkpoint(Load(rows))[wl])
<1> DEFINE L == Load(rows)
           f == "checkpoint_time_ms"
           S == {i \in DOMAIN L : L[i].workload = wl}
           kept == Counted(L, S, f)
<1>1. Checkpoint(L)[wl] = Shown(MeanStd(L, S, f))
  BY DEF Checkpoint
<1>2. DOMAIN L = 1 .. Len(rows) /\ Len(rows) \in Nat
  BY LoadedRows, LenProperties DEF Load
<1>3. kept \subseteq 1 .. Len(rows)
  BY <1>2 DEF Counted
<1> HIDE DEF kept
<1>4. IsFiniteSet(kept)
  <2>1. IsFiniteSet(1 .. Len(rows))
    BY <1>2, FS_Interval
  <2> QED
    BY <1>3, <2>1, FS_Subset, Zenon
<1>5. kept # {} => Cardinality(kept) > 0
  BY <1>4, FS_CardinalityType, FS_EmptySet
<1>6. MeanStd(L, S, f).n > 0
  <2>1. MeanStd(L, S, f) = IF kept = {} THEN NoMean ELSE MeanOver(Column(L, f), kept)
    BY DEF MeanStd, kept
  <2>2. NoMean.n = 1 /\ MeanOver(Column(L, f), kept).n = Cardinality(kept)
    BY DEF NoMean, MeanOver
  <2> HIDE DEF L, S, f
  <2> QED
    BY <1>5, <2>1, <2>2
<1> HIDE DEF L, S, f
<1> QED
  BY <1>1, <1>6 DEF Shown, Defined, L

LEMMA ReportSections ==
  ASSUME NEW rows
  PROVE  LET r == GenerateReport(rows)
         IN  /\ r.ttfr = TtfrTable(rows) /\ r.throughput = Throughput(rows)
             /\ r.checkpoint = Checkpoint(rows) /\ r.verdicts = Verdicts(rows)
             /\ r.questions = Questions(rows)
BY DEF GenerateReport

\* The answers to a workload's questions.
LEMMA Answers ==
  ASSUME NEW rows, NEW wl \in Workload
  PROVE  LET q == Questions(rows)[wl]
         IN  /\ q.rq1 = If(rows, wl, "full", "lazy", RQ1(rows, wl))
             /\ q.rq2 = If(rows, wl, "lazy", "lazy-prefetch", RQ2(rows, wl))
             /\ q.rq3 = If(rows, wl, "lazy-prefetch", "lazy-hot", RQ3(rows, wl))
             /\ q.rq4 = RQ4(rows, wl)
             /\ q.rq5 = If(rows, wl, "lazy-prefetch", "lazy-adaptive", RQ5(rows, wl))
BY DEF Questions

LEMMA AnswersDefined ==
  ASSUME NEW rows \in Seq(Row), NEW wl \in Workload
  PROVE  LET L == Load(rows)
         IN  /\ Defined(RQ2(L, wl)) /\ Defined(RQ3(L, wl))
             /\ \A m \in LazyModes : Defined(RQ4(L, wl)[m])
             /\ Defined(RQ5(L, wl).delta) /\ Defined(RQ5(L, wl).volume)
<1> DEFINE L == Load(rows)
<1>1. {"page_faults", "pages_prefetched", "throughput_ops_sec"} \subseteq ReportFields
  BY DEF ReportFields
<1>2. \A m, f : f \in ReportFields => Sound(GroupMean(L, wl, m, f))
  BY MeanSound
<1>3. \A m : Sound(Ttfr(L, wl, m)) /\ Sound(Baseline(L, wl))
  BY NamedMeans
<1> HIDE DEF L
<1>4. Sound(RQ2(L, wl))
  <2>1. /\ Sound(GroupMean(L, wl, "lazy", "page_faults"))
        /\ Sound(GroupMean(L, wl, "lazy-prefetch", "page_faults"))
    BY <1>1, <1>2
  <2> QED
    BY <2>1, ChangeSound, Zenon DEF RQ2
<1>5. Sound(RQ3(L, wl))
  <2>1. Sound(Whole(0))
    BY WholeSound
  <2> QED
    BY <1>3, <2>1, MinusSound, OverSound DEF RQ3
<1>6. ASSUME NEW m \in LazyModes PROVE Defined(RQ4(L, wl)[m])
  <2>1. Sound(GroupMean(L, wl, m, "throughput_ops_sec"))
    BY <1>1, <1>2
  <2>2. Positive(Baseline(L, wl)) =>
          Defined(Over(GroupMean(L, wl, m, "throughput_ops_sec"), Baseline(L, wl)))
    BY <1>3, <2>1, OverSound, SoundDefined
  <2>3. Defined(Absent)
    BY DEF Defined
  <2> QED
    BY <2>2, <2>3 DEF RQ4
<1>7. Sound(RQ5(L, wl).delta) /\ Sound(RQ5(L, wl).volume)
  <2>1. RQ5(L, wl).delta = Minus(Ttfr(L, wl, "lazy-adaptive"), Ttfr(L, wl, "lazy-prefetch"))
    BY DEF RQ5
  <2>2. RQ5(L, wl).volume = Change(GroupMean(L, wl, "lazy-prefetch", "pages_prefetched"),
                                   GroupMean(L, wl, "lazy-adaptive", "pages_prefetched"))
    BY DEF RQ5
  <2>3. "pages_prefetched" \in ReportFields
    BY <1>1
  <2> QED
    BY <1>2, <1>3, <2>1, <2>2, <2>3, MinusSound, ChangeSound
<1> QED
  BY <1>4, <1>5, <1>6, <1>7, SoundDefined DEF L

LEMMA ReportDefined ==
  ASSUME NEW rows \in Seq(Row)
  PROVE  LET L == Load(rows)
         IN  /\ \A g \in Groups : Defined(TtfrTable(L)[g])
             /\ \A g \in Groups :
                  Throughput(L)[g] = Absent
                    \/ (Defined(Throughput(L)[g].mean) /\ Defined(Throughput(L)[g].share))
<1> DEFINE L == Load(rows)
<1>1. Defined(Absent)
  BY DEF Defined
<1>2. "throughput_ops_sec" \in ReportFields
  BY DEF ReportFields
<1>3. \A wl, m : /\ Sound(Ttfr(L, wl, m)) /\ Sound(Baseline(L, wl))
                 /\ Sound(GroupMean(L, wl, m, "throughput_ops_sec"))
  BY <1>2, MeanSound, NamedMeans
<1> HIDE DEF L
<1>4. ASSUME NEW g \in Groups PROVE Defined(TtfrTable(L)[g])
  <2>1. Defined(Shown(Ttfr(L, g[1], g[2])))
    BY <1>3, SoundDefined
  <2> QED
    BY <1>1, <2>1 DEF TtfrTable
<1>5. ASSUME NEW g \in Groups, Throughput(L)[g] # Absent
      PROVE  Defined(Throughput(L)[g].mean) /\ Defined(Throughput(L)[g].share)
  <2> DEFINE m == GroupMean(L, g[1], g[2], "throughput_ops_sec")
             base == Baseline(L, g[1])
             share == IF g[2] # "full" /\ Positive(base) THEN Over(m, base) ELSE Absent
  <2>1. Throughput(L)[g] = [mean |-> Shown(m), share |-> share]
    BY <1>5 DEF Throughput
  <2>2. Sound(m) /\ Sound(base)
    BY <1>3
  <2> HIDE DEF m, base
  <2>3. Defined(Shown(m)) /\ Defined(share)
    BY <1>1, <2>2, OverSound, SoundDefined
  <2> QED
    BY <2>1, <2>3
<1> QED
  BY <1>4, <1>5 DEF L

LEMMA TypeFollows == EvalInv => TypeOK
<1> SUFFICES ASSUME EvalInv PROVE TypeOK
  OBVIOUS
<1>1. /\ phase \in {"bench", "reported", "drawn", "sweep", "swept", "crashed"} /\ csv \in Seq(Row)
      /\ Recorded => report = GenerateReport(Load(csv))
  BY DEF EvalInv, FilesOK, ResultsOK
<1>2. SUFFICES ASSUME Recorded
               PROVE  /\ \A g \in Groups : Defined(report.ttfr[g])
                      /\ \A g \in Groups :
                           report.throughput[g] = Absent
                             \/ (Defined(report.throughput[g].mean) /\ Defined(report.throughput[g].share))
                      /\ \A wl \in Workload :
                           LET q == report.questions[wl]
                           IN  /\ Defined(report.checkpoint[wl]) /\ Defined(q.rq2) /\ Defined(q.rq3)
                               /\ \A m \in LazyModes : Defined(q.rq4[m])
                               /\ q.rq5 = Absent \/ (Defined(q.rq5.delta) /\ Defined(q.rq5.volume))
  BY <1>1 DEF TypeOK
<1> DEFINE L == Load(csv)
<1>3. /\ report.ttfr = TtfrTable(L) /\ report.throughput = Throughput(L)
      /\ report.checkpoint = Checkpoint(L) /\ report.questions = Questions(L)
  BY <1>1, <1>2, ReportSections
<1>4. ASSUME NEW wl \in Workload
      PROVE  LET q == report.questions[wl]
             IN  /\ Defined(report.checkpoint[wl]) /\ Defined(q.rq2) /\ Defined(q.rq3)
                 /\ \A m \in LazyModes : Defined(q.rq4[m])
                 /\ q.rq5 = Absent \/ (Defined(q.rq5.delta) /\ Defined(q.rq5.volume))
  <2> DEFINE q == Questions(L)[wl]
  <2>1. Defined(Checkpoint(L)[wl])
    BY <1>1, CheckpointDefined
  <2>2. /\ Defined(RQ2(L, wl)) /\ Defined(RQ3(L, wl))
        /\ \A m \in LazyModes : Defined(RQ4(L, wl)[m])
        /\ Defined(RQ5(L, wl).delta) /\ Defined(RQ5(L, wl).volume)
    BY <1>1, AnswersDefined
  <2>3. Defined(Absent)
    BY DEF Defined
  <2> HIDE DEF L
  <2>4. /\ q.rq2 = If(L, wl, "lazy", "lazy-prefetch", RQ2(L, wl))
        /\ q.rq3 = If(L, wl, "lazy-prefetch", "lazy-hot", RQ3(L, wl))
        /\ q.rq4 = RQ4(L, wl)
        /\ q.rq5 = If(L, wl, "lazy-prefetch", "lazy-adaptive", RQ5(L, wl))
    BY Answers
  <2> HIDE DEF q
  <2>5. Defined(q.rq2) /\ Defined(q.rq3) /\ q.rq5 \in {Absent, RQ5(L, wl)}
    BY <2>2, <2>3, <2>4 DEF If
  <2> QED
    BY <1>3, <2>1, <2>2, <2>4, <2>5 DEF q
<1>5. /\ \A g \in Groups : Defined(TtfrTable(L)[g])
      /\ \A g \in Groups :
           Throughput(L)[g] = Absent
             \/ (Defined(Throughput(L)[g].mean) /\ Defined(Throughput(L)[g].share))
  BY <1>1, ReportDefined
<1> HIDE DEF L
<1> QED
  BY <1>3, <1>4, <1>5

(***************************************************************************)
(* Whatever rows are missing or failed, every mean, share and change of a  *)
(* report has a divisor that is not zero (report.py:85-352).               *)
(***************************************************************************)
THEOREM ReportTypeSafety == Spec => []TypeOK
BY EvalInvAlways, TypeFollows, PTL

----------------------------------------------------------------------------
(***************************************************************************)
(* IV.  What was answered: a mean time to first answer is positive exactly *)
(* when the mode was answered at all.                                      *)
(***************************************************************************)

LEMMA TimesAreNumbers ==
  /\ \A r \in Row : Cell("ttfr_ms")[r] = r.val["ttfr_ms"]
  /\ \A r \in Row : r.val["ttfr_ms"] \in Int
  /\ \A r \in Row : r.val["ttfr_ms"] >= 0 => r.val["ttfr_ms"] > 0
<1> SUFFICES ASSUME NEW r \in Row
             PROVE  /\ Cell("ttfr_ms")[r] = r.val["ttfr_ms"] /\ r.val["ttfr_ms"] \in Int
                    /\ r.val["ttfr_ms"] >= 0 => r.val["ttfr_ms"] > 0
  OBVIOUS
<1>1. r.val["ttfr_ms"] = -1 \/ r.val["ttfr_ms"] \in Nat \ {0}
  BY EvaluationAssumption DEF Row
<1>2. r.val["ttfr_ms"] # Bad
  BY <1>1, ResultAssumption
<1> QED
  BY <1>1, <1>2 DEF Cell

LEMMA AnsweredMean ==
  ASSUME csv \in Seq(Row), NEW wl, NEW mode
  PROVE  LET A == Answered(wl, mode)
             q == MeanOf(csv, wl, mode, "ttfr_ms")
         IN  /\ q = IF A = {} THEN NoMean ELSE Answer(A)
             /\ Positive(q) <=> A # {}
<1> DEFINE w == Cell("ttfr_ms")
           P == Cells(wl, mode, "ttfr_ms")
           A == Answered(wl, mode)
           q == MeanOf(csv, wl, mode, "ttfr_ms")
<1>1. \A i \in DOMAIN csv : csv[i] \in Row
  BY ElementOfSeq, LenProperties
<1>2. \A i \in DOMAIN csv : w[csv[i]] = csv[i].val["ttfr_ms"] /\ (w[csv[i]] >= 0 => w[csv[i]] > 0)
  BY <1>1, TimesAreNumbers
<1>3. A = Picked(csv, P)
  <2>1. \A i \in DOMAIN csv : csv[i] \in P <=>
          csv[i].workload = wl /\ csv[i].mode = mode /\ csv[i].val["ttfr_ms"] >= 0
    BY <1>1, <1>2 DEF Cells
  <2>2. \A i : i \in A <=>
          i \in DOMAIN csv /\ csv[i].workload = wl /\ csv[i].mode = mode /\ csv[i].val["ttfr_ms"] >= 0
    BY DEF Answered, GroupOf
  <2>3. \A i : i \in Picked(csv, P) <=> i \in DOMAIN csv /\ csv[i] \in P
    BY DEF Picked
  <2> HIDE DEF A, P
  <2> QED
    BY <2>1, <2>2, <2>3
<1>4. Column(csv, "ttfr_ms") = Weighed(csv, w)
  <2> HIDE DEF w
  <2> QED
    BY <1>2 DEF Column, Weighed
<1>5. Answer(A) = MeanIn(csv, w, P)
  <2> HIDE DEF A, w, P
  <2> QED
    BY <1>3, <1>4, MeanIsMeanIn DEF Answer
<1>6. q = IF A = {} THEN NoMean ELSE Answer(A)
  <2>1. q = IF Picked(csv, P) = {} THEN NoMean ELSE MeanIn(csv, w, P)
    BY DEF MeanOf
  <2> HIDE DEF A, w, P, q
  <2> QED
    BY <1>3, <1>5, <2>1
<1>7. \A i \in Picked(csv, P) : w[csv[i]] > 0
  <2>1. \A i \in Picked(csv, P) : i \in DOMAIN csv /\ csv[i] \in P
    BY DEF Picked
  <2>2. \A r \in P : w[r] >= 0
    BY DEF Cells
  <2> HIDE DEF w, P
  <2> QED
    BY <1>2, <2>1, <2>2
<1>8. A # {} => SumIn(csv, w, P) > 0
  <2>1. "ttfr_ms" \in ReportFields
    BY DEF ReportFields
  <2>2. w \in [Row -> Int]
    BY <2>1, CellIsNumber
  <2>3. \A r \in Row \cap P : w[r] >= 0
    BY DEF Cells
  <2> HIDE DEF A, w, P
  <2>4. SumIn(csv, w, P) > 0 <=> \E i \in Picked(csv, P) : w[csv[i]] > 0
    BY <2>2, <2>3, SumSign
  <2> QED
    BY <1>3, <1>7, <2>4
<1>9. ~ Positive(NoMean)
  BY DEF NoMean, Positive
<1> HIDE DEF A, w, P, q
<1>10. A # {} => Positive(Answer(A))
  BY <1>5, <1>8 DEF MeanIn, Positive
<1>11. Positive(q) <=> A # {}
  BY <1>6, <1>9, <1>10
<1> QED
  BY <1>6, <1>11 DEF A, q

LEMMA PassFollows == EvalInv => PassIsMeasured
<1> SUFFICES ASSUME EvalInv, Recorded, NEW wl \in Workload, NEW m \in LazyModes, Has(csv, wl, m)
             PROVE  LET A == Answered(wl, m)
                    IN  report.verdicts[<<wl, m>>].h1 = "PASS" <=> A # {} /\ Below(Answer(A), Whole(1000))
  BY DEF PassIsMeasured
<1> DEFINE L == Load(csv)
           A == Answered(wl, m)
           q == MeanOf(csv, wl, m, "ttfr_ms")
<1>1. csv \in Seq(Row) /\ report = GenerateReport(L)
  BY DEF EvalInv, FilesOK, ResultsOK
<1>2. report.verdicts = Verdicts(L)
  BY <1>1, ReportSections
<1>3. Has(L, wl, m)
  BY <1>1, HasLoaded
<1>4. Ttfr(L, wl, m) = q
  BY <1>1, NamedMeans
<1>5. q = (IF A = {} THEN NoMean ELSE Answer(A)) /\ (Positive(q) <=> A # {})
  BY <1>1, AnsweredMean
<1> HIDE DEF L, A, q
<1>6. Verdicts(L)[<<wl, m>>].h1 = Verdict(FastEnough(q))
  <2>1. <<wl, m>> \in Workload \X LazyModes /\ <<wl, m>>[1] = wl /\ <<wl, m>>[2] = m
    OBVIOUS
  <2>2. Verdicts(L)[<<wl, m>>] = [h1 |-> H1(L, wl, m), h2 |-> H2(L, wl, m)]
    BY <1>3, <2>1 DEF Verdicts
  <2> QED
    BY <1>4, <2>2 DEF H1
<1>7. Verdict(FastEnough(q)) = "PASS" <=> FastEnough(q)
  BY DEF Verdict
<1>8. FastEnough(q) <=> A # {} /\ Below(Answer(A), Whole(1000))
  BY <1>5 DEF FastEnough
<1> QED
  BY <1>2, <1>6, <1>7, <1>8 DEF A

(***************************************************************************)
(* In every report, of whatever suite, H1 passes exactly for the modes     *)
(* that were answered within a second in the mean of their answers; a      *)
(* failed iteration's -1 is no part of it (report.py:85-92, 238-247).      *)
(***************************************************************************)
THEOREM PassSafety == Spec => []PassIsMeasured
BY EvalInvAlways, PassFollows, PTL

----------------------------------------------------------------------------
(* The research questions.                                                 *)

\* A ratio is above one when its first number is the greater one.
LEMMA RatioAboveOne ==
  ASSUME NEW q, NEW r, Sound(q), Sound(r)
  PROVE  Below(Whole(1), Over(r, q)) <=> Below(q, r)
<1> DEFINE a == r.n * q.sum
           b == r.sum * q.n
<1>1. q.sum \in Int /\ q.n \in Nat /\ r.n \in Nat /\ r.sum \in Int
  BY SoundFields
<1>2. a \in Int /\ b \in Int /\ q.sum * r.n = a
  BY <1>1, ProductNumber
<1>3. Below(Whole(1), Over(r, q)) <=> 1 * a < b * 1
  BY DEF Below, Whole, Over
<1>4. Below(q, r) <=> q.sum * r.n < b
  BY DEF Below
<1> HIDE DEF a, b
<1> QED
  BY <1>2, <1>3, <1>4

\* A change from a positive number is all of it when it goes to zero.
LEMMA WholeChange ==
  ASSUME NEW q, NEW r, Sound(q), Sound(r), Positive(q)
  PROVE  Same(Over(Minus(q, r), q), Whole(1)) <=> r.sum = 0
<1> DEFINE a == q.sum * r.n
           b == r.sum * q.n
<1>1. q.sum \in Nat \ {0} /\ q.n \in Nat \ {0} /\ r.n \in Nat \ {0} /\ r.sum \in Int
  BY SoundFields DEF Positive
<1>2. a \in Int /\ b \in Int
  BY <1>1, ProductNumber
<1>3. Same(Over(Minus(q, r), q), Whole(1)) <=> ((a - b) * q.n) * 1 = 1 * ((q.n * r.n) * q.sum)
  BY DEF Same, Over, Minus, Whole
<1>4. (q.n * r.n) * q.sum = a * q.n
  BY <1>1
<1>5. b = 0 <=> r.sum = 0
  BY <1>1
<1> HIDE DEF a, b
<1>6. (a - b) * q.n = a * q.n - b * q.n /\ a * q.n \in Int /\ b * q.n \in Int
  BY <1>1, <1>2
<1>7. b * q.n = 0 <=> b = 0
  BY <1>1, <1>2
<1>8. ((a - b) * q.n) * 1 = 1 * ((q.n * r.n) * q.sum) <=> a * q.n - b * q.n = a * q.n
  BY <1>4, <1>6
<1>9. a * q.n - b * q.n = a * q.n <=> b * q.n = 0
  BY <1>6
<1> QED
  BY <1>3, <1>5, <1>7, <1>8, <1>9

LEMMA DirectionFollows ==
  ASSUME EvalInv, Recorded, NEW wl \in Workload
  PROVE  DirectionIsMeasured(wl)
<1> DEFINE rows == Load(csv)
           F == Answered(wl, "full")
           L == Answered(wl, "lazy")
           f == Ttfr(rows, wl, "full")
           l == Ttfr(rows, wl, "lazy")
<1> SUFFICES ASSUME Has(csv, wl, "full"), Has(csv, wl, "lazy")
             PROVE  report.questions[wl].rq1 =
                      IF F = {} \/ L = {} THEN "none"
                      ELSE IF Below(Answer(F), Answer(L)) THEN "slower" ELSE "faster"
  BY DEF DirectionIsMeasured
<1>1. csv \in Seq(Row) /\ report = GenerateReport(rows)
  BY DEF EvalInv, FilesOK, ResultsOK
<1>2. report.questions = Questions(rows)
  BY <1>1, ReportSections
<1>3. Has(rows, wl, "full") /\ Has(rows, wl, "lazy")
  BY <1>1, HasLoaded
<1>4. Sound(f) /\ f = (IF F = {} THEN NoMean ELSE Answer(F)) /\ (Positive(f) <=> F # {})
  BY <1>1, NamedMeans, AnsweredMean
<1>5. Sound(l) /\ l = (IF L = {} THEN NoMean ELSE Answer(L)) /\ (Positive(l) <=> L # {})
  BY <1>1, NamedMeans, AnsweredMean
<1>6. RQ1(rows, wl) = Direction(f, l)
  BY DEF RQ1
<1> HIDE DEF rows, F, L, f, l
<1>7. report.questions[wl].rq1 = Direction(f, l)
  BY <1>2, <1>3, <1>6, Answers DEF If
<1>8. Below(Whole(1), Over(l, f)) <=> Below(f, l)
  BY <1>4, <1>5, RatioAboveOne
<1> QED
  BY <1>4, <1>5, <1>7, <1>8 DEF Direction, BothAnswered

LEMMA HundredPercentFollows ==
  ASSUME EvalInv, Recorded, NEW wl \in Workload
  PROVE  HundredPercentMeansFailure(wl)
<1> DEFINE rows == Load(csv)
           pre == Ttfr(rows, wl, "lazy-prefetch")
           hot == Ttfr(rows, wl, "lazy-hot")
           q == report.questions[wl].rq3
<1> SUFFICES ASSUME q # Absent, Answered(wl, "lazy-prefetch") # {}
             PROVE  Same(q, Whole(1)) <=> Answered(wl, "lazy-hot") = {}
  BY DEF HundredPercentMeansFailure
<1>1. csv \in Seq(Row) /\ report = GenerateReport(rows)
  BY DEF EvalInv, FilesOK, ResultsOK
<1>2. report.questions = Questions(rows)
  BY <1>1, ReportSections
<1>3. Sound(pre) /\ Positive(pre)
  BY <1>1, NamedMeans, AnsweredMean
<1>4. Sound(hot) /\ (Positive(hot) <=> Answered(wl, "lazy-hot") # {}) /\ hot.sum \in Nat
  <2>1. "ttfr_ms" \in ReportFields
    BY DEF ReportFields
  <2> QED
    BY <1>1, <2>1, NamedMeans, AnsweredMean, MeanOfFacts
<1>5. RQ3(rows, wl) = Over(Minus(pre, hot), pre)
  BY <1>3 DEF RQ3
<1> HIDE DEF rows, pre, hot
<1>6. q = RQ3(rows, wl)
  <2>1. q = If(rows, wl, "lazy-prefetch", "lazy-hot", RQ3(rows, wl))
    BY <1>2, Answers
  <2> HIDE DEF q
  <2> QED
    BY <2>1 DEF If
<1> HIDE DEF q
<1>7. Same(q, Whole(1)) <=> hot.sum = 0
  BY <1>3, <1>4, <1>5, <1>6, WholeChange
<1>8. hot.sum = 0 <=> ~ Positive(hot)
  BY <1>4 DEF Positive
<1> QED
  BY <1>4, <1>7, <1>8

LEMMA QuestionsFollow == EvalInv => QuestionsAreMeasured
BY DirectionFollows, HundredPercentFollows DEF QuestionsAreMeasured

(***************************************************************************)
(* In every report the answers to RQ1 and RQ3 are what was measured: a     *)
(* direction is given exactly when both restores were answered and is that *)
(* of their means, and where prefetch was answered an improvement of a     *)
(* hundred percent means that hot pages never were (report.py:279-318).    *)
(***************************************************************************)
THEOREM QuestionSafety == Spec => []QuestionsAreMeasured
BY EvalInvAlways, QuestionsFollow, PTL

----------------------------------------------------------------------------
(***************************************************************************)
(* V.  The figures beside the report.                                      *)
(***************************************************************************)

\* A reduction is the change with the other sign.
LEMMA ReductionIsChange ==
  ASSUME NEW q, NEW r, Sound(q), Sound(r), Positive(q)
  PROVE  Same(Minus(Whole(0), Over(Minus(q, r), q)), Change(q, r))
<1> DEFINE a == q.sum * r.n
           b == r.sum * q.n
           d == (q.n * r.n) * q.sum
           e == (r.n * q.n) * q.sum
           cut == Over(Minus(q, r), q)
           change == Over(Minus(r, q), q)
<1>1. q.sum \in Int /\ q.n \in Int /\ r.n \in Int /\ r.sum \in Int
  BY SoundFields
<1>2. a \in Int /\ b \in Int /\ d \in Int /\ e = d
  <2>1. q.n * r.n \in Int /\ r.n * q.n = q.n * r.n
    BY <1>1
  <2> QED
    BY <1>1, <2>1, ProductNumber
<1>3. cut.sum = (a - b) * q.n /\ cut.n = d /\ change.sum = (b - a) * q.n /\ change.n = e
  BY DEF Over, Minus
<1>4. Change(q, r) = change
  BY DEF Change
<1>5. Same(Minus(Whole(0), cut), change) <=>
        (0 * cut.n - cut.sum * 1) * change.n = change.sum * (1 * cut.n)
  BY DEF Same, Minus, Whole
<1> HIDE DEF a, b, d, e, cut, change
<1>6. (a - b) * q.n = a * q.n - b * q.n /\ (b - a) * q.n = b * q.n - a * q.n
  BY <1>1, <1>2
<1>7. a * q.n \in Int /\ b * q.n \in Int
  BY <1>1, <1>2, ProductNumber
<1>8. 0 * d - (a * q.n - b * q.n) * 1 = b * q.n - a * q.n /\ 1 * d = d
  BY <1>2, <1>7
<1>9. (0 * cut.n - cut.sum * 1) * change.n = change.sum * (1 * cut.n)
  BY <1>2, <1>3, <1>6, <1>8
<1> QED
  BY <1>4, <1>5, <1>9 DEF cut

\* The cell of the report's table and the bar are of one mean.
LEMMA CellAndBar ==
  ASSUME NEW rows \in Seq(Row), NEW g \in Groups
  PROVE  LET bar == Bar(LoadForFigures(rows), g[1], g[2], "ttfr_ms")
             cell == TtfrTable(Load(rows))[g]
         IN  SameCell(bar, cell) /\ (Positive(bar) <=> cell \notin {Absent, Failed})
<1> DEFINE L == Load(rows)
           q == MeanOf(rows, g[1], g[2], "ttfr_ms")
           cell == TtfrTable(L)[g]
<1>1. "ttfr_ms" \in FigureFields
  BY DEF FigureFields
<1>2. Bar(LoadForFigures(rows), g[1], g[2], "ttfr_ms") = q
  BY <1>1, FigureMean
<1>3. Ttfr(L, g[1], g[2]) = q /\ Sound(q)
  BY NamedMeans
<1>4. Has(L, g[1], g[2]) <=> Has(rows, g[1], g[2])
  BY HasLoaded
<1>5. ~ Has(rows, g[1], g[2]) => q = NoMean
  BY NoRowsNoMean
<1> HIDE DEF L, q
<1>6. cell = IF Has(L, g[1], g[2]) THEN Shown(q) ELSE Absent
  BY <1>3 DEF TtfrTable
<1> HIDE DEF cell
<1>7. q \notin {Absent, Failed} /\ Same(q, q) /\ ~ Positive(NoMean)
  BY <1>3, SoundFields DEF Same, NoMean, Positive
<1>8. cell = IF Positive(q) THEN q ELSE IF Has(L, g[1], g[2]) THEN Failed ELSE Absent
  BY <1>4, <1>5, <1>6, <1>7 DEF Shown
<1> QED
  BY <1>2, <1>7, <1>8 DEF SameCell, L, cell

LEMMA ReductionAgrees ==
  ASSUME NEW rows \in Seq(Row), NEW wl \in Workload
  PROVE  LET cut == PrefetchVolume(LoadForFigures(rows)).reduction[wl]
             rq5 == Questions(Load(rows))[wl].rq5
         IN  IF cut = Absent THEN rq5 = Absent \/ Same(rq5.volume, Whole(0))
             ELSE rq5 # Absent /\ Same(Minus(Whole(0), cut), rq5.volume)
<1> DEFINE L == Load(rows)
           LF == LoadForFigures(rows)
           pre == MeanOf(rows, wl, "lazy-prefetch", "pages_prefetched")
           ada == MeanOf(rows, wl, "lazy-adaptive", "pages_prefetched")
           both == Has(rows, wl, "lazy-prefetch") /\ Has(rows, wl, "lazy-adaptive")
           cut == PrefetchVolume(LF).reduction[wl]
           rq5 == Questions(L)[wl].rq5
<1>1. "pages_prefetched" \in FigureFields /\ "pages_prefetched" \in ReportFields
  BY DEF FigureFields, ReportFields
<1>2. /\ Bar(LF, wl, "lazy-prefetch", "pages_prefetched") = pre
      /\ Bar(LF, wl, "lazy-adaptive", "pages_prefetched") = ada
  BY <1>1, FigureMean
<1>3. Sound(pre) /\ Sound(ada)
  BY <1>1, MeanSound
<1>4. \A m : Has(LF, wl, m) <=> Has(rows, wl, m)
  <2>1. FigureFields \in SUBSET ReportFields
    BY DEF FigureFields, ReportFields
  <2> QED
    BY <2>1, LoadedRows DEF LoadForFigures, Has
<1>5. \A m : Has(L, wl, m) <=> Has(rows, wl, m)
  BY HasLoaded
<1>6. RQ5(L, wl).volume = Change(pre, ada) /\ Sound(RQ5(L, wl).delta)
  <2>1. /\ GroupMean(L, wl, "lazy-prefetch", "pages_prefetched") = pre
        /\ GroupMean(L, wl, "lazy-adaptive", "pages_prefetched") = ada
    BY <1>1, ReportMean
  <2>2. Sound(Ttfr(L, wl, "lazy-adaptive")) /\ Sound(Ttfr(L, wl, "lazy-prefetch"))
    BY NamedMeans
  <2> HIDE DEF L, pre, ada
  <2> QED
    BY <2>1, <2>2, MinusSound DEF RQ5
<1> HIDE DEF L, LF, pre, ada
<1>7. cut = IF both /\ Positive(pre) THEN Over(Minus(pre, ada), pre) ELSE Absent
  BY <1>2, <1>4 DEF PrefetchVolume
<1>8. rq5 = IF both THEN RQ5(L, wl) ELSE Absent
  <2>1. rq5 = If(L, wl, "lazy-prefetch", "lazy-adaptive", RQ5(L, wl))
    BY Answers
  <2> HIDE DEF rq5
  <2> QED
    BY <1>5, <2>1 DEF If
<1> HIDE DEF both, cut, rq5
<1>9. RQ5(L, wl) # Absent
  <2>1. RQ5(L, wl).delta \in Fraction /\ RQ5(L, wl).volume \in Fraction
    BY <1>3, <1>6, ChangeSound DEF Sound
  <2>2. RQ5(L, wl) = [delta |-> RQ5(L, wl).delta, volume |-> RQ5(L, wl).volume]
    BY DEF RQ5
  <2>3. RQ5(L, wl) \in [delta : Fraction, volume : Fraction]
    BY <2>1, <2>2
  <2> QED
    BY <2>3, EvaluationAssumption
<1>10. CASE both /\ Positive(pre)
  <2>1. Sound(cut) /\ cut = Over(Minus(pre, ada), pre)
    BY <1>3, <1>7, <1>10, MinusSound, OverSound
  <2>2. cut # Absent
    BY <2>1, SoundFields
  <2>3. Same(Minus(Whole(0), cut), Change(pre, ada))
    BY <1>3, <1>10, <2>1, ReductionIsChange
  <2> QED
    BY <1>6, <1>8, <1>9, <1>10, <2>2, <2>3 DEF cut, rq5, L, LF
<1>11. CASE ~ (both /\ Positive(pre))
  <2>1. cut = Absent
    BY <1>7, <1>11
  <2>2. both => Change(pre, ada) = Whole(0)
    BY <1>11 DEF Change
  <2>3. Same(Whole(0), Whole(0))
    BY DEF Same, Whole
  <2>4. rq5 = Absent \/ Same(rq5.volume, Whole(0))
    BY <1>6, <1>8, <2>2, <2>3
  <2> QED
    BY <2>1, <2>4 DEF cut, rq5, L, LF
<1> QED
  BY <1>10, <1>11

LEMMA FiguresFollow == EvalInv => FiguresAgree
<1> SUFFICES ASSUME EvalInv, phase = "drawn" PROVE FiguresAgree
  BY DEF FiguresAgree
<1> DEFINE L == Load(csv)
           LF == LoadForFigures(csv)
<1>1. csv \in Seq(Row) /\ report = GenerateReport(L) /\ figures = Draw(LF, log)
  BY DEF EvalInv, FilesOK, ResultsOK, Recorded
<1>2. report.ttfr = TtfrTable(L) /\ report.questions = Questions(L)
  BY <1>1, ReportSections
<1>3. figures.fig1 = PytorchTtfr(LF) /\ figures.fig2 = TtfrAll(LF) /\ figures.fig3 = PrefetchVolume(LF)
  BY <1>1 DEF Draw
<1>4. DrawnModes \subseteq Mode
  BY DEF DrawnModes
<1>5. ASSUME NEW g \in Workload \X DrawnModes PROVE SameCell(figures.fig2[g], report.ttfr[g])
  <2>1. g \in Groups
    BY <1>4 DEF Groups
  <2>2. figures.fig2[g] = Bar(LF, g[1], g[2], "ttfr_ms")
    BY <1>3 DEF TtfrAll
  <2> QED
    BY <1>1, <1>2, <2>1, <2>2, CellAndBar
<1>6. ASSUME NEW m \in DrawnModes
      PROVE  figures.fig1[m].labelled <=> report.ttfr[<<"pytorch", m>>] \notin {Absent, Failed}
  <2>1. <<"pytorch", m>> \in Groups /\ <<"pytorch", m>>[1] = "pytorch" /\ <<"pytorch", m>>[2] = m
    BY <1>4, EvaluationAssumption DEF Groups
  <2>2. figures.fig1[m].labelled <=> Positive(Bar(LF, "pytorch", m, "ttfr_ms"))
    BY <1>3 DEF PytorchTtfr
  <2>3. Positive(Bar(LF, "pytorch", m, "ttfr_ms")) <=> TtfrTable(L)[<<"pytorch", m>>] \notin {Absent, Failed}
    BY <1>1, <2>1, CellAndBar
  <2> QED
    BY <1>2, <2>2, <2>3
<1>7. ASSUME NEW wl \in Workload
      PROVE  LET cut == figures.fig3.reduction[wl]
                 rq5 == report.questions[wl].rq5
             IN  IF cut = Absent THEN rq5 = Absent \/ Same(rq5.volume, Whole(0))
                 ELSE rq5 # Absent /\ Same(Minus(Whole(0), cut), rq5.volume)
  BY <1>1, <1>2, <1>3, ReductionAgrees
<1> HIDE DEF L, LF
<1> QED
  BY <1>5, <1>6, <1>7 DEF FiguresAgree

(***************************************************************************)
(* figures.py, with its own copy of the loading and averaging code, draws  *)
(* the numbers of report.py, whatever the suite recorded                   *)
(* (figures.py:116-261, report.py:57-92, 324-336).                         *)
(***************************************************************************)
THEOREM AgreeSafety == Spec => []FiguresAgree
BY EvalInvAlways, FiguresFollow, PTL

----------------------------------------------------------------------------
(***************************************************************************)
(* VI.  The report with one failed iteration less.                         *)
(***************************************************************************)

LEMMA RemovedUncounted ==
  ASSUME NEW rows \in Seq(Row), NEW i \in 1 .. Len(rows), NEW wl, NEW mode, NEW f \in ReportFields,
         rows[i] \notin Cells(wl, mode, f)
  PROVE  MeanOf(RemoveAt(rows, i), wl, mode, f) = MeanOf(rows, wl, mode, f)
<1> DEFINE rest == RemoveAt(rows, i)
           P == Cells(wl, mode, f)
           w == Cell(f)
<1>1. w \in [Row -> Int]
  BY CellIsNumber
<1> HIDE DEF w
<1>2. /\ rest \in Seq(Row)
      /\ SumIn(rows, w, P) = SumIn(rest, w, P) + 0
      /\ CountIn(rows, P) = CountIn(rest, P) + 0
  BY <1>1, SumOfRemoved
<1> HIDE DEF rest, P
<1>3. SumIn(rest, w, P) \in Int /\ CountIn(rest, P) \in Nat
  BY <1>1, <1>2, SumsAreNumbers, CountsAreNumbers
<1>4. MeanIn(rest, w, P) = MeanIn(rows, w, P)
  BY <1>2, <1>3 DEF MeanIn
<1>5. Picked(rest, P) = {} <=> Picked(rows, P) = {}
  BY <1>2, <1>3, CountsAreNumbers
<1> QED
  BY <1>4, <1>5 DEF MeanOf, rest, P, w

LEMMA RemovedZero ==
  ASSUME NEW rows \in Seq(Row), NEW i \in 1 .. Len(rows), NEW wl, NEW mode, NEW f \in ReportFields,
         rows[i] \in Cells(wl, mode, f), Cell(f)[rows[i]] = 0
  PROVE  LET q == MeanOf(rows, wl, mode, f)
             r == MeanOf(RemoveAt(rows, i), wl, mode, f)
         IN  r.sum = q.sum /\ r.n <= q.n
<1> DEFINE rest == RemoveAt(rows, i)
           P == Cells(wl, mode, f)
           w == Cell(f)
           q == MeanOf(rows, wl, mode, f)
           r == MeanOf(rest, wl, mode, f)
<1>1. w \in [Row -> Int] /\ \A x \in Row \cap P : w[x] >= 0
  BY CellIsNumber DEF Cells
<1>2. q = (IF Picked(rows, P) = {} THEN NoMean ELSE MeanIn(rows, w, P))
  BY DEF MeanOf
<1>3. r = (IF Picked(rest, P) = {} THEN NoMean ELSE MeanIn(rest, w, P))
  BY DEF MeanOf
<1>4. w[rows[i]] = 0 /\ rows[i] \in P
  OBVIOUS
<1> HIDE DEF w, P, q, r
<1>5. /\ rest \in Seq(Row)
      /\ SumIn(rows, w, P) = SumIn(rest, w, P) + 0
      /\ CountIn(rows, P) = CountIn(rest, P) + 1
  BY <1>1, <1>4, SumOfRemoved
<1> HIDE DEF rest
<1>6. SumIn(rest, w, P) \in Nat /\ (SumIn(rest, w, P) > 0 => Picked(rest, P) # {})
  BY <1>1, <1>5, SumSign
<1>7. CountIn(rest, P) \in Nat /\ (CountIn(rest, P) = 0 <=> Picked(rest, P) = {})
  BY <1>5, CountsAreNumbers
<1>8. q.sum = SumIn(rest, w, P) /\ q.n = CountIn(rest, P) + 1
  <2>1. Picked(rows, P) # {}
    <3>1. CountIn(rows, P) # 0
      BY <1>5, <1>7
    <3> QED
      BY <3>1, CountsAreNumbers
  <2> QED
    BY <1>2, <1>5, <1>6, <2>1 DEF MeanIn
<1>9. CASE Picked(rest, P) = {}
  <2>1. r.sum = 0 /\ r.n = 1
    BY <1>3, <1>9 DEF NoMean
  <2> QED
    BY <1>6, <1>7, <1>8, <1>9, <2>1 DEF q, r, rest
<1>10. CASE Picked(rest, P) # {}
  <2>1. r.sum = SumIn(rest, w, P) /\ r.n = CountIn(rest, P)
    BY <1>3, <1>10 DEF MeanIn
  <2>2. r.sum = q.sum /\ r.n <= q.n
    BY <1>7, <1>8, <2>1
  <2> QED
    BY <2>2 DEF q, r, rest
<1> QED
  BY <1>9, <1>10

\* A share of at least 70 percent stays one when fewer rows share the sum.
LEMMA ShareStays ==
  ASSUME NEW q, NEW r, NEW base, Sound(q), Sound(r), Sound(base), Positive(base),
         q.sum \in Nat, r.sum = q.sum, r.n <= q.n,
         ~ Below(Over(q, base), [sum |-> 70, n |-> 100])
  PROVE  ~ Below(Over(r, base), [sum |-> 70, n |-> 100]) /\ r.sum > 0
<1> DEFINE a == q.sum * base.n
           d == q.n * base.sum
           e == r.n * base.sum
<1>1. /\ q.n \in Nat \ {0} /\ r.n \in Nat \ {0} /\ base.n \in Nat \ {0} /\ base.sum \in Nat \ {0}
  BY SoundFields DEF Positive
<1>2. a \in Nat /\ d \in Nat \ {0} /\ e \in Nat \ {0}
  BY <1>1, ProductPositive
<1>3. e <= d
  <2> DEFINE j == q.n
             k == r.n
             l == base.sum
  <2>1. j \in Nat /\ k \in Nat /\ l \in Nat /\ k <= j
    BY <1>1
  <2>2. d = j * l /\ e = k * l
    OBVIOUS
  <2> HIDE DEF j, k, l
  <2> HIDE DEF d, e
  <2> QED
    BY <2>1, <2>2, ProductMonotone
<1>4. ~ (a * 100 < 70 * d)
  BY DEF Below, Over
<1>5. Below(Over(r, base), [sum |-> 70, n |-> 100]) <=> a * 100 < 70 * e
  BY DEF Below, Over
<1>6. a > 0 => q.sum > 0
  BY <1>1
<1> HIDE DEF a, d, e
<1>7. ~ (a * 100 < 70 * e) /\ a > 0
  BY <1>2, <1>3, <1>4
<1> QED
  BY <1>5, <1>6, <1>7

LEMMA VerdictWords ==
  ASSUME NEW holds \in BOOLEAN
  PROVE  Verdict(holds) \in {"PASS", "FAIL"} /\ (Verdict(holds) = "PASS" <=> holds)
BY DEF Verdict

LEMMA VerdictOf ==
  ASSUME NEW rows \in Seq(Row), NEW wl \in Workload, NEW m \in LazyModes
  PROVE  LET v == Verdicts(Load(rows))[<<wl, m>>]
         IN  /\ Has(rows, wl, m) =>
                  /\ v # Absent
                  /\ v.h1 = "PASS" <=> FastEnough(MeanOf(rows, wl, m, "ttfr_ms"))
                  /\ v.h2 = "PASS" <=>
                       LET base == MeanOf(rows, wl, "full", "throughput_ops_sec")
                           q == MeanOf(rows, wl, m, "throughput_ops_sec")
                       IN  Positive(base) /\ ~ Below(Over(q, base), [sum |-> 70, n |-> 100])
<1> DEFINE L == Load(rows)
           v == Verdicts(L)[<<wl, m>>]
           t == MeanOf(rows, wl, m, "ttfr_ms")
           base == MeanOf(rows, wl, "full", "throughput_ops_sec")
           q == MeanOf(rows, wl, m, "throughput_ops_sec")
<1> SUFFICES ASSUME Has(rows, wl, m)
             PROVE  /\ v # Absent
                    /\ v.h1 = "PASS" <=> FastEnough(t)
                    /\ v.h2 = "PASS" <=> Positive(base) /\ ~ Below(Over(q, base), [sum |-> 70, n |-> 100])
  OBVIOUS
<1>1. Ttfr(L, wl, m) = t /\ Baseline(L, wl) = base
  BY NamedMeans
<1>2. GroupMean(L, wl, m, "throughput_ops_sec") = q
  <2>1. "throughput_ops_sec" \in ReportFields
    BY DEF ReportFields
  <2> QED
    BY <2>1, ReportMean
<1>3. Has(L, wl, m)
  BY HasLoaded
<1> HIDE DEF L, t, base, q
<1>4. v = [h1 |-> H1(L, wl, m), h2 |-> H2(L, wl, m)]
  <2>1. <<wl, m>> \in Workload \X LazyModes /\ <<wl, m>>[1] = wl /\ <<wl, m>>[2] = m
    OBVIOUS
  <2> QED
    BY <1>3, <2>1 DEF Verdicts
<1> HIDE DEF v
<1>5. H1(L, wl, m) \in {"PASS", "FAIL"} /\ (H1(L, wl, m) = "PASS" <=> FastEnough(t))
  <2>1. H1(L, wl, m) = Verdict(FastEnough(t))
    BY <1>1 DEF H1
  <2>2. FastEnough(t) \in BOOLEAN
    BY DEF FastEnough
  <2> QED
    BY <2>1, <2>2, VerdictWords
<1>6. /\ H2(L, wl, m) \in {"PASS", "FAIL", "N/A"}
      /\ H2(L, wl, m) = "PASS" <=> Positive(base) /\ ~ Below(Over(q, base), [sum |-> 70, n |-> 100])
  <2> DEFINE share == ~ Below(Over(q, base), [sum |-> 70, n |-> 100])
  <2>1. H2(L, wl, m) = IF Positive(base) THEN Verdict(share) ELSE "N/A"
    BY <1>1, <1>2 DEF H2
  <2>5. share \in BOOLEAN
    OBVIOUS
  <2> HIDE DEF share
  <2>2. Verdict(share) \in {"PASS", "FAIL"} /\ (Verdict(share) = "PASS" <=> share)
    BY <2>5, VerdictWords
  <2>3. CASE Positive(base)
    BY <2>1, <2>2, <2>3 DEF share
  <2>4. CASE ~ Positive(base)
    BY <2>1, <2>4
  <2> QED
    BY <2>3, <2>4
<1>7. v \in [h1 : {"PASS", "FAIL"}, h2 : {"PASS", "FAIL", "N/A"}]
  BY <1>4, <1>5, <1>6
<1>8. v # Absent
  BY <1>7, EvaluationAssumption
<1> QED
  BY <1>4, <1>5, <1>6, <1>8

LEMMA FailuresFollow == EvalInv => FailuresNeverHelp
<1> SUFFICES ASSUME EvalInv, Recorded, NEW wl \in Workload, NEW m \in LazyModes, NEW i \in Errors(wl, m)
             PROVE  LET given == report.verdicts[<<wl, m>>]
                        clean == Verdicts(Load(RemoveAt(csv, i)))[<<wl, m>>]
                    IN  /\ given.h1 = "PASS" => clean # Absent /\ clean.h1 = "PASS"
                        /\ given.h2 = "PASS" => clean # Absent /\ clean.h2 = "PASS"
  BY DEF FailuresNeverHelp
<1> DEFINE rest == RemoveAt(csv, i)
           T(rows) == MeanOf(rows, wl, m, "ttfr_ms")
           B(rows) == MeanOf(rows, wl, "full", "throughput_ops_sec")
           Q(rows) == MeanOf(rows, wl, m, "throughput_ops_sec")
           given == report.verdicts[<<wl, m>>]
           clean == Verdicts(Load(rest))[<<wl, m>>]
<1>1. csv \in Seq(Row) /\ report = GenerateReport(Load(csv))
  BY DEF EvalInv, FilesOK, ResultsOK
<1>2. i \in 1 .. Len(csv) /\ csv[i] \in Row
  <2>1. i \in DOMAIN csv
    BY DEF Errors, GroupOf
  <2> QED
    BY <1>1, <2>1, ElementOfSeq, LenProperties
<1>3. /\ csv[i].workload = wl /\ csv[i].mode = m /\ i \in GroupOf(csv, wl, m)
      /\ csv[i].val["ttfr_ms"] < 0 /\ csv[i].val["throughput_ops_sec"] = 0
  BY DEF Errors, GroupOf
<1>4. Has(csv, wl, m)
  BY <1>3 DEF Has
<1>5. "ttfr_ms" \in ReportFields /\ "throughput_ops_sec" \in ReportFields
  BY DEF ReportFields
<1>6. rest \in Seq(Row)
  <2>1. Cell("ttfr_ms") \in [Row -> Int]
    BY <1>5, CellIsNumber
  <2> QED
    BY <1>1, <1>2, <2>1, SumOfRemoved
<1>7. T(rest) = T(csv)
  <2>1. csv[i] \notin Cells(wl, m, "ttfr_ms")
    <3>1. Cell("ttfr_ms")[csv[i]] = csv[i].val["ttfr_ms"] /\ csv[i].val["ttfr_ms"] \in Int
      BY <1>2, TimesAreNumbers
    <3> QED
      BY <1>3, <3>1 DEF Cells
  <2> QED
    BY <1>1, <1>2, <1>5, <2>1, RemovedUncounted
<1>8. B(rest) = B(csv)
  <2>1. csv[i] \notin Cells(wl, "full", "throughput_ops_sec")
    BY <1>3 DEF Cells, LazyModes
  <2> QED
    BY <1>1, <1>2, <1>5, <2>1, RemovedUncounted
<1>9. Q(rest).sum = Q(csv).sum /\ Q(rest).n <= Q(csv).n
  <2>1. Cell("throughput_ops_sec")[csv[i]] = 0
    BY <1>2, <1>3 DEF Cell
  <2>2. csv[i] \in Cells(wl, m, "throughput_ops_sec")
    BY <1>2, <1>3, <2>1 DEF Cells
  <2> QED
    BY <1>1, <1>2, <1>5, <2>1, <2>2, RemovedZero
<1>10. /\ Sound(Q(csv)) /\ Sound(Q(rest)) /\ Sound(B(csv)) /\ Q(csv).sum \in Nat
  BY <1>1, <1>5, <1>6, MeanSound, MeanOfFacts
<1>11. ~ Has(rest, wl, m) => T(rest) = NoMean /\ Q(rest) = NoMean
  BY <1>6, NoRowsNoMean
<1>12. NoMean.sum = 0
  BY DEF NoMean
<1>13. given = Verdicts(Load(csv))[<<wl, m>>]
  BY <1>1, ReportSections
<1>14. /\ given.h1 = "PASS" <=> FastEnough(T(csv))
       /\ given.h2 = "PASS" <=> Positive(B(csv)) /\ ~ Below(Over(Q(csv), B(csv)), [sum |-> 70, n |-> 100])
  <2> HIDE DEF given
  <2> QED
    BY <1>1, <1>4, <1>13, VerdictOf
<1>15. Has(rest, wl, m) =>
         /\ clean # Absent /\ (clean.h1 = "PASS" <=> FastEnough(T(rest)))
         /\ clean.h2 = "PASS" <=> Positive(B(rest)) /\ ~ Below(Over(Q(rest), B(rest)), [sum |-> 70, n |-> 100])
  <2> HIDE DEF rest
  <2> QED
    BY <1>6, VerdictOf
<1> HIDE DEF rest, T, B, Q, given, clean
<1>16. ASSUME given.h1 = "PASS" PROVE clean # Absent /\ clean.h1 = "PASS"
  <2>1. FastEnough(T(rest)) /\ T(rest).sum > 0
    BY <1>7, <1>14, <1>16 DEF FastEnough, Positive
  <2>2. Has(rest, wl, m)
    BY <1>11, <1>12, <2>1
  <2> QED
    BY <1>15, <2>1, <2>2
<1>17. ASSUME given.h2 = "PASS" PROVE clean # Absent /\ clean.h2 = "PASS"
  <2>1. Positive(B(csv)) /\ ~ Below(Over(Q(csv), B(csv)), [sum |-> 70, n |-> 100])
    BY <1>14, <1>17
  <2>2. ~ Below(Over(Q(rest), B(csv)), [sum |-> 70, n |-> 100]) /\ Q(rest).sum > 0
    BY <1>9, <1>10, <2>1, ShareStays
  <2>3. Has(rest, wl, m)
    BY <1>11, <1>12, <2>2
  <2> QED
    BY <1>8, <1>15, <2>1, <2>2, <2>3
<1> QED
  BY <1>16, <1>17 DEF given, clean, rest

(***************************************************************************)
(* Taking a failed iteration out of any file never takes a passed verdict  *)
(* away: its -1 is not part of the mean that H1 judges, and its zero only  *)
(* lowers the one that H2 does (report.py:85-92, 238-269).                 *)
(***************************************************************************)
THEOREM FailureSafety == Spec => []FailuresNeverHelp
BY EvalInvAlways, FailuresFollow, PTL

----------------------------------------------------------------------------
(***************************************************************************)
(* VII.  The lines of figure 6 are drawn of both sweeps.                   *)
(***************************************************************************)

\* The rows int() reads.
Sweep == {r \in SweepRow : r.ttfr # Bad}
AnswerTime == [r \in Sweep |-> r.ttfr]
At(mode, rtt) == {r \in Sweep : r.mode = mode /\ r.ttfr >= 0 /\ r.rtt = rtt}

LEMMA SweepFields ==
  /\ \A r \in Sweep : r \in SweepRow /\ r.rtt \in Nat /\ r.ttfr \in Int
  /\ AnswerTime \in [Sweep -> Int]
<1>1. ASSUME NEW r \in Sweep PROVE r \in SweepRow /\ r.rtt \in Nat /\ r.ttfr \in Int
  <2>1. r \in SweepRow /\ r.ttfr # Bad
    BY DEF Sweep
  <2>2. r \in [rtt : Nat, mode : Mode, ttfr : Int \cup {Bad}]
    BY <2>1, EvaluationAssumption
  <2> QED
    BY <2>1, <2>2
<1> QED
  BY <1>1 DEF AnswerTime

LEMMA ReadableRows ==
  ASSUME NEW rows \in Seq(SweepRow), Readable(rows)
  PROVE  rows \in Seq(Sweep)
<1>1. /\ Len(rows) \in Nat /\ DOMAIN rows = 1 .. Len(rows) /\ rows = [i \in DOMAIN rows |-> rows[i]]
      /\ \A i \in DOMAIN rows : rows[i] \in SweepRow
  OBVIOUS
<1>2. \A i \in DOMAIN rows : rows[i] \in Sweep
  BY <1>1 DEF Readable, Sweep
<1>3. rows \in [1 .. Len(rows) -> Sweep]
  BY <1>1, <1>2
<1> QED
  BY <1>1, <1>3

LEMMA SweepMean ==
  ASSUME NEW rows \in Seq(Sweep), NEW mode, NEW rtt
  PROVE  /\ AnswersAt(rows, mode, rtt) = Picked(rows, At(mode, rtt))
         /\ MeanTtfr(rows, AnswersAt(rows, mode, rtt)) = MeanIn(rows, AnswerTime, At(mode, rtt))
<1>1. \A i \in DOMAIN rows : rows[i] \in Sweep
  BY ElementOfSeq, LenProperties
<1>2. AnswersAt(rows, mode, rtt) = Picked(rows, At(mode, rtt))
  BY <1>1 DEF AnswersAt, AnswersOf, Picked, At
<1>3. [i \in DOMAIN rows |-> rows[i].ttfr] = Weighed(rows, AnswerTime)
  BY <1>1 DEF Weighed, AnswerTime
<1> QED
  BY <1>2, <1>3, MeanIsMeanIn DEF MeanTtfr

\* One point for a round-trip time that was answered, none for another.
LEMMA PointAt ==
  ASSUME NEW rows \in Seq(Sweep), NEW mode, NEW row \in SweepRow
  PROVE  {p \in Series(rows, mode) : p.x = Abscissa(row.rtt)} =
           IF CountIn(rows, At(mode, row.rtt)) = 0 THEN {}
           ELSE {[x |-> Abscissa(row.rtt), y |-> MeanIn(rows, AnswerTime, At(mode, row.rtt))]}
<1> DEFINE rtt == row.rtt
           Point(i) == [x |-> Abscissa(rows[i].rtt), y |-> MeanTtfr(rows, AnswersAt(rows, mode, rows[i].rtt))]
           point == [x |-> Abscissa(rtt), y |-> MeanIn(rows, AnswerTime, At(mode, rtt))]
           S == {p \in Series(rows, mode) : p.x = Abscissa(rtt)}
<1>1. ASSUME NEW p \in S PROVE p = point /\ AnswersAt(rows, mode, rtt) # {}
  <2>1. PICK i \in AnswersOf(rows, mode) : p = Point(i)
    BY DEF Series
  <2>2. rows[i] \in SweepRow
    <3>1. i \in DOMAIN rows
      BY DEF AnswersOf
    <3> QED
      BY <3>1, ElementOfSeq, LenProperties, SweepFields
  <2>3. rows[i].rtt = rtt
    <3>1. Abscissa(rows[i].rtt) = Abscissa(row.rtt)
      BY <2>1
    <3> QED
      BY <2>2, <3>1, EvaluationAssumption
  <2>4. i \in AnswersAt(rows, mode, rtt)
    BY <2>3 DEF AnswersAt
  <2> QED
    BY <2>1, <2>3, <2>4, SweepMean
<1>2. ASSUME NEW i \in AnswersAt(rows, mode, rtt) PROVE point \in S
  <2>1. i \in AnswersOf(rows, mode) /\ rows[i].rtt = rtt
    BY DEF AnswersAt
  <2>2. Point(i) = point
    BY <2>1, SweepMean
  <2> QED
    BY <2>1, <2>2 DEF Series
<1>3. CountIn(rows, At(mode, rtt)) = 0 <=> AnswersAt(rows, mode, rtt) = {}
  BY CountsAreNumbers, SweepMean
<1> HIDE DEF S, point
<1>4. S = IF CountIn(rows, At(mode, rtt)) = 0 THEN {} ELSE {point}
  BY <1>1, <1>2, <1>3
<1> QED
  BY <1>4 DEF S, point

LEMMA SweepsFollow == EvalInv => SweepsMerged
<1> SUFFICES ASSUME EvalInv, phase = "swept", NEW m \in SweptModes, NEW row \in SweepRow
             PROVE  LET rtt == row.rtt
                        Of(k) == AnswersAt(sweeps[k], m, rtt)
                        Sum(k) == MeanTtfr(sweeps[k], Of(k)).sum
                        n == Cardinality(Of("coarse")) + Cardinality(Of("fine"))
                        at == {p \in figures.series[m] : p.x = Abscissa(rtt)}
                    IN  at = IF n = 0 THEN {}
                             ELSE {[x |-> Abscissa(rtt),
                                    y |-> [sum |-> Sum("coarse") + Sum("fine"), n |-> n]]}
  BY DEF SweepsMerged
<1> DEFINE a == sweeps["coarse"]
           b == sweeps["fine"]
           P == At(m, row.rtt)
<1>1. a \in Seq(Sweep) /\ b \in Seq(Sweep)
  <2>1. sweeps["coarse"] \in Seq(SweepRow) /\ sweeps["fine"] \in Seq(SweepRow)
    BY DEF EvalInv, FilesOK, Files
  <2>2. Readable(sweeps["coarse"]) /\ Readable(sweeps["fine"])
    BY DEF EvalInv, ResultsOK, Files
  <2> QED
    BY <2>1, <2>2, ReadableRows
<1>2. figures.series[m] = Series(Merged(a, b), m)
  <2>1. figures = CrosshostLines(sweeps["coarse"], sweeps["fine"], sweeps["lan"])
    BY DEF EvalInv, ResultsOK
  <2> QED
    BY <2>1 DEF CrosshostLines
<1> HIDE DEF a, b, P
<1>3. Merged(a, b) \in Seq(Sweep)
  BY <1>1, MergedRows, Zenon
<1>4. /\ SumIn(Merged(a, b), AnswerTime, P) = SumIn(a, AnswerTime, P) + SumIn(b, AnswerTime, P)
      /\ CountIn(Merged(a, b), P) = CountIn(a, P) + CountIn(b, P)
  <2>1. AnswerTime \in [Sweep -> Int]
    BY SweepFields
  <2>2. \A f, g \in Seq(Sweep) :
          /\ SumIn(Merged(f, g), AnswerTime, P) = SumIn(f, AnswerTime, P) + SumIn(g, AnswerTime, P)
          /\ CountIn(Merged(f, g), P) = CountIn(f, P) + CountIn(g, P)
    BY <2>1, SumOfMerged, Zenon
  <2> QED
    BY <1>1, <2>2, Zenon
<1>5. /\ Cardinality(AnswersAt(a, m, row.rtt)) = CountIn(a, P)
      /\ Cardinality(AnswersAt(b, m, row.rtt)) = CountIn(b, P)
  BY <1>1, SweepMean DEF CountIn, P
<1>6. /\ MeanTtfr(a, AnswersAt(a, m, row.rtt)).sum = SumIn(a, AnswerTime, P)
      /\ MeanTtfr(b, AnswersAt(b, m, row.rtt)).sum = SumIn(b, AnswerTime, P)
  BY <1>1, SweepMean DEF MeanIn, P
<1>7. {p \in figures.series[m] : p.x = Abscissa(row.rtt)} =
        IF CountIn(Merged(a, b), P) = 0 THEN {}
        ELSE {[x |-> Abscissa(row.rtt), y |-> MeanIn(Merged(a, b), AnswerTime, P)]}
  BY <1>2, <1>3, PointAt DEF P
<1> QED
  BY <1>4, <1>5, <1>6, <1>7 DEF a, b, MeanIn

(***************************************************************************)
(* Every line of figure 6 has one point per answered round-trip time, the  *)
(* mean over both sweeps together, whatever was measured in which order    *)
(* (crosshost_figure.py:37-48, 69-76).                                     *)
(***************************************************************************)
THEOREM SweepSafety == Spec => []SweepsMerged
BY EvalInvAlways, SweepsFollow, PTL

=============================================================================
