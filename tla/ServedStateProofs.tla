-------------------------- MODULE ServedStateProofs --------------------------
(***************************************************************************)
(* Theorems about the served set, for every table size, hash multiplier,   *)
(* load factor and set of pages, and any number of threads: the table      *)
(* never fills, its count is exact, and behind its mutex it is a set.      *)
(***************************************************************************)
EXTENDS ServedState, FiniteSetTheorems, TLAPS

\* Slot k lies on the way of a probe from slot h to slot i, and before i.
Before(h, k, i) == IF h <= i THEN h <= k /\ k < i ELSE h <= k \/ k < i

\* A probe for a in a table of this size has come to slot i.
Searched(table, size, a, i) ==
  /\ i \in 0 .. size - 1
  /\ \A k \in 0 .. size - 1 : Before(Home(a, size), k, i) => table[k] \notin {0, a}

\* A probe for any page of the table comes to it.
Chained(table, size) ==
  \A i \in 0 .. size - 1 : table[i] # 0 => Searched(table, size, table[i], i)

Growing(t) == at[t] \in {"move", "copy"}
Probing(t) == at[t] \in {"check", "place", "store"}

MutexOK ==
  /\ holder = {t \in User : at[t] \notin {"idle", "lock"}}
  /\ \A t, u \in holder : t = u

\* The count lags behind the table between the store and the increment.
TableOK ==
  /\ Chained(slots, cap)
  /\ InitialCap <= cap /\ count < cap
  /\ IF \E t \in User : at[t] = "tally"
       THEN count + 1 < cap /\ Cardinality(Taken(slots)) = count + 1
       ELSE Cardinality(Taken(slots)) = count

\* An insertion past its load check has a place to go to.
SearchOK ==
  \A t \in User :
    /\ (Growing(t) \/ Probing(t)) /\ Inserting(t) => Addr(t) # 0
    /\ Probing(t) /\ Inserting(t) => count + 1 < cap
    /\ at[t] \in {"move", "copy", "place", "store", "tally"} => Inserting(t)
    /\ at[t] \in {"check", "place"} => Searched(slots, cap, Addr(t), idx[t])
    /\ at[t] \in {"place", "store"} => Addr(t) \notin Members
    /\ at[t] = "store" => Searched(slots, cap, Addr(t), idx[t]) /\ slots[idx[t]] = 0

\* While the table grows, the pages of the slots gone through are in the new one.
GrowthOK ==
  /\ grown # NoTable <=> \E t \in User : Growing(t)
  /\ grown # NoTable =>
       /\ Chained(grown, 2 * cap)
       /\ Pages(grown) = {slots[i] : i \in 0 .. next - 1} \ {0}
  /\ \A t \in User : at[t] = "copy" =>
       /\ next < cap /\ slots[next] # 0
       /\ Searched(grown, 2 * cap, slots[next], idx[t])

\* An operation has its answer from the instant at which it takes effect.
AnswerOK ==
  \A t \in User : at[t] # "idle" => (result[t] = "none" <=> at[t] \notin {"tally", "unlock"})

TableInv == TypeOK /\ MutexOK /\ TableOK /\ SearchOK /\ GrowthOK /\ AnswerOK

----------------------------------------------------------------------------
(* Probes.                                                                 *)

Table(size) == [0 .. size - 1 -> Address \cup {0}]

LEMMA HomeInside ==
  ASSUME NEW a \in Nat, NEW n \in Nat \ {0}
  PROVE  Home(a, n) \in 0 .. n - 1
<1> DEFINE x == a * Multiplier
<1>1. x \in Nat
  BY TableAssumption
<1> HIDE DEF x
<1>2. x % n \in 0 .. n - 1
  BY <1>1
<1> QED
  BY <1>2 DEF Home, x

LEMMA FollowingSlot ==
  ASSUME NEW n \in Nat \ {0}, NEW i \in 0 .. n - 1
  PROVE  Following(i, n) = IF i + 1 = n THEN 0 ELSE i + 1
<1>1. CASE i + 1 = n
  <2>1. n % n = 0
    OBVIOUS
  <2> QED
    BY <1>1, <2>1 DEF Following
<1>2. CASE i + 1 # n
  <2>1. i + 1 \in 0 .. n - 1
    BY <1>2
  <2>2. (i + 1) % n = i + 1
    BY <2>1
  <2> QED
    BY <1>2, <2>2 DEF Following
<1> QED
  BY <1>1, <1>2

LEMMA SearchBegins ==
  ASSUME NEW n \in Nat \ {0}, NEW T, NEW a \in Nat
  PROVE  Searched(T, n, a, Home(a, n))
<1> DEFINE h == Home(a, n)
<1>1. h \in 0 .. n - 1
  BY HomeInside
<1> HIDE DEF h
<1>2. \A k \in 0 .. n - 1 : ~ Before(h, k, h)
  BY <1>1 DEF Before
<1> QED
  BY <1>1, <1>2 DEF Searched, h

LEMMA SearchGoesOn ==
  ASSUME NEW n \in Nat \ {0}, NEW T, NEW a \in Nat, NEW i,
         Searched(T, n, a, i), T[i] \notin {0, a}
  PROVE  Searched(T, n, a, Following(i, n))
<1> DEFINE h == Home(a, n)
           j == Following(i, n)
<1>1. h \in 0 .. n - 1 /\ i \in 0 .. n - 1
  BY HomeInside DEF Searched
<1>2. j = IF i + 1 = n THEN 0 ELSE i + 1
  BY <1>1, FollowingSlot
<1> HIDE DEF h, j
<1>3. \A k \in 0 .. n - 1 : Before(h, k, j) => k = i \/ Before(h, k, i)
  BY <1>1, <1>2 DEF Before
<1>4. j \in 0 .. n - 1
  BY <1>1, <1>2
<1> QED
  BY <1>3, <1>4 DEF Searched, h, j

LEMMA SearchMisses ==
  ASSUME NEW n \in Nat \ {0}, NEW T, NEW a \in Nat, NEW i, Chained(T, n),
         Searched(T, n, a, i), T[i] = 0, a # 0, NEW j \in 0 .. n - 1
  PROVE  T[j] # a
<1> SUFFICES ASSUME T[j] = a PROVE FALSE
  OBVIOUS
<1> DEFINE h == Home(a, n)
<1>1. h \in 0 .. n - 1 /\ i \in 0 .. n - 1
  BY HomeInside DEF Searched
<1>2. ~ Before(h, j, i)
  BY DEF Searched, h
<1>3. ~ Before(h, i, j)
  BY <1>1 DEF Chained, Searched, h
<1>4. i # j
  OBVIOUS
<1> HIDE DEF h
<1> QED
  BY <1>1, <1>2, <1>3, <1>4 DEF Before

LEMMA StoredOnce ==
  ASSUME NEW n \in Nat \ {0}, NEW T \in Table(n), Chained(T, n),
         NEW i \in 0 .. n - 1, NEW j \in 0 .. n - 1, T[i] # 0, T[i] = T[j]
  PROVE  i = j
<1> DEFINE h == Home(T[i], n)
<1>1. T[i] \in Nat
  BY TableAssumption DEF Table
<1>2. h \in 0 .. n - 1
  BY <1>1, HomeInside
<1>3. ~ Before(h, j, i) /\ ~ Before(h, i, j)
  BY DEF Chained, Searched, h
<1> HIDE DEF h
<1> QED
  BY <1>2, <1>3 DEF Before

LEMMA StoreKeepsChains ==
  ASSUME NEW n \in Nat \ {0}, NEW T \in Table(n), Chained(T, n), NEW a \in Nat \ {0},
         NEW i, Searched(T, n, a, i), T[i] = 0
  PROVE  Chained([T EXCEPT ![i] = a], n)
<1> DEFINE U == [T EXCEPT ![i] = a]
<1>1. i \in 0 .. n - 1 /\ i \in DOMAIN T
  BY DEF Searched, Table
<1>2. \A k \in 0 .. n - 1 : U[k] = IF k = i THEN a ELSE T[k]
  BY <1>1 DEF Table
<1> HIDE DEF U
<1> SUFFICES ASSUME NEW j \in 0 .. n - 1, U[j] # 0, NEW k \in 0 .. n - 1,
                    Before(Home(U[j], n), k, j)
             PROVE  U[k] \notin {0, U[j]}
  BY DEF Chained, Searched, U
<1>3. CASE j = i
  <2>1. Home(a, n) \in 0 .. n - 1
    BY HomeInside
  <2>2. U[j] = a /\ k # j
    BY <1>2, <1>3, <2>1 DEF Before
  <2> QED
    BY <1>2, <1>3, <2>2 DEF Searched
<1>4. CASE j # i
  <2>1. U[j] = T[j] /\ T[k] \notin {0, T[j]}
    BY <1>2, <1>4 DEF Chained, Searched
  <2> QED
    BY <1>2, <2>1
<1> QED
  BY <1>3, <1>4

LEMMA StoreAdds ==
  ASSUME NEW n \in Nat \ {0}, NEW T \in Table(n), NEW a \in Address \ {0},
         NEW i \in 0 .. n - 1, T[i] = 0
  PROVE  /\ [T EXCEPT ![i] = a] \in Table(n)
         /\ Pages([T EXCEPT ![i] = a]) = Pages(T) \cup {a}
         /\ Taken([T EXCEPT ![i] = a]) = Taken(T) \cup {i}
         /\ i \notin Taken(T)
<1> DEFINE U == [T EXCEPT ![i] = a]
<1>1. U \in Table(n) /\ DOMAIN U = 0 .. n - 1 /\ DOMAIN T = 0 .. n - 1
  BY DEF Table
<1>2. \A k \in 0 .. n - 1 : U[k] = IF k = i THEN a ELSE T[k]
  BY <1>1
<1> HIDE DEF U
<1>3. Pages(U) = Pages(T) \cup {a}
  BY <1>1, <1>2 DEF Pages
<1>4. Taken(U) = Taken(T) \cup {i} /\ i \notin Taken(T)
  BY <1>1, <1>2 DEF Taken
<1> QED
  BY <1>1, <1>3, <1>4 DEF U

LEMMA TakenCount ==
  ASSUME NEW n \in Nat \ {0}, NEW T \in Table(n)
  PROVE  /\ IsFiniteSet(Taken(T)) /\ Cardinality(Taken(T)) \in Nat
         /\ Cardinality(Taken(T)) < n => Taken(T) # DOMAIN T
<1>1. DOMAIN T = 0 .. n - 1 /\ Taken(T) \in SUBSET (0 .. n - 1)
  BY DEF Table, Taken
<1>2. IsFiniteSet(0 .. n - 1) /\ Cardinality(0 .. n - 1) = n
  BY FS_Interval
<1>3. IsFiniteSet(Taken(T))
  BY <1>1, <1>2, FS_Subset
<1> QED
  BY <1>1, <1>2, <1>3, FS_CardinalityType

LEMMA PagesCount ==
  ASSUME NEW n \in Nat \ {0}, NEW T \in Table(n), Chained(T, n)
  PROVE  /\ IsFiniteSet(Pages(T))
         /\ Cardinality(Pages(T)) = Cardinality(Taken(T))
<1> DEFINE f == [i \in Taken(T) |-> T[i]]
<1>1. DOMAIN T = 0 .. n - 1
  BY DEF Table
<1>2. f \in Bijection(Taken(T), Pages(T))
  <2>1. f \in [Taken(T) -> Pages(T)]
    BY DEF Taken, Pages
  <2>2. \A i, j \in Taken(T) : f[i] = f[j] => i = j
    BY <1>1, StoredOnce DEF Taken
  <2>3. \A p \in Pages(T) : \E i \in Taken(T) : f[i] = p
    BY DEF Taken, Pages
  <2> QED
    BY <2>1, <2>2, <2>3 DEF Bijection, Injection, Surjection, IsInjective
<1>3. ExistsBijection(Taken(T), Pages(T))
  BY <1>2 DEF ExistsBijection
<1> QED
  BY <1>3, TakenCount, FS_Bijection

----------------------------------------------------------------------------
(* The invariant.                                                          *)

AllRequests == UNION {Requests(a) : a \in Address}

LEMMA RequestFields ==
  ASSUME NEW r \in AllRequests
  PROVE  r.op \in {"contains", "insert"} /\ r.addr \in Address /\ r.addr \in Nat
BY TableAssumption DEF AllRequests, Requests

LEMMA TypeFacts ==
  ASSUME TypeOK
  PROVE  /\ cap \in Nat \ {0} /\ 2 * cap \in Nat \ {0} /\ slots \in Table(cap)
         /\ DOMAIN slots = 0 .. cap - 1
         /\ grown # NoTable => grown \in Table(2 * cap)
         /\ \A t \in User : Addr(t) \in Address /\ Addr(t) \in Nat
         /\ \A t \in User : Inserting(t) \/ want[t].op = "contains"
         /\ Members \subseteq Address \ {0}
<1>1. \A t \in User : want[t] \in AllRequests
  BY DEF TypeOK, AllRequests
<1>2. \A t \in User : Addr(t) \in Address /\ Addr(t) \in Nat
  BY <1>1, RequestFields DEF Addr
<1>3. \A t \in User : Inserting(t) \/ want[t].op = "contains"
  BY <1>1, RequestFields DEF Inserting
<1>4. cap \in Nat \ {0} /\ slots \in Table(cap) /\ DOMAIN slots = 0 .. cap - 1
  BY DEF TypeOK, Table
<1>5. Members \subseteq Address \ {0}
  BY <1>4 DEF Members, Pages, Table
<1> QED
  BY <1>2, <1>3, <1>4, <1>5 DEF TypeOK, Table

\* Under the mutex a thread is alone.
LEMMA Alone ==
  ASSUME MutexOK, NEW t \in User, at[t] \notin {"idle", "lock"}
  PROVE  /\ holder = {t}
         /\ \A u \in User : u # t => at[u] \in {"idle", "lock"}
BY DEF MutexOK

LEMMA TableIsNoEmptyTuple ==
  ASSUME NEW n \in Nat \ {0}, NEW T \in Table(n)
  PROVE  T # NoTable
<1>1. 0 \in DOMAIN T
  BY DEF Table
<1>2. 0 \notin DOMAIN NoTable
  BY DEF NoTable
<1> QED
  BY <1>1, <1>2

LEMMA TableInit == Init => TableInv
<1> SUFFICES ASSUME Init PROVE TableInv
  OBVIOUS
<1> USE DEF Init
<1>1. InitialCap \in Nat \ {0} /\ Address # {}
  BY TableAssumption
<1>2. slots \in Table(cap) /\ \A i \in 0 .. cap - 1 : slots[i] = 0
  BY DEF EmptyTable, Table
<1>3. TypeOK
  <2> DEFINE any == CHOOSE a \in Address : TRUE
  <2>1. any \in Address /\ want = [t \in User |-> [op |-> "contains", addr |-> any]]
    BY <1>1
  <2> HIDE DEF any
  <2>2. [op |-> "contains", addr |-> any] \in AllRequests
    BY <2>1 DEF AllRequests, Requests
  <2>3. want \in [User -> AllRequests]
    BY <2>1, <2>2
  <2> QED
    BY <1>1, <1>2, <2>3 DEF TypeOK, Table, AllRequests
<1>4. MutexOK
  BY DEF MutexOK
<1>5. TableOK
  <2>1. Taken(slots) = {}
    BY <1>2 DEF Taken, Table
  <2>2. Cardinality(Taken(slots)) = 0
    BY <2>1, FS_EmptySet
  <2> QED
    BY <1>1, <1>2, <2>2 DEF TableOK, Chained
<1>6. SearchOK /\ AnswerOK
  BY DEF SearchOK, AnswerOK, Growing, Probing
<1>7. GrowthOK
  BY DEF GrowthOK, Growing
<1> QED
  BY <1>3, <1>4, <1>5, <1>6, <1>7 DEF TableInv

LEMMA CallStep ==
  ASSUME TableInv, NEW t \in User, NEW a \in Address, NEW r \in Requests(a), Call(t, r)
  PROVE  TableInv'
<1> USE DEF Call, Answer, To, tables
<1>1. \A u \in User : at'[u] = IF u = t THEN "lock" ELSE at[u]
  BY DEF TableInv, TypeOK
<1>2. \A u \in User : at[u] # "idle" => want'[u] = want[u] /\ result'[u] = result[u]
  BY DEF TableInv, TypeOK
<1>3. TypeOK'
  BY DEF TableInv, TypeOK
<1>4. MutexOK'
  BY <1>1 DEF TableInv, MutexOK
<1>5. TableOK'
  BY <1>1 DEF TableInv, TableOK, Taken
<1>6. SearchOK'
  BY <1>1, <1>2 DEF TableInv, SearchOK, Growing, Probing, Addr, Inserting, Members
<1>7. GrowthOK'
  BY <1>1 DEF TableInv, GrowthOK, Growing
<1>8. AnswerOK'
  BY <1>1, <1>2 DEF TableInv, AnswerOK, TypeOK
<1> QED
  BY <1>3, <1>4, <1>5, <1>6, <1>7, <1>8 DEF TableInv

LEMMA LockStep ==
  ASSUME TableInv, NEW t \in User, Lock(t)
  PROVE  TableInv'
<1> USE DEF Lock, To, tables
<1>1. \A u \in User : at'[u] = IF u = t THEN "begin" ELSE at[u]
  BY DEF TableInv, TypeOK
<1>2. TypeOK'
  BY DEF TableInv, TypeOK
<1>3. MutexOK'
  BY <1>1 DEF TableInv, MutexOK
<1>4. TableOK' /\ GrowthOK'
  BY <1>1 DEF TableInv, TableOK, GrowthOK, Growing
<1>5. SearchOK'
  BY <1>1 DEF TableInv, SearchOK, Growing, Probing, Addr, Inserting, Members
<1>6. AnswerOK'
  BY <1>1 DEF TableInv, AnswerOK
<1> QED
  BY <1>2, <1>3, <1>4, <1>5, <1>6 DEF TableInv

LEMMA RefuseStep ==
  ASSUME TableInv, NEW t \in User, Refuse(t)
  PROVE  TableInv'
<1> USE DEF Refuse, To, Answer, tables
<1>1. /\ \A u \in User : at'[u] = IF u = t THEN "unlock" ELSE at[u]
      /\ \A u \in User : result'[u] = IF u = t THEN "no" ELSE result[u]
  BY DEF TableInv, TypeOK
<1>2. TypeOK'
  BY DEF TableInv, TypeOK
<1>3. MutexOK'
  BY <1>1 DEF TableInv, MutexOK
<1>4. TableOK' /\ GrowthOK'
  BY <1>1 DEF TableInv, TableOK, GrowthOK, Growing
<1>5. SearchOK'
  BY <1>1 DEF TableInv, SearchOK, Growing, Probing, Addr, Inserting, Members
<1>6. AnswerOK'
  BY <1>1 DEF TableInv, AnswerOK
<1> QED
  BY <1>2, <1>3, <1>4, <1>5, <1>6 DEF TableInv

LEMMA UnlockStep ==
  ASSUME TableInv, NEW t \in User, Unlock(t)
  PROVE  TableInv'
<1> USE DEF Unlock, To, tables
<1>1. \A u \in User : at'[u] = IF u = t THEN "idle" ELSE at[u]
  BY DEF TableInv, TypeOK
<1>2. TypeOK'
  BY DEF TableInv, TypeOK
<1>3. MutexOK'
  BY <1>1, Alone DEF TableInv, MutexOK
<1>4. TableOK' /\ GrowthOK'
  BY <1>1 DEF TableInv, TableOK, GrowthOK, Growing
<1>5. SearchOK'
  BY <1>1 DEF TableInv, SearchOK, Growing, Probing, Addr, Inserting, Members
<1>6. AnswerOK'
  BY <1>1 DEF TableInv, AnswerOK
<1> QED
  BY <1>2, <1>3, <1>4, <1>5, <1>6 DEF TableInv

\* A table that is not loaded has room for the page and for an empty slot.
LEMMA NotLoaded ==
  ASSUME cap \in Nat, InitialCap <= cap, count \in Nat, ~ Loaded
  PROVE  count + 1 < cap
<1> DEFINE spare == 100 - LoadFactor
<1>1. spare \in 1 .. 99 /\ InitialCap \in Nat /\ 100 <= InitialCap * spare
  BY TableAssumption
<1>2. cap * LoadFactor = cap * 100 - cap * spare
  BY TableAssumption
<1> HIDE DEF spare
<1>3. InitialCap * spare <= cap * spare
  <2>1. \A d \in Nat : (InitialCap + d) * spare = InitialCap * spare + d * spare /\ 0 <= d * spare
    BY <1>1
  <2>2. cap - InitialCap \in Nat /\ cap = InitialCap + (cap - InitialCap)
    BY <1>1
  <2> QED
    BY <1>1, <2>1, <2>2
<1>4. count * 100 < cap * LoadFactor
  BY TableAssumption DEF Loaded
<1> DEFINE product == cap * LoadFactor
           slack == cap * spare
           least == InitialCap * spare
<1>5. product \in Int /\ slack \in Int /\ least \in Int
  BY <1>1, TableAssumption
<1>6. product = cap * 100 - slack /\ least <= slack /\ 100 <= least /\ count * 100 < product
  BY <1>1, <1>2, <1>3, <1>4
<1> HIDE DEF product, slack, least
<1> QED
  BY <1>5, <1>6

LEMMA BeginStep ==
  ASSUME TableInv, NEW t \in User, Begin(t)
  PROVE  TableInv'
<1> USE DEF Begin, To, LookAt, tables
<1> DEFINE h == Home(Addr(t), cap)
<1>1. /\ \A u \in User : at'[u] = IF u = t THEN "check" ELSE at[u]
      /\ \A u \in User : idx'[u] = IF u = t THEN h ELSE idx[u]
  BY DEF TableInv, TypeOK
<1>2. h \in Nat /\ Searched(slots, cap, Addr(t), h)
  <2>1. cap \in Nat \ {0} /\ Addr(t) \in Nat
    BY TypeFacts DEF TableInv
  <2> QED
    BY <2>1, HomeInside, SearchBegins
<1> HIDE DEF h
<1>3. TypeOK'
  BY <1>2 DEF TableInv, TypeOK, h
<1>4. MutexOK'
  BY <1>1 DEF TableInv, MutexOK
<1>5. TableOK'
  BY <1>1 DEF TableInv, TableOK
<1>6. SearchOK'
  <2>1. Inserting(t) => count + 1 < cap
    BY NotLoaded DEF TableInv, TypeOK, TableOK
  <2> QED
    BY <1>1, <1>2, <2>1 DEF TableInv, SearchOK, Growing, Probing, Addr, Inserting, Members
<1>7. GrowthOK'
  BY <1>1 DEF TableInv, GrowthOK, Growing
<1>8. AnswerOK'
  BY <1>1 DEF TableInv, AnswerOK
<1> QED
  BY <1>3, <1>4, <1>5, <1>6, <1>7, <1>8 DEF TableInv

LEMMA CheckStep ==
  ASSUME TableInv, NEW t \in User, Check(t)
  PROVE  TableInv'
<1> USE DEF Check, To, LookAt, Answer, tables
<1>0. cap \in Nat \ {0} /\ Addr(t) \in Nat /\ Members \subseteq Address \ {0}
  BY TypeFacts DEF TableInv
<1>1. at[t] = "check" /\ Searched(slots, cap, Addr(t), idx[t])
  BY DEF TableInv, SearchOK
<1>2. MutexOK' /\ TableOK' /\ GrowthOK'
  <2>1. \E label \in {"check", "place", "unlock"} :
          at' = [at EXCEPT ![t] = label] /\ at'[t] = label
    BY <1>1 DEF TableInv, TypeOK
  <2>2. /\ \A u \in User : u # t => at'[u] = at[u]
        /\ at'[t] \in {"check", "place", "unlock"}
    BY <2>1 DEF TableInv, TypeOK
  <2>3. \A u \in User : at[u] = "copy" => idx'[u] = idx[u]
    BY <1>1 DEF TableInv, TypeOK
  <2> QED
    BY <1>1, <2>2, <2>3 DEF TableInv, MutexOK, TableOK, GrowthOK, Growing
<1>3. CASE slots[idx[t]] = 0 /\ Inserting(t)
  <2> DEFINE h == Home(Addr(t), cap)
  <2>1. h \in Nat /\ Searched(slots, cap, Addr(t), h)
    BY <1>0, HomeInside, SearchBegins
  <2>2. Addr(t) # 0
    BY <1>1, <1>3 DEF TableInv, SearchOK, Probing
  <2>3. Addr(t) \notin Members
    <3>1. \A j \in 0 .. cap - 1 : slots[j] # Addr(t)
      BY <1>0, <1>1, <1>3, <2>2, SearchMisses DEF TableInv, TableOK
    <3> QED
      BY <3>1, TypeFacts DEF Members, Pages, TableInv
  <2>4. /\ \A u \in User : at'[u] = IF u = t THEN "place" ELSE at[u]
        /\ \A u \in User : idx'[u] = IF u = t THEN h ELSE idx[u]
        /\ idx' = [idx EXCEPT ![t] = h] /\ result' = result
    BY <1>0, <1>3 DEF TableInv, TypeOK
  <2> HIDE DEF h
  <2>5. TypeOK'
    BY <1>3, <2>1, <2>4 DEF TableInv, TypeOK
  <2>6. SearchOK'
    BY <1>1, <1>3, <2>1, <2>2, <2>3, <2>4
       DEF TableInv, SearchOK, Growing, Probing, Addr, Inserting, Members
  <2>7. AnswerOK'
    BY <1>1, <2>4 DEF TableInv, AnswerOK
  <2> QED
    BY <1>2, <2>5, <2>6, <2>7 DEF TableInv
<1>4. CASE at' = [at EXCEPT ![t] = "unlock"] /\ UNCHANGED idx
           /\ \E r \in {"yes", "no"} : result' = [result EXCEPT ![t] = r]
  <2>1. TypeOK'
    BY <1>4 DEF TableInv, TypeOK
  <2>2. \A u \in User : at'[u] = IF u = t THEN "unlock" ELSE at[u]
    BY <1>4 DEF TableInv, TypeOK
  <2>3. SearchOK'
    BY <1>4, <2>2 DEF TableInv, SearchOK, Growing, Probing, Addr, Inserting, Members
  <2>4. AnswerOK'
    BY <1>4, <2>2 DEF TableInv, TypeOK, AnswerOK
  <2> QED
    BY <1>2, <2>1, <2>3, <2>4 DEF TableInv
<1>5. CASE slots[idx[t]] \notin {0, Addr(t)}
  <2> DEFINE j == Following(idx[t], cap)
  <2>1. j \in Nat /\ Searched(slots, cap, Addr(t), j)
    <3>1. Searched(slots, cap, Addr(t), j)
      BY <1>0, <1>1, <1>5, SearchGoesOn
    <3> QED
      BY <1>0, <3>1 DEF Searched
  <2>2. /\ \A u \in User : idx'[u] = IF u = t THEN j ELSE idx[u]
        /\ idx' = [idx EXCEPT ![t] = j] /\ UNCHANGED <<at, result>>
    BY <1>0, <1>5 DEF TableInv, TypeOK
  <2> HIDE DEF j
  <2>3. TypeOK'
    BY <2>1, <2>2 DEF TableInv, TypeOK
  <2>4. SearchOK'
    BY <1>1, <2>1, <2>2 DEF TableInv, SearchOK, Growing, Probing, Addr, Inserting, Members
  <2>5. AnswerOK'
    BY <2>2 DEF TableInv, AnswerOK
  <2> QED
    BY <1>2, <2>3, <2>4, <2>5 DEF TableInv
<1> QED
  BY <1>3, <1>4, <1>5

LEMMA FindPlaceStep ==
  ASSUME TableInv, NEW t \in User, FindPlace(t)
  PROVE  TableInv'
<1> USE DEF FindPlace, To, LookAt, tables
<1>0. cap \in Nat \ {0} /\ Addr(t) \in Nat /\ Members \subseteq Address \ {0}
  BY TypeFacts DEF TableInv
<1>1. /\ at[t] = "place" /\ Searched(slots, cap, Addr(t), idx[t])
      /\ Addr(t) # 0 /\ Addr(t) \notin Members /\ count + 1 < cap
  BY DEF TableInv, SearchOK, Probing
<1>2. slots[idx[t]] # Addr(t)
  BY <1>1, TypeFacts DEF Members, Pages, TableInv, Searched
<1>3. MutexOK' /\ TableOK' /\ GrowthOK' /\ AnswerOK'
  <2>1. /\ \A u \in User : u # t => at'[u] = at[u]
        /\ at'[t] \in {"place", "store"}
    BY <1>1 DEF TableInv, TypeOK
  <2>2. \A u \in User : at[u] = "copy" => idx'[u] = idx[u]
    BY <1>1 DEF TableInv, TypeOK
  <2> QED
    BY <1>1, <2>1, <2>2 DEF TableInv, MutexOK, TableOK, GrowthOK, Growing, AnswerOK
<1>4. CASE slots[idx[t]] = 0
  <2>1. TypeOK'
    BY <1>4 DEF TableInv, TypeOK
  <2>2. \A u \in User : at'[u] = IF u = t THEN "store" ELSE at[u]
    BY <1>4 DEF TableInv, TypeOK
  <2>3. SearchOK'
    BY <1>1, <1>4, <2>2 DEF TableInv, SearchOK, Growing, Probing, Addr, Inserting, Members
  <2> QED
    BY <1>3, <2>1, <2>3 DEF TableInv
<1>5. CASE slots[idx[t]] \notin {0, Addr(t)}
  <2> DEFINE j == Following(idx[t], cap)
  <2>1. j \in Nat /\ Searched(slots, cap, Addr(t), j)
    <3>1. Searched(slots, cap, Addr(t), j)
      BY <1>0, <1>1, <1>5, SearchGoesOn
    <3> QED
      BY <1>0, <3>1 DEF Searched
  <2>2. /\ \A u \in User : idx'[u] = IF u = t THEN j ELSE idx[u]
        /\ idx' = [idx EXCEPT ![t] = j] /\ UNCHANGED at
    BY <1>0, <1>5 DEF TableInv, TypeOK
  <2> HIDE DEF j
  <2>3. TypeOK'
    BY <2>1, <2>2 DEF TableInv, TypeOK
  <2>4. SearchOK'
    BY <1>1, <2>1, <2>2 DEF TableInv, SearchOK, Growing, Probing, Addr, Inserting, Members
  <2> QED
    BY <1>3, <2>3, <2>4 DEF TableInv
<1> QED
  BY <1>2, <1>4, <1>5

LEMMA StoreStep ==
  ASSUME TableInv, NEW t \in User, Store(t)
  PROVE  TableInv'
<1> USE DEF Store, To, Answer
<1>0. /\ cap \in Nat \ {0} /\ slots \in Table(cap) /\ MutexOK
      /\ Addr(t) \in Address /\ Addr(t) \in Nat
  BY TypeFacts DEF TableInv
<1>1. /\ at[t] = "store" /\ Searched(slots, cap, Addr(t), idx[t])
      /\ Addr(t) # 0 /\ slots[idx[t]] = 0 /\ count + 1 < cap
  BY DEF TableInv, SearchOK, Probing
<1>2. \A u \in User : u # t => at[u] \in {"idle", "lock"}
  BY <1>0, <1>1, Alone
<1>3. /\ \A u \in User : at'[u] = IF u = t THEN "tally" ELSE at[u]
      /\ \A u \in User : result'[u] = IF u = t THEN "yes" ELSE result[u]
  BY DEF TableInv, TypeOK
<1>4. idx[t] \in 0 .. cap - 1
  BY <1>1 DEF Searched
<1>5. /\ slots' \in Table(cap) /\ Taken(slots') = Taken(slots) \cup {idx[t]}
      /\ idx[t] \notin Taken(slots) /\ Members' = Members \cup {Addr(t)}
  <2> DEFINE a == Addr(t)
             i == idx[t]
  <2>1. a \in Address \ {0} /\ i \in 0 .. cap - 1 /\ slots[i] = 0
    BY <1>0, <1>1, <1>4
  <2>2. slots' = [slots EXCEPT ![i] = a]
    OBVIOUS
  <2> HIDE DEF a, i
  <2>3. /\ [slots EXCEPT ![i] = a] \in Table(cap)
        /\ Pages([slots EXCEPT ![i] = a]) = Pages(slots) \cup {a}
        /\ Taken([slots EXCEPT ![i] = a]) = Taken(slots) \cup {i}
        /\ i \notin Taken(slots)
    BY <1>0, <2>1, StoreAdds
  <2> QED
    BY <2>2, <2>3 DEF Members, a, i
<1>6. TypeOK'
  BY <1>5 DEF TableInv, TypeOK, Table
<1>7. MutexOK' /\ AnswerOK'
  BY <1>1, <1>3 DEF TableInv, MutexOK, AnswerOK
<1>8. TableOK'
  <2>1. Chained(slots', cap)
    <3> DEFINE a == Addr(t)
               i == idx[t]
    <3>1. a \in Nat \ {0} /\ Searched(slots, cap, a, i) /\ slots[i] = 0
      BY <1>0, <1>1
    <3>2. slots' = [slots EXCEPT ![i] = a]
      OBVIOUS
    <3>3. Chained(slots, cap)
      BY DEF TableInv, TableOK
    <3> HIDE DEF a, i
    <3>4. Chained([slots EXCEPT ![i] = a], cap)
      BY <1>0, <3>1, <3>3, StoreKeepsChains
    <3> QED
      BY <3>2, <3>4
  <2>2. Cardinality(Taken(slots)) = count
    BY <1>1, <1>2 DEF TableInv, TableOK
  <2>3. Cardinality(Taken(slots')) = count + 1
    BY <1>0, <1>5, <2>2, TakenCount, FS_AddElement
  <2>4. \E u \in User : at'[u] = "tally"
    BY <1>3
  <2> QED
    BY <1>1, <2>1, <2>3, <2>4 DEF TableInv, TableOK
<1>9. SearchOK'
  BY <1>1, <1>2, <1>3 DEF TableInv, SearchOK, Growing, Probing, Addr, Inserting
<1>10. GrowthOK'
  <2>1. \A u \in User : ~ Growing(u) /\ ~ Growing(u)'
    BY <1>1, <1>2, <1>3 DEF Growing
  <2> QED
    BY <1>3, <2>1 DEF TableInv, GrowthOK, Growing
<1> QED
  BY <1>6, <1>7, <1>8, <1>9, <1>10 DEF TableInv

LEMMA TallyStep ==
  ASSUME TableInv, NEW t \in User, Tally(t)
  PROVE  TableInv'
<1> USE DEF Tally, To
<1>1. at[t] = "tally" /\ \A u \in User : u # t => at[u] \in {"idle", "lock"}
  BY Alone DEF TableInv
<1>2. \A u \in User : at'[u] = IF u = t THEN "unlock" ELSE at[u]
  BY DEF TableInv, TypeOK
<1>3. TypeOK'
  BY DEF TableInv, TypeOK
<1>4. MutexOK' /\ AnswerOK'
  BY <1>1, <1>2 DEF TableInv, MutexOK, AnswerOK
<1>5. TableOK'
  <2>1. ~ \E u \in User : at'[u] = "tally"
    BY <1>1, <1>2
  <2> QED
    BY <1>1, <2>1 DEF TableInv, TableOK
<1>6. SearchOK'
  BY <1>1, <1>2 DEF TableInv, SearchOK, Growing, Probing, Addr, Inserting, Members
<1>7. GrowthOK'
  BY <1>1, <1>2 DEF TableInv, GrowthOK, Growing
<1> QED
  BY <1>3, <1>4, <1>5, <1>6, <1>7 DEF TableInv

LEMMA GrowStep ==
  ASSUME TableInv, NEW t \in User, Grow(t)
  PROVE  TableInv'
<1> USE DEF Grow, To
<1>0. cap \in Nat \ {0} /\ 2 * cap \in Nat \ {0}
  BY TypeFacts DEF TableInv
<1>1. at[t] = "begin" /\ \A u \in User : u # t => at[u] \in {"idle", "lock"}
  BY Alone DEF TableInv
<1>2. \A u \in User : at'[u] = IF u = t THEN "move" ELSE at[u]
  BY DEF TableInv, TypeOK
<1>3. grown' \in Table(2 * cap) /\ \A i \in 0 .. 2 * cap - 1 : grown'[i] = 0
  BY DEF EmptyTable, Table
<1>4. TypeOK'
  BY <1>0, <1>3 DEF TableInv, TypeOK, Table
<1>5. MutexOK' /\ AnswerOK'
  BY <1>1, <1>2 DEF TableInv, MutexOK, AnswerOK
<1>6. TableOK'
  BY <1>1, <1>2 DEF TableInv, TableOK
<1>7. SearchOK'
  BY <1>1, <1>2 DEF TableInv, SearchOK, Growing, Probing, Addr, Inserting, Members
<1>8. GrowthOK'
  <2>1. grown' # NoTable
    BY <1>0, <1>3, TableIsNoEmptyTuple
  <2>2. Chained(grown', 2 * cap)
    BY <1>3 DEF Chained
  <2>3. Pages(grown') = {} /\ {slots[i] : i \in 0 .. next' - 1} = {}
    <3>1. Pages(grown') = {}
      BY <1>3 DEF Pages, Table
    <3>2. next' = 0 /\ 0 .. 0 - 1 = {}
      OBVIOUS
    <3> QED
      BY <3>1, <3>2
  <2>4. Growing(t)' /\ \A u \in User : at'[u] # "copy"
    BY <1>1, <1>2 DEF Growing
  <2> QED
    BY <2>1, <2>2, <2>3, <2>4 DEF GrowthOK
<1> QED
  BY <1>4, <1>5, <1>6, <1>7, <1>8 DEF TableInv

\* While a table grows: the facts of GrowthOK about the thread that does it.
LEMMA GrowthFacts ==
  ASSUME TableInv, NEW t \in User, Growing(t)
  PROVE  /\ cap \in Nat \ {0} /\ 2 * cap \in Nat \ {0}
         /\ slots \in Table(cap) /\ DOMAIN slots = 0 .. cap - 1
         /\ grown # NoTable /\ grown \in Table(2 * cap) /\ Chained(grown, 2 * cap)
         /\ Pages(grown) = {slots[i] : i \in 0 .. next - 1} \ {0}
         /\ next \in 0 .. cap
         /\ Inserting(t) /\ Addr(t) \in Nat /\ Addr(t) # 0
         /\ \A u \in User : u # t => at[u] \in {"idle", "lock"}
<1>1. grown # NoTable
  BY DEF TableInv, GrowthOK
<1>2. \A u \in User : u # t => at[u] \in {"idle", "lock"}
  BY Alone DEF TableInv, Growing
<1>3. Inserting(t) /\ Addr(t) # 0
  BY DEF TableInv, SearchOK, Growing
<1>4. next \in 0 .. cap
  BY DEF TableInv, TypeOK
<1> QED
  BY <1>1, <1>2, <1>3, <1>4, TypeFacts DEF TableInv, GrowthOK

LEMMA MoveStep ==
  ASSUME TableInv, NEW t \in User, Move(t)
  PROVE  TableInv'
<1> USE DEF Move, To, LookAt
<1>1. at[t] = "move" /\ Growing(t)
  BY DEF Growing
<1>2. /\ cap \in Nat \ {0} /\ 2 * cap \in Nat \ {0} /\ slots \in Table(cap)
      /\ grown # NoTable /\ Pages(grown) = {slots[i] : i \in 0 .. next - 1} \ {0}
      /\ Chained(grown, 2 * cap) /\ next \in 0 .. cap
      /\ \A u \in User : u # t => at[u] \in {"idle", "lock"}
  BY <1>1, GrowthFacts
<1>3. /\ \A u \in User : u # t => at'[u] = at[u]
      /\ at'[t] \in {"move", "copy"}
  BY <1>1 DEF TableInv, TypeOK
<1>4. MutexOK' /\ TableOK' /\ AnswerOK'
  BY <1>1, <1>3 DEF TableInv, MutexOK, TableOK, AnswerOK
<1>5. SearchOK'
  BY <1>1, <1>2, <1>3 DEF TableInv, SearchOK, Growing, Probing, Addr, Inserting, Members
<1>6. CASE slots[next] = 0
  <2>1. TypeOK'
    BY <1>2, <1>6 DEF TableInv, TypeOK
  <2>2. {slots[i] : i \in 0 .. next' - 1} \ {0} = Pages(grown)
    <3>1. 0 .. next' - 1 = (0 .. next - 1) \cup {next}
      BY <1>2, <1>6
    <3> QED
      BY <1>2, <1>6, <3>1
  <2>3. \A u \in User : at'[u] # "copy"
    BY <1>1, <1>2, <1>3, <1>6
  <2> QED
    BY <1>1, <1>2, <1>4, <1>5, <1>6, <2>1, <2>2, <2>3 DEF TableInv, GrowthOK, Growing
<1>7. CASE slots[next] # 0
  <2> DEFINE a == slots[next]
             h == NewHome(a)
  <2>1. a \in Nat
    <3>1. a \in Address \cup {0}
      BY <1>2 DEF Table
    <3> HIDE DEF a, Move
    <3> QED
      BY <3>1, TableAssumption
  <2>2. h \in Nat /\ Searched(grown, 2 * cap, a, h)
    <3> DEFINE n == 2 * cap
    <3>1. n \in Nat \ {0} /\ h = Home(a, n)
      BY <1>2 DEF NewHome
    <3> HIDE DEF a, h, n
    <3>2. Home(a, n) \in Nat /\ Searched(grown, n, a, Home(a, n))
      BY <2>1, <3>1, HomeInside, SearchBegins
    <3> QED
      BY <3>1, <3>2 DEF n
  <2>3. /\ \A u \in User : idx'[u] = IF u = t THEN h ELSE idx[u]
        /\ idx' = [idx EXCEPT ![t] = h] /\ at' = [at EXCEPT ![t] = "copy"] /\ next' = next
    BY <1>7 DEF TableInv, TypeOK
  <2> HIDE DEF h
  <2>4. TypeOK'
    BY <2>2, <2>3 DEF TableInv, TypeOK
  <2>5. GrowthOK'
    <3>1. \A u \in User : at'[u] = "copy" => u = t
      BY <1>2, <1>3
    <3>2. Growing(t)' /\ grown' = grown /\ cap' = cap /\ slots' = slots /\ idx'[t] = h
      BY <1>3, <2>3 DEF Growing
    <3> QED
      BY <1>2, <1>7, <2>2, <2>3, <3>1, <3>2 DEF GrowthOK
  <2> QED
    BY <1>4, <1>5, <2>4, <2>5 DEF TableInv
<1> QED
  BY <1>6, <1>7

LEMMA CopyStep ==
  ASSUME TableInv, NEW t \in User, Copy(t)
  PROVE  TableInv'
<1> USE DEF Copy, To, LookAt
<1> DEFINE a == slots[next]
           i == idx[t]
           n == 2 * cap
<1>1. at[t] = "copy" /\ Growing(t)
  BY DEF Growing
<1>2. /\ cap \in Nat \ {0} /\ n \in Nat \ {0} /\ slots \in Table(cap)
      /\ grown # NoTable /\ grown \in Table(n)
      /\ Pages(grown) = {slots[j] : j \in 0 .. next - 1} \ {0}
      /\ Chained(grown, n) /\ next \in 0 .. cap
      /\ \A u \in User : u # t => at[u] \in {"idle", "lock"}
  BY <1>1, GrowthFacts
<1>3. next < cap /\ a # 0 /\ Searched(grown, n, a, i) /\ i \in 0 .. n - 1
  BY <1>1 DEF TableInv, GrowthOK, Searched
<1>4. a \in Address \ {0} /\ a \in Nat
  <2>1. a \in Address \cup {0}
    BY <1>2, <1>3 DEF Table
  <2> QED
    BY <1>3, <2>1, TableAssumption
<1>5. /\ \A u \in User : u # t => at'[u] = at[u]
      /\ at'[t] \in {"move", "copy"}
  BY <1>1 DEF TableInv, TypeOK
<1>6. MutexOK' /\ TableOK' /\ AnswerOK'
  BY <1>1, <1>5 DEF TableInv, MutexOK, TableOK, AnswerOK
<1>7. SearchOK'
  BY <1>1, <1>2, <1>5 DEF TableInv, SearchOK, Growing, Probing, Addr, Inserting, Members
<1>8. Growing(t)'
  BY <1>5 DEF Growing
<1>9. CASE grown[i] \in {0, a}
  <2>1. /\ grown' = [grown EXCEPT ![i] = a] /\ next' = next + 1
        /\ at' = [at EXCEPT ![t] = "move"] /\ UNCHANGED <<slots, cap, idx>>
    BY <1>9
  <2> HIDE DEF a, i, n, Copy, To
  <2>2. grown' \in Table(n) /\ Chained(grown', n) /\ Pages(grown') = Pages(grown) \cup {a}
    <3>0. n \in Nat \ {0} /\ grown \in Table(n) /\ i \in 0 .. n - 1 /\ a \in Address \ {0}
      BY <1>2, <1>3, <1>4
    <3>1. CASE grown[i] = 0
      <4>1. /\ [grown EXCEPT ![i] = a] \in Table(n)
            /\ Pages([grown EXCEPT ![i] = a]) = Pages(grown) \cup {a}
            /\ Taken([grown EXCEPT ![i] = a]) = Taken(grown) \cup {i}
            /\ i \notin Taken(grown)
        BY <3>0, <3>1, StoreAdds
      <4>2. Chained([grown EXCEPT ![i] = a], n)
        BY <1>2, <1>3, <1>4, <3>1, StoreKeepsChains
      <4> QED
        BY <2>1, <4>1, <4>2
    <3>2. CASE grown[i] = a
      <4>1. grown' = grown
        BY <1>2, <2>1, <3>2 DEF Table
      <4>2. a \in Pages(grown)
        BY <1>2, <1>3, <3>2 DEF Pages, Table
      <4> QED
        BY <1>2, <4>1, <4>2
    <3> QED
      BY <1>9, <3>1, <3>2
  <2>3. TypeOK'
    <3>1. grown' \in [0 .. 2 * cap - 1 -> Address \cup {0}]
      BY <2>2 DEF Table, n
    <3>2. next' \in 0 .. cap
      BY <1>2, <1>3, <2>1
    <3> QED
      BY <2>1, <3>1, <3>2 DEF TableInv, TypeOK, Copy
  <2>4. GrowthOK'
    <3>1. 0 .. next' - 1 = (0 .. next - 1) \cup {next}
      BY <1>2, <2>1
    <3>2. {slots[j] : j \in 0 .. next' - 1} \ {0} = Pages(grown) \cup {a}
      BY <1>2, <1>3, <3>1 DEF a
    <3>3. \A u \in User : at'[u] # "copy"
      BY <1>1, <1>2, <2>1, <1>5 DEF TableInv, TypeOK
    <3>4. grown' # NoTable
      BY <1>2, <2>2, TableIsNoEmptyTuple
    <3>5. \E u \in User : Growing(u)'
      BY <1>8
    <3>6. /\ Chained(grown', 2 * cap')
          /\ Pages(grown') = {slots'[j] : j \in 0 .. next' - 1} \ {0}
      <4>1. Chained(grown', 2 * cap)
        BY <2>2 DEF n
      <4> QED
        BY <2>1, <2>2, <3>2, <4>1
    <3> QED
      BY <3>3, <3>4, <3>5, <3>6 DEF GrowthOK
  <2> QED
    BY <1>6, <1>7, <2>3, <2>4 DEF TableInv
<1>10. CASE grown[i] \notin {0, a}
  <2> DEFINE j == Following(i, n)
  <2>1. UNCHANGED <<slots, cap, grown, next, at>> /\ idx' = [idx EXCEPT ![t] = j]
    BY <1>10
  <2> HIDE DEF a, i, n
  <2>2. Searched(grown, n, a, j)
    BY <1>2, <1>3, <1>4, <1>10, SearchGoesOn
  <2>3. j \in Nat
    BY <1>2, <2>2 DEF Searched
  <2> HIDE DEF j
  <2>4. TypeOK' /\ idx'[t] = j
    BY <2>1, <2>3 DEF TableInv, TypeOK
  <2>5. GrowthOK'
    <3>1. \A u \in User : at'[u] = "copy" => u = t
      BY <1>2, <1>5
    <3>2. Searched(grown', 2 * cap', slots'[next'], idx'[t])
      BY <2>1, <2>2, <2>4 DEF n, a
    <3> QED
      BY <1>1, <1>2, <1>3, <2>1, <3>1, <3>2 DEF TableInv, GrowthOK, Growing, a
  <2> QED
    BY <1>6, <1>7, <2>4, <2>5 DEF TableInv
<1> QED
  BY <1>9, <1>10

LEMMA SwapStep ==
  ASSUME TableInv, NEW t \in User, Swap(t)
  PROVE  TableInv'
<1> USE DEF Swap, To, LookAt
<1> DEFINE n == 2 * cap
           h == Home(Addr(t), n)
<1>1. at[t] = "move" /\ Growing(t) /\ next = cap
  BY DEF Growing
<1>2. /\ cap \in Nat \ {0} /\ n \in Nat \ {0} /\ slots \in Table(cap)
      /\ DOMAIN slots = 0 .. cap - 1
      /\ grown \in Table(n) /\ Chained(grown, n)
      /\ Pages(grown) = {slots[i] : i \in 0 .. next - 1} \ {0}
      /\ Inserting(t) /\ Addr(t) \in Nat /\ Addr(t) # 0
      /\ \A u \in User : u # t => at[u] \in {"idle", "lock"}
  BY <1>1, GrowthFacts
<1>3. h \in Nat /\ Searched(grown, n, Addr(t), h)
  <2> DEFINE a == Addr(t)
  <2>1. a \in Nat /\ n \in Nat \ {0}
    BY <1>2
  <2> HIDE DEF a, n
  <2>2. Home(a, n) \in Nat /\ Searched(grown, n, a, Home(a, n))
    BY <2>1, HomeInside, SearchBegins
  <2> QED
    BY <2>2 DEF a
<1>4. /\ slots' = grown /\ cap' = n /\ count' = count /\ grown' = NoTable /\ next' = 0
      /\ idx' = [idx EXCEPT ![t] = h] /\ at' = [at EXCEPT ![t] = "check"]
      /\ UNCHANGED <<holder, want, result>>
  OBVIOUS
<1> HIDE DEF h, Swap, To, LookAt
<1>5. /\ \A u \in User : at'[u] = IF u = t THEN "check" ELSE at[u]
      /\ idx'[t] = h
  BY <1>4 DEF TableInv, TypeOK
<1>6. Pages(grown) = Members
  BY <1>1, <1>2 DEF Members, Pages
<1>7. Members' = Members
  BY <1>4, <1>6 DEF Members
<1>8. InitialCap <= n /\ count + 1 < n
  BY <1>2, TableAssumption DEF TableInv, TypeOK, TableOK
<1>9. TypeOK'
  BY <1>2, <1>3, <1>4 DEF TableInv, TypeOK, Table
<1>10. MutexOK' /\ AnswerOK'
  BY <1>1, <1>4, <1>5 DEF TableInv, MutexOK, AnswerOK
<1> HIDE DEF n
<1>11. TableOK'
  <2>1. Cardinality(Taken(slots)) = count /\ Chained(slots, cap)
    BY <1>1, <1>2 DEF TableInv, TableOK
  <2>2. Cardinality(Taken(grown)) = Cardinality(Pages(grown))
    BY <1>2, PagesCount
  <2>3. Cardinality(Taken(slots)) = Cardinality(Pages(slots))
    BY <1>2, <2>1, PagesCount
  <2>4. Cardinality(Taken(slots')) = count
    BY <1>4, <1>6, <2>1, <2>2, <2>3 DEF Members
  <2>5. Chained(slots', cap')
    BY <1>2, <1>4
  <2>6. \A u \in User : at'[u] # "tally"
    BY <1>2, <1>5
  <2>7. InitialCap <= cap' /\ count' < cap'
    BY <1>2, <1>4, <1>8 DEF TableInv, TypeOK
  <2> QED
    BY <1>4, <2>4, <2>5, <2>6, <2>7 DEF TableOK
<1>12. SearchOK'
  <2>1. Searched(slots', cap', Addr(t)', idx'[t]) /\ Addr(t)' # 0
    BY <1>2, <1>3, <1>4, <1>5 DEF Addr
  <2>2. count' + 1 < cap'
    BY <1>4, <1>8
  <2>3. \A u \in User : u # t => at'[u] \in {"idle", "lock"}
    BY <1>2, <1>5
  <2>4. at'[t] = "check"
    BY <1>5
  <2> QED
    BY <2>1, <2>2, <2>3, <2>4 DEF SearchOK, Growing, Probing
<1>13. GrowthOK'
  BY <1>2, <1>4, <1>5 DEF GrowthOK, Growing
<1> QED
  BY <1>9, <1>10, <1>11, <1>12, <1>13 DEF TableInv

LEMMA TableStep == TableInv /\ [Next]_ssVars => TableInv'
<1> SUFFICES ASSUME TableInv, [Next]_ssVars PROVE TableInv'
  OBVIOUS
<1>1. CASE UNCHANGED ssVars
  <2> USE <1>1 DEF ssVars, tables
  <2>1. TypeOK' /\ MutexOK' /\ AnswerOK'
    BY DEF TableInv, TypeOK, MutexOK, AnswerOK
  <2>2. TableOK'
    BY DEF TableInv, TableOK
  <2>3. SearchOK'
    BY DEF TableInv, SearchOK, Growing, Probing, Addr, Inserting, Members
  <2>4. GrowthOK'
    BY DEF TableInv, GrowthOK, Growing
  <2> QED
    BY <2>1, <2>2, <2>3, <2>4 DEF TableInv
<1>2. ASSUME NEW t \in User, NEW a \in Address, NEW r \in Requests(a), Call(t, r)
      PROVE  TableInv'
  BY <1>2, CallStep
<1>3. ASSUME NEW t \in User,
             \/ Lock(t) \/ Refuse(t) \/ Grow(t) \/ Move(t) \/ Copy(t) \/ Swap(t)
             \/ Begin(t) \/ Check(t) \/ FindPlace(t) \/ Store(t) \/ Tally(t) \/ Unlock(t)
      PROVE  TableInv'
  BY <1>3, LockStep, RefuseStep, GrowStep, MoveStep, CopyStep, SwapStep, BeginStep,
     CheckStep, FindPlaceStep, StoreStep, TallyStep, UnlockStep
<1> QED
  BY <1>1, <1>2, <1>3 DEF Next

LEMMA TableSafety == Spec => []TableInv
BY TableInit, TableStep, PTL DEF Spec

(***************************************************************************)
(* hashset_insert keeps room: neither the table nor the one that is to     *)
(* replace it ever fills, so that a probe of hashset_contains or           *)
(* hashset_insert_raw always comes to its end, also when a table cannot    *)
(* grow.                                                                   *)
(***************************************************************************)
THEOREM RoomSafety == Spec => []RoomLeft
<1>1. TableInv => RoomLeft
  <2> SUFFICES ASSUME TableInv PROVE RoomLeft
    OBVIOUS
  <2>1. /\ cap \in Nat \ {0} /\ 2 * cap \in Nat \ {0} /\ slots \in Table(cap)
        /\ DOMAIN slots = 0 .. cap - 1 /\ count \in Nat /\ count < cap
        /\ Cardinality(Taken(slots)) < cap /\ Chained(slots, cap)
    BY TypeFacts DEF TableInv, TypeOK, TableOK
  <2>2. Taken(slots) # DOMAIN slots
    BY <2>1, TakenCount
  <2>3. ASSUME grown # NoTable PROVE Taken(grown) # DOMAIN grown
    <3>1. \E t \in User : Growing(t)
      BY <2>3 DEF TableInv, GrowthOK
    <3>2. PICK t \in User : Growing(t)
      BY <3>1
    <3>3. /\ grown \in Table(2 * cap) /\ Chained(grown, 2 * cap) /\ next \in 0 .. cap
          /\ Pages(grown) = {slots[i] : i \in 0 .. next - 1} \ {0}
      BY <3>2, GrowthFacts
    <3>4. Pages(grown) \in SUBSET Pages(slots)
      BY <2>1, <3>3 DEF Pages
    <3>5. IsFiniteSet(Pages(slots)) /\ Cardinality(Pages(slots)) < cap
      BY <2>1, PagesCount
    <3>6. Cardinality(Pages(grown)) <= Cardinality(Pages(slots))
      BY <3>4, <3>5, FS_Subset
    <3>7. Cardinality(Taken(grown)) = Cardinality(Pages(grown))
      BY <2>1, <3>3, PagesCount
    <3>8. Cardinality(Taken(grown)) \in Nat /\ Cardinality(Taken(slots)) \in Nat
      BY <2>1, <3>3, TakenCount
    <3>9. Cardinality(Pages(slots)) = Cardinality(Taken(slots))
      BY <2>1, PagesCount
    <3>10. Cardinality(Taken(grown)) < 2 * cap
      BY <2>1, <3>5, <3>6, <3>7, <3>8, <3>9
    <3> QED
      BY <2>1, <3>3, <3>10, TakenCount
  <2> QED
    BY <2>2, <2>3 DEF RoomLeft
<1> QED
  BY <1>1, TableSafety, PTL

(***************************************************************************)
(* h->count is what it counts whenever the mutex of served_state is free,  *)
(* and no page is in two slots, across growth too.                         *)
(***************************************************************************)
THEOREM CountSafety == Spec => []CountExact
<1>1. TableInv => CountExact
  <2> SUFFICES ASSUME TableInv, holder = {}
               PROVE  /\ count = Cardinality(Members)
                      /\ count = Cardinality(Taken(slots))
    BY DEF CountExact
  <2>1. ~ \E t \in User : at[t] = "tally"
    BY DEF TableInv, MutexOK
  <2>2. count = Cardinality(Taken(slots)) /\ Chained(slots, cap)
    BY <2>1 DEF TableInv, TableOK
  <2>3. cap \in Nat \ {0} /\ slots \in Table(cap)
    BY TypeFacts DEF TableInv
  <2> QED
    BY <2>2, <2>3, PagesCount DEF Members
<1> QED
  BY <1>1, TableSafety, PTL

----------------------------------------------------------------------------
(* The table behind its mutex is a set.                                    *)

Busy == [t \in User |-> at[t] # "idle"]

\* A step of the set, or one that nobody outside sees.
SetStepOK == Abstract!Next \/ UNCHANGED Abstract!asVars

\* Steps that answer nobody.
LEMMA HiddenStep ==
  ASSUME UNCHANGED <<want, result>>, Members' = Members, Busy' = Busy
  PROVE  SetStepOK
BY DEF SetStepOK, Abstract!asVars, Busy

\* An answer of no or yes that changes no member.
LEMMA AnswerStep ==
  ASSUME TableInv, NEW t \in User, NEW r \in {"yes", "no"}, at[t] \notin {"idle", "tally", "unlock"},
         result' = [result EXCEPT ![t] = r], UNCHANGED want, Busy' = Busy,
         \/ ~ Inserting(t) /\ Members' = Members /\ r = (IF Addr(t) \in Members THEN "yes" ELSE "no")
         \/ Inserting(t) /\ r = "no" /\ Members' = Members
         \/ Inserting(t) /\ r = "yes" /\ Members' = Members \cup {Addr(t)}
  PROVE  SetStepOK
<1>1. Busy[t] /\ result[t] = "none"
  BY DEF Busy, TableInv, AnswerOK
<1>2. CASE ~ Inserting(t)
  <2>1. want[t].op = "contains"
    BY <1>2, TypeFacts DEF TableInv
  <2>2. Abstract!Look(t)
    BY <1>1, <1>2, <2>1 DEF Abstract!Look, Busy, Addr
  <2> QED
    BY <2>2 DEF SetStepOK, Abstract!Next
<1>3. CASE Inserting(t)
  <2>1. Abstract!Insert(t)
    BY <1>1, <1>3 DEF Abstract!Insert, Busy, Addr, Inserting
  <2> QED
    BY <2>1 DEF SetStepOK, Abstract!Next
<1> QED
  BY <1>2, <1>3

LEMMA BusyStays ==
  ASSUME TableInv, NEW t \in User, at[t] # "idle", NEW label, label # "idle",
         at' = [at EXCEPT ![t] = label]
  PROVE  Busy' = Busy
BY DEF Busy, TableInv, TypeOK

LEMMA SetInit == Init => Abstract!Init
<1> SUFFICES ASSUME Init PROVE Abstract!Init
  OBVIOUS
<1>1. Members = {}
  BY TableAssumption DEF Init, EmptyTable, Members, Pages
<1>2. want \in [User -> UNION {Requests(a) : a \in Address}]
  BY TableInit DEF TableInv, TypeOK
<1> QED
  BY <1>1, <1>2 DEF Init, Abstract!Init

LEMMA SetStep == TableInv /\ [Next]_ssVars => SetStepOK
<1> SUFFICES ASSUME TableInv, [Next]_ssVars PROVE SetStepOK
  OBVIOUS
<1> USE DEF tables
<1>1. CASE UNCHANGED ssVars
  <2>1. Members' = Members /\ Busy' = Busy
    BY <1>1 DEF ssVars, Members, Busy
  <2> QED
    BY <1>1, <2>1, HiddenStep DEF ssVars
<1>2. ASSUME NEW t \in User, NEW a \in Address, NEW r \in Requests(a), Call(t, r)
      PROVE  SetStepOK
  <2>1. Busy' = [Busy EXCEPT ![t] = TRUE] /\ ~ Busy[t]
    BY <1>2 DEF Call, To, Busy, TableInv, TypeOK
  <2>2. Members' = Members
    BY <1>2 DEF Call, Members
  <2>3. Abstract!Call(t, r)
    BY <1>2, <2>1, <2>2 DEF Call, Answer, Abstract!Call, Busy
  <2> QED
    BY <2>3 DEF SetStepOK, Abstract!Next
<1>3. ASSUME NEW t \in User, Lock(t) \/ Begin(t)
      PROVE  SetStepOK
  <2>1. Members' = Members
    BY <1>3 DEF Lock, Begin, Members
  <2>2. Busy' = Busy
    BY <1>3, BusyStays DEF Lock, Begin, To
  <2> QED
    BY <1>3, <2>1, <2>2, HiddenStep DEF Lock, Begin
<1>4. ASSUME NEW t \in User, Grow(t) \/ Tally(t)
      PROVE  SetStepOK
  <2>1. Members' = Members
    BY <1>4 DEF Grow, Tally, Members
  <2>2. Busy' = Busy
    BY <1>4, BusyStays DEF Grow, Tally, To
  <2> QED
    BY <1>4, <2>1, <2>2, HiddenStep DEF Grow, Tally
<1>5. ASSUME NEW t \in User, Move(t) \/ Copy(t) \/ FindPlace(t)
      PROVE  SetStepOK
  <2>1. Members' = Members
    BY <1>5 DEF Move, Copy, FindPlace, Members
  <2>2. at[t] # "idle" /\ (at' = at \/ \E label \in {"copy", "move", "store"} : To(t, label))
    BY <1>5 DEF Move, Copy, FindPlace
  <2>3. Busy' = Busy
    BY <2>2, BusyStays DEF To, Busy
  <2> QED
    BY <1>5, <2>1, <2>3, HiddenStep DEF Move, Copy, FindPlace
<1>6. ASSUME NEW t \in User, Swap(t)
      PROVE  SetStepOK
  <2>1. Growing(t)
    BY <1>6 DEF Swap, Growing
  <2>2. /\ Pages(grown) = {slots[i] : i \in 0 .. next - 1} \ {0}
        /\ DOMAIN slots = 0 .. cap - 1
    BY <2>1, GrowthFacts
  <2>3. Members' = Members
    <3>1. slots' = grown /\ next = cap
      BY <1>6 DEF Swap
    <3>2. Pages(slots) = Pages(grown)
      BY <2>2, <3>1 DEF Pages
    <3> QED
      BY <3>1, <3>2 DEF Members
  <2>4. Busy' = Busy
    BY <1>6, BusyStays DEF Swap, To
  <2> QED
    BY <1>6, <2>3, <2>4, HiddenStep DEF Swap
<1>7. ASSUME NEW t \in User, Refuse(t)
      PROVE  SetStepOK
  <2>1. Members' = Members
    BY <1>7 DEF Refuse, Members
  <2>2. Busy' = Busy
    BY <1>7, BusyStays DEF Refuse, To
  <2> QED
    BY <1>7, <2>1, <2>2, AnswerStep DEF Refuse, Answer
<1>8. ASSUME NEW t \in User, Store(t)
      PROVE  SetStepOK
  <2> DEFINE a == Addr(t)
             i == idx[t]
  <2>1. /\ cap \in Nat \ {0} /\ slots \in Table(cap) /\ Inserting(t)
        /\ a \in Address \ {0} /\ i \in 0 .. cap - 1 /\ slots[i] = 0
    BY <1>8, TypeFacts DEF Store, TableInv, SearchOK, Probing, Searched
  <2>2. slots' = [slots EXCEPT ![i] = a]
    BY <1>8 DEF Store
  <2> HIDE DEF a, i
  <2>3. /\ [slots EXCEPT ![i] = a] \in Table(cap)
        /\ Pages([slots EXCEPT ![i] = a]) = Pages(slots) \cup {a}
        /\ Taken([slots EXCEPT ![i] = a]) = Taken(slots) \cup {i}
        /\ i \notin Taken(slots)
    BY <2>1, StoreAdds
  <2>4. Members' = Members \cup {Addr(t)}
    BY <2>2, <2>3 DEF Members, a
  <2>5. Busy' = Busy
    BY <1>8, BusyStays DEF Store, To
  <2> QED
    BY <1>8, <2>1, <2>4, <2>5, AnswerStep DEF Store, Answer
<1>9. ASSUME NEW t \in User, Unlock(t)
      PROVE  SetStepOK
  <2>1. Members' = Members
    BY <1>9 DEF Unlock, Members
  <2>2. Busy' = [Busy EXCEPT ![t] = FALSE] /\ Busy[t] /\ result[t] # "none"
    BY <1>9 DEF Unlock, To, Busy, TableInv, TypeOK, AnswerOK
  <2>3. Abstract!Return(t)
    BY <1>9, <2>1, <2>2 DEF Unlock, Abstract!Return, Busy
  <2> QED
    BY <2>3 DEF SetStepOK, Abstract!Next
<1>10. ASSUME NEW t \in User, Check(t)
       PROVE  SetStepOK
  <2>1. /\ at[t] = "check" /\ Searched(slots, cap, Addr(t), idx[t]) /\ Chained(slots, cap)
        /\ cap \in Nat \ {0} /\ Addr(t) \in Nat /\ DOMAIN slots = 0 .. cap - 1
    BY <1>10, TypeFacts DEF Check, TableInv, TableOK, SearchOK
  <2>2. idx[t] \in DOMAIN slots
    BY <2>1 DEF Searched
  <2>3. Members' = Members
    BY <1>10 DEF Check, Members
  <2>4. at' = at \/ \E label \in {"place", "unlock"} : To(t, label)
    BY <1>10 DEF Check
  <2>5. Busy' = Busy
    BY <2>1, <2>4, BusyStays DEF To, Busy
  <2>6. CASE UNCHANGED result
    BY <1>10, <2>3, <2>5, <2>6, HiddenStep DEF Check
  <2>7. CASE slots[idx[t]] = 0 /\ ~ Inserting(t) /\ Answer(t, "no")
    <3>1. Addr(t) \notin Members
      <4>1. CASE Addr(t) = 0
        BY <4>1 DEF Members, Pages
      <4>2. CASE Addr(t) # 0
        BY <2>1, <2>7, <4>2, SearchMisses DEF Members, Pages
      <4> QED
        BY <4>1, <4>2
    <3> QED
      BY <1>10, <2>1, <2>3, <2>5, <2>7, <3>1, AnswerStep DEF Check, Answer
  <2>8. CASE slots[idx[t]] = Addr(t) /\ Addr(t) # 0 /\ Answer(t, "yes")
    <3>1. Addr(t) \in Members /\ Members' = Members \cup {Addr(t)}
      BY <2>2, <2>3, <2>8 DEF Members, Pages
    <3> QED
      BY <1>10, <2>1, <2>3, <2>5, <2>8, <3>1, AnswerStep DEF Check, Answer
  <2> QED
    BY <1>10, <2>6, <2>7, <2>8 DEF Check
<1> QED
  BY <1>1, <1>2, <1>3, <1>4, <1>5, <1>6, <1>7, <1>8, <1>9, <1>10 DEF Next

(***************************************************************************)
(* served_contains and served_insert act on a set, each at one instant     *)
(* between its call and its return, across collisions, wrap-around,        *)
(* growth and failed allocations: what the fault loop, the worker and the  *)
(* eager thread take struct served_state for.                              *)
(***************************************************************************)
THEOREM ServedStateIsSet == Spec => ImplementsSet
<1>1. TableInv /\ [Next]_ssVars => [Abstract!Next]_Abstract!asVars
  BY SetStep DEF SetStepOK
<1> QED
  BY <1>1, SetInit, TableSafety, PTL DEF Spec, ImplementsSet, Abstract!Spec

=============================================================================
