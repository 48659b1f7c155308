----------------------------- MODULE ServedState -----------------------------
(***************************************************************************)
(* struct served_state: the open-addressing hash set of hashset.h behind   *)
(* the mutex of served_contains and served_insert, one step per slot that  *)
(* a thread looks at.  PageFetch treats the whole as a set; this module    *)
(* shows that it is one, with growth, failed allocations and collisions.   *)
(*                                                                         *)
(* Addresses are page numbers; zero, the mark of an empty slot, may be     *)
(* asked for (the sequential candidates wrap) and never stored.  *)
(***************************************************************************)
EXTENDS Integers, FiniteSets

CONSTANTS
  User,         \* the threads of the handler
  Address,      \* the pages they ask about
  InitialCap,   \* slots of a new table, a power of two
  MaxCap,       \* bound: a larger table cannot be allocated
  Multiplier,   \* FIB_HASH, of which only the remainder modulo a table's size matters
  LoadFactor    \* HASHSET_LOAD_FACTOR, percent

ASSUME TableAssumption ==
  /\ Address \subseteq Nat /\ Address # {}
  /\ InitialCap \in Nat \ {0, 1}
  /\ MaxCap \in Nat
  /\ Multiplier \in Nat
  /\ LoadFactor \in 1 .. 99
  /\ 100 <= InitialCap * (100 - LoadFactor)

VARIABLES
  slots,      \* h->slots, from 0
  cap,        \* h->cap
  count,      \* h->count
  grown,      \* hashset_rehash: new_slots, or NoTable
  next,       \* hashset_rehash: the slot whose page is moved next
  holder,     \* who has the mutex: a set of at most one thread
  at,         \* thread -> where it is
  want,       \* thread -> its operation and address
  idx,        \* thread -> the slot it looks at next
  result      \* thread -> "none", or what its operation returns

tables == <<slots, cap, count, grown, next>>
ssVars == <<tables, holder, at, want, idx, result>>

NoTable == <<>>

Requests(a) == {[op |-> "contains", addr |-> a], [op |-> "insert", addr |-> a]}

TypeOK ==
  /\ cap \in Nat \ {0} /\ slots \in [0 .. cap - 1 -> Address \cup {0}]
  /\ grown = NoTable \/ grown \in [0 .. 2 * cap - 1 -> Address \cup {0}]
  /\ count \in Nat /\ next \in 0 .. cap
  /\ holder \subseteq User
  /\ at \in [User -> {"idle", "lock", "begin", "move", "copy",
                      "check", "place", "store", "tally", "unlock"}]
  /\ want \in [User -> UNION {Requests(a) : a \in Address}]
  /\ idx \in [User -> Nat]
  /\ result \in [User -> {"none", "yes", "no"}]

\* hashset_index.
Home(a, size) == (a * Multiplier) % size

\* The slot looked at after slot i.
Following(i, size) == (i + 1) % size

EmptyTable(size) == [i \in 0 .. size - 1 |-> 0]

\* Mutant of NewHome: the mask of the old table.
OldHome(a) == Home(a, cap)

\* Where hashset_rehash starts to look for a place in the new table.
NewHome(a) == Home(a, 2 * cap)

\* Mutant of Loaded: the table may fill up.
LoadedLate == count * 100 > cap * LoadFactor

Loaded == count * 100 >= cap * LoadFactor

Init ==
  /\ slots = EmptyTable(InitialCap) /\ cap = InitialCap
  /\ count = 0
  /\ grown = NoTable /\ next = 0
  /\ holder = {}
  /\ at = [t \in User |-> "idle"]
  /\ want = [t \in User |-> [op |-> "contains", addr |-> CHOOSE a \in Address : TRUE]]
  /\ idx = [t \in User |-> 0]
  /\ result = [t \in User |-> "none"]

To(t, label) == at' = [at EXCEPT ![t] = label]
LookAt(t, i) == idx' = [idx EXCEPT ![t] = i]
Answer(t, r) == result' = [result EXCEPT ![t] = r]
Inserting(t) == want[t].op = "insert"
Addr(t) == want[t].addr

----------------------------------------------------------------------------
\* served_contains or served_insert is called.
Call(t, r) ==
  /\ at[t] = "idle"
  /\ want' = [want EXCEPT ![t] = r]
  /\ Answer(t, "none")
  /\ To(t, "lock")
  /\ UNCHANGED <<tables, holder, idx>>

\* Mutant of Lock: nobody waits for the mutex.
LockNothing(t) ==
  /\ at[t] = "lock"
  /\ holder' = holder \cup {t}
  /\ To(t, "begin")
  /\ UNCHANGED <<tables, want, idx, result>>

Lock(t) ==
  /\ at[t] = "lock"
  /\ holder = {}
  /\ holder' = {t}
  /\ To(t, "begin")
  /\ UNCHANGED <<tables, want, idx, result>>

\* Zero is never inserted; a loaded table grows before the look-up, or the
\* insertion fails with it.
Refuse(t) ==
  /\ at[t] = "begin"
  /\ Inserting(t)
  /\ Addr(t) = 0 \/ Loaded
  /\ Answer(t, "no")
  /\ To(t, "unlock")
  /\ UNCHANGED <<tables, holder, want, idx>>

Grow(t) ==
  /\ at[t] = "begin"
  /\ Inserting(t) /\ Addr(t) # 0 /\ Loaded
  /\ 2 * cap <= MaxCap
  /\ grown' = EmptyTable(2 * cap)
  /\ next' = 0
  /\ To(t, "move")
  /\ UNCHANGED <<slots, cap, count, holder, want, idx, result>>

\* hashset_rehash: one slot of the old table.
Move(t) ==
  /\ at[t] = "move"
  /\ next < cap
  /\ IF slots[next] = 0
       THEN next' = next + 1 /\ UNCHANGED <<at, idx>>
       ELSE To(t, "copy") /\ LookAt(t, NewHome(slots[next])) /\ UNCHANGED next
  /\ UNCHANGED <<slots, cap, count, grown, holder, want, result>>

\* hashset_insert_raw into the new table: one slot of it.  A page that is
\* there already is written over itself, which is to leave it.
Copy(t) ==
  /\ at[t] = "copy"
  /\ IF grown[idx[t]] \in {0, slots[next]}
       THEN /\ grown' = [grown EXCEPT ![idx[t]] = slots[next]]
            /\ next' = next + 1
            /\ To(t, "move")
            /\ UNCHANGED idx
       ELSE LookAt(t, Following(idx[t], 2 * cap)) /\ UNCHANGED <<grown, next, at>>
  /\ UNCHANGED <<slots, cap, count, holder, want, result>>

\* The end of hashset_rehash: the look-up begins in the new table.
Swap(t) ==
  /\ at[t] = "move"
  /\ next = cap
  /\ slots' = grown /\ cap' = 2 * cap
  /\ grown' = NoTable /\ next' = 0
  /\ LookAt(t, Home(Addr(t), 2 * cap))
  /\ To(t, "check")
  /\ UNCHANGED <<count, holder, want, result>>

Begin(t) ==
  /\ at[t] = "begin"
  /\ Inserting(t) => Addr(t) # 0 /\ ~ Loaded
  /\ LookAt(t, Home(Addr(t), cap))
  /\ To(t, "check")
  /\ UNCHANGED <<tables, holder, want, result>>

\* hashset_contains: one slot.
Check(t) ==
  /\ at[t] = "check"
  /\ \/ /\ slots[idx[t]] = 0
        /\ IF Inserting(t)
             THEN To(t, "place") /\ LookAt(t, Home(Addr(t), cap)) /\ UNCHANGED result
             ELSE To(t, "unlock") /\ Answer(t, "no") /\ UNCHANGED idx
     \/ /\ slots[idx[t]] = Addr(t) /\ Addr(t) # 0
        /\ Answer(t, "yes")
        /\ To(t, "unlock")
        /\ UNCHANGED idx
     \/ /\ slots[idx[t]] \notin {0, Addr(t)}
        /\ LookAt(t, Following(idx[t], cap))
        /\ UNCHANGED <<at, result>>
  /\ UNCHANGED <<tables, holder, want>>

\* hashset_insert_raw: one slot; the store is a step of its own.
FindPlace(t) ==
  /\ at[t] = "place"
  /\ IF slots[idx[t]] \in {0, Addr(t)}
       THEN To(t, "store") /\ UNCHANGED idx
       ELSE LookAt(t, Following(idx[t], cap)) /\ UNCHANGED at
  /\ UNCHANGED <<tables, holder, want, result>>

Store(t) ==
  /\ at[t] = "store"
  /\ slots' = [slots EXCEPT ![idx[t]] = Addr(t)]
  /\ Answer(t, "yes")
  /\ To(t, "tally")
  /\ UNCHANGED <<cap, count, grown, next, holder, want, idx>>

Tally(t) ==
  /\ at[t] = "tally"
  /\ count' = count + 1
  /\ To(t, "unlock")
  /\ UNCHANGED <<slots, cap, grown, next, holder, want, idx, result>>

Unlock(t) ==
  /\ at[t] = "unlock"
  /\ holder' = holder \ {t}
  /\ To(t, "idle")
  /\ UNCHANGED <<tables, want, idx, result>>

Next ==
  \E t \in User :
    \/ \E a \in Address : \E r \in Requests(a) : Call(t, r)
    \/ Lock(t) \/ Refuse(t) \/ Grow(t) \/ Move(t) \/ Copy(t) \/ Swap(t)
    \/ Begin(t) \/ Check(t) \/ FindPlace(t) \/ Store(t) \/ Tally(t) \/ Unlock(t)

Spec == Init /\ [][Next]_ssVars

----------------------------------------------------------------------------
Pages(table) == {table[i] : i \in DOMAIN table} \ {0}
Taken(table) == {i \in DOMAIN table : table[i] # 0}
Members == Pages(slots)

(***************************************************************************)
(* A probe always comes to an empty slot: with the load checked before     *)
(* each insertion, and an insertion given up when the table cannot grow,   *)
(* neither the table nor the one that replaces it ever fills, and no       *)
(* look-up goes round for ever.                                            *)
(***************************************************************************)
RoomLeft ==
  /\ Taken(slots) # DOMAIN slots
  /\ grown # NoTable => Taken(grown) # DOMAIN grown

(***************************************************************************)
(* The count that decides on growth is the number of pages in the table    *)
(* whenever the mutex is free, and no page is in it twice.                 *)
(***************************************************************************)
CountExact ==
  holder = {} =>
    /\ count = Cardinality(Members)
    /\ count = Cardinality(Taken(slots))

(***************************************************************************)
(* The table is a set: every look-up and insertion takes effect at one     *)
(* instant, across collisions, wrap-around and growth.                     *)
(***************************************************************************)
Abstract == INSTANCE AtomicSet WITH
  Threads <- User, Elements <- Address, Request <- Requests,
  members <- Members,
  busy <- [t \in User |-> at[t] # "idle"],
  request <- want,
  answer <- result

ImplementsSet == Abstract!Spec

=============================================================================
