----------------------------- MODULE UserFault -----------------------------
(***************************************************************************)
(* The kernel's userfaultfd object and the restored process, as the lazy   *)
(* handler uses them.  Neither is code of this repository: everything here *)
(* is modelled from what src/lazy_handler.c asks of the descriptor (reads  *)
(* of page-fault and lifecycle messages, UFFDIO_COPY, poll, close).        *)
(*                                                                         *)
(* Addresses are page numbers, 0 .. AddrPages - 1, and wrap at AddrPages   *)
(* the way a uint64_t page address wraps at 2^64.  A page's content is     *)
(* Absent (no page table entry), Zero, or the number of the image page     *)
(* whose bytes it holds.                                                   *)
(***************************************************************************)
EXTENDS Integers

CONSTANTS
  AddrPages,     \* number of pages of the address space
  Lazy,          \* pages of the areas CRIU registered with the descriptor
  Image,         \* pages the dump holds: those the page server can send
  Thread,        \* threads of the restored process
  Removable,     \* pages the process may give back: madvise(MADV_DONTNEED)
  Unmappable,    \* pages the process may munmap
  MayExit,       \* whether the process may exit under the handler
  Absent, Zero   \* the contents that are not a page of the image

Page == 0 .. AddrPages - 1

ASSUME AddrAssumption ==
  /\ AddrPages \in Nat \ {0}
  /\ Lazy \subseteq Page \ {0}     \* nothing is mapped at address 0
  /\ Image \subseteq Lazy
  /\ Removable \subseteq Lazy
  /\ Unmappable \subseteq Lazy
  /\ MayExit \in BOOLEAN
  /\ Thread # {}

ASSUME ContentAssumption ==
  /\ Absent \notin Page
  /\ Zero \notin Page
  /\ Absent # Zero

VARIABLES
  mem,        \* page -> content
  mapped,     \* the pages still covered by a registered area
  thr,        \* thread -> what it is doing, and on which page
  uffdOpen    \* FALSE once the handler has closed its descriptor

ufVars == <<mem, mapped, thr, uffdOpen>>

(***************************************************************************)
(* What a thread may be doing.  "pending": blocked in a fault whose message *)
(* is unread; "blocked": the message has been read.  madvise and munmap    *)
(* post a message and wait for it to be read: "remove" and "unmap" are     *)
(* unread, "removing" and "unmapping" read; the removal itself comes after *)
(* ("zapping").                                                            *)
(***************************************************************************)
ThreadState == {"run", "pending", "blocked", "remove", "removing", "zapping",
                "unmap", "unmapping", "gone"}

Content == Page \cup {Absent, Zero}

UFTypeOK ==
  /\ mem \in [Page -> Content]
  /\ mapped \subseteq Lazy
  /\ thr \in [Thread -> [st : ThreadState, pg : Page]]
  /\ uffdOpen \in BOOLEAN

UFInit ==
  /\ mem = [p \in Page |-> Absent]
  /\ mapped = Lazy
  /\ thr = [t \in Thread |-> [st |-> "run", pg |-> 0]]
  /\ uffdOpen = TRUE

Enter(t, st, p) == thr' = [thr EXCEPT ![t] = [st |-> st, pg |-> p]]

Waiting(t) == thr[t].st \in {"pending", "blocked"}

Exited == \A t \in Thread : thr[t].st = "gone"

(***************************************************************************)
(* A thread touches a missing page.  While the descriptor is open it       *)
(* blocks and a message is queued; once it is closed the area is ordinary  *)
(* anonymous memory and the kernel fills the page with zeros.              *)
(***************************************************************************)
Touch(t, p) ==
  /\ thr[t].st = "run"
  /\ p \in mapped
  /\ mem[p] = Absent
  /\ IF uffdOpen
       THEN Enter(t, "pending", p) /\ UNCHANGED mem
       ELSE mem' = [mem EXCEPT ![p] = Zero] /\ UNCHANGED thr
  /\ UNCHANGED <<mapped, uffdOpen>>

(***************************************************************************)
(* madvise(MADV_DONTNEED): the call waits until its REMOVE message is read, *)
(* ends the period in which copies are refused, then drops the page.       *)
(***************************************************************************)
Remove(t, p) ==
  /\ thr[t].st = "run"
  /\ p \in Removable \cap mapped
  /\ uffdOpen
  /\ Enter(t, "remove", p)
  /\ UNCHANGED <<mem, mapped, uffdOpen>>

RemoveNoticed(t) ==
  /\ thr[t].st = "removing"
  /\ Enter(t, "zapping", thr[t].pg)
  /\ UNCHANGED <<mem, mapped, uffdOpen>>

RemoveDone(t) ==
  /\ thr[t].st = "zapping"
  /\ mem' = [mem EXCEPT ![thr[t].pg] = Absent]
  /\ Enter(t, "run", 0)
  /\ UNCHANGED <<mapped, uffdOpen>>

(***************************************************************************)
(* munmap of a page no other thread is using: the area is gone before the  *)
(* UNMAP message is posted, and the call waits for the message to be read. *)
(***************************************************************************)
Unmap(t, p) ==
  /\ thr[t].st = "run"
  /\ p \in Unmappable \cap mapped
  /\ \A u \in Thread \ {t} : thr[u].pg # p
  /\ uffdOpen
  /\ mapped' = mapped \ {p}
  /\ mem' = [mem EXCEPT ![p] = Absent]
  /\ Enter(t, "unmap", p)
  /\ UNCHANGED uffdOpen

UnmapDone(t) ==
  /\ thr[t].st = "unmapping"
  /\ Enter(t, "run", 0)
  /\ UNCHANGED <<mem, mapped, uffdOpen>>

\* The process exits, whatever its threads were doing.
ProcessExit ==
  /\ MayExit
  /\ ~ Exited
  /\ thr' = [t \in Thread |-> [st |-> "gone", pg |-> 0]]
  /\ UNCHANGED <<mem, mapped, uffdOpen>>

----------------------------------------------------------------------------
(* What the handler does with the descriptor.                              *)

FaultPending(t) == thr[t].st = "pending"
EventPending(t) == thr[t].st \in {"remove", "unmap"}

UffdReadable == \E t \in Thread : FaultPending(t) \/ EventPending(t)

\* read(): the message of t's fault; the thread stays blocked.
ReadFaultOf(t) ==
  /\ FaultPending(t)
  /\ Enter(t, "blocked", thr[t].pg)
  /\ UNCHANGED <<mem, mapped, uffdOpen>>

\* read(): a lifecycle message; messages of faults are delivered first.
ReadEventOf(t) ==
  /\ EventPending(t)
  /\ \A u \in Thread : ~ FaultPending(u)
  /\ Enter(t, IF thr[t].st = "remove" THEN "removing" ELSE "unmapping", thr[t].pg)
  /\ UNCHANGED <<mem, mapped, uffdOpen>>

\* While a lifecycle call is under way the kernel refuses copies (EAGAIN).
Changing ==
  \E t \in Thread : thr[t].st \in {"remove", "removing", "unmap", "unmapping"}

(***************************************************************************)
(* ioctl(UFFDIO_COPY) of data into page p: EAGAIN, ESRCH or ENOENT leave    *)
(* everything alone, EEXIST too (and wakes nobody); a copy that succeeds   *)
(* wakes every thread that waits for p, its message read or not.           *)
(***************************************************************************)
CopyRefused(p) == Changing \/ Exited \/ p \notin mapped

CopyEffect(p, data) ==
  IF CopyRefused(p) \/ mem[p] # Absent
  THEN UNCHANGED ufVars
  ELSE /\ mem' = [mem EXCEPT ![p] = data]
       /\ thr' = [t \in Thread |-> IF Waiting(t) /\ thr[t].pg = p
                                   THEN [st |-> "run", pg |-> 0]
                                   ELSE thr[t]]
       /\ UNCHANGED <<mapped, uffdOpen>>

\* close(): the areas are unregistered and everyone who waits is released.
CloseUffd ==
  /\ uffdOpen' = FALSE
  /\ thr' = [t \in Thread |-> IF Waiting(t) THEN [st |-> "run", pg |-> 0]
                              ELSE IF thr[t].st = "remove" THEN [thr[t] EXCEPT !.st = "removing"]
                              ELSE IF thr[t].st = "unmap" THEN [thr[t] EXCEPT !.st = "unmapping"]
                              ELSE thr[t]]
  /\ UNCHANGED <<mem, mapped>>

=============================================================================
