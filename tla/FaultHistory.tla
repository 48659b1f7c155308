---------------------------- MODULE FaultHistory ----------------------------
(***************************************************************************)
(* The fault history and the prefetch candidates computed from it          *)
(* (history_push, detect_stride and the candidate loops of handle_faults). *)
(* Addresses are page numbers; a history is the sequence of the last       *)
(* HistorySize of them, oldest first.                                      *)
(***************************************************************************)
EXTENDS Integers, Sequences

CONSTANTS
  HistorySize,   \* HISTORY_SIZE
  MaxStride,     \* longest stride, in pages, that is followed (256)
  MaxTargets     \* MAX_PREFETCH_TARGETS

ASSUME HistoryAssumption ==
  /\ HistorySize \in Nat /\ HistorySize >= 4
  /\ MaxStride \in Nat \ {0}
  /\ MaxTargets \in Nat \ {0}

\* history_push: the newest page replaces the oldest once the ring is full.
HistoryPush(h, p) == IF Len(h) < HistorySize THEN Append(h, p) ELSE Append(Tail(h), p)

(***************************************************************************)
(* detect_stride: the common difference of the last four pages, when it is *)
(* the same three times, not zero and not too long; zero otherwise.        *)
(***************************************************************************)
DetectStride(h) ==
  LET n == Len(h)
      d == h[n] - h[n - 1]
  IN  IF /\ n >= 4
         /\ h[n - 1] - h[n - 2] = d /\ h[n - 2] - h[n - 3] = d
         /\ d # 0 /\ d \in - MaxStride .. MaxStride
      THEN d
      ELSE 0

\* Mutant of Lookahead: there is always one candidate, whatever the configuration.
LookaheadAtLeastOne(h, cfg) ==
  LET n == IF DetectStride(h) # 0 THEN cfg.stride ELSE cfg.seq
  IN  IF n = 0 THEN 1 ELSE n

\* How many candidates the configuration asks for after this history.
Lookahead(h, cfg) ==
  IF ~ cfg.enabled THEN 0 ELSE IF DetectStride(h) # 0 THEN cfg.stride ELSE cfg.seq

\* The i-th candidate after a fault on p, in a space of `pages` pages.
Candidate(h, p, i, pages) ==
  (p + i * (IF DetectStride(h) # 0 THEN DetectStride(h) ELSE 1)) % pages

\* Only the stride loop refuses address zero.
Eligible(h, c) == DetectStride(h) # 0 => c # 0

=============================================================================
