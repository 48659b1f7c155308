---------------------------- MODULE PolicyRules ----------------------------
(***************************************************************************)
(* maybe_adjust_prefetch_policy: what the adaptive controller does with    *)
(* the prefetch configuration at the end of a window of faults.            *)
(*                                                                         *)
(*   cfg  the configuration: enabled, seq, stride, cooldown                *)
(*   w    the window: prefetched, dropped, duplicates, depth               *)
(***************************************************************************)
EXTENDS Integers

CONSTANTS
  PolicyQueue,            \* PREFETCH_QUEUE_SIZE
  MaxSeq, MaxStrideCount, \* max_seq_count, max_stride_count
  DupDisable, DupHalve,   \* dup_disable_pct, dup_halve_pct
  Cooldown                \* windows prefetch stays off (16)

ASSUME PolicyAssumption ==
  /\ PolicyQueue \in Nat \ {0}
  /\ MaxSeq \in Nat /\ MaxStrideCount \in Nat
  /\ DupDisable \in 1 .. 100 /\ DupHalve \in 1 .. 100
  /\ Cooldown \in Nat \ {0}

Config == [enabled : BOOLEAN, seq : Nat, stride : Nat, cooldown : Nat]

Window == [prefetched : Nat, dropped : Nat, duplicates : Nat, depth : Nat]

DupRate(w) ==
  LET requests == w.prefetched + w.duplicates
  IN  IF requests = 0 THEN 0 ELSE (w.duplicates * 100) \div requests

\* A duplicate rate counts only in a window that prefetched something.
DupAtLeast(w, pct) == w.prefetched > 0 /\ DupRate(w) >= pct

Saturated(w) ==
  w.dropped > 0 \/ w.depth > PolicyQueue \div 2 \/ DupAtLeast(w, DupDisable)

\* Mutant of Pressed: only the queue counts.
PressedByDepth(w) == w.depth > PolicyQueue \div 4

Pressed(w) == w.depth > PolicyQueue \div 4 \/ DupAtLeast(w, DupHalve)

Clean(w) ==
  w.prefetched > 0 /\ w.duplicates = 0 /\ w.dropped = 0 /\ w.depth < PolicyQueue \div 32

Disabled == [enabled |-> FALSE, seq |-> 0, stride |-> 0, cooldown |-> Cooldown]

\* Mutant of WhileDisabled: the cooldown runs while the backlog lasts.
WhileDisabledHurries(cfg, w) ==
  LET left == IF cfg.cooldown > 0 THEN cfg.cooldown - 1 ELSE 0
  IN  IF left > 0 THEN [cfg EXCEPT !.cooldown = left]
      ELSE [enabled |-> TRUE, seq |-> 1, stride |-> 0, cooldown |-> 0]

\* Mutant of WhileDisabled: the cooldown is compared and never stored.
WhileDisabledForever(cfg, w) ==
  LET left == IF cfg.cooldown > 0 THEN cfg.cooldown - 1 ELSE 0
  IN  IF w.depth > PolicyQueue \div 8 \/ left > 0 THEN cfg
      ELSE [enabled |-> TRUE, seq |-> 1, stride |-> 0, cooldown |-> 0]

\* Prefetch is off: wait for the backlog, count the cooldown down, probe.
WhileDisabled(cfg, w) ==
  LET left == IF cfg.cooldown > 0 THEN cfg.cooldown - 1 ELSE 0
  IN  IF w.depth > PolicyQueue \div 8 THEN cfg
      ELSE IF left > 0 THEN [cfg EXCEPT !.cooldown = left]
      ELSE [enabled |-> TRUE, seq |-> 1, stride |-> 0, cooldown |-> 0]

\* Mutant of Halve: both counts may reach zero with prefetch still on.
HalveToNothing(cfg) == [cfg EXCEPT !.seq = @ \div 2, !.stride = @ \div 2]

\* Mutant of Halve: halves are rounded up.
HalveUp(cfg) == [cfg EXCEPT !.seq = (@ + 1) \div 2, !.stride = (@ + 1) \div 2]

Halve(cfg) ==
  LET half == [cfg EXCEPT !.seq = @ \div 2, !.stride = @ \div 2]
  IN  IF half.seq = 0 /\ half.stride = 0 THEN Disabled ELSE half

GrowTo(n, step, max) ==
  IF n >= max THEN n ELSE IF n + step > max THEN max ELSE n + step

Grow(cfg) ==
  [cfg EXCEPT !.seq = GrowTo(@, 2, MaxSeq), !.stride = GrowTo(@, 1, MaxStrideCount)]

Adjust(cfg, w) ==
  IF ~ cfg.enabled THEN WhileDisabled(cfg, w)
  ELSE IF Saturated(w) THEN Disabled
  ELSE IF Pressed(w) THEN Halve(cfg)
  ELSE IF Clean(w) THEN Grow(cfg)
  ELSE cfg

=============================================================================
