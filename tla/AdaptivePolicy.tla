--------------------------- MODULE AdaptivePolicy ---------------------------
(***************************************************************************)
(* The adaptive prefetch controller on its own: the rules of PolicyRules   *)
(* driven window after window by whatever the worker and the queue did.    *)
(* LazyHandler drives the same rules with real windows of a few pages;     *)
(* here every threshold is crossed from both sides.                        *)
(***************************************************************************)
EXTENDS PolicyRules

CONSTANTS
  Windows,          \* the windows that may be observed
  InitialConfigs    \* the configurations the command line may give

(***************************************************************************)
(* A controller starts with no cooldown to serve, prefetch on or off, with *)
(* whatever lookahead -s and -S name, none included; negative counts,      *)
(* which main does not refuse either, are left out.                        *)
(***************************************************************************)
ASSUME DriverAssumption ==
  /\ Windows \subseteq Window
  /\ InitialConfigs \subseteq {c \in Config : c.cooldown = 0}

VARIABLES
  config,    \* struct prefetch_config
  w,         \* the window that ended last
  drained    \* windows without a backlog since prefetch was disabled, up to Cooldown

policyVars == <<config, w, drained>>

Quiet == [prefetched |-> 0, dropped |-> 0, duplicates |-> 0, depth |-> 0]

Backlog(win) == win.depth > PolicyQueue \div 8

TypeOK ==
  /\ config \in Config
  /\ w \in Window
  /\ drained \in 0 .. Cooldown

Init ==
  /\ config \in InitialConfigs
  /\ w = Quiet
  /\ drained = IF config.enabled THEN 0 ELSE Cooldown - 1

WindowEnds ==
  \E win \in Windows :
    /\ w' = win
    /\ config' = Adjust(config, win)
    /\ drained' = IF config.enabled \/ config'.enabled THEN 0
                  ELSE IF Backlog(win) \/ drained = Cooldown THEN drained
                  ELSE drained + 1

Next == WindowEnds

\* Faults keep coming, so windows keep ending.
Spec == Init /\ [][Next]_policyVars /\ WF_policyVars(WindowEnds)

----------------------------------------------------------------------------
(***************************************************************************)
(* No window brings about an enabled controller without a lookahead, which *)
(* prefetches nothing, so that no later window looks clean and nothing but *)
(* pressure moves it: halving turns off instead.  Only the command line    *)
(* (-s 0 -S 0) starts one.                                                 *)
(***************************************************************************)
Blind(c) == c.enabled /\ c.seq + c.stride = 0
EnabledLooksAhead == [][Blind(config') => config' = config]_policyVars

(***************************************************************************)
(* A probe comes after exactly Cooldown windows without a backlog, windows *)
(* with one in between counting for nothing.                               *)
(***************************************************************************)
ProbeAfterCooldown ==
  [][~ config.enabled /\ config'.enabled => drained + 1 = Cooldown /\ ~ Backlog(w')]_policyVars

(***************************************************************************)
(* A window under pressure (requests dropped, a quarter of the queue in    *)
(* use, or duplicates at the halving threshold) narrows the lookahead,     *)
(* whatever else the window looks like.                                    *)
(***************************************************************************)
PressureNarrows ==
  [][/\ config.enabled
     /\ \/ w'.dropped > 0
        \/ w'.depth > PolicyQueue \div 4
        \/ w'.prefetched > 0 /\ DupRate(w') >= DupHalve
     => \/ ~ config'.enabled
        \/ config'.seq + config'.stride < config.seq + config.stride]_policyVars

\* Prefetch does not stay off for ever once the backlog has gone.
ReenabledOnceDrained == <>[](~ Backlog(w)) => []<> config.enabled

\* A queue that stays deep turns prefetch off, by halving if not at once.
DeepQueueTurnsOff == <>[](w.depth > PolicyQueue \div 4) => <>[](~ config.enabled)

=============================================================================
