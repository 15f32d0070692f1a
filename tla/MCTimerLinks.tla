---------------------------- MODULE MCTimerLinks ----------------------------
(***************************************************************************)
(* TLC instances of TimerLinks.  The environment makes a finite number of  *)
(* starts, which bounds timer_active, whose updates can be lost; in a      *)
(* liveness run it makes a finite number of calls and of ticks, since      *)
(* nothing in a pthread mutex lets a caller in between two of them.        *)
(***************************************************************************)
EXTENDS TimerLinks, TLC

CONSTANTS
  MaxCalls,    (* calls the managers make                                  *)
  MaxTicks     (* ticks of a liveness run                                  *)

VARIABLES calls, ticks   (* what they have left                            *)

Symm == Permutations(Timers) \cup Permutations(Managers)

McVars == <<vars, calls, ticks>>

McInit == Init /\ calls = MaxCalls /\ ticks = MaxTicks

CountedCall ==
  /\ calls > 0
  /\ calls' = calls - 1
  /\ \E m \in Managers : Call(m)

(* Calls are counted, ticks are not.                                       *)
CallsNext ==
  \/ (Advance \/ Work) /\ UNCHANGED <<calls, ticks>>
  \/ CountedCall /\ UNCHANGED ticks

CallsSpec == McInit /\ [][CallsNext]_McVars

(* No timer task.                                                          *)
NoTickSpec ==
  McInit /\ [][\E m \in Managers : (Call(m) \/ Manage(m)) /\ UNCHANGED <<calls, ticks>>]_McVars

BoundedNext ==
  \/ Work /\ UNCHANGED <<calls, ticks>>
  \/ CountedCall /\ UNCHANGED ticks
  \/ Advance /\ ticks > 0 /\ ticks' = ticks - 1 /\ UNCHANGED calls

BoundedSpec == McInit /\ [][BoundedNext]_McVars /\ Fairness
=============================================================================
