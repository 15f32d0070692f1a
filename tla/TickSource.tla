----------------------------- MODULE TickSource -----------------------------
(***************************************************************************)
(* The loop of tmr_main_task in src/timer/base_mgmt.c that turns the time  *)
(* it slept, in clock ticks, into ticks of the timer wheel: a division     *)
(* whose rest it carries over in tenths of a tick.                         *)
(***************************************************************************)
EXTENDS Integers

CONSTANTS
  Stups,     (* gu4Stups, timer ticks in a second                          *)
  ClkTck,    (* sysconf(_SC_CLK_TCK), clock ticks in a second              *)
  Elapsed    (* clock ticks a sleep can take                               *)

ASSUME RatesAssumption == Stups \in Nat /\ ClkTck \in Nat \ {0} /\ Elapsed \subseteq Nat

VARIABLES
  sleeping,  (* the task is in nanosleep                                   *)
  ticks,     (* u4Ticks, wheel ticks still to run                          *)
  rem,       (* u4TicksRem                                                 *)
  due        (* history: tenths of ticks slept for and not yet run         *)

clockVars == <<sleeping, ticks, rem, due>>

(* u4Ticksx10                                                              *)
Tenths(e) == (e * Stups * 10) \div ClkTck

(* The tick made of rests is run, but stays in the rest.                   *)
WakeKeepsRest(e) ==
  LET x == Tenths(e)
      r == rem + (x % 10) IN
  /\ sleeping
  /\ sleeping' = FALSE
  /\ due' = due + x
  /\ ticks' = IF r \div 10 >= 1 THEN x \div 10 + 1 ELSE x \div 10
  /\ rem' = r

(* The rests make a tick, which is not run.                                *)
WakeDropsRest(e) ==
  LET x == Tenths(e)
      r == rem + (x % 10) IN
  /\ sleeping
  /\ sleeping' = FALSE
  /\ due' = due + x
  /\ ticks' = x \div 10
  /\ rem' = r % 10

Wake(e) ==
  LET x == Tenths(e)
      r == rem + (x % 10) IN
  /\ sleeping
  /\ sleeping' = FALSE
  /\ due' = due + x
  /\ IF r \div 10 >= 1
     THEN ticks' = x \div 10 + 1 /\ rem' = r - 10
     ELSE ticks' = x \div 10 /\ rem' = r

(* times() rolled over during the sleep: one tick is assumed.              *)
WakeRolledOver ==
  /\ sleeping
  /\ sleeping' = FALSE
  /\ due' = due + 10
  /\ ticks' = 1
  /\ UNCHANGED rem

(* timer_handler                                                           *)
RunTick ==
  /\ ~sleeping
  /\ ticks # 0
  /\ ticks' = ticks - 1
  /\ due' = due - 10
  /\ UNCHANGED <<sleeping, rem>>

Sleep ==
  /\ ~sleeping
  /\ ticks = 0
  /\ sleeping' = TRUE
  /\ UNCHANGED <<ticks, rem, due>>

ClockInit == sleeping = TRUE /\ ticks = 0 /\ rem = 0 /\ due = 0

ClockNext ==
  \/ \E e \in Elapsed : Wake(e)
  \/ WakeRolledOver
  \/ RunTick
  \/ Sleep

ClockSpec == ClockInit /\ [][ClockNext]_clockVars

-----------------------------------------------------------------------------
(* The types of the loop's variables; the rest is below a tick.            *)
ClockTypeOK ==
  /\ sleeping \in BOOLEAN
  /\ ticks \in Nat
  /\ rem \in 0..9
  /\ due \in Nat
  /\ sleeping => ticks = 0

(* No tick is lost or invented by the conversion, however long the sleeps  *)
(* and in whatever order: what was slept for and is not yet run is in the  *)
(* ticks to run and in the rest, so the wheel is never a tick behind the   *)
(* sleeps when the loop sleeps again.                                      *)
NoTickLost == due = 10 * ticks + rem /\ (sleeping => due < 10)
=============================================================================
