----------------------------- MODULE TimerTask ------------------------------
(***************************************************************************)
(* tmr_main_task of src/timer/base_mgmt.c as a whole: the loop that sleeps *)
(* and converts what it slept (TickSource) drives the wheel (TimerWheel),  *)
(* while callers start and stop timers between its ticks.                  *)
(*                                                                         *)
(* Time is slept time: what the ticks themselves take is counted by        *)
(* nobody, since times() is read again before every sleep.                 *)
(***************************************************************************)
EXTENDS TimerWheel, TickSource

VARIABLE credit   (* history, per linked timer: tenths of ticks that were  *)
                  (* due when it was enqueued, and slept for since         *)

taskVars == <<vars, clockVars, credit>>

(* What is due already when timer t is enqueued.                           *)
Granted(t, tenths) == credit' = [credit EXCEPT ![t] = tenths]

Slept(tenths) ==
  credit' = [t \in Timers |-> IF t \in Linked THEN credit[t] + tenths ELSE 0]

-----------------------------------------------------------------------------
(* nanosleep and the conversion                                            *)
SleepFor(e) ==
  /\ Wake(e)
  /\ Slept(Tenths(e))
  /\ UNCHANGED vars

SleepOver ==
  /\ WakeRolledOver
  /\ Slept(10)
  /\ UNCHANGED vars

SleepAgain ==
  /\ Sleep
  /\ UNCHANGED <<vars, credit>>

(* timer_handler is called while u4Ticks # 0, and counted when it returns. *)
EnterTick ==
  /\ ~sleeping /\ ticks # 0
  /\ TickBegin
  /\ UNCHANGED <<clockVars, credit>>

LeaveTick ==
  /\ TickEnd
  /\ RunTick
  /\ UNCHANGED credit

(* Without a wheel stw_timer_tick returns at once.                         *)
TickNothing ==
  /\ ~made
  /\ RunTick
  /\ UNCHANGED <<vars, credit>>

Pass(t) ==
  /\ VisitSkip(t) \/ VisitExpire(t)
  /\ UNCHANGED <<clockVars, credit>>

PassRearm(t) ==
  /\ VisitRearm(t)
  /\ Granted(t, due - 10)
  /\ UNCHANGED clockVars

StartTimer(t, d, p) ==
  /\ Start(t, d, p)
  /\ Granted(t, due)
  /\ UNCHANGED clockVars

OtherCall ==
  /\ Create \/ Destroy \/ \E t \in Timers : Stop(t)
  /\ UNCHANGED <<clockVars, credit>>

-----------------------------------------------------------------------------
TaskInit == Init /\ ClockInit /\ credit = [t \in Timers |-> 0]

Loop ==
  \/ \E e \in Elapsed : SleepFor(e)
  \/ SleepOver
  \/ SleepAgain
  \/ EnterTick
  \/ LeaveTick
  \/ TickNothing
  \/ \E t \in Timers : Pass(t) \/ PassRearm(t)

TaskNext ==
  \/ Loop
  \/ OtherCall
  \/ \E t \in Timers, d \in Delays, p \in Periods : StartTimer(t, d, p)

(* The timer task keeps running; nobody has to call.                       *)
TaskSpec == TaskInit /\ [][TaskNext]_taskVars /\ WF_taskVars(Loop)

-----------------------------------------------------------------------------
(* A call-back never runs early: its delay is covered by what has been     *)
(* slept since the timer was started and by the ticks the task was behind  *)
(* when it was.                                                            *)
NeverEarly == \A t \in Timers : Expiring(t) => credit[t] >= 10 * Ticks(armed[t])

(* The task never goes to sleep past the deadline of a timer.              *)
SleepsInTime ==
  sleeping => \A t \in Linked : \E n \in Due(t) : credit[t] < 10 * n

(* The task gets back to sleep: every tick ends, although expired periodic *)
(* timers can be put back on the very spoke it walks, and the ticks the    *)
(* task is behind come to an end.  With SleepsInTime, every timer that is  *)
(* left alone expires.                                                     *)
SleepsAgain == ~sleeping ~> sleeping

(* Every tick counted to a timer was slept for, or due when it started.    *)
CreditInv ==
  \A t \in Linked : credit[t] = due + 10 * age[t] - (IF ticking THEN 10 ELSE 0)

(* The loop is in a tick only while it has one to run.                     *)
LoopInv == ticking => ~sleeping /\ ticks # 0

(* The inductive invariant, with the types of the wheel and of the loop.   *)
TaskInv ==
  /\ credit \in [Timers -> Nat]
  /\ IInv /\ ClockTypeOK /\ NoTickLost /\ CreditInv /\ LoopInv
=============================================================================
