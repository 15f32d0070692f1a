----------------------------- MODULE TimerWheel -----------------------------
(***************************************************************************)
(* The timer wheel of src/timer/base_timer.c when its calls do not         *)
(* overlap: where a delay puts a timer, and when a tick expires it.        *)
(*                                                                         *)
(* A spoke is the set of timers linked to it: the order of its list        *)
(* matters only to whether a timer put back on the spoke being walked is   *)
(* behind the walk, and any order can occur.  A tick is a sequence of      *)
(* visits.  The cumulative statistics (ticks, timer_starts, timer_expired, *)
(* timer_cancelled), which no code reads but the display, are left out.    *)
(***************************************************************************)
EXTENDS Naturals, FiniteSets

CONSTANTS
  Timers,       (* the timers of the application                           *)
  W,            (* wheel_size                                              *)
  Granularity,  (* milliseconds between ticks                              *)
  Delays,       (* delays timers are started with, in milliseconds         *)
  Periods       (* periodic delays, 0 for a timer that expires once        *)

ASSUME WheelAssumption == W \in Nat \ {0} /\ Granularity \in Nat \ {0}
ASSUME DelayAssumption == Delays \subseteq Nat /\ Periods \subseteq Nat
ASSUME TimersAssumption == IsFiniteSet(Timers)

VARIABLES
  made,      (* the wheel exists (magic_tag)                               *)
  idx,       (* spoke_index                                                *)
  home,      (* per timer: the spoke it is linked to, or Unlinked          *)
  rot,       (* per timer: rotation_count                                  *)
  period,    (* per timer: periodic_delay                                  *)
  active,    (* timer_active                                               *)
  hiwater,   (* timer_hiwater_mark                                         *)
  ticking,   (* a tick holds the lock                                      *)
  todo,      (* timers of the current spoke it has still to visit          *)
  armed,     (* history, per timer: the delay it was last enqueued with    *)
  age        (* history, per timer: ticks begun since                      *)

vars == <<made, idx, home, rot, period, active, hiwater, ticking, todo, armed, age>>

Spokes == 0..(W - 1)
Unlinked == W

Linked == {t \in Timers : home[t] # Unlinked}

-----------------------------------------------------------------------------
(* tmr_enqueue_unlocked *)

(* At least one tick, and the rest of an incomplete one is dropped.        *)
Ticks(d) == IF d < Granularity THEN 1 ELSE d \div Granularity

RotationsShort(d) == (Ticks(d) - 1) \div W

Rotations(d) == Ticks(d) \div W

SpokeFor(i, d) == (i + (Ticks(d) % W)) % W

Enqueue(t, d) ==
  /\ home' = [home EXCEPT ![t] = SpokeFor(idx, d)]
  /\ rot' = [rot EXCEPT ![t] = Rotations(d)]
  /\ armed' = [armed EXCEPT ![t] = d]
  /\ age' = [age EXCEPT ![t] = 0]

-----------------------------------------------------------------------------
(* stw_timer_create *)
Create ==
  /\ ~made
  /\ made' = TRUE
  /\ idx' = 0
  /\ active' = 0
  /\ hiwater' = 0
  /\ UNCHANGED <<home, rot, period, ticking, todo, armed, age>>

(* stw_timer_destroy stops every linked timer and frees the wheel.         *)
Destroy ==
  /\ made
  /\ ~ticking
  /\ made' = FALSE
  /\ home' = [t \in Timers |-> Unlinked]
  /\ active' = active - Cardinality(Linked)
  /\ UNCHANGED <<idx, rot, period, hiwater, ticking, todo, armed, age>>

(* A restart that counts the timer once more.                              *)
StartCountedTwice(t, d, p) ==
  /\ made
  /\ ~ticking
  /\ Enqueue(t, d)
  /\ period' = [period EXCEPT ![t] = p]
  /\ active' = active + 1
  /\ hiwater' = IF active' > hiwater THEN active' ELSE hiwater
  /\ UNCHANGED <<made, idx, ticking, todo>>

(* stw_timer_start: a running timer is taken off its spoke first.          *)
Start(t, d, p) ==
  /\ made
  /\ ~ticking
  /\ Enqueue(t, d)
  /\ period' = [period EXCEPT ![t] = p]
  /\ active' = IF t \in Linked THEN active ELSE active + 1
  /\ hiwater' = IF active' > hiwater THEN active' ELSE hiwater
  /\ UNCHANGED <<made, idx, ticking, todo>>

(* stw_timer_stop of a timer that is not running does nothing.             *)
Stop(t) ==
  /\ made
  /\ ~ticking
  /\ t \in Linked
  /\ home' = [home EXCEPT ![t] = Unlinked]
  /\ active' = active - 1
  /\ UNCHANGED <<made, idx, rot, period, hiwater, ticking, todo, armed, age>>

-----------------------------------------------------------------------------
(* stw_timer_tick *)

(* Advance the cursor and start walking its spoke.                         *)
TickBegin ==
  /\ made
  /\ ~ticking
  /\ ticking' = TRUE
  /\ idx' = (idx + 1) % W
  /\ todo' = {t \in Linked : home[t] = idx'}
  /\ age' = [t \in Timers |-> IF t \in Linked THEN age[t] + 1 ELSE age[t]]
  /\ UNCHANGED <<made, home, rot, period, active, hiwater, armed>>

(* A timer with revolutions left stays on its spoke.                       *)
VisitSkip(t) ==
  /\ t \in todo
  /\ rot[t] # 0
  /\ rot' = [rot EXCEPT ![t] = @ - 1]
  /\ todo' = todo \ {t}
  /\ UNCHANGED <<made, idx, home, period, active, hiwater, ticking, armed, age>>

Expiring(t) == t \in todo /\ rot[t] = 0

(* Unlinked, and its callback run.                                         *)
VisitExpire(t) ==
  /\ Expiring(t)
  /\ period[t] = 0
  /\ home' = [home EXCEPT ![t] = Unlinked]
  /\ todo' = todo \ {t}
  /\ active' = active - 1
  /\ UNCHANGED <<made, idx, rot, period, hiwater, ticking, armed, age>>

(* A periodic timer is enqueued again at the end of a spoke.  When that is *)
(* the spoke being walked, the walk comes to it again unless it was the    *)
(* last one: its successor was saved before.                               *)
VisitRearm(t) ==
  /\ Expiring(t)
  /\ period[t] > 0
  /\ Enqueue(t, period[t])
  /\ todo' = IF home'[t] = idx /\ todo # {t} THEN todo ELSE todo \ {t}
  /\ UNCHANGED <<made, idx, period, active, hiwater, ticking>>

TickEnd ==
  /\ ticking
  /\ todo = {}
  /\ ticking' = FALSE
  /\ UNCHANGED <<made, idx, home, rot, period, active, hiwater, todo, armed, age>>

-----------------------------------------------------------------------------
Init ==
  /\ made = FALSE
  /\ idx = 0
  /\ home = [t \in Timers |-> Unlinked]
  /\ rot = [t \in Timers |-> 0]
  /\ period = [t \in Timers |-> 0]
  /\ active = 0
  /\ hiwater = 0
  /\ ticking = FALSE
  /\ todo = {}
  /\ armed = [t \in Timers |-> 0]
  /\ age = [t \in Timers |-> 0]

Visit(t) == VisitSkip(t) \/ VisitExpire(t) \/ VisitRearm(t)

Tick == TickBegin \/ TickEnd \/ \E t \in Timers : Visit(t)

Calls ==
  \/ Create
  \/ Destroy
  \/ \E t \in Timers : Stop(t)
  \/ \E t \in Timers, d \in Delays, p \in Periods : Start(t, d, p)

Next == Tick \/ Calls

Spec == Init /\ [][Next]_vars

-----------------------------------------------------------------------------
(* The types of the wheel's state.                                         *)
TypeOK ==
  /\ made \in BOOLEAN
  /\ idx \in Spokes
  /\ home \in [Timers -> 0..W]
  /\ rot \in [Timers -> Nat]
  /\ period \in [Timers -> Nat]
  /\ active \in Nat
  /\ hiwater \in Nat
  /\ ticking \in BOOLEAN
  /\ todo \subseteq Timers
  /\ armed \in [Timers -> Nat]
  /\ age \in [Timers -> Nat]

(* A delay of a whole number of revolutions.                               *)
WholeTurns(d) == Ticks(d) % W = 0

(* The tick at which a timer may expire: the delay it was enqueued with,   *)
(* or one revolution later when the delay is a whole number of them.       *)
Due(t) == {Ticks(armed[t])} \cup
          (IF WholeTurns(armed[t]) THEN {Ticks(armed[t]) + W} ELSE {})

(* A timer's callback runs exactly when the wheel has turned for the delay *)
(* it was enqueued with, counted in ticks, through any sequence of starts, *)
(* restarts, stops, skipped revolutions and periodic re-enqueues; only a   *)
(* delay of whole revolutions may take one revolution more.                *)
ExpiresOnTime == \A t \in Timers : Expiring(t) => age[t] \in Due(t)

(* The statistic the tuning of the wheel relies on is the number of linked *)
(* timers, and never passes its own high-water mark.                       *)
ActiveCountsLinked == active = Cardinality(Linked) /\ active <= hiwater

-----------------------------------------------------------------------------
(* How far a linked timer is from its expiry, in ticks.                    *)
Distance(t) ==
  IF t \in todo THEN 0
  ELSE IF home[t] > idx THEN home[t] - idx ELSE home[t] + W - idx

Remaining(t) == rot[t] * W + Distance(t)

(* The ticks behind a linked timer and the ticks before it add up.         *)
DeadlineInv == \A t \in Linked : age[t] + Remaining(t) \in Due(t)

(* What a walk still has to visit is on its spoke, and nothing is linked   *)
(* without a wheel.                                                        *)
WalkInv ==
  /\ \A t \in todo : home[t] = idx
  /\ ~ticking => todo = {}
  /\ ticking => made
  /\ ~made => Linked = {}

(* The inductive invariant: the types, the walk, the count of the linked   *)
(* timers, and what is behind and before every linked timer.               *)
IInv == TypeOK /\ WalkInv /\ ActiveCountsLinked /\ DeadlineInv

-----------------------------------------------------------------------------
(* What a comment of base_timer.c says, and the code does not do.          *)

(* "compute number ticks reqquired to expire the duration", "times around  *)
(* the wheel required to expire duration": the duration in ticks is what a *)
(* timer takes to expire.                                                  *)
ExpiresAtDelay == \A t \in Timers : Expiring(t) => age[t] = Ticks(armed[t])
=============================================================================
