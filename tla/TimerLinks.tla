----------------------------- MODULE TimerLinks -----------------------------
(***************************************************************************)
(* The timers of src/timer/base_mgmt.c and the spokes of base_timer.c, as  *)
(* the threads see them: doubly linked lists that the timer task walks     *)
(* under tick_mutex and the callers of tmr_... change under tmr_mutex and  *)
(* tick_mutex, and what both read and write outside of them.               *)
(*                                                                         *)
(* Delays are in ticks and a timer is its node: the conversion is in       *)
(* TimerWheel, and a name is only how a caller says which node it means.   *)
(* Of the statistics only timer_active is kept.                            *)
(***************************************************************************)
EXTENDS Integers, FiniteSets

CONSTANTS
  Timers,    (* the nodes of tmr_list                                      *)
  W,         (* wheel_size                                                 *)
  Delays,    (* delays in ticks                                            *)
  Periods,   (* periodic delays in ticks, 0 for none                       *)
  Managers,  (* the threads that call tmr_...                              *)
  Ticker,    (* the thread of tmr_main_task                                *)
  Calls,     (* what the managers call                                     *)
  Deleting,  (* timers whose call-back deletes them                        *)
  NULL,      (* the null pointer                                           *)
  Nobody     (* the owner of a mutex that is free                          *)

ASSUME CallsAssumption ==
  Calls \subseteq {"add", "delete", "delete running", "start", "restart", "stop"}
ASSUME WheelAssumption == W \in Nat \ {0} /\ Delays \subseteq Nat \ {0} /\ Periods \subseteq Nat
ASSUME NamesAssumption ==
  /\ Ticker \notin Managers
  /\ Nobody \notin Managers \cup {Ticker}
  /\ NULL \notin Timers \cup 0..(W - 1)
  /\ Timers \cap 0..(W - 1) = {}
  /\ Deleting \subseteq Timers

VARIABLES
  used, delay, period, rot,  (* per node                                   *)
  next, prev,                (* the links of nodes and spokes              *)
  idx,                       (* spoke_index                                *)
  active,                    (* timer_active                               *)
  mgr, tick,                 (* owners of tmr_mutex and tick_mutex         *)
  pc,                        (* where each thread is                       *)
  at,                        (* per thread: the node or spoke it works on  *)
  saved                      (* per manager: timer_active as it was read;  *)
                             (* of the ticker: the node after              *)

nodes == <<used, delay, period>>
wheel == <<rot, next, prev, active>>
threads == <<pc, at, saved>>
vars == <<nodes, wheel, idx, mgr, tick, threads>>

Spokes == 0..(W - 1)
Cells == Timers \cup Spokes
Threads == Managers \cup {Ticker}

Goto(th, label) == pc' = [pc EXCEPT ![th] = label]

(* stw_timer_running *)
Running(t) == next[t] # NULL

-----------------------------------------------------------------------------
(* The lists *)

(* Both neighbours of t point past it, and t is left with the links to.    *)
UnlinkTo(t, to) ==
  /\ next' = [next EXCEPT ![prev[t]] = next[t], ![t] = to[1]]
  /\ prev' = [prev EXCEPT ![next[t]] = prev[t], ![t] = to[2]]

Unlink(t) == UnlinkTo(t, <<NULL, NULL>>)

SpokeFor(d) == (idx + (d % W)) % W

(* The old last node is not told of its successor.                         *)
LinkHalf(t, d) ==
  LET spoke == SpokeFor(d) IN
  /\ next' = [next EXCEPT ![t] = spoke]
  /\ prev' = [prev EXCEPT ![t] = prev[spoke], ![spoke] = t]
  /\ rot' = [rot EXCEPT ![t] = d \div W]

(* tmr_enqueue_unlocked: to the end of the spoke the delay ends at.        *)
Link(t, d) ==
  LET spoke == SpokeFor(d) IN
  /\ next' = [next EXCEPT ![t] = spoke, ![prev[spoke]] = t]
  /\ prev' = [prev EXCEPT ![t] = prev[spoke], ![spoke] = t]
  /\ rot' = [rot EXCEPT ![t] = d \div W]

-----------------------------------------------------------------------------
(* The callers *)

(* The ticker has taken t off its spoke and not finished with it.          *)
InCallback(t) == pc[Ticker] \in {"callback", "rearm"} /\ at[Ticker] = t

Idle(t) == ~Running(t) /\ ~InCallback(t)

Allowed(call, t) == call \in Calls /\ Idle(t)

(* tmr_find_free_tmrNode and tmr_find_tmrNode: a name is that of one node. *)
Fresh(t) == ~used[t]
Found(t) == used[t]

(* tmr_add_timerNode                                                       *)
Add(m, t, d, p) ==
  /\ "add" \in Calls
  /\ pc[m] = "idle"
  /\ mgr = Nobody
  /\ Fresh(t)
  /\ used' = [used EXCEPT ![t] = TRUE]
  /\ delay' = [delay EXCEPT ![t] = d]
  /\ period' = [period EXCEPT ![t] = p]
  /\ next' = [next EXCEPT ![t] = NULL]
  /\ prev' = [prev EXCEPT ![t] = NULL]
  /\ UNCHANGED <<rot, active, idx, mgr, tick, threads>>

(* memset of the node *)
Clear(t) ==
  /\ used' = [used EXCEPT ![t] = FALSE]
  /\ delay' = [delay EXCEPT ![t] = 0]
  /\ period' = [period EXCEPT ![t] = 0]
  /\ rot' = [rot EXCEPT ![t] = 0]
  /\ next' = [next EXCEPT ![t] = NULL]
  /\ prev' = [prev EXCEPT ![t] = NULL]

(* tmr_delete_timerNode, of a running timer too                            *)
Delete(m, t) ==
  /\ Allowed("delete", t) \/ "delete running" \in Calls
  /\ pc[m] = "idle"
  /\ mgr = Nobody
  /\ Found(t)
  /\ Clear(t)
  /\ UNCHANGED <<active, idx, mgr, tick, threads>>

Enter(m, t, label) ==
  /\ pc[m] = "idle"
  /\ mgr = Nobody
  /\ Found(t)
  /\ mgr' = m
  /\ at' = [at EXCEPT ![m] = t]
  /\ Goto(m, label)
  /\ UNCHANGED <<nodes, wheel, idx, tick, saved>>

(* tmr_stop_timer, as far as its wait for tick_mutex                       *)
CallStop(m, t) == "stop" \in Calls /\ Enter(m, t, "stop")

(* tmr_start_timer: a running timer is stopped first.                      *)
CallStart(m, t) ==
  /\ Allowed("start", t) \/ "restart" \in Calls
  /\ Enter(m, t, IF Running(t) THEN "stop to start" ELSE "prepare")

(* The critical region of stw_timer_stop.                                  *)
StopRegion(t) ==
  /\ tick = Nobody
  /\ IF Running(t) THEN Unlink(t) /\ active' = active - 1
                   ELSE UNCHANGED <<next, prev, active>>
  /\ UNCHANGED rot

(* The count is not guarded by the test for a running timer.               *)
StopCounted(m) ==
  /\ pc[m] = "stop"
  /\ tick = Nobody
  /\ IF Running(at[m]) THEN Unlink(at[m]) ELSE UNCHANGED <<next, prev>>
  /\ active' = active - 1
  /\ mgr' = Nobody
  /\ Goto(m, "idle")
  /\ UNCHANGED <<nodes, rot, idx, tick, at, saved>>

Stop(m) ==
  /\ pc[m] = "stop"
  /\ StopRegion(at[m])
  /\ mgr' = Nobody
  /\ Goto(m, "idle")
  /\ UNCHANGED <<nodes, idx, tick, at, saved>>

StopToStart(m) ==
  /\ pc[m] = "stop to start"
  /\ StopRegion(at[m])
  /\ Goto(m, "prepare")
  /\ UNCHANGED <<nodes, idx, mgr, tick, at, saved>>

(* stw_timer_prepare, without tick_mutex                                   *)
Prepare(m) ==
  /\ pc[m] = "prepare"
  /\ next' = [next EXCEPT ![at[m]] = NULL]
  /\ prev' = [prev EXCEPT ![at[m]] = NULL]
  /\ Goto(m, "start")
  /\ UNCHANGED <<nodes, rot, active, idx, mgr, tick, at, saved>>

(* The first critical region of stw_timer_start: the links of a timer that *)
(* was running are left, to be set below.                                  *)
StartUnlink(m) ==
  LET t == at[m] IN
  /\ pc[m] = "start"
  /\ tick = Nobody
  /\ IF Running(t)
     THEN UnlinkTo(t, <<next[t], prev[t]>>) /\ active' = active - 1
     ELSE UNCHANGED <<next, prev, active>>
  /\ Goto(m, "enqueue")
  /\ UNCHANGED <<nodes, rot, idx, mgr, tick, at, saved>>

(* The second, in tmr_enqueue.                                             *)
StartEnqueue(m) ==
  /\ pc[m] = "enqueue"
  /\ tick = Nobody
  /\ Link(at[m], delay[at[m]])
  /\ Goto(m, "count")
  /\ UNCHANGED <<nodes, active, idx, mgr, tick, at, saved>>

(* timer_active++ outside of it, and the return.                           *)
LoadActive(m) ==
  /\ pc[m] = "count"
  /\ saved' = [saved EXCEPT ![m] = active]
  /\ Goto(m, "store")
  /\ UNCHANGED <<nodes, wheel, idx, mgr, tick, at>>

StoreActive(m) ==
  /\ pc[m] = "store"
  /\ active' = saved[m] + 1
  /\ mgr' = Nobody
  /\ Goto(m, "idle")
  /\ UNCHANGED <<nodes, rot, next, prev, idx, tick, at, saved>>

-----------------------------------------------------------------------------
(* The timer task: stw_timer_tick *)

(* The cursor moves before tick_mutex is taken ...                         *)
Advance ==
  /\ pc[Ticker] = "idle"
  /\ idx' = (idx + 1) % W
  /\ Goto(Ticker, "read")
  /\ UNCHANGED <<nodes, wheel, mgr, tick, at, saved>>

(* ... and so is the first timer of the spoke read.                        *)
ReadHead ==
  /\ pc[Ticker] = "read"
  /\ at' = [at EXCEPT ![Ticker] = next[idx]]
  /\ Goto(Ticker, "lock")
  /\ UNCHANGED <<nodes, wheel, idx, mgr, tick, saved>>

TickLock ==
  /\ pc[Ticker] = "lock"
  /\ tick = Nobody
  /\ tick' = Ticker
  /\ Goto(Ticker, "walk")
  /\ UNCHANGED <<nodes, wheel, idx, mgr, at, saved>>

(* A pointer the walk can neither stop at nor follow: to nothing, or to    *)
(* the head of another spoke.                                              *)
Astray(cell) == cell \notin Timers \cup {idx}

(* A return that leaves tick_mutex locked.                                 *)
TickReturnLocked ==
  /\ pc[Ticker] = "walk"
  /\ at[Ticker] = idx
  /\ Goto(Ticker, "idle")
  /\ UNCHANGED <<nodes, wheel, idx, mgr, tick, at, saved>>

TickUnlock ==
  /\ pc[Ticker] = "walk"
  /\ at[Ticker] = idx
  /\ tick' = Nobody
  /\ Goto(Ticker, "idle")
  /\ UNCHANGED <<nodes, wheel, idx, mgr, at, saved>>

VisitSkip ==
  LET t == at[Ticker] IN
  /\ pc[Ticker] = "walk"
  /\ t \in Timers
  /\ rot[t] # 0
  /\ rot' = [rot EXCEPT ![t] = @ - 1]
  /\ at' = [at EXCEPT ![Ticker] = next[t]]
  /\ UNCHANGED <<nodes, next, prev, active, idx, mgr, tick, pc, saved>>

(* The next node is taken from the links of a timer already unlinked.      *)
VisitUnlinkForgets ==
  LET t == at[Ticker] IN
  /\ pc[Ticker] = "walk"
  /\ t \in Timers
  /\ rot[t] = 0
  /\ Running(t)
  /\ Unlink(t)
  /\ active' = active - 1
  /\ saved' = [saved EXCEPT ![Ticker] = next'[t]]
  /\ Goto(Ticker, "callback")
  /\ UNCHANGED <<nodes, rot, idx, mgr, tick, at>>

VisitUnlink ==
  LET t == at[Ticker] IN
  /\ pc[Ticker] = "walk"
  /\ t \in Timers
  /\ rot[t] = 0
  /\ Running(t)
  /\ Unlink(t)
  /\ active' = active - 1
  /\ saved' = [saved EXCEPT ![Ticker] = next[t]]
  /\ Goto(Ticker, "callback")
  /\ UNCHANGED <<nodes, rot, idx, mgr, tick, at>>

(* A call-back that only computes, or none: memset clears func_ptr.        *)
Callback ==
  /\ pc[Ticker] = "callback"
  /\ ~(used[at[Ticker]] /\ at[Ticker] \in Deleting)
  /\ Goto(Ticker, "rearm")
  /\ UNCHANGED <<nodes, wheel, idx, mgr, tick, at, saved>>

(* A call-back that deletes its timer waits for tmr_mutex.                 *)
CallbackDeletes ==
  LET t == at[Ticker] IN
  /\ pc[Ticker] = "callback"
  /\ used[t]
  /\ t \in Deleting
  /\ mgr = Nobody
  /\ Clear(t)
  /\ Goto(Ticker, "rearm")
  /\ UNCHANGED <<active, idx, mgr, tick, at, saved>>

Rearm ==
  LET t == at[Ticker] IN
  /\ pc[Ticker] = "rearm"
  /\ IF period[t] > 0
     THEN Link(t, period[t]) /\ active' = active + 1
     ELSE UNCHANGED <<rot, next, prev, active>>
  /\ at' = [at EXCEPT ![Ticker] = saved[Ticker]]
  /\ Goto(Ticker, "walk")
  /\ UNCHANGED <<nodes, idx, mgr, tick, saved>>

(* The walk follows a pointer that leads nowhere: the process is lost.     *)
Crash ==
  LET t == at[Ticker] IN
  /\ pc[Ticker] = "walk"
  /\ Astray(t) \/ (t \in Timers /\ rot[t] = 0 /\ ~Running(t))
  /\ Goto(Ticker, "crashed")
  /\ UNCHANGED <<nodes, wheel, idx, mgr, tick, at, saved>>

-----------------------------------------------------------------------------
(* tmr_timer_init: an empty list of nodes, and stw_timer_create: every     *)
(* spoke linked to itself.                                                 *)
Init ==
  /\ used = [t \in Timers |-> FALSE]
  /\ delay = [t \in Timers |-> 0]
  /\ period = [t \in Timers |-> 0]
  /\ rot = [t \in Timers |-> 0]
  /\ next = [c \in Cells |-> IF c \in Spokes THEN c ELSE NULL]
  /\ prev = [c \in Cells |-> IF c \in Spokes THEN c ELSE NULL]
  /\ idx = 0
  /\ active = 0
  /\ mgr = Nobody
  /\ tick = Nobody
  /\ pc = [th \in Threads |-> "idle"]
  /\ at = [th \in Threads |-> NULL]
  /\ saved = [th \in Threads |-> NULL]

Call(m) ==
  \E t \in Timers :
    \/ CallStop(m, t)
    \/ CallStart(m, t)
    \/ Delete(m, t)
    \/ \E d \in Delays, p \in Periods : Add(m, t, d, p)

Manage(m) ==
  \/ Stop(m)
  \/ StopToStart(m)
  \/ Prepare(m)
  \/ StartUnlink(m)
  \/ StartEnqueue(m)
  \/ LoadActive(m)
  \/ StoreActive(m)

(* What remains of a tick that has begun.                                  *)
Walk ==
  \/ ReadHead
  \/ TickLock
  \/ TickUnlock
  \/ VisitSkip
  \/ VisitUnlink
  \/ Callback
  \/ CallbackDeletes
  \/ Rearm
  \/ Crash

Work == Walk \/ \E m \in Managers : Manage(m)

Next == Advance \/ Work \/ \E m \in Managers : Call(m)

Spec == Init /\ [][Next]_vars

(* Threads keep running; nobody has to call, and the clock may stop.       *)
Fairness == WF_vars(Walk) /\ \A m \in Managers : WF_vars(Manage(m))

-----------------------------------------------------------------------------
(* The types of the state.                                                 *)
TypeOK ==
  /\ used \in [Timers -> BOOLEAN]
  /\ delay \in [Timers -> Delays \cup {0}]
  /\ period \in [Timers -> Periods \cup {0}]
  /\ rot \in [Timers -> Nat]
  /\ next \in [Cells -> Cells \cup {NULL}]
  /\ prev \in [Cells -> Cells \cup {NULL}]
  /\ idx \in Spokes
  /\ active \in Int
  /\ mgr \in Managers \cup {Nobody}
  /\ tick \in {Ticker, Nobody}
  /\ at \in [Threads -> Cells \cup {NULL}]

(* A walk of spoke h comes to no timer outside S.                          *)
Walked(h, S) == \A c \in S \cup {h} : next[c] \in Timers => next[c] \in S

(* The timers a walk of spoke h comes to: the least such set.              *)
OnSpoke(h) == {t \in Timers : \A S \in SUBSET Timers : Walked(h, S) => t \in S}

(* Every spoke is a ring: its walk comes back to its head, the links back  *)
(* are the links forward reversed, and no timer is on two spokes.          *)
SpokesAreRings ==
  /\ \A c \in Cells : next[c] # NULL => prev[next[c]] = c
  /\ \A h \in Spokes : \E c \in OnSpoke(h) \cup {h} : next[c] = h
  /\ \A h, g \in Spokes : h # g => OnSpoke(h) \cap OnSpoke(g) = {}

(* A timer whose links are set is on a spoke, and one that is on a spoke   *)
(* has its links set: what stw_timer_running says is so.                   *)
LinkedIsActive == {t \in Timers : Running(t)} = UNION {OnSpoke(h) : h \in Spokes}

(* The walk never follows a pointer that leads nowhere.                    *)
NoCrash == pc[Ticker] # "crashed"

(* When no call and no expiry is under way, timer_active is the number of  *)
(* timers on the spokes.                                                   *)
ActiveSettles ==
  mgr = Nobody /\ pc[Ticker] \notin {"callback", "rearm"}
    => active = Cardinality(UNION {OnSpoke(h) : h \in Spokes})

(* Caller and timer task do not wait for each other's mutex.               *)
NoEmbrace ==
  ~ /\ mgr \in Managers
    /\ pc[mgr] \in {"stop", "stop to start", "start", "enqueue"}
    /\ tick = Ticker
    /\ pc[Ticker] = "callback"
    /\ used[at[Ticker]]
    /\ at[Ticker] \in Deleting

(* A call into the timers returns.                                         *)
CallsReturn == \A m \in Managers : pc[m] # "idle" ~> pc[m] = "idle"

(* A tick that has begun ends.                                             *)
TickReturns == pc[Ticker] # "idle" ~> pc[Ticker] = "idle"
=============================================================================
