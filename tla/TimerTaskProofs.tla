-------------------------- MODULE TimerTaskProofs ---------------------------
(***************************************************************************)
(* Proofs about the timers, for every wheel size, granularity, delays,     *)
(* rates and set of timers: that a timer expires when the wheel has turned *)
(* for its delay and timer_active counts the linked timers (TimerWheel);   *)
(* that the conversion of sleeping time to ticks is exact (TickSource);    *)
(* and from both that the timer task neither runs a call-back early nor    *)
(* sleeps past a deadline (TimerTask).                                     *)
(***************************************************************************)
EXTENDS TimerTask, FiniteSetTheorems, TLAPS

-----------------------------------------------------------------------------
(* Arithmetic of the wheel.                                                *)

LEMMA Division ==
  ASSUME NEW n \in Nat
  PROVE  /\ n % W \in 0..(W - 1)
         /\ n \div W \in Nat
         /\ (n \div W) * W \in Nat
         /\ n % W = n - (n \div W) * W
<1> USE WheelAssumption
<1>1. n % W \in 0..(W - 1)
  OBVIOUS
<1>2. n \div W \in Nat
  OBVIOUS
<1>3. n % W = n - W * (n \div W)
  OBVIOUS
<1>4. W * (n \div W) = (n \div W) * W /\ (n \div W) * W \in Nat
  BY <1>2
<1> QED
  BY <1>1, <1>2, <1>3, <1>4

(* Adding to a spoke number goes around the wheel at most once.            *)
LEMMA AddSpokes ==
  ASSUME NEW i \in Spokes, NEW j \in Spokes
  PROVE  (i + j) % W = IF i + j < W THEN i + j ELSE i + j - W
BY WheelAssumption DEF Spokes

(* Every delay takes at least one tick.                                    *)
LEMMA TicksPositive ==
  ASSUME NEW d \in Nat
  PROVE  Ticks(d) \in Nat \ {0}
BY WheelAssumption DEF Ticks

(* A delay that is a whole number of revolutions needs at least one.       *)
LEMMA WholeTurnsRotate ==
  ASSUME NEW d \in Nat, WholeTurns(d)
  PROVE  Rotations(d) # 0
<1>1. Ticks(d) \in Nat \ {0}
  BY TicksPositive
<1>2. Ticks(d) % W = Ticks(d) - Rotations(d) * W
  BY <1>1, Division DEF Rotations
<1> QED
  BY <1>1, <1>2, WheelAssumption DEF WholeTurns

(* Where tmr_enqueue_unlocked puts a timer when the cursor is at spoke i:  *)
(* on the cursor's own spoke for whole revolutions, else on the spoke the  *)
(* cursor reaches after the ticks that are left of them.                   *)
LEMMA SpokeForDelay ==
  ASSUME NEW i \in Spokes, NEW d \in Nat
  PROVE  /\ SpokeFor(i, d) \in Spokes
         /\ Rotations(d) \in Nat
         /\ WholeTurns(d) =>
              SpokeFor(i, d) = i /\ Rotations(d) * W = Ticks(d)
         /\ ~WholeTurns(d) =>
              /\ SpokeFor(i, d) # i
              /\ Rotations(d) * W +
                   (IF SpokeFor(i, d) > i THEN SpokeFor(i, d) - i
                                          ELSE SpokeFor(i, d) + W - i)
                 = Ticks(d)
<1> DEFINE td == Ticks(d) % W
           rw == Rotations(d) * W
<1>1. Ticks(d) \in Nat
  BY TicksPositive
<1>2. td \in Spokes /\ Rotations(d) \in Nat /\ rw \in Nat /\ td = Ticks(d) - rw
  BY <1>1, Division DEF Spokes, Rotations
<1>3. SpokeFor(i, d) = IF i + td < W THEN i + td ELSE i + td - W
  BY <1>2, AddSpokes DEF SpokeFor
<1>4. WholeTurns(d) <=> td = 0
  BY DEF WholeTurns
<1> HIDE DEF td, rw
<1>5. rw = Rotations(d) * W
  BY DEF rw
<1> QED
  BY <1>1, <1>2, <1>3, <1>4, <1>5, WheelAssumption DEF Spokes

(* The ticks a timer will take from the moment it is enqueued, seen on a   *)
(* wheel whose cursor is at i: exactly its delay, or a revolution more.    *)
LEMMA DueWhenEnqueued ==
  ASSUME NEW i \in Spokes, NEW d \in Nat
  PROVE  Rotations(d) * W +
           (IF SpokeFor(i, d) > i THEN SpokeFor(i, d) - i
                                  ELSE SpokeFor(i, d) + W - i)
         \in {Ticks(d)} \cup (IF WholeTurns(d) THEN {Ticks(d) + W} ELSE {})
<1>1. CASE WholeTurns(d)
  <2>1. SpokeFor(i, d) = i /\ Rotations(d) * W = Ticks(d)
    BY <1>1, SpokeForDelay
  <2> QED
    BY <1>1, <2>1, TicksPositive, WheelAssumption DEF Spokes
<1>2. CASE ~WholeTurns(d)
  BY <1>2, SpokeForDelay
<1> QED
  BY <1>1, <1>2

-----------------------------------------------------------------------------
(* The linked timers and their count.                                      *)

LEMMA LinkedFinite == IsFiniteSet(Linked) /\ Cardinality(Linked) \in Nat
<1>1. Linked \subseteq Timers
  BY DEF Linked
<1> QED
  BY <1>1, TimersAssumption, FS_Subset, FS_CardinalityType

LEMMA CountLink ==
  ASSUME ActiveCountsLinked, NEW t, t \notin Linked, Linked' = Linked \cup {t}
  PROVE  Cardinality(Linked)' = active + 1
BY LinkedFinite, FS_AddElement DEF ActiveCountsLinked

LEMMA CountUnlink ==
  ASSUME ActiveCountsLinked, NEW t, t \in Linked, Linked' = Linked \ {t}
  PROVE  active > 0 /\ Cardinality(Linked)' = active - 1
<1>1. Cardinality(Linked \ {t}) = Cardinality(Linked) - 1
  BY LinkedFinite, FS_RemoveElement
<1>2. Cardinality(Linked) # 0
  BY LinkedFinite, FS_EmptySet
<1> QED
  BY <1>1, <1>2, LinkedFinite DEF ActiveCountsLinked

-----------------------------------------------------------------------------
(* One timer of a step: enqueued, or left as it is.                        *)

(* Enqueueing changes one timer, which is then linked.                     *)
LEMMA EnqueueLinks ==
  ASSUME TypeOK, NEW t \in Timers, NEW d \in Nat, Enqueue(t, d)
  PROVE  /\ home' \in [Timers -> 0..W]
         /\ rot' \in [Timers -> Nat]
         /\ armed' \in [Timers -> Nat]
         /\ age' \in [Timers -> Nat]
         /\ home'[t] = SpokeFor(idx, d) /\ home'[t] \in Spokes
         /\ rot'[t] = Rotations(d)
         /\ armed'[t] = d
         /\ age'[t] = 0
         /\ Linked' = Linked \cup {t}
<1>1. SpokeFor(idx, d) \in Spokes /\ Rotations(d) \in Nat
  BY SpokeForDelay DEF TypeOK
<1>2. Spokes \subseteq 0..W /\ Unlinked \notin Spokes
  BY WheelAssumption DEF Spokes, Unlinked
<1>3. home' = [home EXCEPT ![t] = SpokeFor(idx, d)] /\ home'[t] = SpokeFor(idx, d)
  BY DEF TypeOK, Enqueue
<1>4. Linked' = Linked \cup {t}
  BY <1>1, <1>2, <1>3 DEF Linked, TypeOK
<1> QED
  BY <1>1, <1>2, <1>3, <1>4 DEF TypeOK, Enqueue

(* A timer enqueued now is due for its delay, when the walk of its spoke   *)
(* will not come to it, or comes to it for whole revolutions.              *)
LEMMA EnqueueDue ==
  ASSUME TypeOK, NEW t \in Timers, NEW d \in Nat, Enqueue(t, d), idx' = idx,
         t \in todo' => home'[t] = idx
  PROVE  (age[t] + Remaining(t) \in Due(t))'
<1>1. /\ home'[t] = SpokeFor(idx, d) /\ home'[t] \in Spokes
      /\ rot'[t] = Rotations(d) /\ armed'[t] = d /\ age'[t] = 0
  BY EnqueueLinks
<1>2. idx \in Spokes
  BY DEF TypeOK
<1>3. CASE t \in todo'
  <2>1. WholeTurns(d) /\ Rotations(d) * W = Ticks(d)
    BY <1>1, <1>2, <1>3, SpokeForDelay
  <2>2. Remaining(t)' = Rotations(d) * W + 0
    BY <1>1, <1>3 DEF Remaining, Distance
  <2>3. Ticks(d) \in Nat
    BY TicksPositive
  <2> QED
    BY <1>1, <2>1, <2>2, <2>3 DEF Due
<1>4. CASE t \notin todo'
  <2> DEFINE dist == IF SpokeFor(idx, d) > idx THEN SpokeFor(idx, d) - idx
                                               ELSE SpokeFor(idx, d) + W - idx
  <2>1. Remaining(t)' = Rotations(d) * W + dist
    BY <1>1, <1>4 DEF Remaining, Distance
  <2>2. Rotations(d) * W + dist \in Due(t)'
    BY <1>1, <1>2, DueWhenEnqueued DEF Due
  <2>3. Due(t)' \subseteq Nat
    BY <1>1, TicksPositive, WheelAssumption DEF Due
  <2> QED
    BY <1>1, <2>1, <2>2, <2>3
<1> QED
  BY <1>3, <1>4

(* The deadline of a timer a step leaves alone.                            *)
LEMMA UntouchedDue ==
  ASSUME DeadlineInv, NEW t \in Linked, idx' = idx, home'[t] = home[t],
         rot'[t] = rot[t], age'[t] = age[t], armed'[t] = armed[t],
         t \in todo' <=> t \in todo
  PROVE  (age[t] + Remaining(t) \in Due(t))'
<1>1. Remaining(t)' = Remaining(t) /\ Due(t)' = Due(t)
  BY DEF Remaining, Distance, Due
<1>2. age[t] + Remaining(t) \in Due(t)
  BY DEF DeadlineInv
<1> QED
  BY <1>1, <1>2

-----------------------------------------------------------------------------
(* The inductive invariant, action by action.                              *)

LEMMA InitIInv == Init => IInv
<1> SUFFICES ASSUME Init
             PROVE  IInv
  OBVIOUS
<1>1. home \in [Timers -> 0..W] /\ idx \in Spokes
  BY WheelAssumption DEF Init, Unlinked, Spokes
<1>2. TypeOK
  BY <1>1 DEF Init, TypeOK
<1>3. Linked = {}
  BY DEF Init, Linked
<1> QED
  BY <1>2, <1>3, FS_EmptySet
  DEF Init, IInv, WalkInv, ActiveCountsLinked, DeadlineInv

LEMMA CreateIInv == IInv /\ Create => IInv'
<1> SUFFICES ASSUME IInv, Create
             PROVE  IInv'
  OBVIOUS
<1>1. Linked = {} /\ Linked' = {}
  BY DEF IInv, WalkInv, Create, Linked
<1>2. TypeOK'
  BY WheelAssumption DEF IInv, TypeOK, Create, Spokes
<1>3. todo = {} /\ todo' = {} /\ ~ticking'
  BY DEF IInv, WalkInv, Create
<1> QED
  BY <1>1, <1>2, <1>3, FS_EmptySet
  DEF IInv, WalkInv, ActiveCountsLinked, DeadlineInv, Create

LEMMA DestroyIInv == IInv /\ Destroy => IInv'
<1> SUFFICES ASSUME IInv, Destroy
             PROVE  IInv'
  OBVIOUS
<1>1. Linked' = {}
  BY DEF Destroy, Linked
<1>2. active' = 0
  BY LinkedFinite DEF IInv, ActiveCountsLinked, Destroy
<1>3. home' \in [Timers -> 0..W]
  BY WheelAssumption DEF Destroy, Unlinked
<1>4. TypeOK'
  <2>1. made' \in BOOLEAN
    BY Zenon DEF Destroy
  <2>2. active' \in Nat
    BY <1>2
  <2> QED
    BY <1>3, <2>1, <2>2 DEF IInv, TypeOK, Destroy
<1>5. todo' = {} /\ ~ticking'
  BY DEF IInv, WalkInv, Destroy
<1>6. hiwater' \in Nat
  BY <1>4 DEF TypeOK
<1> QED
  BY <1>1, <1>2, <1>4, <1>5, <1>6, FS_EmptySet
  DEF IInv, WalkInv, ActiveCountsLinked, DeadlineInv

LEMMA StartIInv ==
  ASSUME IInv, NEW t \in Timers, NEW d \in Delays, NEW p \in Periods, Start(t, d, p)
  PROVE  IInv'
<1> USE DEF IInv
<1>0. d \in Nat /\ p \in Nat /\ Enqueue(t, d)
  BY DelayAssumption DEF Start
<1>1. Linked' = Linked \cup {t}
  BY <1>0, EnqueueLinks
<1>2. Cardinality(Linked)' = active' /\ active' \in Nat
  <2>1. CASE t \in Linked
    BY <1>1, <2>1, LinkedFinite DEF Start, ActiveCountsLinked
  <2>2. CASE t \notin Linked
    BY <1>1, <2>2, CountLink DEF Start, TypeOK
  <2> QED
    BY <2>1, <2>2
<1>3. ActiveCountsLinked'
  BY <1>2 DEF ActiveCountsLinked, TypeOK, Start
<1>4. TypeOK'
  <2>1. period' \in [Timers -> Nat]
    BY <1>0 DEF TypeOK, Start
  <2>2. hiwater' \in Nat
    BY <1>2 DEF TypeOK, Start
  <2> QED
    BY <1>0, <1>2, <2>1, <2>2, EnqueueLinks DEF TypeOK, Start
<1>5. todo = {} /\ todo' = {} /\ idx' = idx
  BY DEF Start, WalkInv
<1>6. WalkInv'
  BY <1>5 DEF WalkInv, Start
<1>7. DeadlineInv'
  <2> SUFFICES ASSUME NEW u \in Linked'
               PROVE  (age[u] + Remaining(u) \in Due(u))'
    BY DEF DeadlineInv
  <2>1. CASE u = t
    BY <1>0, <1>5, <2>1, EnqueueDue
  <2>2. CASE u # t
    <3>1. u \in Linked
      BY <1>1, <2>2
    <3>2. /\ home'[u] = home[u] /\ rot'[u] = rot[u]
          /\ age'[u] = age[u] /\ armed'[u] = armed[u]
      BY <1>0, <2>2 DEF Enqueue, TypeOK
    <3> QED
      BY <1>5, <3>1, <3>2, UntouchedDue
  <2> QED
    BY <2>1, <2>2
<1> QED
  BY <1>3, <1>4, <1>6, <1>7

(* What stopping and expiring have in common.                              *)
LEMMA UnlinkIInv ==
  ASSUME IInv, NEW t \in Linked,
         made,
         home' = [home EXCEPT ![t] = Unlinked],
         active' = active - 1,
         todo' = todo \ {t},
         UNCHANGED <<made, idx, rot, period, hiwater, ticking, armed, age>>
  PROVE  IInv'
<1> USE DEF IInv
<1>0. t \in Timers
  BY DEF Linked
<1>1. Linked' = Linked \ {t}
  BY <1>0 DEF Linked, TypeOK
<1>2. active > 0 /\ Cardinality(Linked)' = active - 1
  BY <1>1, CountUnlink
<1>3. ActiveCountsLinked'
  BY <1>2 DEF ActiveCountsLinked, TypeOK
<1>4. TypeOK'
  <2>1. home' \in [Timers -> 0..W]
    <3>1. Unlinked \in 0..W
      BY WheelAssumption DEF Unlinked
    <3> QED
      BY <3>1 DEF TypeOK
  <2>2. active' \in Nat
    BY <1>2 DEF TypeOK
  <2> QED
    BY <2>1, <2>2 DEF TypeOK
<1>5. WalkInv'
  BY DEF WalkInv, TypeOK
<1>6. DeadlineInv'
  <2> SUFFICES ASSUME NEW u \in Linked'
               PROVE  (age[u] + Remaining(u) \in Due(u))'
    BY DEF DeadlineInv
  <2>1. u \in Linked /\ u # t /\ home'[u] = home[u]
    BY <1>1 DEF Linked, TypeOK
  <2> QED
    BY <2>1, UntouchedDue
<1> QED
  BY <1>3, <1>4, <1>5, <1>6

LEMMA StopIInv ==
  ASSUME IInv, NEW t \in Timers, Stop(t)
  PROVE  IInv'
<1>1. todo' = todo \ {t}
  BY DEF IInv, WalkInv, Stop
<1> QED
  BY <1>1, UnlinkIInv DEF Stop

(* Every timer still to be visited is linked, and the tick goes on.        *)
LEMMA TodoLinked ==
  ASSUME IInv, NEW t \in todo
  PROVE  t \in Linked /\ t \in Timers /\ ticking /\ made
BY WheelAssumption DEF IInv, WalkInv, TypeOK, Linked, Unlinked, Spokes

LEMMA VisitExpireIInv ==
  ASSUME IInv, NEW t \in Timers, VisitExpire(t)
  PROVE  IInv'
<1>1. t \in Linked /\ made
  BY TodoLinked DEF VisitExpire, Expiring
<1> QED
  BY <1>1, UnlinkIInv DEF VisitExpire

(* A revolution less before the timer, and the whole wheel to turn.        *)
LEMMA OneTurnLess ==
  ASSUME NEW n \in Nat \ {0}
  PROVE  (n - 1) * W + W = n * W
BY WheelAssumption

LEMMA VisitSkipIInv ==
  ASSUME IInv, NEW t \in Timers, VisitSkip(t)
  PROVE  IInv'
<1> USE DEF IInv
<1>1. Linked' = Linked
  BY DEF VisitSkip, Linked
<1>2. ActiveCountsLinked'
  BY <1>1 DEF ActiveCountsLinked, VisitSkip
<1>3. TypeOK'
  BY DEF TypeOK, VisitSkip
<1>4. WalkInv'
  BY <1>1 DEF WalkInv, VisitSkip
<1>5. DeadlineInv'
  <2> SUFFICES ASSUME NEW u \in Linked
               PROVE  (age[u] + Remaining(u) \in Due(u))'
    BY <1>1 DEF DeadlineInv
  <2>0. u \in Timers
    BY DEF Linked
  <2>1. CASE u = t
    <3>1. home[t] = idx /\ home'[t] = idx /\ idx' = idx /\ idx \in Spokes
      BY DEF VisitSkip, WalkInv, TypeOK
    <3>2. rot[t] \in Nat \ {0} /\ rot'[t] = rot[t] - 1
      BY DEF VisitSkip, TypeOK
    <3>3. Distance(t) = 0 /\ Distance(t)' = W
      BY <3>1, WheelAssumption DEF VisitSkip, Distance, Spokes
    <3>4. Remaining(t)' = Remaining(t)
      <4>1. Remaining(t)' = (rot[t] - 1) * W + W
        BY <3>2, <3>3 DEF Remaining
      <4>2. Remaining(t) = rot[t] * W + 0 /\ rot[t] * W \in Nat
        BY <3>2, <3>3, WheelAssumption DEF Remaining
      <4> QED
        BY <3>2, <4>1, <4>2, OneTurnLess
    <3>5. age'[t] = age[t] /\ Due(t)' = Due(t)
      BY DEF VisitSkip, Due
    <3> QED
      BY <2>1, <3>4, <3>5 DEF DeadlineInv
  <2>2. CASE u # t
    <3>1. rot'[u] = rot[u]
      BY <2>0, <2>2 DEF VisitSkip, TypeOK
    <3> QED
      BY <2>2, <3>1, UntouchedDue DEF VisitSkip
  <2> QED
    BY <2>1, <2>2
<1> QED
  BY <1>2, <1>3, <1>4, <1>5

LEMMA VisitRearmIInv ==
  ASSUME IInv, NEW t \in Timers, VisitRearm(t)
  PROVE  IInv'
<1> USE DEF IInv
<1> DEFINE d == period[t]
<1>0. d \in Nat /\ Enqueue(t, d) /\ t \in Linked /\ idx' = idx
  BY TodoLinked DEF VisitRearm, Expiring, TypeOK
<1>1. Linked' = Linked
  BY <1>0, EnqueueLinks
<1>2. ActiveCountsLinked'
  BY <1>1 DEF ActiveCountsLinked, VisitRearm
<1>3. todo' = todo \ {t} \/ (todo' = todo /\ home'[t] = idx)
  BY DEF VisitRearm
<1>4. TypeOK'
  <2>1. todo' \subseteq Timers
    BY <1>3 DEF TypeOK
  <2> QED
    BY <1>0, <2>1, EnqueueLinks DEF TypeOK, VisitRearm
<1>5. \A u \in Timers : u # t => /\ home'[u] = home[u] /\ rot'[u] = rot[u]
                                 /\ age'[u] = age[u] /\ armed'[u] = armed[u]
  BY <1>0 DEF Enqueue, TypeOK
<1>6. WalkInv'
  <2>1. \A u \in todo' : home'[u] = idx'
    BY <1>0, <1>3, <1>5 DEF WalkInv, TypeOK
  <2> QED
    BY <1>1, <2>1, TodoLinked DEF WalkInv, VisitRearm, Expiring
<1>7. DeadlineInv'
  <2> SUFFICES ASSUME NEW u \in Linked
               PROVE  (age[u] + Remaining(u) \in Due(u))'
    BY <1>1 DEF DeadlineInv
  <2>1. CASE u = t
    <3>1. t \in todo' => home'[t] = idx
      BY <1>3
    <3> QED
      BY <1>0, <2>1, <3>1, EnqueueDue
  <2>2. CASE u # t
    <3>1. u \in Timers /\ (u \in todo' <=> u \in todo)
      BY <1>3, <2>2 DEF Linked
    <3> QED
      BY <1>0, <1>5, <2>2, <3>1, UntouchedDue
  <2> QED
    BY <2>1, <2>2
<1> QED
  BY <1>2, <1>4, <1>6, <1>7

(* One spoke further, every linked timer is one tick nearer: those of the  *)
(* new spoke are there.                                                    *)
LEMMA NextSpoke ==
  ASSUME NEW i \in Spokes
  PROVE  /\ (i + 1) % W \in Spokes
         /\ (i + 1) % W = IF i = W - 1 THEN 0 ELSE i + 1
BY WheelAssumption DEF Spokes

LEMMA TickBeginIInv == IInv /\ TickBegin => IInv'
<1> SUFFICES ASSUME IInv, TickBegin
             PROVE  IInv'
  OBVIOUS
<1> USE DEF IInv
<1>1. Linked' = Linked
  BY DEF TickBegin, Linked
<1>2. ActiveCountsLinked'
  BY <1>1 DEF ActiveCountsLinked, TickBegin
<1>3. idx \in Spokes /\ idx' \in Spokes /\ idx' = IF idx = W - 1 THEN 0 ELSE idx + 1
  BY NextSpoke DEF TypeOK, TickBegin
<1>4. age' \in [Timers -> Nat] /\ \A u \in Linked : age'[u] = age[u] + 1
  BY DEF TickBegin, TypeOK, Linked
<1>5. TypeOK'
  BY <1>3, <1>4 DEF TypeOK, TickBegin, Linked
<1>6. WalkInv'
  BY <1>1 DEF WalkInv, TickBegin
<1>7. DeadlineInv'
  <2> SUFFICES ASSUME NEW u \in Linked
               PROVE  (age[u] + Remaining(u) \in Due(u))'
    BY <1>1 DEF DeadlineInv
  <2>1. u \in Timers /\ home[u] \in 0..(W - 1) /\ home'[u] = home[u]
    BY WheelAssumption DEF Linked, Unlinked, TypeOK, TickBegin
  <2>2. u \notin todo
    BY DEF WalkInv, TickBegin
  <2>3. u \in todo' <=> home[u] = idx'
    BY DEF TickBegin
  <2>4. Distance(u)' = Distance(u) - 1 /\ Distance(u) \in Nat
    BY <1>3, <2>1, <2>2, <2>3, WheelAssumption DEF Distance, Spokes
  <2>5. rot[u] * W \in Nat /\ rot'[u] = rot[u]
    BY <2>1, WheelAssumption DEF TypeOK, TickBegin
  <2>6. age[u] \in Nat /\ age'[u] = age[u] + 1
    BY <1>4, <2>1 DEF TypeOK
  <2>7. Remaining(u)' = rot[u] * W + Distance(u)' /\ Remaining(u) = rot[u] * W + Distance(u)
    BY <2>5 DEF Remaining
  <2>8. age'[u] + Remaining(u)' = age[u] + Remaining(u)
    BY <2>4, <2>5, <2>6, <2>7
  <2>9. Due(u)' = Due(u)
    BY DEF Due, TickBegin
  <2> QED
    BY <2>8, <2>9 DEF DeadlineInv
<1> QED
  BY <1>2, <1>5, <1>6, <1>7

LEMMA TickEndIInv == IInv /\ TickEnd => IInv'
<1> SUFFICES ASSUME IInv, TickEnd
             PROVE  IInv'
  OBVIOUS
<1> USE DEF IInv
<1>1. Linked' = Linked
  BY DEF TickEnd, Linked
<1>2. TypeOK' /\ WalkInv' /\ ActiveCountsLinked'
  BY <1>1 DEF TickEnd, TypeOK, WalkInv, ActiveCountsLinked
<1>3. DeadlineInv'
  BY <1>1, UntouchedDue DEF TickEnd, DeadlineInv
<1> QED
  BY <1>2, <1>3

LEMMA NextIInv == IInv /\ [Next]_vars => IInv'
<1> SUFFICES ASSUME IInv, [Next]_vars
             PROVE  IInv'
  OBVIOUS
<1>1. CASE Calls
  BY <1>1, CreateIInv, DestroyIInv, StopIInv, StartIInv DEF Calls
<1>2. CASE Tick
  BY <1>2, TickBeginIInv, TickEndIInv, VisitSkipIInv, VisitExpireIInv, VisitRearmIInv
  DEF Tick, Visit
<1>3. CASE UNCHANGED vars
  <2>1. Linked' = Linked
    BY <1>3 DEF vars, Linked
  <2>2. TypeOK' /\ WalkInv' /\ ActiveCountsLinked'
    BY <1>3, <2>1 DEF vars, IInv, TypeOK, WalkInv, ActiveCountsLinked
  <2>3. DeadlineInv'
    BY <1>3, <2>1, UntouchedDue DEF vars, IInv, DeadlineInv
  <2> QED
    BY <2>2, <2>3 DEF IInv
<1> QED
  BY <1>1, <1>2, <1>3 DEF Next

-----------------------------------------------------------------------------
(* The state of the wheel stays consistent: what is behind a linked timer  *)
(* and what is before it make the delay it was enqueued with.              *)
THEOREM WheelInvariant == Spec => []IInv
BY InitIInv, NextIInv, PTL DEF Spec

(* A timer expires when the wheel has turned for its delay: tmr_enqueue's  *)
(* rotation count and spoke are right for every wheel and every delay, but *)
(* for the revolution too many of a delay of whole revolutions.            *)
THEOREM ExpiryOnTime == Spec => []ExpiresOnTime
<1>1. IInv => ExpiresOnTime
  <2> SUFFICES ASSUME IInv, NEW t \in Timers, Expiring(t)
               PROVE  age[t] \in Due(t)
    BY DEF ExpiresOnTime
  <2>1. t \in Linked
    BY TodoLinked DEF Expiring
  <2>2. Remaining(t) = 0
    BY WheelAssumption DEF Remaining, Distance, Expiring
  <2>3. age[t] \in Nat
    BY DEF IInv, TypeOK
  <2> QED
    BY <2>1, <2>2, <2>3 DEF IInv, DeadlineInv
<1> QED
  BY <1>1, WheelInvariant, PTL

(* timer_active is the number of linked timers, under its high-water mark. *)
THEOREM ActiveIsExact == Spec => []ActiveCountsLinked
<1>1. IInv => ActiveCountsLinked
  BY DEF IInv
<1> QED
  BY <1>1, WheelInvariant, PTL

-----------------------------------------------------------------------------
(* The conversion.                                                         *)

LEMMA TenthsNat ==
  ASSUME NEW e \in Nat
  PROVE  Tenths(e) \in Nat
<1> DEFINE x == e * Stups * 10
<1>1. x \in Nat
  BY RatesAssumption
<1> HIDE DEF x
<1>2. x \div ClkTck \in Nat
  BY <1>1, RatesAssumption
<1> QED
  BY <1>2 DEF Tenths, x

LEMMA WakeStep ==
  ASSUME ClockTypeOK, NoTickLost, NEW e \in Elapsed, Wake(e)
  PROVE  ClockTypeOK' /\ NoTickLost'
<1> DEFINE x == Tenths(e)
           r == rem + (x % 10)
<1>1. x \in Nat
  BY TenthsNat, RatesAssumption
<1>2. /\ sleeping /\ sleeping' = FALSE /\ due' = due + x
      /\ IF r \div 10 >= 1
         THEN ticks' = x \div 10 + 1 /\ rem' = r - 10
         ELSE ticks' = x \div 10 /\ rem' = r
  BY DEF Wake
<1>3. rem \in 0..9 /\ due = rem
  <2>1. rem \in 0..9
    BY DEF ClockTypeOK
  <2>2. ticks = 0
    BY <1>2 DEF ClockTypeOK
  <2>3. due = 10 * ticks + rem
    BY DEF NoTickLost
  <2> QED
    BY <2>1, <2>2, <2>3
<1> HIDE DEF x
<1>4. x % 10 \in 0..9 /\ x \div 10 \in Nat /\ x = 10 * (x \div 10) + (x % 10)
  BY <1>1
<1>5. /\ ticks' \in Nat /\ rem' \in 0..9 /\ due' \in Nat
      /\ due' = 10 * ticks' + rem'
  <2>1. r \in 0..18 /\ r = rem + (x % 10)
    BY <1>3, <1>4
  <2> HIDE DEF r
  <2>2. CASE r \div 10 >= 1
    <3>1. r >= 10
      BY <2>1, <2>2
    <3> QED
      BY <1>1, <1>2, <1>3, <1>4, <2>1, <2>2, <3>1
  <2>3. CASE ~(r \div 10 >= 1)
    <3>1. r < 10
      BY <2>1, <2>3
    <3> QED
      BY <1>1, <1>2, <1>3, <1>4, <2>1, <2>3, <3>1
  <2> QED
    BY <2>2, <2>3
<1> QED
  BY <1>2, <1>5 DEF ClockTypeOK, NoTickLost

LEMMA StepInv == ClockTypeOK /\ NoTickLost /\ [ClockNext]_clockVars => ClockTypeOK' /\ NoTickLost'
<1> SUFFICES ASSUME ClockTypeOK, NoTickLost, [ClockNext]_clockVars
             PROVE  ClockTypeOK' /\ NoTickLost'
  OBVIOUS
<1>1. ASSUME NEW e \in Elapsed, Wake(e)
      PROVE  ClockTypeOK' /\ NoTickLost'
  BY <1>1, WakeStep
<1>2. CASE WakeRolledOver
  <2>1. sleeping /\ sleeping' = FALSE /\ due' = due + 10 /\ ticks' = 1 /\ rem' = rem
    BY <1>2 DEF WakeRolledOver
  <2>2. rem \in 0..9 /\ due \in Nat /\ ticks = 0
    BY <2>1 DEF ClockTypeOK
  <2>3. due = rem
    BY <2>2 DEF NoTickLost
  <2>4. rem' \in 0..9 /\ due' \in Nat /\ ticks' \in Nat /\ due' = 10 * ticks' + rem'
    BY <2>1, <2>2, <2>3
  <2> QED
    BY <2>1, <2>4 DEF ClockTypeOK, NoTickLost
<1>3. CASE RunTick
  BY <1>3 DEF RunTick, ClockTypeOK, NoTickLost
<1>4. CASE Sleep
  BY <1>4 DEF Sleep, ClockTypeOK, NoTickLost
<1>5. CASE UNCHANGED clockVars
  BY <1>5 DEF clockVars, ClockTypeOK, NoTickLost
<1> QED
  BY <1>1, <1>2, <1>3, <1>4, <1>5 DEF ClockNext

(* The wheel is never a tick behind the sleeps of its driver.              *)
THEOREM ConversionExact == ClockSpec => []NoTickLost
<1>1. ClockInit => ClockTypeOK /\ NoTickLost
  BY DEF ClockInit, ClockTypeOK, NoTickLost
<1> QED
  BY <1>1, StepInv, PTL DEF ClockSpec

-----------------------------------------------------------------------------
(* The task.                                                               *)

(* A step of the task is a step of the wheel and a step of the loop.       *)
LEMMA TaskStepParts == [TaskNext]_taskVars => [Next]_vars /\ [ClockNext]_clockVars
<1> SUFFICES ASSUME [TaskNext]_taskVars
             PROVE  [Next]_vars /\ [ClockNext]_clockVars
  OBVIOUS
<1>1. ASSUME NEW e \in Elapsed, SleepFor(e)
      PROVE  [Next]_vars /\ [ClockNext]_clockVars
  BY <1>1 DEF SleepFor, ClockNext
<1>2. CASE SleepOver
  BY <1>2 DEF SleepOver, ClockNext
<1>3. CASE SleepAgain
  BY <1>3 DEF SleepAgain, ClockNext
<1>4. CASE EnterTick
  BY <1>4 DEF EnterTick, Next, Tick
<1>5. CASE LeaveTick
  BY <1>5 DEF LeaveTick, Next, Tick, ClockNext
<1>6. CASE TickNothing
  BY <1>6 DEF TickNothing, ClockNext
<1>7. ASSUME NEW t \in Timers, Pass(t) \/ PassRearm(t)
      PROVE  [Next]_vars /\ [ClockNext]_clockVars
  BY <1>7 DEF Pass, PassRearm, Next, Tick, Visit
<1>8. CASE OtherCall
  BY <1>8 DEF OtherCall, Next, Calls
<1>9. ASSUME NEW t \in Timers, NEW d \in Delays, NEW p \in Periods, StartTimer(t, d, p)
      PROVE  [Next]_vars /\ [ClockNext]_clockVars
  BY <1>9 DEF StartTimer, Next, Calls
<1>10. CASE UNCHANGED taskVars
  BY <1>10 DEF taskVars
<1> QED
  BY <1>1, <1>2, <1>3, <1>4, <1>5, <1>6, <1>7, <1>8, <1>9, <1>10 DEF TaskNext, Loop

(* The part of TaskInv about the loop alone and the types of the credit.   *)
CreditTyped == credit \in [Timers -> Nat] /\ CreditInv /\ LoopInv

LEMMA SleptStep ==
  ASSUME TaskInv, NEW x \in Nat, Slept(x), sleeping, due' = due + x, UNCHANGED vars
  PROVE  CreditTyped'
<1>1. ~ticking /\ ~ticking'
  BY DEF TaskInv, LoopInv, vars
<1>2. Linked' = Linked /\ age' = age
  BY DEF vars, Linked
<1>3. credit' \in [Timers -> Nat]
  BY DEF TaskInv, Slept
<1>4. ASSUME NEW t \in Linked
      PROVE  credit'[t] = due' + 10 * age'[t]
  <2>1. t \in Timers /\ age[t] \in Nat /\ due \in Nat
    BY DEF Linked, TaskInv, IInv, TypeOK, ClockTypeOK
  <2>2. credit'[t] = credit[t] + x
    BY <2>1 DEF Slept
  <2>3. credit[t] = due + 10 * age[t]
    BY <1>1, <2>1 DEF TaskInv, CreditInv
  <2> QED
    BY <1>2, <2>1, <2>2, <2>3
<1>5. CreditInv'
  BY <1>1, <1>2, <1>4, SMT DEF CreditInv, TaskInv, IInv, TypeOK, ClockTypeOK, Linked
<1> QED
  BY <1>1, <1>3, <1>5 DEF CreditTyped, LoopInv

(* Steps that change neither what is due nor a tick nor a linked timer's   *)
(* age and credit, though they may unlink one.                             *)
LEMMA QuietStep ==
  ASSUME TaskInv, Linked' \subseteq Linked, ticking' = ticking,
         UNCHANGED <<credit, age, due, sleeping, ticks>>
  PROVE  CreditTyped'
BY DEF TaskInv, CreditTyped, CreditInv, LoopInv

(* A timer is enqueued, with what is due beside the tick under way.        *)
LEMMA GrantStep ==
  ASSUME TaskInv, NEW t \in Timers, NEW d \in Nat, Enqueue(t, d), ticking' = ticking,
         Granted(t, due - (IF ticking THEN 10 ELSE 0)), UNCHANGED clockVars
  PROVE  CreditTyped'
<1> DEFINE g == IF ticking THEN 10 ELSE 0
<1>1. due - g \in Nat
  BY DEF TaskInv, LoopInv, ClockTypeOK, NoTickLost
<1>2. g \in {0, 10} /\ g' = g
  OBVIOUS
<1> HIDE DEF g
<1>3. credit' = [credit EXCEPT ![t] = due - g] /\ credit \in [Timers -> Nat]
  BY DEF Granted, TaskInv, g
<1>4. Linked' = Linked \cup {t} /\ age'[t] = 0
  BY EnqueueLinks DEF TaskInv, IInv
<1>5. ASSUME NEW u \in Linked'
      PROVE  credit'[u] = due' + 10 * age'[u] - g'
  <2>1. due' = due /\ due \in Nat
    BY DEF clockVars, TaskInv, ClockTypeOK
  <2>2. CASE u = t
    BY <1>2, <1>3, <1>4, <2>1, <2>2
  <2>3. CASE u # t
    <3>1. u \in Linked /\ u \in Timers
      BY <1>4, <2>3 DEF Linked
    <3>2. age'[u] = age[u]
      BY <2>3, <3>1 DEF Enqueue, TaskInv, IInv, TypeOK
    <3>3. credit[u] = due + 10 * age[u] - g
      BY <3>1 DEF TaskInv, CreditInv, g
    <3> QED
      BY <1>2, <1>3, <2>1, <2>3, <3>1, <3>2, <3>3
  <2> QED
    BY <2>2, <2>3
<1>6. CreditInv'
  BY <1>5 DEF CreditInv, g
<1>7. credit' \in [Timers -> Nat]
  BY <1>1, <1>3
<1>8. LoopInv'
  BY DEF TaskInv, LoopInv, clockVars
<1> QED
  BY <1>6, <1>7, <1>8 DEF CreditTyped

(* A tick begins: every linked timer is a tick older, and the tick is      *)
(* still due.                                                              *)
LEMMA EnterStep == TaskInv /\ EnterTick => CreditTyped'
<1> SUFFICES ASSUME TaskInv, EnterTick
             PROVE  CreditTyped'
  OBVIOUS
<1>1. /\ ~ticking /\ ticking' = TRUE /\ ~sleeping' /\ ticks' # 0
      /\ credit' = credit /\ due' = due /\ due \in Nat
  BY DEF EnterTick, TickBegin, clockVars, TaskInv, ClockTypeOK
<1>2. Linked' = Linked
  BY DEF EnterTick, TickBegin, Linked
<1>3. ASSUME NEW t \in Linked
      PROVE  credit'[t] = due' + 10 * age'[t] - 10
  <2>1. t \in Timers /\ age[t] \in Nat
    BY DEF Linked, TaskInv, IInv, TypeOK
  <2>2. age'[t] = age[t] + 1
    BY <2>1 DEF EnterTick, TickBegin
  <2>3. credit[t] = due + 10 * age[t]
    BY <1>1, <2>1 DEF TaskInv, CreditInv
  <2> QED
    BY <1>1, <2>1, <2>2, <2>3
<1> QED
  BY <1>1, <1>2, <1>3 DEF CreditTyped, CreditInv, LoopInv, TaskInv

LEMMA LeaveStep == TaskInv /\ LeaveTick => CreditTyped'
<1> SUFFICES ASSUME TaskInv, LeaveTick
             PROVE  CreditTyped'
  OBVIOUS
<1>1. /\ ticking /\ ticking' = FALSE
      /\ credit' = credit /\ age' = age /\ due' = due - 10 /\ due \in Nat
  BY DEF LeaveTick, TickEnd, RunTick, TaskInv, ClockTypeOK
<1>2. Linked' = Linked
  BY DEF LeaveTick, TickEnd, Linked
<1>3. ASSUME NEW t \in Linked
      PROVE  credit'[t] = due' + 10 * age'[t]
  <2>1. t \in Timers /\ age[t] \in Nat
    BY DEF Linked, TaskInv, IInv, TypeOK
  <2>2. credit[t] = due + 10 * age[t] - 10
    BY <1>1, <2>1 DEF TaskInv, CreditInv
  <2> QED
    BY <1>1, <2>1, <2>2
<1>4. /\ due' \in Int /\ \A t \in Linked : age'[t] \in Nat
  BY <1>1 DEF Linked, TaskInv, IInv, TypeOK
<1>5. CreditInv'
  BY <1>1, <1>2, <1>3, <1>4 DEF CreditInv
<1> QED
  BY <1>1, <1>5 DEF CreditTyped, LoopInv, TaskInv

LEMMA CreditStep == TaskInv /\ [TaskNext]_taskVars => CreditTyped'
<1> SUFFICES ASSUME TaskInv, [TaskNext]_taskVars
             PROVE  CreditTyped'
  OBVIOUS
<1>1. ASSUME NEW e \in Elapsed, SleepFor(e)
      PROVE  CreditTyped'
  <2>1. Tenths(e) \in Nat
    BY TenthsNat, RatesAssumption
  <2>2. sleeping /\ due' = due + Tenths(e)
    BY <1>1 DEF SleepFor, Wake
  <2> QED
    BY <1>1, <2>1, <2>2, SleptStep DEF SleepFor
<1>2. CASE SleepOver
  <2>1. sleeping /\ due' = due + 10
    BY <1>2 DEF SleepOver, WakeRolledOver
  <2> QED
    BY <1>2, <2>1, SleptStep DEF SleepOver
<1>3. CASE SleepAgain
  <2>1. ~ticking
    BY <1>3 DEF SleepAgain, Sleep, TaskInv, LoopInv
  <2>2. Linked' = Linked /\ UNCHANGED <<ticking, credit, age, due>>
    BY <1>3 DEF SleepAgain, Sleep, vars, Linked
  <2> QED
    BY <2>1, <2>2 DEF TaskInv, CreditTyped, CreditInv, LoopInv
<1>4. CASE EnterTick
  BY <1>4, EnterStep
<1>5. CASE LeaveTick
  BY <1>5, LeaveStep
<1>6. CASE TickNothing
  <2>1. Linked = {} /\ ~ticking
    BY <1>6 DEF TickNothing, TaskInv, IInv, WalkInv
  <2>2. Linked' = Linked /\ UNCHANGED <<ticking, credit>>
    BY <1>6 DEF TickNothing, vars, Linked
  <2> QED
    BY <2>1, <2>2 DEF TaskInv, CreditTyped, CreditInv, LoopInv
<1>7. ASSUME NEW t \in Timers, Pass(t)
      PROVE  CreditTyped'
  <2>1. Linked' \subseteq Linked
    BY <1>7 DEF Pass, VisitSkip, VisitExpire, Linked, TaskInv, IInv, TypeOK
  <2>2. UNCHANGED <<ticking, credit, age, due, sleeping, ticks>>
    BY <1>7 DEF Pass, VisitSkip, VisitExpire, clockVars
  <2> QED
    BY <2>1, <2>2, QuietStep
<1>8. ASSUME NEW t \in Timers, PassRearm(t)
      PROVE  CreditTyped'
  <2>1. ticking /\ ticking' = ticking
    BY <1>8 DEF PassRearm, VisitRearm, Expiring, TaskInv, IInv, WalkInv
  <2>2. Enqueue(t, period[t]) /\ period[t] \in Nat
    BY <1>8 DEF PassRearm, VisitRearm, TaskInv, IInv, TypeOK
  <2> QED
    BY <1>8, <2>1, <2>2, GrantStep DEF PassRearm
<1>9. CASE OtherCall
  <2>1. Linked' \subseteq Linked
    BY <1>9 DEF OtherCall, Create, Destroy, Stop, Linked, TaskInv, IInv, TypeOK
  <2>2. UNCHANGED <<ticking, credit, age, due, sleeping, ticks>>
    BY <1>9 DEF OtherCall, Create, Destroy, Stop, clockVars
  <2> QED
    BY <2>1, <2>2, QuietStep
<1>10. ASSUME NEW t \in Timers, NEW d \in Delays, NEW p \in Periods, StartTimer(t, d, p)
       PROVE  CreditTyped'
  <2>1. ~ticking /\ ticking' = ticking /\ Enqueue(t, d) /\ d \in Nat
    BY <1>10, DelayAssumption DEF StartTimer, Start
  <2>2. due - 0 = due
    BY DEF TaskInv, ClockTypeOK
  <2> QED
    BY <1>10, <2>1, <2>2, GrantStep DEF StartTimer
<1>11. CASE UNCHANGED taskVars
  <2>1. Linked' = Linked /\ UNCHANGED <<ticking, credit, age, due, sleeping, ticks>>
    BY <1>11 DEF taskVars, vars, clockVars, Linked
  <2> QED
    BY <2>1, QuietStep
<1> QED
  BY <1>1, <1>2, <1>3, <1>4, <1>5, <1>6, <1>7, <1>8, <1>9, <1>10, <1>11
  DEF TaskNext, Loop

-----------------------------------------------------------------------------
(* The wheel and the loop that drives it stay consistent: every tick a     *)
(* timer has aged was slept for, or due when it was enqueued.              *)
THEOREM TaskInvariant == TaskSpec => []TaskInv
<1>1. TaskInit => TaskInv
  <2> SUFFICES ASSUME TaskInit
               PROVE  TaskInv
    OBVIOUS
  <2>1. IInv
    BY InitIInv DEF TaskInit
  <2>2. ClockTypeOK /\ NoTickLost
    BY DEF TaskInit, ClockInit, ClockTypeOK, NoTickLost
  <2>3. Linked = {} /\ ~ticking
    BY DEF TaskInit, Init, Linked
  <2> QED
    BY <2>1, <2>2, <2>3 DEF TaskInit, TaskInv, CreditInv, LoopInv
<1>2. TaskInv /\ [TaskNext]_taskVars => TaskInv'
  <2> SUFFICES ASSUME TaskInv, [TaskNext]_taskVars
               PROVE  TaskInv'
    OBVIOUS
  <2>1. [Next]_vars /\ [ClockNext]_clockVars
    BY TaskStepParts
  <2>2. IInv'
    BY <2>1, NextIInv DEF TaskInv
  <2>3. ClockTypeOK' /\ NoTickLost'
    BY <2>1, StepInv DEF TaskInv
  <2>4. CreditTyped'
    BY CreditStep
  <2> QED
    BY <2>2, <2>3, <2>4 DEF TaskInv, CreditTyped
<1> QED
  BY <1>1, <1>2, PTL DEF TaskSpec

(* No call-back runs early: the time slept since the timer was started,    *)
(* with the ticks the task was then behind, covers its delay.              *)
THEOREM NoCallbackEarly == TaskSpec => []NeverEarly
<1>1. TaskInv => NeverEarly
  <2> SUFFICES ASSUME TaskInv, NEW t \in Timers, Expiring(t)
               PROVE  credit[t] >= 10 * Ticks(armed[t])
    BY DEF NeverEarly
  <2>1. t \in Linked /\ ticking
    BY TodoLinked DEF TaskInv, IInv, WalkInv, Expiring
  <2>2. armed[t] \in Nat /\ age[t] \in Nat /\ Ticks(armed[t]) \in Nat
    BY TicksPositive DEF TaskInv, IInv, TypeOK
  <2>3. age[t] + Remaining(t) \in Due(t) /\ Remaining(t) = 0
    BY <2>1, WheelAssumption DEF TaskInv, IInv, DeadlineInv, Remaining, Distance, Expiring
  <2>4. age[t] >= Ticks(armed[t])
    BY <2>2, <2>3, WheelAssumption DEF Due
  <2>5. credit[t] = due + 10 * age[t] - 10
    BY <2>1 DEF TaskInv, CreditInv
  <2>6. due \in Nat /\ due >= 10
    BY <2>1 DEF TaskInv, LoopInv, ClockTypeOK, NoTickLost
  <2> QED
    BY <2>2, <2>4, <2>5, <2>6
<1> QED
  BY <1>1, TaskInvariant, PTL

(* The task never sleeps past a deadline: when it goes to sleep, no linked *)
(* timer has been slept for as long as its delay.                          *)
THEOREM NoDeadlineMissed == TaskSpec => []SleepsInTime
<1>1. TaskInv => SleepsInTime
  <2> SUFFICES ASSUME TaskInv, sleeping, NEW t \in Linked
               PROVE  \E n \in Due(t) : credit[t] < 10 * n
    BY DEF SleepsInTime
  <2>0. ~ticking /\ t \notin todo
    BY DEF TaskInv, IInv, WalkInv, LoopInv
  <2>1. /\ t \in Timers /\ ~ticking /\ t \notin todo
        /\ rot[t] \in Nat /\ age[t] \in Nat /\ home[t] \in Spokes /\ idx \in Spokes
    <3>1. t \in Timers /\ home[t] # W
      BY DEF Linked, Unlinked
    <3>2. home[t] \in 0..W /\ rot[t] \in Nat /\ age[t] \in Nat /\ idx \in Spokes
      BY <3>1 DEF TaskInv, IInv, TypeOK
    <3> QED
      BY <2>0, <3>1, <3>2, WheelAssumption DEF Spokes
  <2> DEFINE r == rot[t] * W
  <2>2. r \in Nat
    BY <2>1, WheelAssumption
  <2> HIDE DEF r
  <2>3. Remaining(t) \in Nat /\ Remaining(t) >= 1
    BY <2>1, <2>2, WheelAssumption DEF Remaining, Distance, Spokes, r
  <2>4. age[t] + Remaining(t) \in Due(t)
    BY DEF TaskInv, IInv, DeadlineInv
  <2>5. credit[t] = due + 10 * age[t] /\ due \in Nat /\ due < 10
    BY <2>1 DEF TaskInv, CreditInv, ClockTypeOK, NoTickLost
  <2>6. credit[t] < 10 * (age[t] + Remaining(t))
    BY <2>1, <2>3, <2>5
  <2> QED
    BY <2>4, <2>6
<1> QED
  BY <1>1, TaskInvariant, PTL
=============================================================================
