-------------------------- MODULE TimerLinksProofs --------------------------
(***************************************************************************)
(* Proofs about the links of the timers, for every number of timers,       *)
(* spokes and callers: the spokes are rings while timers expire once, and  *)
(* the walk never strays while callers only start and delete idle timers.  *)
(***************************************************************************)
EXTENDS TimerLinks, WellFoundedInduction, TLAPS

-----------------------------------------------------------------------------
(* Rings *)

LinksTyped ==
  /\ next \in [Cells -> Cells \cup {NULL}]
  /\ prev \in [Cells -> Cells \cup {NULL}]

(* A linked timer has a home, the spoke it is on, and a position there.    *)
Chained(home, pos) ==
  /\ \A c \in Cells : next[c] # NULL => prev[next[c]] = c
  /\ \A c \in Cells : prev[c] # NULL => next[prev[c]] = c
  /\ \A c \in Cells : next[c] = NULL <=> prev[c] = NULL
  /\ \A h \in Spokes : next[h] # NULL
  /\ \A h \in Spokes : next[h] \in Timers => home[next[h]] = h
  /\ \A h \in Spokes : next[h] \in Spokes => next[h] = h
  /\ \A t \in Timers : next[t] \in Timers => home[next[t]] = home[t] /\ pos[next[t]] > pos[t]
  /\ \A t \in Timers : next[t] \in Spokes => next[t] = home[t]

Chains ==
  /\ LinksTyped
  /\ \E home \in [Timers -> Spokes], pos \in [Timers -> Nat] : Chained(home, pos)

LEMMA Apart ==
  Timers \cap Spokes = {} /\ NULL \notin Cells /\ NULL \notin Timers /\ NULL \notin Spokes
  BY NamesAssumption DEF Spokes, Cells

LEMMA SpokeOfDelay ==
  ASSUME idx \in Spokes, NEW d \in Nat
  PROVE  SpokeFor(d) \in Spokes
  BY WheelAssumption DEF SpokeFor, Spokes

(* A set of timers that is not empty has a first one.                      *)
LEMMA FirstOf ==
  ASSUME NEW pos \in [Timers -> Nat], NEW S \in SUBSET Timers, S # {}
  PROVE  \E t \in S : \A u \in S : pos[t] <= pos[u]
<1> DEFINE P == {pos[u] : u \in S}
<1>1. PICK n \in P : \A k \in P : ~(<<k, n>> \in OpToRel(<, Nat))
  <2>1. P \subseteq Nat /\ P # {}
    OBVIOUS
  <2> HIDE DEF P
  <2> QED
    BY <2>1, NatLessThanWellFounded, WFMin
<1>2. ASSUME NEW k \in P
      PROVE  n <= k
  <2>1. ~(k < n)
    BY <1>1 DEF OpToRel
  <2> QED
    BY <2>1
<1> QED
  BY <1>2

(* The walk of a spoke comes to the linked timers whose home it is.        *)
LEMMA WalkOf ==
  ASSUME LinksTyped, NEW home \in [Timers -> Spokes], NEW pos \in [Timers -> Nat],
         Chained(home, pos), NEW h \in Spokes
  PROVE  OnSpoke(h) = {t \in Timers : Running(t) /\ home[t] = h}
<1> DEFINE H == {t \in Timers : Running(t) /\ home[t] = h}
<1>1. OnSpoke(h) \subseteq H
  <2>1. Walked(h, H)
    BY Apart DEF Walked, Chained, Running, LinksTyped, Cells
  <2> QED
    BY <2>1 DEF OnSpoke
<1>2. ASSUME NEW S \in SUBSET Timers, Walked(h, S)
      PROVE  H \subseteq S
  <2> SUFFICES ASSUME H \ S # {}
               PROVE  FALSE
    OBVIOUS
  <2>1. PICK t \in H \ S : \A u \in H \ S : pos[t] <= pos[u]
    <3>1. H \ S \in SUBSET Timers
      OBVIOUS
    <3> QED
      BY <3>1, FirstOf
  <2> DEFINE p == prev[t]
  <2>2. p \in Cells /\ next[p] = t
    BY Apart DEF Chained, LinksTyped, Running, Cells
  <2>3. CASE p \in Spokes
    BY <2>2, <2>3, <1>2 DEF Chained, Walked
  <2>4. CASE p \in Timers
    <3>1. Running(p) /\ home[p] = h /\ pos[t] > pos[p]
      BY <2>2, <2>4, Apart DEF Chained, Running
    <3>2. p \in S
      BY <3>1, <2>1, <2>4
    <3> QED
      BY <3>2, <2>2, <1>2 DEF Walked
  <2> QED
    BY <2>2, <2>3, <2>4 DEF Cells
<1> QED
  BY <1>1, <1>2 DEF OnSpoke

(* The walks of the spokes come to the linked timers, each to its own.     *)
LEMMA WalksShare ==
  ASSUME Chains
  PROVE  /\ {t \in Timers : Running(t)} = UNION {OnSpoke(h) : h \in Spokes}
         /\ \A h, g \in Spokes : h # g => OnSpoke(h) \cap OnSpoke(g) = {}
<1>1. PICK home \in [Timers -> Spokes], pos \in [Timers -> Nat] : Chained(home, pos)
  BY DEF Chains
<1>2. \A h \in Spokes : OnSpoke(h) = {t \in Timers : Running(t) /\ home[t] = h}
  BY <1>1, WalkOf DEF Chains
<1> QED
  BY <1>2

(* Behind a head, and behind a timer of its spoke, are another timer of    *)
(* the spoke or the head.                                                  *)
LEMMA NextStays ==
  ASSUME Chains, NEW h \in Spokes, NEW c \in OnSpoke(h) \cup {h}
  PROVE  next[c] \in OnSpoke(h) \cup {h} /\ (c \in Timers => next[c] # c)
<1>1. PICK home \in [Timers -> Spokes], pos \in [Timers -> Nat] : Chained(home, pos)
  BY DEF Chains
<1>2. OnSpoke(h) = {t \in Timers : Running(t) /\ home[t] = h}
  BY <1>1, WalkOf DEF Chains
<1> QED
  BY <1>1, <1>2, Apart DEF Chains, Chained, LinksTyped, Running, Cells

(* The last timer of a spoke is followed by its head.                      *)
LEMMA RingsOfChains ==
  ASSUME Chains
  PROVE  SpokesAreRings
<1>1. PICK home \in [Timers -> Spokes], pos \in [Timers -> Nat] : Chained(home, pos)
  BY DEF Chains
<1>2. ASSUME NEW h \in Spokes
      PROVE  \E c \in OnSpoke(h) \cup {h} : next[c] = h
  <2>1. OnSpoke(h) = {t \in Timers : Running(t) /\ home[t] = h}
    BY <1>1, WalkOf DEF Chains
  <2>2. prev[h] \in Cells /\ next[prev[h]] = h
    BY <1>1, Apart DEF Chains, Chained, LinksTyped, Cells
  <2> QED
    BY <1>1, <2>1, <2>2, Apart DEF Chained, Running, Cells
<1> QED
  BY <1>1, <1>2, WalksShare DEF SpokesAreRings, Chained

(* The same, as a fact about every state.                                  *)
WalkRule ==
  \A home \in [Timers -> Spokes], pos \in [Timers -> Nat], h \in Spokes :
    LinksTyped /\ Chained(home, pos) => OnSpoke(h) = {t \in Timers : Running(t) /\ home[t] = h}

LEMMA WalkHolds == WalkRule
  BY WalkOf DEF WalkRule

-----------------------------------------------------------------------------
(* What the steps do to the rings                                          *)

(* Nothing that touches no link changes a ring.                            *)
LEMMA LinksUntouched ==
  ASSUME Chains, next' = next, prev' = prev
  PROVE  Chains' /\ \A h \in Spokes : OnSpoke(h)' = OnSpoke(h)
  BY DEF Chains, LinksTyped, Chained, OnSpoke, Walked

(* A timer without links can be cleared.                                   *)
LEMMA Cleared ==
  ASSUME Chains, NEW t \in Timers, ~Running(t),
         next' = [next EXCEPT ![t] = NULL], prev' = [prev EXCEPT ![t] = NULL]
  PROVE  next' = next /\ prev' = prev
  BY DEF Chains, LinksTyped, Chained, Running, Cells

(* A timer without links becomes the last of the spoke of its delay.       *)
LEMMA Appended ==
  ASSUME Chains, idx \in Spokes, NEW t \in Timers, ~Running(t), NEW d \in Nat, Link(t, d)
  PROVE  /\ Chains'
         /\ \A u \in Timers : Running(u)' <=> u = t \/ Running(u)
         /\ \A h \in Spokes :
              OnSpoke(h)' = IF h = SpokeFor(d) THEN OnSpoke(h) \cup {t} ELSE OnSpoke(h)
<1> DEFINE spoke == SpokeFor(d)
           p == prev[spoke]
<1>1. PICK home \in [Timers -> Spokes], pos \in [Timers -> Nat] : Chained(home, pos)
  BY DEF Chains
<1>2. spoke \in Spokes
  BY SpokeOfDelay
<1>3. /\ p \in Cells
      /\ p # t
      /\ next[p] = spoke
      /\ p \in Spokes => p = spoke
      /\ p \in Timers => home[p] = spoke
  BY <1>1, <1>2, Apart DEF Chains, LinksTyped, Chained, Running, Cells
<1>4. /\ next' = [next EXCEPT ![t] = spoke, ![p] = t]
      /\ prev' = [prev EXCEPT ![t] = p, ![spoke] = t]
  BY DEF Link
<1> HIDE DEF spoke, p
<1>5. LinksTyped'
  BY <1>2, <1>3, <1>4 DEF Chains, LinksTyped, Cells
<1>6. \A c \in Cells : /\ next'[c] = IF c = p THEN t ELSE IF c = t THEN spoke ELSE next[c]
                       /\ prev'[c] = IF c = spoke THEN t ELSE IF c = t THEN p ELSE prev[c]
  BY <1>2, <1>3, <1>4 DEF Chains, LinksTyped, Cells
<1>7. PICK home2 \in [Timers -> Spokes], pos2 \in [Timers -> Nat] :
        /\ \A u \in Timers : home2[u] = IF u = t THEN spoke ELSE home[u]
        /\ \A u \in Timers : u # t => pos2[u] = pos[u]
        /\ p \in Timers => pos2[t] > pos[p]
  <2> DEFINE last == IF p \in Timers THEN pos[p] + 1 ELSE 0
             home2 == [home EXCEPT ![t] = spoke]
             pos2 == [pos EXCEPT ![t] = last]
  <2>1. last \in Nat /\ (p \in Timers => last > pos[p])
    OBVIOUS
  <2> HIDE DEF last
  <2>2. /\ home2 \in [Timers -> Spokes]
        /\ \A u \in Timers : home2[u] = IF u = t THEN spoke ELSE home[u]
    BY <1>2
  <2>3. /\ pos2 \in [Timers -> Nat]
        /\ \A u \in Timers : u # t => pos2[u] = pos[u]
        /\ p \in Timers => pos2[t] > pos[p]
    BY <2>1
  <2> HIDE DEF home2, pos2
  <2> QED
    BY <2>2, <2>3
<1>8. Chained(home2, pos2)'
  <2> USE Apart
  <2> USE DEF Chains, LinksTyped, Chained, Running, Cells
  <2>1. ASSUME NEW c \in Cells
        PROVE  next'[c] # NULL => prev'[next'[c]] = c
    BY <1>1, <1>2, <1>3, <1>6
  <2>2. ASSUME NEW c \in Cells
        PROVE  prev'[c] # NULL => next'[prev'[c]] = c
    BY <1>1, <1>2, <1>3, <1>6
  <2>3. ASSUME NEW c \in Cells
        PROVE  next'[c] = NULL <=> prev'[c] = NULL
    BY <1>1, <1>2, <1>3, <1>6
  <2>4. \A h \in Spokes : next'[h] # NULL
    BY <1>1, <1>2, <1>3, <1>6 DEF Chained, Cells
  <2>5. \A c \in Cells : next[c] # t
    BY <1>1 DEF Chained, Running, Cells
  <2>6. \A h \in Spokes : next'[h] \in Timers => home2[next'[h]] = h
    BY <1>1, <1>2, <1>3, <1>6, <1>7, <2>5 DEF Chained, Cells
  <2>7. \A h \in Spokes : next'[h] \in Spokes => next'[h] = h
    BY <1>1, <1>2, <1>3, <1>6 DEF Chained, Cells
  <2>8. \A u \in Timers : next'[u] \in Timers
          => home2[next'[u]] = home2[u] /\ pos2[next'[u]] > pos2[u]
    BY <1>1, <1>2, <1>3, <1>6, <1>7, <2>5 DEF Chained, Cells
  <2>9. \A u \in Timers : next'[u] \in Spokes => next'[u] = home2[u]
    BY <1>1, <1>2, <1>3, <1>6, <1>7 DEF Chained, Cells
  <2> QED
    BY <2>1, <2>2, <2>3, <2>4, <2>6, <2>7, <2>8, <2>9 DEF Chained
<1>9. \A u \in Timers : Running(u)' <=> u = t \/ Running(u)
  BY <1>1, <1>2, <1>3, <1>6, Apart DEF Running, Cells
<1>10. ASSUME NEW h \in Spokes
       PROVE  OnSpoke(h)' = IF h = spoke THEN OnSpoke(h) \cup {t} ELSE OnSpoke(h)
  <2>1. OnSpoke(h) = {u \in Timers : Running(u) /\ home[u] = h}
    BY <1>1, WalkOf DEF Chains
  <2>2. WalkRule'
    BY WalkHolds, PTL
  <2>3. OnSpoke(h)' = {u \in Timers : Running(u)' /\ home2[u] = h}
    BY <2>2, <1>5, <1>8 DEF WalkRule
  <2> QED
    BY <2>1, <2>3, <1>7, <1>9
<1>11. Chains'
  BY <1>5, <1>8 DEF Chains
<1> QED
  BY <1>9, <1>10, <1>11 DEF spoke

(* A timer is taken off its spoke, and the rest stay in order.             *)
LEMMA TakenOff ==
  ASSUME Chains, NEW t \in Timers, Running(t), Unlink(t)
  PROVE  /\ Chains'
         /\ \A u \in Timers : Running(u)' <=> Running(u) /\ u # t
         /\ \A h \in Spokes : OnSpoke(h)' = OnSpoke(h) \ {t}
<1> DEFINE p == prev[t]
           n == next[t]
<1>1. PICK home \in [Timers -> Spokes], pos \in [Timers -> Nat] : Chained(home, pos)
  BY DEF Chains
<1>2. /\ p \in Cells /\ n \in Cells
      /\ next[p] = t /\ prev[n] = t
      /\ p # t /\ n # t
  BY <1>1, Apart DEF Chains, LinksTyped, Chained, Running, Cells
<1>3. /\ next' = [next EXCEPT ![p] = n, ![t] = NULL]
      /\ prev' = [prev EXCEPT ![n] = p, ![t] = NULL]
  BY DEF Unlink, UnlinkTo
<1>4. /\ p \in Timers => home[p] = home[t] /\ pos[p] < pos[t]
      /\ p \in Spokes => p = home[t]
      /\ n \in Timers => home[n] = home[t] /\ pos[t] < pos[n]
      /\ n \in Spokes => n = home[t]
  BY <1>1, <1>2, Apart DEF Chains, LinksTyped, Chained, Cells
<1> HIDE DEF n, p
<1>5. LinksTyped'
  BY <1>2, <1>3 DEF Chains, LinksTyped, Cells
<1>6. \A c \in Cells : /\ next'[c] = IF c = t THEN NULL ELSE IF c = p THEN n ELSE next[c]
                       /\ prev'[c] = IF c = t THEN NULL ELSE IF c = n THEN p ELSE prev[c]
  BY <1>2, <1>3 DEF Chains, LinksTyped, Cells
<1>7. Chained(home, pos)'
  BY <1>1, <1>2, <1>4, <1>6, Apart DEF Chains, LinksTyped, Chained, Running, Cells
<1>8. \A u \in Timers : Running(u)' <=> Running(u) /\ u # t
  BY <1>1, <1>2, <1>6, Apart DEF Running, Cells
<1>9. ASSUME NEW h \in Spokes
      PROVE  OnSpoke(h)' = OnSpoke(h) \ {t}
  <2>1. OnSpoke(h) = {u \in Timers : Running(u) /\ home[u] = h}
    BY <1>1, WalkOf DEF Chains
  <2>2. WalkRule'
    BY WalkHolds, PTL
  <2>3. OnSpoke(h)' = {u \in Timers : Running(u)' /\ home[u] = h}
    BY <2>2, <1>5, <1>7 DEF WalkRule
  <2> QED
    BY <2>1, <2>3, <1>8
<1> QED
  BY <1>5, <1>7, <1>8, <1>9 DEF Chains

-----------------------------------------------------------------------------
(* Types and mutexes                                                       *)

CallLabels == {"idle", "stop", "stop to start", "prepare", "start", "enqueue", "count", "store"}
TickLabels == {"idle", "read", "lock", "walk", "callback", "rearm", "crashed"}

(* From its test of the links to the linking of its timer.                 *)
Preparing(m) == pc[m] \in {"prepare", "start", "enqueue"}

Expiring == pc[Ticker] \in {"callback", "rearm"}

ThreadsTyped ==
  /\ pc \in [Threads -> CallLabels \cup TickLabels]
  /\ \A m \in Managers : pc[m] \in CallLabels /\ (pc[m] # "idle" => at[m] \in Timers)
  /\ pc[Ticker] \in TickLabels
  /\ Expiring => at[Ticker] \in Timers
  /\ saved \in [Threads -> Int \cup Cells \cup {NULL}]
  /\ \A m \in Managers : pc[m] = "store" => saved[m] \in Int
  /\ saved[Ticker] \in Cells \cup {NULL}

TypeInv == TypeOK /\ ThreadsTyped

MutexInv ==
  /\ \A m \in Managers : pc[m] # "idle" => mgr = m
  /\ tick = Ticker <=> pc[Ticker] \in {"walk", "callback", "rearm", "crashed"}

LEMMA Naming == Ticker \notin Managers /\ Nobody \notin Managers /\ Nobody # Ticker
  BY NamesAssumption

LEMMA Ticks == (\A d \in Delays \cup {0} : d \in Nat) /\ (\A p \in Periods \cup {0} : p \in Nat)
<1>1. Delays \subseteq Nat /\ Periods \subseteq Nat
  BY WheelAssumption
<1> QED
  BY <1>1

LEMMA TypeInit == Init => TypeInv /\ MutexInv
  BY WheelAssumption, Naming, Apart
     DEF Init, TypeInv, TypeOK, ThreadsTyped, MutexInv, Expiring, Threads, Cells, Spokes,
         CallLabels, TickLabels

(* The links, the types of which UnlinkTo and Link keep.                   *)
LEMMA UnlinkTyped ==
  ASSUME LinksTyped, NEW t \in Cells, NEW to \in (Cells \cup {NULL}) \X (Cells \cup {NULL}),
         UnlinkTo(t, to)
  PROVE  LinksTyped'
  BY DEF LinksTyped, UnlinkTo

LEMMA LinkTyped ==
  ASSUME LinksTyped, rot \in [Timers -> Nat], idx \in Spokes,
         NEW t \in Timers, NEW d \in Nat, Link(t, d)
  PROVE  LinksTyped' /\ rot' \in [Timers -> Nat]
<1>1. SpokeFor(d) \in Spokes
  BY SpokeOfDelay
<1>2. d \div W \in Nat
  BY WheelAssumption
<1> QED
  BY <1>1, <1>2 DEF LinksTyped, Link, Cells

LEMMA TypeStep == TypeInv /\ [Next]_vars => TypeInv'
<1> SUFFICES ASSUME TypeInv, [Next]_vars
             PROVE  TypeInv'
  OBVIOUS
<1>0. LinksTyped /\ Timers \subseteq Cells /\ Spokes \subseteq Cells
  BY DEF TypeInv, TypeOK, LinksTyped, Cells
<1>a. \A c \in Cells : next[c] \in Cells \cup {NULL} /\ prev[c] \in Cells \cup {NULL}
  BY <1>0 DEF LinksTyped
<1> DEFINE Kept == /\ used' \in [Timers -> BOOLEAN]
                   /\ delay' \in [Timers -> Delays \cup {0}]
                   /\ period' \in [Timers -> Periods \cup {0}]
                   /\ rot' \in [Timers -> Nat]
                   /\ LinksTyped'
                   /\ idx' \in Spokes
                   /\ active' \in Int
                   /\ mgr' \in Managers \cup {Nobody}
                   /\ tick' \in {Ticker, Nobody}
                   /\ at' \in [Threads -> Cells \cup {NULL}]
<1> SUFFICES Kept /\ ThreadsTyped'
  BY DEF TypeInv, TypeOK, LinksTyped
<1>1. ASSUME NEW m \in Managers, NEW t \in Timers, NEW d \in Delays, NEW p \in Periods,
             Add(m, t, d, p)
      PROVE  Kept /\ ThreadsTyped'
  BY <1>1, <1>0 DEF Add, TypeInv, TypeOK, ThreadsTyped, LinksTyped, threads, Expiring
<1>2. ASSUME NEW m \in Managers, NEW t \in Timers, Delete(m, t)
      PROVE  Kept /\ ThreadsTyped'
  BY <1>2, <1>0 DEF Delete, Clear, TypeInv, TypeOK, ThreadsTyped, LinksTyped, threads, Expiring
<1>3. ASSUME NEW m \in Managers, NEW t \in Timers, NEW label \in CallLabels, label # "store",
             Enter(m, t, label)
      PROVE  Kept /\ ThreadsTyped'
  <2>1. /\ pc' = [pc EXCEPT ![m] = label]
        /\ at' = [at EXCEPT ![m] = t]
        /\ saved' = saved
    BY <1>3 DEF Enter, Goto
  <2>2. Kept
    BY <1>3, <2>1, <1>0 DEF Enter, TypeInv, TypeOK, LinksTyped, nodes, wheel, Threads
  <2>3. ThreadsTyped'
    BY <1>3, <2>1, Naming DEF TypeInv, TypeOK, ThreadsTyped, Expiring, Threads
  <2> QED
    BY <2>2, <2>3
<1>4. ASSUME NEW m \in Managers, NEW t \in Timers, CallStop(m, t) \/ CallStart(m, t)
      PROVE  Kept /\ ThreadsTyped'
  BY <1>4, <1>3 DEF CallStop, CallStart, CallLabels
<1>5. ASSUME NEW m \in Managers, Stop(m) \/ StopToStart(m)
      PROVE  Kept /\ ThreadsTyped'
  <2>1. at[m] \in Timers /\ StopRegion(at[m])
    BY <1>5 DEF Stop, StopToStart, TypeInv, ThreadsTyped
  <2>2. LinksTyped' /\ active' \in Int
    <3>1. CASE Running(at[m])
      BY <3>1, <2>1, <1>0, UnlinkTyped DEF StopRegion, Unlink, TypeInv, TypeOK
    <3>2. CASE ~Running(at[m])
      BY <3>2, <2>1, <1>0 DEF StopRegion, TypeInv, TypeOK, LinksTyped
    <3> QED
      BY <3>1, <3>2
  <2>3. /\ rot' = rot /\ at' = at /\ saved' = saved
        /\ \E label \in {"idle", "prepare"} : pc' = [pc EXCEPT ![m] = label]
        /\ mgr' \in {mgr, Nobody}
        /\ UNCHANGED <<used, delay, period, idx, tick>>
    BY <1>5 DEF Stop, StopToStart, StopRegion, Goto, nodes
  <2>4. ThreadsTyped'
    BY <2>1, <2>3, Naming DEF TypeInv, TypeOK, ThreadsTyped, Expiring, Threads, CallLabels
  <2> QED
    BY <2>2, <2>3, <2>4 DEF TypeInv, TypeOK
<1>6. ASSUME NEW m \in Managers, Prepare(m)
      PROVE  Kept /\ ThreadsTyped'
  <2>1. LinksTyped'
    BY <1>6, <1>0 DEF Prepare, LinksTyped
  <2> QED
    BY <1>6, <2>1, Naming
       DEF Prepare, Goto, TypeInv, TypeOK, ThreadsTyped, nodes, Expiring, Threads, CallLabels
<1>7. ASSUME NEW m \in Managers, StartUnlink(m)
      PROVE  Kept /\ ThreadsTyped'
  <2>1. at[m] \in Timers
    BY <1>7 DEF StartUnlink, TypeInv, ThreadsTyped
  <2>2. LinksTyped' /\ active' \in Int
    BY <1>7, <2>1, <1>0, <1>a, UnlinkTyped DEF StartUnlink, TypeInv, TypeOK, LinksTyped
  <2> QED
    BY <1>7, <2>2, Naming
       DEF StartUnlink, Goto, TypeInv, TypeOK, ThreadsTyped, nodes, Expiring, Threads, CallLabels
<1>8. ASSUME NEW m \in Managers, StartEnqueue(m)
      PROVE  Kept /\ ThreadsTyped'
  <2>1. at[m] \in Timers /\ delay[at[m]] \in Nat
    BY <1>8, Ticks DEF StartEnqueue, TypeInv, TypeOK, ThreadsTyped
  <2>2. LinksTyped' /\ rot' \in [Timers -> Nat]
    BY <1>8, <2>1, <1>0, LinkTyped DEF StartEnqueue, TypeInv, TypeOK
  <2> QED
    BY <1>8, <2>2, Naming
       DEF StartEnqueue, Goto, TypeInv, TypeOK, ThreadsTyped, nodes, Expiring, Threads, CallLabels
<1>9. ASSUME NEW m \in Managers, LoadActive(m)
      PROVE  Kept /\ ThreadsTyped'
  BY <1>9, <1>0, Naming
     DEF LoadActive, Goto, TypeInv, TypeOK, ThreadsTyped, LinksTyped, nodes, wheel, Expiring,
         Threads, CallLabels
<1>10. ASSUME NEW m \in Managers, StoreActive(m)
      PROVE  Kept /\ ThreadsTyped'
  <2>1. saved[m] \in Int
    BY <1>10 DEF StoreActive, TypeInv, ThreadsTyped
  <2>2. Kept
    BY <1>10, <2>1, <1>0 DEF StoreActive, TypeInv, TypeOK, LinksTyped, nodes
  <2>3. ThreadsTyped'
    BY <1>10, Naming
       DEF StoreActive, Goto, TypeInv, ThreadsTyped, Expiring, Threads, CallLabels
  <2> QED
    BY <2>2, <2>3
<1>11. CASE Advance
  <2>1. idx' \in Spokes
    BY <1>11, WheelAssumption DEF Advance, TypeInv, TypeOK, Spokes
  <2> QED
    BY <1>11, <2>1, <1>0, Naming
       DEF Advance, Goto, TypeInv, TypeOK, ThreadsTyped, LinksTyped, nodes, wheel, Expiring,
           Threads, TickLabels
<1>12. CASE ReadHead \/ TickLock \/ TickUnlock \/ Crash
  BY <1>12, <1>0, <1>a, Naming
     DEF ReadHead, TickLock, TickUnlock, Crash, Goto, TypeInv, TypeOK, ThreadsTyped, LinksTyped,
         nodes, wheel, Expiring, Threads, TickLabels
<1>13. CASE VisitSkip
  BY <1>13, <1>0, <1>a, Naming
     DEF VisitSkip, TypeInv, TypeOK, ThreadsTyped, LinksTyped, nodes, Expiring, Threads
<1>14. CASE VisitUnlink
  <2>1. LinksTyped'
    BY <1>14, <1>0, UnlinkTyped DEF VisitUnlink, Unlink
  <2> QED
    BY <1>14, <2>1, <1>0, <1>a, Naming
       DEF VisitUnlink, Goto, TypeInv, TypeOK, ThreadsTyped, nodes, Expiring, Threads, TickLabels
<1>15. CASE Callback
  BY <1>15, <1>0, Naming
     DEF Callback, Goto, TypeInv, TypeOK, ThreadsTyped, LinksTyped, nodes, wheel, Expiring,
         Threads, TickLabels
<1>16. CASE CallbackDeletes
  <2>1. Clear(at[Ticker]) /\ at[Ticker] \in Timers
    BY <1>16 DEF CallbackDeletes, TypeInv, ThreadsTyped, Expiring
  <2>2. LinksTyped' /\ rot' \in [Timers -> Nat]
    BY <2>1, <1>0 DEF Clear, LinksTyped, TypeInv, TypeOK
  <2>3. /\ used' \in [Timers -> BOOLEAN]
        /\ delay' \in [Timers -> Delays \cup {0}]
        /\ period' \in [Timers -> Periods \cup {0}]
    BY <2>1 DEF Clear, TypeInv, TypeOK
  <2> QED
    BY <1>16, <2>2, <2>3, Naming
       DEF CallbackDeletes, Goto, TypeInv, TypeOK, ThreadsTyped, Expiring, Threads, TickLabels
<1>17. CASE Rearm
  <2>1. at[Ticker] \in Timers
    BY <1>17 DEF Rearm, TypeInv, ThreadsTyped, Expiring
  <2>2. period[at[Ticker]] \in Nat
    BY <2>1, Ticks DEF TypeInv, TypeOK
  <2>3. LinksTyped' /\ rot' \in [Timers -> Nat] /\ active' \in Int
    BY <1>17, <2>1, <2>2, <1>0, LinkTyped DEF Rearm, TypeInv, TypeOK, LinksTyped
  <2> QED
    BY <1>17, <2>3, Naming
       DEF Rearm, Goto, TypeInv, TypeOK, ThreadsTyped, nodes, Expiring, Threads, TickLabels
<1>18. CASE UNCHANGED vars
  BY <1>18, <1>0
     DEF TypeInv, TypeOK, ThreadsTyped, LinksTyped, vars, nodes, wheel, threads, Expiring
<1> QED
  BY <1>1, <1>2, <1>4, <1>5, <1>6, <1>7, <1>8, <1>9, <1>11, <1>12, <1>13, <1>14, <1>15, <1>17,
     <1>18, <1>10, <1>16
     DEF Next, Work, Walk, Manage, Call

LEMMA MutexStep == TypeInv /\ MutexInv /\ [Next]_vars => MutexInv'
<1> SUFFICES ASSUME TypeInv, MutexInv, [Next]_vars
             PROVE  MutexInv'
  OBVIOUS
<1> USE Naming DEF MutexInv
<1>0. pc \in [Threads -> CallLabels \cup TickLabels] /\ tick \in {Ticker, Nobody}
  BY DEF TypeInv, TypeOK, ThreadsTyped
<1>1. CASE UNCHANGED <<pc, mgr, tick>>
  BY <1>1
(* A caller that enters takes a mutex that is free, and the one that       *)
(* leaves had it.                                                          *)
<1>2. ASSUME NEW m \in Managers, NEW label \in CallLabels,
             pc' = [pc EXCEPT ![m] = label], tick' = tick,
             \/ pc[m] = "idle" /\ mgr = Nobody /\ mgr' = m
             \/ pc[m] # "idle" /\ mgr' = mgr
             \/ pc[m] # "idle" /\ mgr' = Nobody /\ label = "idle"
      PROVE  MutexInv'
  BY <1>2, <1>0 DEF Threads
<1>3. ASSUME NEW label \in TickLabels, pc' = [pc EXCEPT ![Ticker] = label], mgr' = mgr,
             tick' = Ticker <=> label \in {"walk", "callback", "rearm", "crashed"}
      PROVE  MutexInv'
  BY <1>3, <1>0 DEF Threads
<1>4. ASSUME NEW m \in Managers, Call(m)
      PROVE  MutexInv'
  BY <1>4, <1>1, <1>2
     DEF Call, CallStop, CallStart, Enter, Delete, Add, threads, Goto, CallLabels
<1>5. ASSUME NEW m \in Managers, Manage(m)
      PROVE  MutexInv'
  BY <1>5, <1>2
     DEF Manage, Stop, StopToStart, Prepare, StartUnlink, StartEnqueue, LoadActive, StoreActive,
         Goto, CallLabels
<1>6. CASE Advance \/ Walk
  BY <1>6, <1>1, <1>3, <1>0
     DEF Advance, Walk, ReadHead, TickLock, TickUnlock, VisitSkip, VisitUnlink, Callback,
         CallbackDeletes, Rearm, Crash, Goto, TickLabels
<1>7. CASE UNCHANGED vars
  BY <1>7, <1>1 DEF vars, threads
<1> QED
  BY <1>4, <1>5, <1>6, <1>7 DEF Next, Work

-----------------------------------------------------------------------------
(* The invariant                                                           *)

(* Callers only start and delete timers that are idle, ...                 *)
StartsOnly == Calls \subseteq {"add", "delete", "start"}

(* ... or they also stop and restart any timer, and timers expire once.    *)
ExpireOnce ==
  Calls \subseteq {"add", "delete", "start", "restart", "stop"} /\ Periods \subseteq {0}

RingInv ==
  /\ Chains
  /\ \A t \in Timers : Running(t) => used[t]
  /\ \A t \in Timers : ~used[t] => period[t] = 0
  /\ \A m \in Managers : pc[m] = "stop to start" \/ Preparing(m) => used[at[m]]
  /\ \A m \in Managers : Preparing(m) => ~Running(at[m])
  /\ Expiring => ~Running(at[Ticker])

(* A timer that will be linked again is not being linked by a caller.      *)
RearmsAlone ==
  pc[Ticker] = "rearm" /\ period[at[Ticker]] > 0
    => \A m \in Managers : Preparing(m) => at[m] # at[Ticker]

(* What else holds of callers and timer task while callers only start.     *)
OrderInv ==
  /\ NoCrash
  /\ \A m \in Managers : pc[m] \notin {"stop", "stop to start"}
  /\ \A m \in Managers : Preparing(m) => ~InCallback(at[m])
  /\ pc[Ticker] \in {"lock", "walk"} => at[Ticker] \in OnSpoke(idx) \cup {idx}
  /\ Expiring => saved[Ticker] \in OnSpoke(idx) \cup {idx}

LEMMA RingInit == Init => RingInv
<1> SUFFICES ASSUME Init
             PROVE  RingInv
  OBVIOUS
<1>1. /\ \A t \in Timers : next[t] = NULL /\ prev[t] = NULL
      /\ \A h \in Spokes : next[h] = h /\ prev[h] = h
  BY Apart DEF Init, Cells
<1>2. 0 \in Spokes
  BY WheelAssumption DEF Spokes
<1>3. LinksTyped
  BY DEF Init, LinksTyped, Cells
<1>4. Chained([t \in Timers |-> 0], [t \in Timers |-> 0])
  BY <1>1, Apart DEF Chained, Cells
<1>5. [t \in Timers |-> 0] \in [Timers -> Spokes] /\ [t \in Timers |-> 0] \in [Timers -> Nat]
  BY <1>2
<1>6. Chains
  BY <1>3, <1>4, <1>5 DEF Chains
<1> QED
  BY <1>1, <1>6, Naming DEF Init, RingInv, Running, Preparing, Expiring, Threads

(* No step links a timer that is linked or that a caller is linking, and   *)
(* none clears or takes off a timer but as Cleared and TakenOff have it.   *)
LEMMA RingStep ==
  ASSUME TypeInv, MutexInv, RingInv, RearmsAlone, [Next]_vars,
         Calls \subseteq {"add", "delete", "start", "restart", "stop"}
  PROVE  RingInv'
<1> USE Naming DEF Running, Preparing, Expiring
<1>0. /\ pc \in [Threads -> CallLabels \cup TickLabels]
      /\ at \in [Threads -> Cells \cup {NULL}]
      /\ used \in [Timers -> BOOLEAN]
      /\ period \in [Timers -> Periods \cup {0}]
      /\ tick \in {Ticker, Nobody}
      /\ idx \in Spokes
      /\ \A m \in Managers : pc[m] # "idle" => at[m] \in Timers
      /\ Expiring => at[Ticker] \in Timers
      /\ \A m \in Managers : m \in Threads /\ m # Ticker
      /\ Ticker \in Threads
  BY DEF TypeInv, TypeOK, ThreadsTyped, Threads
<1>a. \A m, m2 \in Managers : pc[m] # "idle" /\ pc[m2] # "idle" => m = m2
  BY DEF MutexInv
<1>b. mgr = Nobody => \A m \in Managers : pc[m] = "idle"
  BY DEF MutexInv
<1>c. tick = Nobody => ~Expiring
  BY DEF MutexInv
(* Steps that leave nodes and links alone and let no thread in.            *)
<1>1. ASSUME next' = next, prev' = prev, used' = used, period' = period,
             \A m \in Managers :
               \/ pc'[m] = pc[m] /\ at'[m] = at[m]
               \/ Preparing(m) /\ Preparing(m)' /\ at'[m] = at[m]
               \/ pc'[m] \in {"idle", "stop", "count", "store"},
             Expiring' => Expiring /\ at'[Ticker] = at[Ticker]
      PROVE  RingInv'
  <2>1. Chains'
    BY <1>1, LinksUntouched DEF RingInv
  <2> QED
    BY <1>1, <2>1 DEF RingInv
<1>2. ASSUME NEW m \in Managers, NEW t \in Timers, NEW d \in Delays, NEW p \in Periods,
             Add(m, t, d, p)
      PROVE  RingInv'
  <2>1. ~used[t] /\ ~Running(t)
    BY <1>2 DEF Add, Fresh, RingInv
  <2>2. next' = next /\ prev' = prev
    BY <1>2, <2>1, Cleared DEF Add, RingInv
  <2>3. Chains'
    BY <2>2, LinksUntouched DEF RingInv
  <2>4. used' = [used EXCEPT ![t] = TRUE] /\ period' = [period EXCEPT ![t] = p]
        /\ UNCHANGED <<pc, at>>
    BY <1>2 DEF Add, threads
  <2> QED
    BY <2>2, <2>3, <2>4, <1>0 DEF RingInv
<1>3. ASSUME NEW m \in Managers, NEW t \in Timers, Delete(m, t)
      PROVE  RingInv'
  <2>1. ~Running(t)
    BY <1>3 DEF Delete, Allowed, Idle
  <2>2. next' = next /\ prev' = prev
    BY <1>3, <2>1, Cleared DEF Delete, Clear, RingInv
  <2>3. Chains'
    BY <2>2, LinksUntouched DEF RingInv
  <2>4. /\ used' = [used EXCEPT ![t] = FALSE]
        /\ period' = [period EXCEPT ![t] = 0]
        /\ UNCHANGED <<pc, at>>
        /\ \A m2 \in Managers : pc[m2] = "idle"
    BY <1>3, <1>b DEF Delete, Clear, threads
  <2> QED
    BY <2>1, <2>2, <2>3, <2>4, <1>0 DEF RingInv
<1>4. ASSUME NEW m \in Managers, NEW t \in Timers, CallStop(m, t) \/ CallStart(m, t)
      PROVE  RingInv'
  <2>1. PICK label \in {"stop", "stop to start", "prepare"} :
          Enter(m, t, label) /\ (label = "prepare" => ~Running(t))
    BY <1>4 DEF CallStop, CallStart
  <2>2. /\ next' = next /\ prev' = prev /\ used' = used /\ period' = period
        /\ used[t]
        /\ pc' = [pc EXCEPT ![m] = label]
        /\ at' = [at EXCEPT ![m] = t]
        /\ \A m2 \in Managers : pc[m2] = "idle"
    BY <2>1, <1>b DEF Enter, Goto, Found, nodes, wheel
  <2>3. Chains'
    BY <2>2, LinksUntouched DEF RingInv
  <2> QED
    BY <2>1, <2>2, <2>3, <1>0 DEF RingInv
<1>5. ASSUME NEW m \in Managers, Stop(m) \/ StopToStart(m)
      PROVE  RingInv'
  <2>1. /\ pc[m] \in {"stop", "stop to start"}
        /\ StopRegion(at[m])
        /\ \/ pc' = [pc EXCEPT ![m] = "idle"]
           \/ pc' = [pc EXCEPT ![m] = "prepare"] /\ pc[m] = "stop to start"
        /\ used' = used /\ period' = period /\ at' = at
    BY <1>5 DEF Stop, StopToStart, Goto, nodes
  <2>2. at[m] \in Timers
    BY <2>1, <1>0
  <2>3. /\ Chains'
        /\ \A u \in Timers : Running(u)' <=> Running(u) /\ u # at[m]
    <3>1. CASE Running(at[m])
      BY <3>1, <2>1, <2>2, TakenOff DEF StopRegion, RingInv
    <3>2. CASE ~Running(at[m])
      BY <3>2, <2>1, LinksUntouched DEF StopRegion, RingInv
    <3> QED
      BY <3>1, <3>2
  <2>4. \A m2 \in Managers : m2 # m => pc'[m2] = "idle"
    BY <2>1, <1>a, <1>0
  <2>5. pc'[m] = "idle" \/ (pc'[m] = "prepare" /\ used[at[m]])
    <3>1. pc[m] = "stop to start" => used[at[m]]
      BY DEF RingInv
    <3>2. pc'[m] = "idle" \/ (pc'[m] = "prepare" /\ pc[m] = "stop to start")
      BY <2>1, <1>0
    <3> QED
      BY <3>1, <3>2
  <2>6. pc'[Ticker] = pc[Ticker]
    BY <2>1, <1>0
  <2>7. \A m2 \in Managers :
          (pc[m2] = "stop to start" \/ Preparing(m2))' => m2 = m /\ pc'[m] = "prepare"
    BY <2>4, <2>5
  <2>8. \A u \in Timers : (Running(u) => used[u])' /\ (~used[u] => period[u] = 0)'
    BY <2>1, <2>3 DEF RingInv
  <2>9. Expiring' => ~Running(at[Ticker])'
    BY <2>1, <2>3, <2>6, <1>0 DEF RingInv
  <2>10. /\ pc'[m] = "prepare" => used'[at'[m]]
         /\ ~Running(at[m])'
    BY <2>1, <2>2, <2>3, <2>5
  <2> QED
    BY <2>3, <2>7, <2>8, <2>9, <2>10 DEF RingInv
<1>6. ASSUME NEW m \in Managers, Prepare(m)
      PROVE  RingInv'
  <2>1. ~Running(at[m]) /\ at[m] \in Timers
    BY <1>6, <1>0 DEF Prepare, RingInv
  <2>2. next' = next /\ prev' = prev
    BY <1>6, <2>1, Cleared DEF Prepare, RingInv
  <2> QED
    BY <1>6, <2>2, <1>1, <1>0 DEF Prepare, Goto, nodes
<1>7. ASSUME NEW m \in Managers, StartUnlink(m)
      PROVE  RingInv'
  <2>1. ~Running(at[m])
    BY <1>7 DEF StartUnlink, RingInv
  <2> QED
    BY <1>7, <2>1, <1>1, <1>0 DEF StartUnlink, Goto, nodes
<1>8. ASSUME NEW m \in Managers, StartEnqueue(m)
      PROVE  RingInv'
  <2>1. /\ pc[m] = "enqueue"
        /\ ~Running(at[m]) /\ used[at[m]]
        /\ at[m] \in Timers
        /\ delay[at[m]] \in Nat
        /\ Link(at[m], delay[at[m]])
    BY <1>8, <1>0, Ticks DEF StartEnqueue, RingInv, TypeInv, TypeOK
  <2>2. Chains' /\ \A u \in Timers : Running(u)' => u = at[m] \/ Running(u)
    BY <2>1, <1>0, Appended DEF RingInv
  <2>3. /\ pc' = [pc EXCEPT ![m] = "count"]
        /\ ~Expiring
        /\ used' = used /\ period' = period /\ at' = at
    BY <1>8, <1>c DEF StartEnqueue, Goto, nodes
  <2>4. \A m2 \in Managers : pc[m2] = "idle" \/ m2 = m
    BY <2>1, <1>a
  <2> QED
    BY <2>1, <2>2, <2>3, <2>4, <1>0 DEF RingInv
<1>9. ASSUME NEW m \in Managers, LoadActive(m) \/ StoreActive(m)
      PROVE  RingInv'
  BY <1>9, <1>1, <1>0 DEF LoadActive, StoreActive, Goto, nodes, wheel
<1>10. CASE Advance \/ ReadHead \/ TickLock \/ TickUnlock \/ VisitSkip \/ Crash
  BY <1>10, <1>1, <1>0
     DEF Advance, ReadHead, TickLock, TickUnlock, VisitSkip, Crash, Goto, nodes, wheel
<1>11. CASE VisitUnlink
  <2>1. at[Ticker] \in Timers /\ Running(at[Ticker]) /\ Unlink(at[Ticker])
    BY <1>11 DEF VisitUnlink
  <2>2. Chains' /\ \A u \in Timers : Running(u)' <=> Running(u) /\ u # at[Ticker]
    BY <2>1, TakenOff DEF RingInv
  <2>3. pc' = [pc EXCEPT ![Ticker] = "callback"] /\ UNCHANGED <<used, period, at>>
    BY <1>11 DEF VisitUnlink, Goto, nodes
  <2> QED
    BY <2>1, <2>2, <2>3, <1>0 DEF RingInv
<1>12. CASE Callback
  BY <1>12, <1>1, <1>0 DEF Callback, Goto, nodes, wheel
<1>13. CASE CallbackDeletes
  <2>1. at[Ticker] \in Timers /\ ~Running(at[Ticker])
    BY <1>13, <1>0 DEF CallbackDeletes, RingInv
  <2>2. next' = next /\ prev' = prev
    BY <1>13, <2>1, Cleared DEF CallbackDeletes, Clear, RingInv
  <2>3. Chains'
    BY <2>2, LinksUntouched DEF RingInv
  <2>4. /\ used' = [used EXCEPT ![at[Ticker]] = FALSE]
        /\ period' = [period EXCEPT ![at[Ticker]] = 0]
        /\ pc' = [pc EXCEPT ![Ticker] = "rearm"]
        /\ at' = at
        /\ \A m \in Managers : pc[m] = "idle"
    BY <1>13, <1>b DEF CallbackDeletes, Clear, Goto
  <2> QED
    BY <2>1, <2>2, <2>3, <2>4, <1>0 DEF RingInv
<1>14. CASE Rearm
  <2>1. at[Ticker] \in Timers /\ ~Running(at[Ticker])
    BY <1>14, <1>0 DEF Rearm, RingInv
  <2>2. /\ pc' = [pc EXCEPT ![Ticker] = "walk"]
        /\ at' = [at EXCEPT ![Ticker] = saved[Ticker]]
        /\ used' = used /\ period' = period
    BY <1>14 DEF Rearm, Goto, nodes
  <2>3. CASE period[at[Ticker]] > 0
    <3>1. Link(at[Ticker], period[at[Ticker]]) /\ period[at[Ticker]] \in Nat
      BY <1>14, <1>0, <2>1, <2>3, Ticks DEF Rearm
    <3>2. Chains' /\ \A u \in Timers : Running(u)' => u = at[Ticker] \/ Running(u)
      BY <2>1, <3>1, <1>0, Appended DEF RingInv
    <3>3. used[at[Ticker]]
      <4>1. ~used[at[Ticker]] => period[at[Ticker]] = 0
        BY <2>1 DEF RingInv
      <4>2. period[at[Ticker]] # 0
        BY <2>3
      <4> QED
        BY <4>1, <4>2
    <3>4. \A m \in Managers : Preparing(m) => at[m] # at[Ticker]
      BY <1>14, <2>3 DEF Rearm, RearmsAlone
    <3> QED
      BY <2>1, <2>2, <3>2, <3>3, <3>4, <1>0 DEF RingInv
  <2>4. CASE ~(period[at[Ticker]] > 0)
    BY <1>14, <2>2, <2>4, <1>1, <1>0 DEF Rearm
  <2> QED
    BY <2>3, <2>4
<1>15. CASE UNCHANGED vars
  BY <1>15, <1>1 DEF vars, nodes, wheel, threads
<1> QED
  BY <1>2, <1>3, <1>4, <1>5, <1>6, <1>7, <1>8, <1>9, <1>10, <1>11, <1>12, <1>13, <1>14, <1>15
     DEF Next, Work, Walk, Manage, Call

LEMMA OrderInit == Init => OrderInv
  BY Naming DEF Init, OrderInv, NoCrash, Preparing, Expiring, InCallback, Threads

(* The walk stays on the spoke of the cursor: nothing but the walk takes a *)
(* timer off a spoke, and a caller appends to one.                         *)
LEMMA OrderStep ==
  ASSUME TypeInv, MutexInv, RingInv, OrderInv, [Next]_vars, StartsOnly
  PROVE  OrderInv'
<1> USE Naming DEF Preparing, Expiring, InCallback, NoCrash
<1>0. /\ pc \in [Threads -> CallLabels \cup TickLabels]
      /\ at \in [Threads -> Cells \cup {NULL}]
      /\ saved \in [Threads -> Int \cup Cells \cup {NULL}]
      /\ idx \in Spokes
      /\ \A m \in Managers : pc[m] # "idle" => at[m] \in Timers
      /\ Expiring => at[Ticker] \in Timers
      /\ \A m \in Managers : m \in Threads /\ m # Ticker
      /\ Ticker \in Threads
      /\ Chains
      /\ idx \notin Timers
  BY Apart DEF TypeInv, TypeOK, ThreadsTyped, Threads, RingInv
<1>a. \A h \in Spokes : \A t \in OnSpoke(h) : t \in Timers /\ Running(t)
  BY <1>0, WalksShare
<1>b. mgr = Nobody => \A m \in Managers : pc[m] = "idle"
  BY DEF MutexInv
(* A caller moves, no timer leaves a spoke.                                *)
<1>1. ASSUME NEW m \in Managers, NEW label \in CallLabels \ {"stop", "stop to start"},
             pc' = [pc EXCEPT ![m] = label],
             at'[Ticker] = at[Ticker], saved'[Ticker] = saved[Ticker], idx' = idx,
             \A m2 \in Managers : m2 # m => at'[m2] = at[m2],
             \A h \in Spokes : OnSpoke(h) \subseteq OnSpoke(h)',
             label \in {"prepare", "start", "enqueue"} => ~InCallback(at'[m])
      PROVE  OrderInv'
  BY <1>1, <1>0 DEF OrderInv
<1>2. ASSUME NEW m \in Managers, NEW t \in Timers, NEW d \in Delays, NEW p \in Periods,
             Add(m, t, d, p)
      PROVE  OrderInv'
  <2>1. ~Running(t)
    BY <1>2 DEF Add, Fresh, RingInv
  <2>2. next' = next /\ prev' = prev
    BY <1>2, <2>1, <1>0, Cleared DEF Add
  <2>3. UNCHANGED <<pc, at, saved, idx>>
    BY <1>2 DEF Add, threads
  <2> QED
    BY <2>2, <2>3, <1>0, LinksUntouched DEF OrderInv
<1>3. ASSUME NEW m \in Managers, NEW t \in Timers, Delete(m, t)
      PROVE  OrderInv'
  <2>1. ~Running(t)
    BY <1>3 DEF Delete, Allowed, Idle, StartsOnly
  <2>2. next' = next /\ prev' = prev
    BY <1>3, <2>1, <1>0, Cleared DEF Delete, Clear
  <2>3. UNCHANGED <<pc, at, saved, idx>>
    BY <1>3 DEF Delete, threads
  <2> QED
    BY <2>2, <2>3, <1>0, LinksUntouched DEF OrderInv
<1>4. ASSUME NEW m \in Managers, NEW t \in Timers, CallStop(m, t) \/ CallStart(m, t)
      PROVE  OrderInv'
  <2>1. Enter(m, t, "prepare") /\ ~InCallback(t)
    BY <1>4 DEF CallStop, CallStart, Allowed, Idle, StartsOnly
  <2>2. /\ next' = next /\ prev' = prev
        /\ pc' = [pc EXCEPT ![m] = "prepare"]
        /\ at' = [at EXCEPT ![m] = t]
        /\ saved' = saved /\ idx' = idx
    BY <2>1 DEF Enter, Goto, wheel
  <2>3. \A h \in Spokes : OnSpoke(h)' = OnSpoke(h)
    BY <2>2, <1>0, LinksUntouched
  <2> QED
    BY <2>1, <2>2, <2>3, <1>0, <1>1 DEF CallLabels
<1>5. ASSUME NEW m \in Managers, Stop(m) \/ StopToStart(m)
      PROVE  FALSE
  BY <1>5 DEF Stop, StopToStart, OrderInv
<1>6. ASSUME NEW m \in Managers, Prepare(m)
      PROVE  OrderInv'
  <2>1. ~Running(at[m]) /\ at[m] \in Timers /\ ~InCallback(at[m])
    BY <1>6, <1>0 DEF Prepare, RingInv, OrderInv
  <2>2. next' = next /\ prev' = prev
    BY <1>6, <2>1, <1>0, Cleared DEF Prepare
  <2>3. \A h \in Spokes : OnSpoke(h)' = OnSpoke(h)
    BY <2>2, <1>0, LinksUntouched
  <2> QED
    BY <1>6, <2>1, <2>3, <1>1 DEF Prepare, Goto, CallLabels
<1>7. ASSUME NEW m \in Managers, StartUnlink(m)
      PROVE  OrderInv'
  <2>1. ~Running(at[m]) /\ ~InCallback(at[m])
    BY <1>7 DEF StartUnlink, RingInv, OrderInv
  <2>2. next' = next /\ prev' = prev
    BY <1>7, <2>1 DEF StartUnlink
  <2>3. \A h \in Spokes : OnSpoke(h)' = OnSpoke(h)
    BY <2>2, <1>0, LinksUntouched
  <2> QED
    BY <1>7, <2>1, <2>3, <1>1 DEF StartUnlink, Goto, CallLabels
<1>8. ASSUME NEW m \in Managers, StartEnqueue(m)
      PROVE  OrderInv'
  <2>1. /\ ~Running(at[m]) /\ at[m] \in Timers
        /\ delay[at[m]] \in Nat
        /\ Link(at[m], delay[at[m]])
    BY <1>8, <1>0, Ticks DEF StartEnqueue, RingInv, TypeInv, TypeOK
  <2>2. \A h \in Spokes : OnSpoke(h) \subseteq OnSpoke(h)'
    BY <2>1, <1>0, Appended
  <2> QED
    BY <1>8, <2>2, <1>1 DEF StartEnqueue, Goto, CallLabels
<1>9. ASSUME NEW m \in Managers, LoadActive(m) \/ StoreActive(m)
      PROVE  OrderInv'
  <2>1. \A h \in Spokes : OnSpoke(h)' = OnSpoke(h)
    BY <1>9, <1>0, LinksUntouched DEF LoadActive, StoreActive, wheel
  <2>2. PICK label \in {"store", "idle"} : pc' = [pc EXCEPT ![m] = label]
    BY <1>9 DEF LoadActive, StoreActive, Goto
  <2>3. at' = at /\ idx' = idx /\ saved'[Ticker] = saved[Ticker]
    BY <1>9, <1>0 DEF LoadActive, StoreActive
  <2> QED
    BY <2>1, <2>2, <2>3, <1>1 DEF CallLabels
(* The walk: where it is decides where it goes.                            *)
<1>10. ASSUME NEW label \in TickLabels \ {"crashed"}, pc' = [pc EXCEPT ![Ticker] = label],
              \A m \in Managers : at'[m] = at[m],
              label \in {"callback", "rearm"}
                => \A m \in Managers : ~(Preparing(m) /\ at[m] = at'[Ticker]),
              label \in {"lock", "walk"} => at'[Ticker] \in (OnSpoke(idx) \cup {idx})',
              label \in {"callback", "rearm"} => saved'[Ticker] \in (OnSpoke(idx) \cup {idx})'
       PROVE  OrderInv'
  BY <1>10, <1>0 DEF OrderInv
<1>11. CASE Advance
  BY <1>11, <1>10 DEF Advance, Goto, TickLabels
<1>12. CASE ReadHead
  <2>1. /\ at' = [at EXCEPT ![Ticker] = next[idx]]
        /\ idx' = idx
        /\ next' = next /\ prev' = prev
    BY <1>12 DEF ReadHead, wheel
  <2>2. next[idx] \in OnSpoke(idx) \cup {idx}
    BY <1>0, NextStays
  <2>3. OnSpoke(idx)' = OnSpoke(idx)
    BY <2>1, <1>0, LinksUntouched DEF OnSpoke, Walked
  <2> QED
    BY <1>12, <2>1, <2>2, <2>3, <1>0, <1>10 DEF ReadHead, Goto, TickLabels
<1>13. CASE TickLock \/ TickUnlock
  <2>1. next' = next /\ idx' = idx /\ at' = at
    BY <1>13 DEF TickLock, TickUnlock, wheel
  <2>2. OnSpoke(idx)' = OnSpoke(idx)
    BY <2>1 DEF OnSpoke, Walked
  <2>3. pc[Ticker] \in {"lock", "walk"} /\ at[Ticker] \in OnSpoke(idx) \cup {idx}
    BY <1>13 DEF TickLock, TickUnlock, OrderInv
  <2>4. PICK label \in {"walk", "idle"} : pc' = [pc EXCEPT ![Ticker] = label]
    BY <1>13 DEF TickLock, TickUnlock, Goto
  <2> QED
    BY <2>1, <2>2, <2>3, <2>4, <1>10 DEF TickLabels
<1>14. CASE VisitSkip
  <2>1. at[Ticker] \in OnSpoke(idx)
    BY <1>14, <1>0 DEF VisitSkip, OrderInv
  <2>2. next[at[Ticker]] \in OnSpoke(idx) \cup {idx}
    BY <2>1, <1>0, NextStays
  <2>3. /\ at' = [at EXCEPT ![Ticker] = next[at[Ticker]]]
        /\ next' = next /\ idx' = idx /\ pc' = pc /\ pc[Ticker] = "walk"
    BY <1>14 DEF VisitSkip
  <2>4. OnSpoke(idx)' = OnSpoke(idx)
    BY <2>3 DEF OnSpoke, Walked
  <2> QED
    BY <2>2, <2>3, <2>4, <1>0 DEF OrderInv
<1>15. CASE VisitUnlink
  <2>1. /\ at[Ticker] \in OnSpoke(idx)
        /\ at[Ticker] \in Timers /\ Running(at[Ticker])
        /\ Unlink(at[Ticker])
    BY <1>15, <1>0 DEF VisitUnlink, OrderInv
  <2>2. /\ next[at[Ticker]] \in OnSpoke(idx) \cup {idx}
        /\ next[at[Ticker]] # at[Ticker]
    BY <2>1, <1>0, NextStays
  <2>3. /\ at' = at /\ idx' = idx
        /\ saved' = [saved EXCEPT ![Ticker] = next[at[Ticker]]]
        /\ pc' = [pc EXCEPT ![Ticker] = "callback"]
    BY <1>15 DEF VisitUnlink, Goto
  <2>4. OnSpoke(idx)' = OnSpoke(idx) \ {at[Ticker]}
    <3>1. \A h \in Spokes : OnSpoke(h)' = OnSpoke(h) \ {at[Ticker]}
      BY <2>1, <1>0, TakenOff
    <3> QED
      BY <3>1, <2>3, <1>0 DEF OnSpoke, Walked
  <2>5. \A m \in Managers : ~(Preparing(m) /\ at[m] = at[Ticker])
    BY <2>1 DEF RingInv
  <2> QED
    BY <2>2, <2>3, <2>4, <2>5, <1>0, <1>10 DEF TickLabels
<1>16. CASE Callback \/ CallbackDeletes
  <2>1. /\ pc[Ticker] = "callback"
        /\ pc' = [pc EXCEPT ![Ticker] = "rearm"]
        /\ UNCHANGED <<at, saved, idx>>
    BY <1>16 DEF Callback, CallbackDeletes, Goto
  <2>2. at[Ticker] \in Timers /\ ~Running(at[Ticker])
    BY <2>1, <1>0 DEF RingInv
  <2>3. next' = next
    <3>1. CASE Callback
      BY <3>1 DEF Callback, wheel
    <3>2. CASE CallbackDeletes
      BY <3>2, <2>2, <1>0, Cleared DEF CallbackDeletes, Clear
    <3> QED
      BY <1>16, <3>1, <3>2
  <2>4. OnSpoke(idx)' = OnSpoke(idx)
    BY <2>1, <2>3 DEF OnSpoke, Walked
  <2>5. saved[Ticker] \in OnSpoke(idx) \cup {idx}
    BY <2>1 DEF OrderInv
  <2>6. \A m \in Managers : ~(Preparing(m) /\ at[m] = at[Ticker])
    BY <2>1 DEF OrderInv
  <2> QED
    BY <2>1, <2>4, <2>5, <2>6, <1>10 DEF TickLabels
<1>17. CASE Rearm
  <2>1. /\ pc[Ticker] = "rearm"
        /\ pc' = [pc EXCEPT ![Ticker] = "walk"]
        /\ at' = [at EXCEPT ![Ticker] = saved[Ticker]]
        /\ idx' = idx
    BY <1>17 DEF Rearm, Goto
  <2>2. saved[Ticker] \in OnSpoke(idx) \cup {idx}
    BY <2>1 DEF OrderInv
  <2>3. at[Ticker] \in Timers /\ ~Running(at[Ticker]) /\ period[at[Ticker]] \in Nat
    BY <2>1, <1>0, Ticks DEF RingInv, TypeInv, TypeOK
  <2>4. \A h \in Spokes : OnSpoke(h) \subseteq OnSpoke(h)'
    <3>1. CASE period[at[Ticker]] > 0
      BY <1>17, <2>3, <3>1, <1>0, Appended DEF Rearm
    <3>2. CASE ~(period[at[Ticker]] > 0)
      BY <1>17, <3>2, <1>0, LinksUntouched DEF Rearm
    <3> QED
      BY <3>1, <3>2
  <2>5. OnSpoke(idx) \subseteq OnSpoke(idx)'
    BY <2>1, <2>4, <1>0 DEF OnSpoke, Walked
  <2> QED
    BY <2>1, <2>2, <2>5, <1>0, <1>10 DEF TickLabels
(* A walk on its spoke does not crash.                                     *)
<1>18. CASE Crash
  <2>1. at[Ticker] \in OnSpoke(idx) \cup {idx}
    BY <1>18 DEF Crash, OrderInv
  <2>2. at[Ticker] = idx \/ (at[Ticker] \in Timers /\ Running(at[Ticker]))
    BY <2>1, <1>a, <1>0
  <2> QED
    BY <1>18, <2>2, <1>0 DEF Crash, Astray
<1>19. CASE UNCHANGED vars
  BY <1>19, <1>0, LinksUntouched DEF OrderInv, vars, wheel, threads, OnSpoke, Walked
<1> QED
  BY <1>2, <1>3, <1>4, <1>5, <1>6, <1>7, <1>8, <1>9, <1>11, <1>12, <1>13, <1>14, <1>15, <1>16,
     <1>17, <1>18, <1>19
     DEF Next, Work, Walk, Manage, Call

LEMMA AloneWhenOrdered == OrderInv => RearmsAlone
  BY DEF OrderInv, RearmsAlone, Expiring, InCallback

LEMMA AloneWhenOnce ==
  ASSUME TypeInv, ExpireOnce
  PROVE  RearmsAlone
<1>1. at[Ticker] \in Timers /\ pc[Ticker] = "rearm" => period[at[Ticker]] = 0
  BY DEF TypeInv, TypeOK, ExpireOnce
<1> QED
  BY <1>1 DEF RearmsAlone, TypeInv, ThreadsTyped, Expiring

(* All the state has its types, whatever is called.                        *)
THEOREM LinksHaveTypes == Spec => []TypeOK
<1>1. Init => TypeInv
  BY TypeInit
<1>2. TypeInv /\ [Next]_vars => TypeInv'
  BY TypeStep
<1>3. TypeInv => TypeOK
  BY DEF TypeInv
<1> QED
  BY <1>1, <1>2, <1>3, PTL DEF Spec

OnceInv == TypeInv /\ MutexInv /\ RingInv
OrderlyInv == TypeInv /\ MutexInv /\ RingInv /\ OrderInv

LEMMA OnceHolds ==
  ASSUME ExpireOnce
  PROVE  Spec => []OnceInv
<1>1. Init => OnceInv
  BY TypeInit, RingInit DEF OnceInv
<1>2. OnceInv /\ [Next]_vars => OnceInv'
  BY TypeStep, MutexStep, RingStep, AloneWhenOnce DEF OnceInv, ExpireOnce
<1> QED
  BY <1>1, <1>2, PTL DEF Spec

LEMMA OrderlyHolds ==
  ASSUME StartsOnly
  PROVE  Spec => []OrderlyInv
<1>1. Init => OrderlyInv
  BY TypeInit, RingInit, OrderInit DEF OrderlyInv
<1>2. OrderlyInv /\ [Next]_vars => OrderlyInv'
  BY TypeStep, MutexStep, RingStep, OrderStep, AloneWhenOrdered DEF OrderlyInv, StartsOnly
<1> QED
  BY <1>1, <1>2, PTL DEF Spec

LEMMA ActiveOfChains == Chains => LinkedIsActive
  BY WalksShare DEF LinkedIsActive

(* Timers that expire once may be stopped and restarted while they run,    *)
(* from any thread: every spoke stays a ring.                              *)
THEOREM RingsStay ==
  ASSUME ExpireOnce
  PROVE  Spec => []SpokesAreRings
<1>1. OnceInv => SpokesAreRings
  BY RingsOfChains DEF OnceInv, RingInv
<1> QED
  BY <1>1, OnceHolds, PTL

(* Then, too, stw_timer_running tells what is on a spoke.                  *)
THEOREM RunningIsOnSpoke ==
  ASSUME ExpireOnce
  PROVE  Spec => []LinkedIsActive
<1>1. OnceInv => LinkedIsActive
  BY ActiveOfChains DEF OnceInv, RingInv
<1> QED
  BY <1>1, OnceHolds, PTL

(* While callers only start and delete idle timers, periodic ones and ones *)
(* that delete themselves included, a timer is linked exactly when a spoke *)
(* holds it.                                                               *)
THEOREM LinkedWhenStarted ==
  ASSUME StartsOnly
  PROVE  Spec => []LinkedIsActive
<1>1. OrderlyInv => LinkedIsActive
  BY ActiveOfChains DEF OrderlyInv, RingInv
<1> QED
  BY <1>1, OrderlyHolds, PTL

(* And the walk never follows a pointer that leads nowhere, though it      *)
(* reads its first one before it has tick_mutex.                           *)
THEOREM WalkNeverStrays ==
  ASSUME StartsOnly
  PROVE  Spec => []NoCrash
<1>1. OrderlyInv => NoCrash
  BY DEF OrderlyInv, OrderInv
<1> QED
  BY <1>1, OrderlyHolds, PTL
=============================================================================
