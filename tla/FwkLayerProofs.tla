--------------------------- MODULE FwkLayerProofs ---------------------------
(***************************************************************************)
(* Proof about the tables of the fwk layer, of any size and for any number *)
(* of threads, if creates of one kind do not overlap and a delete overlaps *)
(* no call on its slot: what is held or waited for is initialised and in   *)
(* use, and what is in use is initialised.                                 *)
(***************************************************************************)
EXTENDS FwkLayer, TLAPS

(* The steps at which a create has its slot, a delete still has its, and a *)
(* call of another kind waits in one.                                      *)
Makes == {"clear", "init", "publish"}
Ends == {"dlock", "dunlock", "destroy", "free"}
Sleeps == {"asleep", "nap", "relock"}
Uses == {"lock", "trylock", "take", "trytake", "poll"} \cup Sleeps

Labels == {"idle"} \cup Creating \cup Deleting \cup Uses

TablesTyped ==
  /\ used \in [Slots -> BOOLEAN]
  /\ obj \in [Slots -> {"clear", "ready", "dead"}]
  /\ holder \in [Table("mutex") -> Callers \cup {Nobody}]

CallsTyped ==
  /\ pc \in [Callers -> Labels]
  /\ at \in [Callers -> Slots \cup {NoSlot}]
  /\ mid \in [Callers -> Table("mutex") \cup {NoSlot}]

(* What caller c, by where it is, knows of its slots.                      *)
Placed(c) ==
  /\ pc[c] = "idle" <=> at[c] = NoSlot
  /\ pc[c] \in {"dlock", "dunlock", "lock", "trylock"} => at[c] \in Table("mutex")
  /\ pc[c] \in Sleeps <=> mid[c] # NoSlot

Knows(c) ==
  /\ pc[c] \in Makes => ~used[at[c]]
  /\ pc[c] = "publish" => obj[at[c]] = "ready"
  /\ pc[c] \in Ends => used[at[c]]
  /\ pc[c] \in Uses =>
       \A s \in Slots : s \in {at[c], mid[c]} => used[s] /\ obj[s] = "ready"

(* Creates of one kind do not overlap, and nobody is where d deletes.      *)
Apart(c, d) ==
  /\ ~(pc[c] \in Creating /\ pc[d] \in Creating /\ at[c][1] = at[d][1])
  /\ pc[d] \in Ends /\ pc[c] \notin {"idle", "scan"} => at[d] \notin {at[c], mid[c]}

CallsInv ==
  /\ \A c \in Callers : Placed(c) /\ Knows(c)
  /\ \A c, d \in Callers : c # d => Apart(c, d)
  /\ UsedIsReady

(* A mutex is held by nobody when its delete has unlocked it.              *)
Unlocks(c) ==
  /\ pc[c] = "dunlock" => holder[at[c]] = c
  /\ pc[c] \in {"destroy", "free"} /\ at[c] \in Table("mutex") => holder[at[c]] = Nobody

HoldInv ==
  /\ \A m \in Table("mutex") : holder[m] # Nobody => used[m] /\ obj[m] = "ready"
  /\ \A c \in Callers : Unlocks(c)

FwkInv == TablesTyped /\ CallsTyped /\ CallsInv /\ HoldInv

-----------------------------------------------------------------------------
(* The slots are those of three tables that have none in common.           *)

LEMMA SlotsOfKinds ==
  /\ \A k \in Kinds : Table(k) \subseteq Slots /\ <<k, 1>> \in Table(k)
  /\ \A s \in Slots : s[1] \in Kinds /\ s \in Table(s[1])
  /\ \A k \in Kinds : \A s \in Table(k) : s[1] = k
  /\ NoSlot \notin Slots
<1>1. \A k \in Kinds : Size[k] \in Nat \ {0}
  BY FwkAssumption DEF Kinds, Size
<1>2. \A k \in Kinds : Table(k) \subseteq Slots
  BY DEF Slots
<1>3. \A k \in Kinds : <<k, 1>> \in Table(k)
  BY <1>1 DEF Table
<1>4. \A k \in Kinds : \A s \in Table(k) : s[1] = k
  BY DEF Table
<1>5. \A s \in Slots : s[1] \in Kinds /\ s \in Table(s[1])
  BY <1>4 DEF Slots
<1>6. NoSlot \notin Slots
  BY <1>5 DEF NoSlot, Kinds
<1> QED
  BY <1>2, <1>3, <1>4, <1>5, <1>6

LEMMA NextSlot ==
  ASSUME NEW s \in Slots, s[2] # Size[s[1]]
  PROVE  <<s[1], s[2] + 1>> \in Slots
<1>1. s[1] \in Kinds /\ s \in Table(s[1])
  BY SlotsOfKinds
<1>2. Size[s[1]] \in Nat
  BY <1>1, FwkAssumption DEF Kinds, Size
<1>3. s[2] \in 1..Size[s[1]]
  BY <1>1 DEF Table
<1>4. s[2] + 1 \in 1..Size[s[1]]
  BY <1>2, <1>3
<1>5. <<s[1], s[2] + 1>> \in Table(s[1])
  BY <1>4 DEF Table
<1> QED
  BY <1>1, <1>5, SlotsOfKinds

-----------------------------------------------------------------------------
(* A step of caller c moves no other caller.                               *)
OnlyMoves(c) ==
  \A d \in Callers : d # c => pc'[d] = pc[d] /\ at'[d] = at[d] /\ mid'[d] = mid[d]

(* A step that changes only where c is keeps CallsInv if it is well placed *)
(* and apart from the others there.                                        *)
LEMMA CallMoves ==
  ASSUME CallsInv, NEW c \in Callers, OnlyMoves(c), UNCHANGED <<used, obj>>,
         pc[c] # "free" \/ ~used[at[c]],
         Placed(c)', Knows(c)',
         \A d \in Callers : d # c => Apart(c, d)' /\ Apart(d, c)'
  PROVE  CallsInv'
<1>1. ASSUME NEW d \in Callers, d # c PROVE Placed(d)' /\ Knows(d)'
  <2>1. pc'[d] = pc[d] /\ at'[d] = at[d] /\ mid'[d] = mid[d]
    BY <1>1 DEF OnlyMoves
  <2>2. Placed(d) /\ Knows(d)
    BY DEF CallsInv
  <2>3. Placed(d)'
    BY <2>1, <2>2 DEF Placed
  <2>4. Knows(d)'
    BY <2>1, <2>2 DEF Knows
  <2> QED
    BY <2>3, <2>4
<1>2. ASSUME NEW d \in Callers, NEW e \in Callers, d # c, e # c, d # e PROVE Apart(d, e)'
  <2>1. Apart(d, e)
    BY <1>2 DEF CallsInv
  <2> QED
    BY <1>2, <2>1 DEF OnlyMoves, Apart
<1>3. UsedIsReady'
  <2> SUFFICES ASSUME NEW s \in Slots, used[s], obj[s] # "ready"
               PROVE  \E d \in Callers : In(d, s, {"free"})'
    BY DEF UsedIsReady
  <2>1. PICK d \in Callers : In(d, s, {"free"})
    BY DEF CallsInv, UsedIsReady
  <2>2. pc[d] = "free" /\ s \in {at[d], mid[d]}
    BY <2>1 DEF In
  <2>3. s = at[d]
    BY <2>2, SlotsOfKinds DEF CallsInv, Placed, Sleeps
  <2>4. d # c
    BY <2>2, <2>3
  <2>5. In(d, s, {"free"})'
    BY <2>2, <2>3, <2>4 DEF In, OnlyMoves
  <2> QED
    BY <2>5
<1> QED
  BY <1>1, <1>2, <1>3 DEF CallsInv

(* The slot a create or a delete is about is that of no other of them, and *)
(* nobody waits in it.                                                     *)
LEMMA Elsewhere ==
  ASSUME CallsInv, CallsTyped, NEW c \in Callers, NEW d \in Callers, c # d,
         pc[c] \in Makes \cup Ends
  PROVE  /\ pc[d] \in Makes \cup Ends => at[d] # at[c]
         /\ pc[d] \in Uses => at[c] \notin {at[d], mid[d]}
<1>1. Knows(c) /\ Knows(d) /\ Apart(c, d) /\ Apart(d, c) /\ Placed(c)
  BY DEF CallsInv
<1>2. at[c] \in Slots
  BY <1>1 DEF Placed, Makes, Ends, CallsTyped
<1>3. CASE pc[c] \in Ends
  BY <1>1, <1>3 DEF Apart, Makes, Ends, Uses, Sleeps
<1>4. CASE pc[c] \in Makes
  <2>1. ~used[at[c]]
    BY <1>1, <1>4 DEF Knows
  <2>2. pc[d] \in Makes => at[d] # at[c]
    BY <1>1, <1>4 DEF Apart, Creating, Makes
  <2>3. pc[d] \in Ends => at[d] # at[c]
    BY <1>1, <2>1 DEF Knows
  <2>4. pc[d] \in Uses => at[c] \notin {at[d], mid[d]}
    BY <1>1, <1>2, <2>1 DEF Knows
  <2> QED
    BY <2>2, <2>3, <2>4
<1> QED
  BY <1>3, <1>4

(* A step of the create or delete that c is in changes its slot only, and  *)
(* keeps CallsInv if c is well placed and apart from the others after it.  *)
LEMMA SlotChanges ==
  ASSUME CallsInv, CallsTyped, NEW c \in Callers, OnlyMoves(c),
         pc[c] \in Makes \cup Ends,
         \A s \in Slots : s # at[c] => used'[s] = used[s] /\ obj'[s] = obj[s],
         used'[at[c]] => obj'[at[c]] = "ready" \/ (pc'[c] = "free" /\ at'[c] = at[c]),
         Placed(c)', Knows(c)',
         \A d \in Callers : d # c => Apart(c, d)' /\ Apart(d, c)'
  PROVE  CallsInv'
<1>1. ASSUME NEW d \in Callers, d # c PROVE Placed(d)' /\ Knows(d)'
  <2>1. pc'[d] = pc[d] /\ at'[d] = at[d] /\ mid'[d] = mid[d]
    BY <1>1 DEF OnlyMoves
  <2>2. Placed(d) /\ Knows(d)
    BY DEF CallsInv
  <2>3. Placed(d)'
    BY <2>1, <2>2 DEF Placed
  <2>4. /\ pc[d] \in Makes \cup Ends => at[d] # at[c]
        /\ pc[d] \in Uses => at[c] \notin {at[d], mid[d]}
    BY <1>1, Elsewhere
  <2>5. pc[d] \in Makes \cup Ends => at[d] \in Slots
    BY <2>2 DEF Placed, CallsTyped, Makes, Ends
  <2>6. pc[d] \in Makes \cup Ends =>
          used'[at[d]] = used[at[d]] /\ obj'[at[d]] = obj[at[d]]
    BY <2>4, <2>5
  <2>7. pc[d] \in Uses =>
          \A s \in Slots : s \in {at[d], mid[d]} => used'[s] = used[s] /\ obj'[s] = obj[s]
    BY <2>4
  <2>8. Knows(d)'
    BY <2>1, <2>2, <2>6, <2>7 DEF Knows, Makes, Ends
  <2> QED
    BY <2>3, <2>8
<1>2. ASSUME NEW d \in Callers, NEW e \in Callers, d # c, e # c, d # e PROVE Apart(d, e)'
  <2>1. Apart(d, e)
    BY <1>2 DEF CallsInv
  <2> QED
    BY <1>2, <2>1 DEF OnlyMoves, Apart
<1>3. UsedIsReady'
  <2> SUFFICES ASSUME NEW s \in Slots, used'[s], obj'[s] # "ready"
               PROVE  \E d \in Callers : In(d, s, {"free"})'
    BY DEF UsedIsReady
  <2>1. CASE s = at[c]
    BY <2>1 DEF In
  <2>2. CASE s # at[c]
    <3>1. used[s] /\ obj[s] # "ready"
      BY <2>2
    <3>2. PICK d \in Callers : In(d, s, {"free"})
      BY <3>1 DEF CallsInv, UsedIsReady
    <3>3. pc[d] = "free" /\ s \in {at[d], mid[d]}
      BY <3>2 DEF In
    <3>4. s = at[d]
      BY <3>3, SlotsOfKinds DEF CallsInv, Placed, Sleeps
    <3>5. d # c
      BY <2>2, <3>4
    <3>6. In(d, s, {"free"})'
      BY <3>3, <3>4, <3>5 DEF In, OnlyMoves
    <3> QED
      BY <3>6
  <2> QED
    BY <2>1, <2>2
<1> QED
  BY <1>1, <1>2, <1>3 DEF CallsInv

-----------------------------------------------------------------------------
(* A caller that is somewhere, and what a step to a label, or to another   *)
(* label and slot, or a return says of it.                                 *)
LEMMA Whereabouts ==
  ASSUME CallsTyped, NEW c \in Callers, Placed(c)
  PROVE  /\ pc[c] # "idle" => at[c] \in Slots
         /\ pc[c] \notin Sleeps => mid[c] = NoSlot
         /\ mid[c] # NoSlot => mid[c] \in Table("mutex")
BY DEF CallsTyped, Placed

LEMMA GoesTo ==
  ASSUME CallsTyped, NEW c \in Callers, NEW l \in Labels,
         pc' = [pc EXCEPT ![c] = l], UNCHANGED <<at, mid>>
  PROVE  /\ OnlyMoves(c) /\ CallsTyped'
         /\ pc'[c] = l /\ at'[c] = at[c] /\ mid'[c] = mid[c]
BY DEF CallsTyped, OnlyMoves

LEMMA CallGoes ==
  ASSUME CallsTyped, NEW c \in Callers, NEW l \in Labels, NEW s \in Slots,
         Call(c, l, s), UNCHANGED mid
  PROVE  /\ OnlyMoves(c) /\ CallsTyped'
         /\ pc'[c] = l /\ at'[c] = s /\ mid'[c] = mid[c]
BY DEF Call, CallsTyped, OnlyMoves

LEMMA ReturnGoes ==
  ASSUME CallsTyped, NEW c \in Callers, Return(c)
  PROVE  /\ OnlyMoves(c) /\ CallsTyped'
         /\ pc'[c] = "idle" /\ at'[c] = NoSlot /\ mid'[c] = NoSlot
<1>1. "idle" \in Labels
  BY DEF Labels
<1> QED
  BY <1>1 DEF Return, Call, CallsTyped, OnlyMoves

(* Whoever returns is in nobody's way.                                     *)
LEMMA Returned ==
  ASSUME CallsTyped, NEW c \in Callers, Return(c)
  PROVE  /\ Placed(c)' /\ Knows(c)'
         /\ \A d \in Callers : d # c => Apart(c, d)' /\ Apart(d, c)'
<1>1. pc'[c] = "idle" /\ at'[c] = NoSlot /\ mid'[c] = NoSlot
  BY ReturnGoes
<1>2. Placed(c)' /\ Knows(c)'
  BY <1>1 DEF Placed, Knows, Makes, Ends, Uses, Sleeps
<1> QED
  BY <1>1, <1>2 DEF Apart, Creating, Ends

LEMMA ReturnStep ==
  ASSUME FwkInv, NEW c \in Callers, Return(c), UNCHANGED <<used, obj>>,
         pc[c] # "free"
  PROVE  CallsInv'
BY Returned, ReturnGoes, CallMoves DEF FwkInv

-----------------------------------------------------------------------------
(* The steps of creates.                                                   *)

LEMMA CallCreateStep ==
  ASSUME FwkInv, ~Overlap, NEW c \in Callers, NEW k \in Kinds, CallCreate(c, k)
  PROVE  CallsInv' /\ CallsTyped'
<1>1. /\ pc[c] = "idle" /\ Call(c, "scan", <<k, 1>>) /\ UNCHANGED <<tables, mid>>
      /\ \A d \in Callers : pc[d] \in Creating => at[d][1] # k
  BY DEF CallCreate, Alone
<1>2. <<k, 1>> \in Slots /\ <<k, 1>> # NoSlot
  BY SlotsOfKinds
<1>3. /\ OnlyMoves(c) /\ CallsTyped'
      /\ pc'[c] = "scan" /\ at'[c] = <<k, 1>> /\ mid'[c] = mid[c]
  BY <1>1, <1>2, CallGoes DEF FwkInv, Labels, Creating
<1>4. mid'[c] = NoSlot
  BY <1>1, <1>3, Whereabouts DEF FwkInv, CallsInv, Sleeps
<1>5. Placed(c)' /\ Knows(c)'
  BY <1>2, <1>3, <1>4 DEF Placed, Knows, Makes, Ends, Uses, Sleeps
<1>6. ASSUME NEW d \in Callers, d # c PROVE Apart(c, d)' /\ Apart(d, c)'
  <2>1. pc'[d] = pc[d] /\ at'[d] = at[d]
    BY <1>3, <1>6 DEF OnlyMoves
  <2> QED
    BY <1>1, <1>3, <2>1 DEF Apart, Ends
<1> QED
  BY <1>1, <1>3, <1>5, <1>6, CallMoves DEF FwkInv, tables

LEMMA ScanNextStep ==
  ASSUME FwkInv, NEW c \in Callers, ScanNext(c)
  PROVE  CallsInv' /\ CallsTyped'
<1>1. pc[c] = "scan" /\ UNCHANGED <<used, obj>>
  BY DEF ScanNext, tables
<1>2. CASE Return(c)
  BY <1>1, <1>2, ReturnStep, ReturnGoes DEF FwkInv
<1>3. CASE ~Return(c)
  <2>1. /\ at[c][2] # Size[at[c][1]] /\ UNCHANGED <<pc, mid>>
        /\ at' = [at EXCEPT ![c] = <<@[1], @[2] + 1>>]
    BY <1>3 DEF ScanNext
  <2>2. at[c] \in Slots /\ mid[c] = NoSlot
    BY <1>1, Whereabouts DEF FwkInv, CallsInv, Sleeps
  <2>3. at'[c] \in Slots /\ at'[c][1] = at[c][1] /\ at'[c] # NoSlot
    BY <2>1, <2>2, NextSlot, SlotsOfKinds DEF FwkInv, CallsTyped
  <2>4. OnlyMoves(c) /\ CallsTyped'
    BY <2>1, <2>3 DEF OnlyMoves, FwkInv, CallsTyped
  <2>5. Placed(c)' /\ Knows(c)'
    BY <1>1, <2>1, <2>2, <2>3 DEF Placed, Knows, Makes, Ends, Uses, Sleeps
  <2>6. ASSUME NEW d \in Callers, d # c PROVE Apart(c, d)' /\ Apart(d, c)'
    <3>1. pc'[d] = pc[d] /\ at'[d] = at[d] /\ Apart(c, d)
      BY <2>4, <2>6 DEF OnlyMoves, FwkInv, CallsInv
    <3> QED
      BY <1>1, <2>1, <2>3, <3>1 DEF Apart, Ends
  <2> QED
    BY <1>1, <2>4, <2>5, <2>6, CallMoves DEF FwkInv
<1> QED
  BY <1>2, <1>3

LEMMA ScanHitStep ==
  ASSUME FwkInv, NEW c \in Callers, ScanHit(c)
  PROVE  CallsInv' /\ CallsTyped'
<1>1. /\ pc[c] = "scan" /\ ~used[at[c]] /\ UNCHANGED <<used, obj>>
      /\ pc' = [pc EXCEPT ![c] = "clear"] /\ UNCHANGED <<at, mid>>
  BY DEF ScanHit, Goto, tables
<1>2. at[c] \in Slots /\ mid[c] = NoSlot /\ Placed(c)
  BY <1>1, Whereabouts DEF FwkInv, CallsInv, Sleeps
<1>3. /\ OnlyMoves(c) /\ CallsTyped'
      /\ pc'[c] = "clear" /\ at'[c] = at[c] /\ mid'[c] = mid[c]
  BY <1>1, GoesTo DEF FwkInv, Labels, Creating
<1>4. Placed(c)' /\ Knows(c)'
  BY <1>1, <1>2, <1>3 DEF Placed, Knows, Makes, Ends, Uses, Sleeps
<1>5. ASSUME NEW d \in Callers, d # c PROVE Apart(c, d)' /\ Apart(d, c)'
  <2>1. /\ pc'[d] = pc[d] /\ at'[d] = at[d] /\ mid'[d] = mid[d]
        /\ Apart(c, d) /\ Knows(d) /\ Placed(d)
    BY <1>3, <1>5 DEF OnlyMoves, FwkInv, CallsInv
  <2>2. pc[d] \in Ends => at[d] # at[c] /\ at[d] # NoSlot
    BY <1>1, <2>1 DEF Knows, Placed, Ends
  <2> QED
    BY <1>1, <1>2, <1>3, <2>1, <2>2 DEF Apart, Creating, Ends
<1> QED
  BY <1>1, <1>3, <1>4, <1>5, CallMoves DEF FwkInv

(* A create goes on in its slot, which nobody else is in.                  *)
LEMMA Making ==
  ASSUME FwkInv, NEW c \in Callers, pc[c] \in Makes
  PROVE  at[c] \in Slots /\ mid[c] = NoSlot /\ ~used[at[c]]
BY Whereabouts DEF FwkInv, CallsInv, Knows, Makes, Sleeps

LEMMA MakeGoesOn ==
  ASSUME FwkInv, NEW c \in Callers, pc[c] \in Makes,
         NEW l \in Labels, l \in Makes \cup {"inc"}, Goto(c, l),
         \A s \in Slots : s # at[c] => used'[s] = used[s] /\ obj'[s] = obj[s],
         l \in Makes => ~used'[at[c]],
         l \in {"publish", "inc"} => obj'[at[c]] = "ready"
  PROVE  CallsInv' /\ CallsTyped'
<1>1. at[c] \in Slots /\ mid[c] = NoSlot /\ ~used[at[c]] /\ at[c] # NoSlot
  BY Making, SlotsOfKinds
<1>2. /\ OnlyMoves(c) /\ CallsTyped'
      /\ pc'[c] = l /\ at'[c] = at[c] /\ mid'[c] = mid[c]
  BY GoesTo DEF Goto, FwkInv
<1>3. Placed(c)' /\ Knows(c)'
  BY <1>1, <1>2 DEF Placed, Knows, Makes, Ends, Uses, Sleeps
<1>4. ASSUME NEW d \in Callers, d # c PROVE Apart(c, d)' /\ Apart(d, c)'
  <2>1. pc'[d] = pc[d] /\ at'[d] = at[d] /\ mid'[d] = mid[d] /\ Apart(c, d)
    BY <1>2, <1>4 DEF OnlyMoves, FwkInv, CallsInv
  <2> QED
    BY <1>2, <2>1 DEF Apart, Creating, Makes, Ends
<1>5. used'[at[c]] => obj'[at[c]] = "ready"
  BY DEF Makes
<1> QED
  BY <1>2, <1>3, <1>4, <1>5, SlotChanges DEF FwkInv

LEMMA MakeGivesUp ==
  ASSUME FwkInv, NEW c \in Callers, pc[c] \in Makes, Return(c), UNCHANGED used,
         \A s \in Slots : s # at[c] => obj'[s] = obj[s]
  PROVE  CallsInv' /\ CallsTyped'
<1>1. ~used[at[c]]
  BY Making
<1> QED
  BY <1>1, Returned, ReturnGoes, SlotChanges DEF FwkInv

LEMMA ClearStep ==
  ASSUME FwkInv, NEW c \in Callers, Clear(c)
  PROVE  CallsInv' /\ CallsTyped'
<1>1. /\ pc[c] = "clear" /\ Goto(c, "init") /\ UNCHANGED used
      /\ obj' = [obj EXCEPT ![at[c]] = "clear"]
  BY DEF Clear
<1>2. ~used[at[c]]
  BY <1>1, Making DEF Makes
<1>3. \A s \in Slots : s # at[c] => obj'[s] = obj[s]
  BY <1>1 DEF FwkInv, TablesTyped
<1> QED
  BY <1>1, <1>2, <1>3, MakeGoesOn DEF Makes, Labels, Creating

LEMMA InitStep ==
  ASSUME FwkInv, NEW c \in Callers, InitMutex(c) \/ InitCond(c) \/ InitSema(c)
  PROVE  CallsInv' /\ CallsTyped'
<1>1. pc[c] = "init" /\ UNCHANGED used
  BY DEF InitMutex, InitCond, InitSema
<1>2. at[c] \in Slots /\ ~used[at[c]]
  BY <1>1, Making DEF Makes
<1>3. CASE obj' = [obj EXCEPT ![at[c]] = "ready"] /\ Goto(c, "publish")
  <2>1. obj'[at[c]] = "ready" /\ \A s \in Slots : s # at[c] => obj'[s] = obj[s]
    BY <1>2, <1>3 DEF FwkInv, TablesTyped
  <2> QED
    BY <1>1, <1>2, <1>3, <2>1, MakeGoesOn DEF Makes, Labels, Creating
<1>4. CASE Return(c) /\ (UNCHANGED obj \/ obj' = [obj EXCEPT ![at[c]] = "dead"])
  <2>1. \A s \in Slots : s # at[c] => obj'[s] = obj[s]
    BY <1>4 DEF FwkInv, TablesTyped
  <2> QED
    BY <1>1, <1>4, <2>1, MakeGivesUp DEF Makes
<1> QED
  BY <1>3, <1>4 DEF InitMutex, InitCond, InitSema

LEMMA PublishStep ==
  ASSUME FwkInv, NEW c \in Callers, Publish(c)
  PROVE  CallsInv' /\ CallsTyped'
<1>1. /\ pc[c] = "publish" /\ UNCHANGED obj
      /\ used' = [used EXCEPT ![at[c]] = TRUE]
  BY DEF Publish
<1>2. obj[at[c]] = "ready"
  BY <1>1 DEF FwkInv, CallsInv, Knows
<1>3. \A s \in Slots : s # at[c] => used'[s] = used[s]
  BY <1>1 DEF FwkInv, TablesTyped
<1>4. CASE Goto(c, "inc")
  BY <1>1, <1>2, <1>3, <1>4, MakeGoesOn DEF Makes, Labels, Creating
<1>5. CASE Return(c)
  BY <1>1, <1>2, <1>3, <1>5, Returned, ReturnGoes, SlotChanges DEF FwkInv, Makes
<1> QED
  BY <1>4, <1>5 DEF Publish

(* The count is changed where nothing else is.                             *)
LEMMA LoadCountStep ==
  ASSUME FwkInv, NEW c \in Callers, LoadCount(c)
  PROVE  CallsInv' /\ CallsTyped'
<1>1. PICK l \in {"incStore", "decStore"} :
        /\ pc' = [pc EXCEPT ![c] = l]
        /\ pc[c] = IF l = "incStore" THEN "inc" ELSE "dec"
  BY DEF LoadCount
<1>2. UNCHANGED <<used, obj, at, mid>>
  BY DEF LoadCount, tables
<1>3. /\ OnlyMoves(c) /\ CallsTyped'
      /\ pc'[c] = l /\ at'[c] = at[c] /\ mid'[c] = mid[c]
  BY <1>1, <1>2, GoesTo DEF FwkInv, Labels, Creating, Deleting
<1>4. Placed(c)' /\ Knows(c)'
  <2>1. Placed(c)
    BY DEF FwkInv, CallsInv
  <2> QED
    BY <1>1, <1>3, <2>1 DEF Placed, Knows, Makes, Ends, Uses, Sleeps
<1>5. ASSUME NEW d \in Callers, d # c PROVE Apart(c, d)' /\ Apart(d, c)'
  <2>1. pc'[d] = pc[d] /\ at'[d] = at[d] /\ mid'[d] = mid[d] /\ Apart(c, d)
    BY <1>3, <1>5 DEF OnlyMoves, FwkInv, CallsInv
  <2> QED
    BY <1>1, <1>3, <2>1 DEF Apart, Creating, Ends
<1> QED
  BY <1>1, <1>2, <1>3, <1>4, <1>5, CallMoves DEF FwkInv

LEMMA StoreCountStep ==
  ASSUME FwkInv, NEW c \in Callers, StoreCount(c)
  PROVE  CallsInv' /\ CallsTyped'
BY ReturnStep, ReturnGoes DEF StoreCount, FwkInv

-----------------------------------------------------------------------------
(* The steps of deletes.                                                   *)

LEMMA CallDeleteStep ==
  ASSUME FwkInv, ~Overlap, NEW c \in Callers, NEW s \in Slots, CallDelete(c, s)
  PROVE  CallsInv' /\ CallsTyped'
<1> DEFINE l == IF s[1] = "mutex" THEN "dlock" ELSE "destroy"
<1>1. /\ pc[c] = "idle" /\ used[s] /\ Call(c, l, s) /\ UNCHANGED <<tables, mid>>
      /\ \A d \in Callers : pc[d] # "idle" => s \notin {at[d], mid[d]}
  BY DEF CallDelete, MayUse, Pending
<1>2. l \in {"dlock", "destroy"} /\ (l = "dlock" => s \in Table("mutex"))
  BY SlotsOfKinds
<1> HIDE DEF l
<1>3. /\ OnlyMoves(c) /\ CallsTyped'
      /\ pc'[c] = l /\ at'[c] = s /\ mid'[c] = mid[c]
  BY <1>1, <1>2, CallGoes DEF FwkInv, Labels, Deleting
<1>4. mid[c] = NoSlot /\ s # NoSlot
  BY <1>1, Whereabouts, SlotsOfKinds DEF FwkInv, CallsInv, Sleeps
<1>5. Placed(c)' /\ Knows(c)'
  <2>1. UNCHANGED used
    BY <1>1 DEF tables
  <2> QED
    BY <1>1, <1>2, <1>3, <1>4, <2>1 DEF Placed, Knows, Makes, Ends, Uses, Sleeps
<1>6. ASSUME NEW d \in Callers, d # c PROVE Apart(c, d)' /\ Apart(d, c)'
  <2>1. pc'[d] = pc[d] /\ at'[d] = at[d] /\ mid'[d] = mid[d]
    BY <1>3, <1>6 DEF OnlyMoves
  <2>2. pc[d] # "idle" => s \notin {at[d], mid[d]} /\ at[d] \in Slots
    BY <1>1, Whereabouts DEF FwkInv, CallsInv
  <2> QED
    BY <1>2, <1>3, <1>4, <2>1, <2>2, SlotsOfKinds DEF Apart, Creating, Ends
<1> QED
  BY <1>1, <1>3, <1>5, <1>6, CallMoves DEF FwkInv, tables

(* A delete goes on in its slot.                                           *)
LEMMA EndGoesOn ==
  ASSUME FwkInv, NEW c \in Callers, pc[c] \in Ends, NEW l \in Ends, Goto(c, l),
         l = "dunlock" => at[c] \in Table("mutex"), l # "dlock", UNCHANGED used,
         \A s \in Slots : s # at[c] => obj'[s] = obj[s],
         UNCHANGED obj \/ l = "free", pc[c] # "free"
  PROVE  CallsInv' /\ CallsTyped'
<1>1. at[c] \in Slots /\ mid[c] = NoSlot /\ used[at[c]] /\ at[c] # NoSlot
  BY Whereabouts, SlotsOfKinds DEF FwkInv, CallsInv, Knows, Ends, Sleeps
<1>2. /\ OnlyMoves(c) /\ CallsTyped'
      /\ pc'[c] = l /\ at'[c] = at[c] /\ mid'[c] = mid[c]
  BY GoesTo DEF Goto, FwkInv, Labels, Deleting, Ends
<1>3. Placed(c)' /\ Knows(c)'
  BY <1>1, <1>2 DEF Placed, Knows, Makes, Ends, Uses, Sleeps
<1>4. ASSUME NEW d \in Callers, d # c PROVE Apart(c, d)' /\ Apart(d, c)'
  <2>1. /\ pc'[d] = pc[d] /\ at'[d] = at[d] /\ mid'[d] = mid[d]
        /\ Apart(c, d) /\ Apart(d, c)
    BY <1>2, <1>4 DEF OnlyMoves, FwkInv, CallsInv
  <2> QED
    BY <1>2, <2>1 DEF Apart, Creating, Ends
<1>5. CASE l = "free"
  BY <1>2, <1>3, <1>4, <1>5, SlotChanges DEF FwkInv
<1>6. CASE UNCHANGED obj
  BY <1>2, <1>3, <1>4, <1>6, CallMoves DEF FwkInv
<1> QED
  BY <1>5, <1>6

(* The lock before a delete never fails: its slot is used, hence ready.    *)
LEMMA EndingIsReady ==
  ASSUME FwkInv, NEW c \in Callers, pc[c] \in Ends \ {"free"}
  PROVE  at[c] \in Slots /\ used[at[c]] /\ obj[at[c]] = "ready"
<1>1. at[c] \in Slots /\ used[at[c]]
  BY Whereabouts DEF FwkInv, CallsInv, Knows, Ends
<1>2. ASSUME NEW d \in Callers, In(d, at[c], {"free"}) PROVE FALSE
  <2>1. pc[d] = "free" /\ d # c
    BY <1>2 DEF In
  <2>2. at[c] \notin {at[d], mid[d]}
    BY <2>1 DEF FwkInv, CallsInv, Apart, Ends
  <2> QED
    BY <1>2, <2>2 DEF In
<1> QED
  BY <1>1, <1>2 DEF FwkInv, CallsInv, UsedIsReady

LEMMA DeleteLockStep ==
  ASSUME FwkInv, NEW c \in Callers, DeleteLock(c) \/ DeleteUnlock(c)
  PROVE  CallsInv' /\ CallsTyped'
<1>1. PICK l \in {"dunlock", "destroy"} :
        pc[c] \in {"dlock", "dunlock"} /\ Goto(c, l) /\ UNCHANGED <<used, obj>>
  BY DEF DeleteLock, DeleteUnlock
<1>2. at[c] \in Table("mutex")
  BY <1>1 DEF FwkInv, CallsInv, Placed
<1> QED
  BY <1>1, <1>2, EndGoesOn DEF Ends

LEMMA DestroyStep ==
  ASSUME FwkInv, NEW c \in Callers, Destroy(c)
  PROVE  CallsInv' /\ CallsTyped'
<1>1. pc[c] = "destroy" /\ UNCHANGED used
  BY DEF Destroy
<1>2. CASE obj' = [obj EXCEPT ![at[c]] = "dead"] /\ Goto(c, "free")
  <2>1. \A s \in Slots : s # at[c] => obj'[s] = obj[s]
    BY <1>2 DEF FwkInv, TablesTyped
  <2> QED
    BY <1>1, <1>2, <2>1, EndGoesOn DEF Ends
<1>3. CASE Return(c) /\ UNCHANGED obj
  BY <1>1, <1>3, ReturnStep, ReturnGoes DEF FwkInv
<1> QED
  BY <1>2, <1>3 DEF Destroy

LEMMA FreeStep ==
  ASSUME FwkInv, NEW c \in Callers, Free(c)
  PROVE  CallsInv' /\ CallsTyped'
<1>1. pc[c] = "free" /\ UNCHANGED obj /\ used' = [used EXCEPT ![at[c]] = FALSE]
  BY DEF Free
<1>2. at[c] \in Slots /\ mid[c] = NoSlot /\ at[c] # NoSlot
  BY <1>1, Whereabouts, SlotsOfKinds DEF FwkInv, CallsInv, Sleeps
<1>3. ~used'[at[c]] /\ \A s \in Slots : s # at[c] => used'[s] = used[s]
  BY <1>1, <1>2 DEF FwkInv, TablesTyped
<1>4. CASE Goto(c, "dec")
  <2>1. /\ OnlyMoves(c) /\ CallsTyped'
        /\ pc'[c] = "dec" /\ at'[c] = at[c] /\ mid'[c] = mid[c]
    BY <1>4, GoesTo DEF Goto, FwkInv, Labels, Deleting
  <2>2. Placed(c)' /\ Knows(c)'
    BY <1>2, <2>1 DEF Placed, Knows, Makes, Ends, Uses, Sleeps
  <2>3. ASSUME NEW d \in Callers, d # c PROVE Apart(c, d)' /\ Apart(d, c)'
    <3>1. pc'[d] = pc[d] /\ at'[d] = at[d] /\ mid'[d] = mid[d] /\ Apart(c, d)
      BY <2>1, <2>3 DEF OnlyMoves, FwkInv, CallsInv
    <3> QED
      BY <1>1, <2>1, <3>1 DEF Apart, Creating, Ends
  <2> QED
    BY <1>1, <1>3, <2>1, <2>2, <2>3, SlotChanges DEF FwkInv, Ends
<1>5. CASE Return(c)
  BY <1>1, <1>3, <1>5, Returned, ReturnGoes, SlotChanges DEF FwkInv, Ends
<1> QED
  BY <1>4, <1>5 DEF Free

-----------------------------------------------------------------------------
(* The steps of the calls that use a slot.                                 *)

(* A slot that may be used is initialised and in no delete.                *)
LEMMA UsableIsReady ==
  ASSUME FwkInv, ~Overlap, NEW c \in Callers, NEW s \in Slots, MayUse(c, s)
  PROVE  /\ used[s] /\ obj[s] = "ready" /\ pc[c] = "idle" /\ mid[c] = NoSlot
         /\ \A d \in Callers : pc[d] \in Ends => at[d] # s
<1>1. /\ pc[c] = "idle" /\ used[s]
      /\ \A d \in Callers : pc[d] \in Deleting => s \notin {at[d], mid[d]}
  BY DEF MayUse, In
<1>2. mid[c] = NoSlot
  BY <1>1, Whereabouts DEF FwkInv, CallsInv, Sleeps
<1>3. obj[s] = "ready"
  BY <1>1 DEF FwkInv, CallsInv, UsedIsReady, In, Deleting
<1> QED
  BY <1>1, <1>2, <1>3 DEF Deleting, Ends

(* Whoever begins to use slots that are ready, and in no delete, is apart  *)
(* from the others.                                                        *)
LEMMA UseBegins ==
  ASSUME FwkInv, NEW c \in Callers, OnlyMoves(c), UNCHANGED <<used, obj>>,
         pc[c] = "idle", pc'[c] \in Uses, at'[c] \in Slots, Placed(c)',
         \A s \in Slots : s \in {at'[c], mid'[c]} =>
           /\ used[s] /\ obj[s] = "ready"
           /\ \A d \in Callers : pc[d] \in Ends => at[d] # s
  PROVE  CallsInv'
<1>1. Knows(c)'
  BY DEF Knows, Makes, Ends, Uses, Sleeps
<1>2. ASSUME NEW d \in Callers, d # c PROVE Apart(c, d)' /\ Apart(d, c)'
  <2>1. pc'[d] = pc[d] /\ at'[d] = at[d] /\ mid'[d] = mid[d]
    BY <1>2 DEF OnlyMoves
  <2>2. pc[d] \in Ends => at[d] \in Slots
    BY Whereabouts DEF FwkInv, CallsInv, Ends
  <2>3. pc[d] \in Ends => at[d] \notin {at'[c], mid'[c]}
    BY <2>2
  <2> QED
    BY <2>1, <2>3 DEF Apart, Creating, Ends, Uses, Sleeps
<1> QED
  BY <1>1, <1>2, CallMoves DEF FwkInv

LEMMA CallUseStep ==
  ASSUME FwkInv, ~Overlap, NEW c \in Callers, NEW s \in Slots, MayUse(c, s),
         NEW l \in Uses \ Sleeps, l \in {"lock", "trylock"} => s \in Table("mutex"),
         Call(c, l, s), UNCHANGED <<used, obj, mid>>
  PROVE  CallsInv' /\ CallsTyped'
<1>1. /\ used[s] /\ obj[s] = "ready" /\ pc[c] = "idle" /\ mid[c] = NoSlot
      /\ \A d \in Callers : pc[d] \in Ends => at[d] # s
  BY UsableIsReady
<1>2. /\ OnlyMoves(c) /\ CallsTyped'
      /\ pc'[c] = l /\ at'[c] = s /\ mid'[c] = mid[c]
  BY CallGoes DEF FwkInv, Labels
<1>3. Placed(c)'
  BY <1>1, <1>2, SlotsOfKinds DEF Placed, Uses, Sleeps
<1> QED
  BY <1>1, <1>2, <1>3, UseBegins, SlotsOfKinds

LEMMA CallLockOrTakeStep ==
  ASSUME FwkInv, ~Overlap, NEW c \in Callers, NEW s \in Slots, NEW t \in Limits,
         (s \in Table("mutex") /\ CallLock(c, s, t)) \/ CallTake(c, s, t)
  PROVE  CallsInv' /\ CallsTyped'
<1>1. MayUse(c, s) /\ UNCHANGED <<used, obj, mid>>
  BY DEF CallLock, CallTake, tables
<1>2. PICK l \in {"lock", "trylock", "take", "trytake", "poll"} :
        Call(c, l, s) /\ (l \in {"lock", "trylock"} => s \in Table("mutex"))
  BY DEF CallLock, CallTake
<1> QED
  BY <1>1, <1>2, CallUseStep DEF Uses, Sleeps

(* The mutex of a wait is held by the caller, and in no delete either.     *)
LEMMA CallWaitStep ==
  ASSUME FwkInv, ~Overlap, NEW c \in Callers, NEW s \in Table("cond"),
         NEW m \in Table("mutex"), NEW t \in Limits, CallWait(c, s, m, t)
  PROVE  CallsInv' /\ CallsTyped'
<1>1. /\ MayUse(c, s) /\ holder[m] = c /\ UNCHANGED <<used, obj>>
      /\ \A d \in Callers : ~In(d, m, Deleting)
      /\ mid' = [mid EXCEPT ![c] = m]
  BY DEF CallWait
<1>2. PICK l \in {"asleep", "nap"} : Call(c, l, s)
  BY DEF CallWait
<1>3. s \in Slots /\ m \in Slots /\ s # NoSlot /\ m # NoSlot
  BY SlotsOfKinds DEF Kinds
<1>4. /\ used[s] /\ obj[s] = "ready" /\ pc[c] = "idle"
      /\ \A d \in Callers : pc[d] \in Ends => at[d] # s
  BY <1>1, <1>3, UsableIsReady
<1>5. /\ used[m] /\ obj[m] = "ready"
      /\ \A d \in Callers : pc[d] \in Ends => at[d] # m
  <2>1. c # Nobody
    BY FwkAssumption
  <2> QED
    BY <1>1, <2>1 DEF FwkInv, HoldInv, In, Deleting, Ends
<1>6. OnlyMoves(c) /\ CallsTyped' /\ pc'[c] = l /\ at'[c] = s /\ mid'[c] = m
  <2>1. l \in Labels
    BY DEF Labels, Uses, Sleeps
  <2> QED
    BY <1>1, <1>2, <1>3, <2>1 DEF FwkInv, CallsTyped, Call, OnlyMoves
<1>7. Placed(c)'
  BY <1>3, <1>6 DEF Placed, Sleeps
<1>8. pc'[c] \in Uses
  BY <1>6 DEF Uses, Sleeps
<1> QED
  BY <1>1, <1>3, <1>4, <1>5, <1>6, <1>7, <1>8, UseBegins

(* A sleeper that is woken, by whomever, stays where it is.                *)
LEMMA WakeStep ==
  ASSUME FwkInv, NEW c \in Callers, pc[c] \in {"asleep", "nap"}, Goto(c, "relock"),
         UNCHANGED tables
  PROVE  CallsInv' /\ CallsTyped'
<1>1. UNCHANGED <<used, obj>>
  BY DEF tables
<1>2. /\ OnlyMoves(c) /\ CallsTyped'
      /\ pc'[c] = "relock" /\ at'[c] = at[c] /\ mid'[c] = mid[c]
  BY GoesTo DEF Goto, FwkInv, Labels, Uses, Sleeps
<1>3. Placed(c)' /\ Knows(c)'
  <2>1. Placed(c) /\ Knows(c)
    BY DEF FwkInv, CallsInv
  <2>2. Placed(c)'
    BY <1>2, <2>1 DEF Placed, Sleeps
  <2>3. Knows(c)'
    BY <1>1, <1>2, <2>1 DEF Knows, Makes, Ends, Uses, Sleeps
  <2> QED
    BY <2>2, <2>3
<1>4. ASSUME NEW d \in Callers, d # c PROVE Apart(c, d)' /\ Apart(d, c)'
  <2>1. pc'[d] = pc[d] /\ at'[d] = at[d] /\ mid'[d] = mid[d] /\ Apart(c, d)
    BY <1>2, <1>4 DEF OnlyMoves, FwkInv, CallsInv
  <2> QED
    BY <1>2, <2>1 DEF Apart, Creating, Ends
<1> QED
  BY <1>1, <1>2, <1>3, <1>4, CallMoves DEF FwkInv

LEMMA CallStays ==
  ASSUME FwkInv, UNCHANGED <<used, obj, pc, at, mid>>
  PROVE  CallsInv' /\ CallsTyped'
<1>1. UsedIsReady'
  BY DEF FwkInv, CallsInv, UsedIsReady, In
<1>2. ASSUME NEW c \in Callers PROVE Placed(c)' /\ Knows(c)'
  BY DEF FwkInv, CallsInv, Placed, Knows
<1>3. ASSUME NEW c \in Callers, NEW d \in Callers, c # d PROVE Apart(c, d)'
  BY <1>3 DEF FwkInv, CallsInv, Apart
<1> QED
  BY <1>1, <1>2, <1>3 DEF FwkInv, CallsInv, CallsTyped

LEMMA CallsStep == FwkInv /\ ~Overlap /\ [Next]_vars => CallsInv' /\ CallsTyped'
<1> SUFFICES ASSUME FwkInv, ~Overlap, [Next]_vars PROVE CallsInv' /\ CallsTyped'
  OBVIOUS
<1>1. ASSUME NEW c \in Callers, Calls(c) PROVE CallsInv' /\ CallsTyped'
  <2>1. CASE \E k \in Kinds : CallCreate(c, k)
    BY <2>1, CallCreateStep
  <2>2. CASE \E s \in Slots : CallDelete(c, s)
    BY <2>2, CallDeleteStep
  <2>3. ASSUME NEW m \in Table("mutex"),
               Unlock(c, m) \/ \E t \in Limits : CallLock(c, m, t)
        PROVE  CallsInv' /\ CallsTyped'
    <3>1. m \in Slots
      BY SlotsOfKinds DEF Kinds
    <3>2. CASE Unlock(c, m)
      BY <3>2, CallStays DEF Unlock
    <3> QED
      BY <2>3, <3>1, <3>2, CallLockOrTakeStep
  <2>4. ASSUME NEW s \in Table("cond"), Wakeup(c, s)
        PROVE  CallsInv' /\ CallsTyped'
    BY <2>4, WakeStep DEF Wakeup, In
  <2>5. ASSUME NEW s \in Table("cond"), NEW m \in Table("mutex"), NEW t \in Limits,
               CallWait(c, s, m, t)
        PROVE  CallsInv' /\ CallsTyped'
    BY <2>5, CallWaitStep
  <2>6. ASSUME NEW s \in Table("sema"), Give(c, s) \/ \E t \in Limits : CallTake(c, s, t)
        PROVE  CallsInv' /\ CallsTyped'
    <3>1. s \in Slots
      BY SlotsOfKinds DEF Kinds
    <3>2. CASE Give(c, s)
      BY <3>2, CallStays DEF Give
    <3> QED
      BY <2>6, <3>1, <3>2, CallLockOrTakeStep
  <2> QED
    BY <1>1, <2>1, <2>2, <2>3, <2>4, <2>5, <2>6 DEF Calls
<1>2. ASSUME NEW c \in Callers, Steps(c) PROVE CallsInv' /\ CallsTyped'
  <2>1. CASE LockGets(c) \/ LockFails(c) \/ Relock(c) \/ TakeGets(c) \/ TakeFails(c)
    BY <2>1, ReturnStep, ReturnGoes
       DEF FwkInv, LockGets, LockFails, Relock, TakeGets, TakeFails, tables
  <2>2. CASE TimeOut(c)
    BY <2>2, WakeStep DEF TimeOut
  <2>3. CASE Poll(c)
    BY <2>3, CallStays DEF Poll, tables
  <2> QED
    BY <1>2, <2>1, <2>2, <2>3, ScanNextStep, ScanHitStep, ClearStep, PublishStep,
       InitStep, LoadCountStep, StoreCountStep, DeleteLockStep, DestroyStep, FreeStep
       DEF Steps
<1>3. ASSUME NEW c \in Callers, SpuriousWake(c) PROVE CallsInv' /\ CallsTyped'
  BY <1>3, WakeStep DEF SpuriousWake
<1>4. CASE UNCHANGED vars
  BY <1>4, CallStays DEF vars, tables
<1> QED
  BY <1>1, <1>2, <1>3, <1>4 DEF Next

-----------------------------------------------------------------------------
(* Who holds the mutexes.                                                  *)

Unlocked == {"dunlock", "destroy", "free"}

LEMMA TypesStep == FwkInv /\ [Next]_vars => TablesTyped'
<1> SUFFICES ASSUME FwkInv, [Next]_vars PROVE TablesTyped'
  OBVIOUS
<1>1. ASSUME NEW c \in Callers, Calls(c) PROVE TablesTyped'
  BY <1>1 DEF Calls, CallCreate, CallDelete, Unlock, CallLock, Wakeup, CallWait, Give,
              CallTake, FwkInv, TablesTyped, tables
<1>2. ASSUME NEW c \in Callers, Steps(c) PROVE TablesTyped'
  <2>1. CASE UNCHANGED <<used, obj, holder>>
    BY <2>1 DEF FwkInv, TablesTyped
  <2>2. CASE Clear(c) \/ InitMutex(c) \/ InitCond(c) \/ InitSema(c) \/ Publish(c)
    <3>1. TablesTyped
      BY DEF FwkInv
    <3>2. CASE Clear(c)
      BY <3>1, <3>2 DEF Clear, TablesTyped
    <3>3. CASE InitMutex(c) \/ InitCond(c)
      BY <3>1, <3>3 DEF InitMutex, InitCond, TablesTyped
    <3>4. CASE InitSema(c)
      BY <3>1, <3>4 DEF InitSema, TablesTyped
    <3>5. CASE Publish(c)
      BY <3>1, <3>5 DEF Publish, TablesTyped
    <3> QED
      BY <2>2, <3>2, <3>3, <3>4, <3>5
  <2>3. CASE DeleteLock(c) \/ DeleteUnlock(c) \/ Destroy(c) \/ Free(c)
    BY <2>3 DEF DeleteLock, DeleteUnlock, Destroy, Free, FwkInv, TablesTyped
  <2>4. CASE LockGets(c) \/ Relock(c)
    BY <2>4 DEF LockGets, Relock, FwkInv, TablesTyped
  <2> QED
    BY <1>2, <2>1, <2>2, <2>3, <2>4
       DEF Steps, ScanNext, ScanHit, LoadCount, StoreCount, LockFails, TimeOut,
           TakeGets, TakeFails, Poll, tables
<1>3. ASSUME NEW c \in Callers, SpuriousWake(c) PROVE TablesTyped'
  BY <1>3 DEF SpuriousWake, FwkInv, TablesTyped, tables
<1>4. CASE UNCHANGED vars
  BY <1>4 DEF vars, FwkInv, TablesTyped, tables
<1> QED
  BY <1>1, <1>2, <1>3, <1>4 DEF Next

(* A step that changes no mutex of a delete but that of c itself.          *)
LEMMA HoldFrame ==
  ASSUME FwkInv, NEW c \in Callers, OnlyMoves(c), Unlocks(c)',
         \A m \in Table("mutex") :
           holder'[m] # Nobody => used'[m] /\ obj'[m] = "ready",
         \A d \in Callers : d # c /\ pc[d] \in Unlocked /\ at[d] \in Table("mutex")
           => holder'[at[d]] = holder[at[d]]
  PROVE  HoldInv'
<1>1. ASSUME NEW d \in Callers, d # c PROVE Unlocks(d)'
  <2>1. pc'[d] = pc[d] /\ at'[d] = at[d] /\ Unlocks(d) /\ Placed(d)
    BY <1>1 DEF OnlyMoves, FwkInv, HoldInv, CallsInv
  <2>2. pc[d] = "dunlock" => at[d] \in Table("mutex")
    BY <2>1 DEF Placed
  <2> QED
    BY <1>1, <2>1, <2>2 DEF Unlocks, Unlocked
<1> QED
  BY <1>1 DEF HoldInv

LEMMA HoldStays ==
  ASSUME FwkInv, NEW c \in Callers, OnlyMoves(c), UNCHANGED <<used, obj, holder>>,
         pc'[c] \notin Unlocked \/ at'[c] \notin Table("mutex"), Placed(c)'
  PROVE  HoldInv'
<1>1. Unlocks(c)'
  BY DEF Unlocks, Unlocked, Placed
<1> QED
  BY <1>1, HoldFrame DEF FwkInv, HoldInv

(* A step in which c takes or gives up mutex m and no mutex else changes.  *)
LEMMA HoldChanges ==
  ASSUME FwkInv, NEW c \in Callers, OnlyMoves(c), UNCHANGED <<used, obj>>,
         NEW m \in Table("mutex"), NEW x \in {c, Nobody},
         holder' = [holder EXCEPT ![m] = x],
         x = c => used[m] /\ obj[m] = "ready",
         \A d \in Callers : d # c /\ pc[d] \in Unlocked /\ at[d] = m => holder[m] = x,
         Unlocks(c)'
  PROVE  HoldInv'
<1>1. holder'[m] = x /\ \A n \in Table("mutex") : n # m => holder'[n] = holder[n]
  BY DEF FwkInv, TablesTyped
<1>2. ASSUME NEW n \in Table("mutex"), holder'[n] # Nobody
      PROVE  used'[n] /\ obj'[n] = "ready"
  BY <1>1, <1>2 DEF FwkInv, HoldInv
<1>3. ASSUME NEW d \in Callers, d # c, pc[d] \in Unlocked, at[d] \in Table("mutex")
      PROVE  holder'[at[d]] = holder[at[d]]
  BY <1>1, <1>3
<1> QED
  BY <1>2, <1>3, HoldFrame

(* A step of a create or a delete whose mutex, if it is one, is not held.  *)
LEMMA HoldOfSlot ==
  ASSUME FwkInv, NEW c \in Callers, OnlyMoves(c), pc[c] \in Makes \cup Ends,
         \A s \in Slots : s # at[c] => used'[s] = used[s] /\ obj'[s] = obj[s],
         \A m \in Table("mutex") :
           IF m = at[c] THEN holder'[m] = Nobody ELSE holder'[m] = holder[m],
         Placed(c)', pc'[c] \in Unlocked => at'[c] = at[c] /\ pc'[c] # "dunlock"
  PROVE  HoldInv'
<1>1. Unlocks(c)'
  BY DEF Unlocks, Unlocked
<1>2. ASSUME NEW m \in Table("mutex"), holder'[m] # Nobody
      PROVE  used'[m] /\ obj'[m] = "ready"
  <2>1. m \in Slots /\ m # at[c] /\ holder[m] # Nobody
    BY <1>2, SlotsOfKinds DEF Kinds
  <2> QED
    BY <2>1 DEF FwkInv, HoldInv
<1>3. ASSUME NEW d \in Callers, d # c, pc[d] \in Unlocked, at[d] \in Table("mutex")
      PROVE  holder'[at[d]] = holder[at[d]]
  <2>1. at[d] # at[c]
    BY <1>3, Elsewhere DEF FwkInv, Unlocked, Ends
  <2> QED
    BY <1>3, <2>1
<1> QED
  BY <1>1, <1>2, <1>3, HoldFrame

LEMMA GotoMoves == ASSUME CallsTyped, NEW c \in Callers, NEW l, Goto(c, l)
                   PROVE  OnlyMoves(c) /\ pc'[c] = l /\ at'[c] = at[c] /\ mid'[c] = mid[c]
BY DEF Goto, CallsTyped, OnlyMoves

LEMMA HoldOfMakes ==
  ASSUME FwkInv, CallsInv', NEW c \in Callers,
         Clear(c) \/ InitMutex(c) \/ InitCond(c) \/ InitSema(c) \/ Publish(c)
  PROVE  HoldInv'
<1>1. pc[c] \in Makes
  BY DEF Clear, InitMutex, InitCond, InitSema, Publish, Makes
<1>2. at[c] \in Slots /\ ~used[at[c]]
  BY <1>1, Making
<1>3. \E l \in {"init", "publish", "inc"} : Goto(c, l) \/ Return(c)
  BY DEF Clear, InitMutex, InitCond, InitSema, Publish
<1>4. OnlyMoves(c) /\ pc'[c] \notin Unlocked /\ Placed(c)'
  BY <1>3, GotoMoves, ReturnGoes DEF FwkInv, Unlocked, CallsInv
<1>5. \A s \in Slots : s # at[c] => used'[s] = used[s] /\ obj'[s] = obj[s]
  BY DEF Clear, InitMutex, InitCond, InitSema, Publish, FwkInv, TablesTyped
<1>6. \A m \in Table("mutex") : m = at[c] => holder[m] = Nobody
  BY <1>2 DEF FwkInv, HoldInv
<1>7. \A m \in Table("mutex") : holder'[m] = holder[m] \/ (m = at[c] /\ holder'[m] = Nobody)
  BY DEF Clear, InitMutex, InitCond, InitSema, Publish, FwkInv, TablesTyped
<1> QED
  BY <1>1, <1>4, <1>5, <1>6, <1>7, HoldOfSlot

LEMMA HoldOfDeletes ==
  ASSUME FwkInv, CallsInv', NEW c \in Callers,
         DeleteLock(c) \/ DeleteUnlock(c) \/ Destroy(c) \/ Free(c)
  PROVE  HoldInv'
<1>1. pc[c] \in Ends /\ Placed(c) /\ Placed(c)' /\ Unlocks(c)
  BY DEF DeleteLock, DeleteUnlock, Destroy, Free, Ends, FwkInv, CallsInv, HoldInv
<1>2. ASSUME NEW d \in Callers, d # c, pc[d] \in Unlocked PROVE at[d] # at[c]
  BY <1>1, <1>2, Elsewhere DEF FwkInv, Unlocked, Ends
<1>3. CASE DeleteLock(c)
  <2>1. used[at[c]] /\ obj[at[c]] = "ready"
    BY <1>3, EndingIsReady DEF DeleteLock, Ends
  <2>2. /\ Goto(c, "dunlock") /\ holder' = [holder EXCEPT ![at[c]] = c]
        /\ at[c] \in Table("mutex") /\ UNCHANGED <<used, obj>>
    BY <1>1, <1>3, <2>1 DEF DeleteLock, Placed
  <2>3. OnlyMoves(c) /\ pc'[c] = "dunlock" /\ at'[c] = at[c]
    BY <2>2, GotoMoves DEF FwkInv
  <2>4. Unlocks(c)'
    BY <2>2, <2>3 DEF Unlocks, FwkInv, TablesTyped
  <2> QED
    BY <1>2, <2>1, <2>2, <2>3, <2>4, HoldChanges
<1>4. CASE DeleteUnlock(c)
  <2>1. /\ Goto(c, "destroy") /\ holder' = [holder EXCEPT ![at[c]] = Nobody]
        /\ at[c] \in Table("mutex") /\ UNCHANGED <<used, obj>>
    BY <1>1, <1>4 DEF DeleteUnlock, Placed
  <2>2. OnlyMoves(c) /\ pc'[c] = "destroy" /\ at'[c] = at[c]
    BY <2>1, GotoMoves DEF FwkInv
  <2>3. Unlocks(c)'
    BY <2>1, <2>2 DEF Unlocks, FwkInv, TablesTyped
  <2>4. c # Nobody
    BY FwkAssumption
  <2> QED
    BY <1>2, <2>1, <2>2, <2>3, <2>4, HoldChanges
<1>5. CASE Destroy(c) \/ Free(c)
  <2>1. pc[c] \in {"destroy", "free"} /\ UNCHANGED holder
    BY <1>5 DEF Destroy, Free
  <2>2. \A m \in Table("mutex") : m = at[c] => holder[m] = Nobody
    BY <1>1, <2>1 DEF Unlocks
  <2>3. \A s \in Slots : s # at[c] => used'[s] = used[s] /\ obj'[s] = obj[s]
    BY <1>5 DEF Destroy, Free, FwkInv, TablesTyped
  <2>4. Return(c) \/ \E l \in {"free", "dec"} : Goto(c, l)
    BY <1>5 DEF Destroy, Free
  <2>5. OnlyMoves(c) /\ (pc'[c] \in Unlocked => at'[c] = at[c] /\ pc'[c] # "dunlock")
    BY <2>4, GotoMoves, ReturnGoes DEF FwkInv, Unlocked
  <2> QED
    BY <1>1, <2>1, <2>2, <2>3, <2>5, HoldOfSlot
<1> QED
  BY <1>3, <1>4, <1>5

LEMMA HoldOfLocks ==
  ASSUME FwkInv, NEW c \in Callers, LockGets(c) \/ Relock(c)
  PROVE  HoldInv'
<1> DEFINE m == IF LockGets(c) THEN at[c] ELSE mid[c]
<1>1. /\ Return(c) /\ UNCHANGED <<used, obj>>
      /\ holder' = [holder EXCEPT ![m] = c]
      /\ IF LockGets(c) THEN pc[c] \in {"lock", "trylock"} ELSE pc[c] = "relock"
  BY DEF LockGets, Relock
<1>2. m \in Table("mutex") /\ m \in {at[c], mid[c]} /\ pc[c] \in Uses
  BY <1>1, Whereabouts DEF FwkInv, CallsInv, Placed, Uses, Sleeps
<1> HIDE DEF m
<1>3. m \in Slots
  BY <1>2, SlotsOfKinds DEF Kinds
<1>4. used[m] /\ obj[m] = "ready"
  BY <1>2, <1>3 DEF FwkInv, CallsInv, Knows
<1>5. ASSUME NEW d \in Callers, d # c, pc[d] \in Unlocked PROVE at[d] # m
  <2>1. Apart(c, d)
    BY <1>5 DEF FwkInv, CallsInv
  <2> QED
    BY <1>2, <1>5, <2>1 DEF Apart, Uses, Sleeps, Unlocked, Ends
<1>6. OnlyMoves(c) /\ Unlocks(c)'
  BY <1>1, ReturnGoes DEF FwkInv, Unlocks
<1> QED
  BY <1>1, <1>2, <1>4, <1>5, <1>6, HoldChanges

(* Whoever holds a mutex is in no delete, and may give it up.              *)
LEMMA HoldOfUnlock ==
  ASSUME FwkInv, NEW c \in Callers, NEW m \in Table("mutex"),
         Unlock(c, m) \/ \E s \in Table("cond"), t \in Limits : CallWait(c, s, m, t)
  PROVE  HoldInv'
<1>1. /\ pc[c] = "idle" /\ holder[m] = c /\ UNCHANGED <<used, obj>>
      /\ holder' = [holder EXCEPT ![m] = Nobody]
  BY DEF Unlock, CallWait, MayUse
<1>2. OnlyMoves(c) /\ pc'[c] \notin Unlocked
  <2>1. CASE Unlock(c, m)
    BY <1>1, <2>1 DEF Unlock, OnlyMoves, Unlocked
  <2>2. ASSUME NEW s \in Table("cond"), NEW t \in Limits, CallWait(c, s, m, t)
        PROVE  OnlyMoves(c) /\ pc'[c] \notin Unlocked
    BY <2>2 DEF CallWait, Call, FwkInv, CallsTyped, OnlyMoves, Unlocked
  <2> QED
    BY <2>1, <2>2
<1>3. ASSUME NEW d \in Callers, d # c, pc[d] \in Unlocked, at[d] = m PROVE FALSE
  <2>1. holder[m] \in {d, Nobody}
    BY <1>3 DEF FwkInv, HoldInv, Unlocks, Unlocked
  <2> QED
    BY <1>1, <1>3, <2>1, FwkAssumption
<1>4. Unlocks(c)'
  BY <1>2 DEF Unlocks, Unlocked
<1> QED
  BY <1>1, <1>2, <1>3, <1>4, HoldChanges, FwkAssumption

LEMMA HoldStep == FwkInv /\ ~Overlap /\ [Next]_vars => HoldInv'
<1> SUFFICES ASSUME FwkInv, ~Overlap, [Next]_vars PROVE HoldInv'
  OBVIOUS
<1>1. CallsInv' /\ \A c \in Callers : Placed(c)'
  BY CallsStep DEF CallsInv
<1>2. ASSUME NEW c \in Callers, Calls(c) PROVE HoldInv'
  <2>1. CASE \E k \in Kinds : CallCreate(c, k)
    <3>1. /\ UNCHANGED <<used, obj, holder>> /\ OnlyMoves(c) /\ pc'[c] = "scan"
      BY <2>1 DEF CallCreate, Call, tables, OnlyMoves, FwkInv, CallsTyped
    <3> QED
      BY <1>1, <3>1, HoldStays DEF Unlocked
  <2>2. ASSUME NEW s \in Slots, CallDelete(c, s) PROVE HoldInv'
    <3>1. /\ UNCHANGED <<used, obj, holder>> /\ OnlyMoves(c) /\ at'[c] = s
          /\ pc'[c] = IF s[1] = "mutex" THEN "dlock" ELSE "destroy"
      BY <2>2 DEF CallDelete, Call, tables, OnlyMoves, FwkInv, CallsTyped
    <3>2. s[1] = "mutex" \/ s \notin Table("mutex")
      BY SlotsOfKinds DEF Kinds
    <3> QED
      BY <1>1, <3>1, <3>2, HoldStays DEF Unlocked
  <2>3. ASSUME NEW s \in Slots, NEW t \in Limits, CallLock(c, s, t) \/ CallTake(c, s, t)
        PROVE  HoldInv'
    <3>1. /\ UNCHANGED <<used, obj, holder>> /\ OnlyMoves(c)
          /\ pc'[c] \in {"lock", "trylock", "take", "trytake", "poll"}
      BY <2>3 DEF CallLock, CallTake, Call, tables, OnlyMoves, FwkInv, CallsTyped
    <3> QED
      BY <1>1, <3>1, HoldStays DEF Unlocked
  <2>4. ASSUME NEW s \in Table("cond"), Wakeup(c, s) PROVE HoldInv'
    <3>1. PICK d \in Callers : Goto(d, "relock")
      BY <2>4 DEF Wakeup
    <3>2. UNCHANGED <<used, obj, holder>>
      BY <2>4 DEF Wakeup, tables
    <3> QED
      BY <1>1, <3>1, <3>2, GotoMoves, HoldStays DEF Unlocked, FwkInv
  <2>5. ASSUME NEW s \in Table("sema"), Give(c, s) PROVE HoldInv'
    <3>1. UNCHANGED <<used, obj, holder, pc, at, mid>>
      BY <2>5 DEF Give
    <3> QED
      BY <3>1 DEF FwkInv, HoldInv, Unlocks
  <2>6. Table("mutex") \subseteq Slots /\ Table("sema") \subseteq Slots
    BY SlotsOfKinds DEF Kinds
  <2> QED
    BY <1>2, <2>1, <2>2, <2>3, <2>4, <2>5, <2>6, HoldOfUnlock DEF Calls
<1>3. ASSUME NEW c \in Callers, Steps(c) PROVE HoldInv'
  <2>1. CASE ScanNext(c) \/ ScanHit(c) \/ StoreCount(c) \/ LockFails(c) \/ TimeOut(c)
             \/ TakeGets(c) \/ TakeFails(c)
    <3>1. UNCHANGED <<used, obj, holder>>
      BY <2>1 DEF ScanNext, ScanHit, StoreCount, LockFails, TimeOut, TakeGets,
                  TakeFails, tables
    <3>2. CASE \E l \in {"clear", "relock"} : Goto(c, l)
      BY <1>1, <3>1, <3>2, GotoMoves, HoldStays DEF Unlocked, FwkInv
    <3>3. CASE Return(c)
      BY <1>1, <3>1, <3>3, ReturnGoes, HoldStays DEF Unlocked, FwkInv
    <3>4. CASE ScanNext(c) /\ ~Return(c)
      <4>1. pc'[c] = "scan" /\ OnlyMoves(c)
        BY <3>4 DEF ScanNext, OnlyMoves, FwkInv, CallsTyped
      <4> QED
        BY <1>1, <3>1, <4>1, HoldStays DEF Unlocked
    <3> QED
      BY <2>1, <3>2, <3>3, <3>4
         DEF ScanHit, StoreCount, LockFails, TimeOut, TakeGets, TakeFails
  <2>2. CASE LoadCount(c) \/ Poll(c)
    <3>1. /\ UNCHANGED <<used, obj, holder>> /\ OnlyMoves(c)
          /\ pc'[c] \in {"incStore", "decStore", "poll"}
      BY <2>2 DEF LoadCount, Poll, tables, OnlyMoves, FwkInv, CallsTyped
    <3> QED
      BY <1>1, <3>1, HoldStays DEF Unlocked
  <2> QED
    BY <1>1, <1>3, <2>1, <2>2, HoldOfMakes, HoldOfDeletes, HoldOfLocks DEF Steps
<1>4. ASSUME NEW c \in Callers, SpuriousWake(c) PROVE HoldInv'
  <2>1. Goto(c, "relock") /\ UNCHANGED <<used, obj, holder>>
    BY <1>4 DEF SpuriousWake, tables
  <2> QED
    BY <1>1, <2>1, GotoMoves, HoldStays DEF Unlocked, FwkInv
<1>5. CASE UNCHANGED vars
  BY <1>5 DEF vars, tables, FwkInv, HoldInv, Unlocks
<1> QED
  BY <1>2, <1>3, <1>4, <1>5 DEF Next

-----------------------------------------------------------------------------
LEMMA FwkInitial == Init => FwkInv
<1> SUFFICES ASSUME Init PROVE FwkInv
  OBVIOUS
<1>1. TablesTyped /\ CallsTyped
  BY DEF Init, TablesTyped, CallsTyped, Labels
<1>2. CallsInv
  <2>1. \A c \in Callers : pc[c] = "idle" /\ at[c] = NoSlot /\ mid[c] = NoSlot
    BY DEF Init
  <2>2. \A s \in Slots : ~used[s]
    BY DEF Init
  <2> QED
    BY <2>1, <2>2 DEF CallsInv, Placed, Knows, Apart, UsedIsReady, Creating, Makes,
                      Ends, Uses, Sleeps
<1>3. HoldInv
  BY DEF Init, HoldInv, Unlocks
<1> QED
  BY <1>1, <1>2, <1>3 DEF FwkInv

LEMMA FwkInvariant == ASSUME ~Overlap PROVE Spec => []FwkInv
<1>1. FwkInv /\ [Next]_vars => FwkInv'
  BY CallsStep, TypesStep, HoldStep DEF FwkInv
<1> QED
  BY <1>1, FwkInitial, PTL DEF Spec

(* Nobody holds a mutex, sleeps on a condition or waits for a semaphore    *)
(* that is not initialised or not in use: the unlocked scans and deletes   *)
(* of the three tables are safe if creates of one kind do not overlap and  *)
(* no delete overlaps a call on its slot.                                  *)
THEOREM NothingTornDown == ASSUME ~Overlap PROVE Spec => []HeldIsReady
<1>1. FwkInv => HeldIsReady
  BY DEF FwkInv, CallsInv, HoldInv, HeldIsReady, Knows, In, Uses, Sleeps
<1> QED
  BY <1>1, FwkInvariant, PTL

(* A slot in use holds an initialised object until its delete frees it.    *)
THEOREM UsedStaysReady == ASSUME ~Overlap PROVE Spec => []UsedIsReady
<1>1. FwkInv => UsedIsReady
  BY DEF FwkInv, CallsInv
<1> QED
  BY <1>1, FwkInvariant, PTL

(* No two creates are given one slot.                                      *)
THEOREM SlotsAreOwn == ASSUME ~Overlap PROVE Spec => []OwnSlot
<1>1. FwkInv => OwnSlot
  BY DEF FwkInv, CallsInv, Apart, OwnSlot
<1> QED
  BY <1>1, FwkInvariant, PTL
=============================================================================
