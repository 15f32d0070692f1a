--------------------------- MODULE OsixSemProofs ----------------------------
(***************************************************************************)
(* Proofs about OsixSem, for any number of callers, names and slots, when  *)
(* creates and deletes of a name overlap no other call on it and callers   *)
(* give create a variable of their own: the table keeps one slot for each  *)
(* name, and the named counters of NamedSems are what it implements.       *)
(***************************************************************************)
EXTENDS OsixSem, FiniteSetTheorems, WellFoundedInduction, TLAPS

(* The first slot of a scan is one that matches.                           *)
LEMMA FirstMatches ==
  ASSUME NEW n, Holding(n) # {}
  PROVE  /\ Min(Holding(n)) \in Slots
         /\ name[Min(Holding(n))] = n
<1>1. Holding(n) \subseteq Nat
  BY SemAssumption DEF Holding, Slots
<1>2. \E x \in Holding(n) : \A y \in Holding(n) : ~(<<y, x>> \in OpToRel(<, Nat))
  BY <1>1, NatLessThanWellFounded, WFMin
<1>3. PICK x \in Holding(n) : \A y \in Holding(n) : ~(<<y, x>> \in OpToRel(<, Nat))
  BY <1>2
<1>4. \A y \in Holding(n) : ~(y < x)
  <2> TAKE y \in Holding(n)
  <2>1. x \in Nat /\ y \in Nat
    BY <1>1
  <2> QED
    BY <1>3, <2>1 DEF OpToRel
<1>5. \A y \in Holding(n) : x =< y
  BY <1>1, <1>4
<1>6. Min(Holding(n)) \in Holding(n)
  BY <1>5 DEF Min
<1> QED
  BY <1>6 DEF Holding

(* How the callers are assumed to use the names.                           *)
Orderly == ~Overlap /\ ~KeepVar

-----------------------------------------------------------------------------
(* The inductive invariant.                                                *)

LEMMA EnterIInv ==
  ASSUME IInv, NEW c \in Callers, NEW n \in Names,
         NEW label \in {"del", "take", "give"}, Enter(c, n, label),
         ~Busy(n, {"del"}),
         label = "del" => ~Busy(n, {"init", "add", "del", "take", "give"})
  PROVE  IInv'
<1> USE DEF IInv
<1> DEFINE i == Min(Holding(n))
<1>1. i \in Slots /\ name[i] = n
  BY FirstMatches DEF Enter
<1> HIDE DEF i
<1>2. /\ pc[c] = "idle"
      /\ pc' = [pc EXCEPT ![c] = label]
      /\ want' = [want EXCEPT ![c] = n]
      /\ slot' = [slot EXCEPT ![c] = i]
      /\ UNCHANGED <<name, value, asked, ref>>
  BY DEF Enter, Goto, i
<1>3. TypeOK'
  BY <1>1, <1>2, SemAssumption DEF TypeOK
<1>4. UniqueNames'
  BY <1>2 DEF UniqueNames
<1>5. ActsOnNamed'
  BY <1>1, <1>2 DEF ActsOnNamed, TypeOK
<1>6. CreatesAlone'
  BY <1>2 DEF CreatesAlone, TypeOK, Holding
<1>7. DeletesAlone'
  <2> SUFFICES ASSUME NEW a \in Callers, NEW b \in Callers,
                      pc'[a] = "del", pc'[b] # "idle", want'[b] = want'[a]
               PROVE  b = a
    BY DEF DeletesAlone
  <2>1. CASE a # c /\ b # c
    BY <1>2, <2>1 DEF DeletesAlone, TypeOK
  <2>2. CASE a = c /\ b # c
    BY <1>2, <2>2 DEF Busy, TypeOK
  <2>3. CASE a # c /\ b = c
    BY <1>2, <2>3 DEF Busy, TypeOK
  <2> QED
    BY <2>1, <2>2, <2>3
<1> QED
  BY <1>3, <1>4, <1>5, <1>6, <1>7

(* A call that returns and leaves the table of names alone.                *)
LEMMA ReturnIInv ==
  ASSUME IInv, NEW c \in Callers, Return(c), UNCHANGED <<name, ref>>,
         value' \in [Slots -> 0..SemMax]
  PROVE  IInv'
<1> USE DEF IInv
<1>1. /\ pc' = [pc EXCEPT ![c] = "idle"]
      /\ want' = [want EXCEPT ![c] = NoName]
      /\ slot' = [slot EXCEPT ![c] = 1]
      /\ asked' = [asked EXCEPT ![c] = 0]
  BY DEF Return, Goto
<1>2. 1 \in Slots
  BY SemAssumption DEF Slots
<1>3. TypeOK'
  BY <1>1, <1>2 DEF TypeOK
<1>4. UniqueNames'
  BY DEF UniqueNames
<1>5. ActsOnNamed' /\ DeletesAlone'
  BY <1>1 DEF ActsOnNamed, DeletesAlone, TypeOK
<1>6. CreatesAlone'
  BY <1>1 DEF CreatesAlone, TypeOK, Holding
<1> QED
  BY <1>3, <1>4, <1>5, <1>6

LEMMA CreateFindIInv ==
  ASSUME Orderly, IInv, NEW c \in Callers, NEW n \in Names, NEW k \in Counts,
         CreateFind(c, n, k)
  PROVE  IInv'
<1> USE DEF IInv
<1>1. /\ pc[c] = "idle" /\ Holding(n) = {}
      /\ ~Busy(n, {"init", "add", "del"})
      /\ pc' = [pc EXCEPT ![c] = "init"]
      /\ want' = [want EXCEPT ![c] = n]
      /\ asked' = [asked EXCEPT ![c] = k]
      /\ UNCHANGED <<name, value, slot, ref>>
  BY DEF CreateFind, Orderly, Goto
<1>2. TypeOK'
  BY <1>1, SemAssumption DEF TypeOK
<1>3. UniqueNames'
  BY <1>1 DEF UniqueNames
<1>4. ActsOnNamed'
  BY <1>1 DEF ActsOnNamed, TypeOK
<1>5. CreatesAlone'
  BY <1>1 DEF CreatesAlone, TypeOK, Holding, Busy
<1>6. DeletesAlone'
  BY <1>1 DEF DeletesAlone, TypeOK, Busy
<1> QED
  BY <1>2, <1>3, <1>4, <1>5, <1>6

LEMMA CreateInitIInv ==
  ASSUME Orderly, IInv, NEW c \in Callers, CreateInit(c)
  PROVE  IInv' /\ value' = value
<1> USE DEF IInv
<1>1. /\ pc[c] = "init" /\ pc' = [pc EXCEPT ![c] = "add"]
      /\ UNCHANGED <<name, value, want, slot, asked, ref>>
  BY DEF CreateInit, Orderly, Goto, TypeOK
<1>2. TypeOK'
  BY <1>1 DEF TypeOK
<1>3. UniqueNames'
  BY <1>1 DEF UniqueNames
<1>4. ActsOnNamed' /\ DeletesAlone'
  BY <1>1 DEF ActsOnNamed, DeletesAlone, TypeOK
<1>5. CreatesAlone'
  BY <1>1 DEF CreatesAlone, TypeOK, Holding
<1> QED
  BY <1>1, <1>2, <1>3, <1>4, <1>5

LEMMA CreateAddIInv ==
  ASSUME IInv, NEW c \in Callers, CreateAdd(c)
  PROVE  IInv'
<1> USE DEF IInv
<1> DEFINE i == Min(Holding(NoName))
<1>1. i \in Slots /\ name[i] = NoName
  BY FirstMatches DEF CreateAdd
<1> HIDE DEF i
<1>2. /\ pc[c] = "add" /\ Return(c)
      /\ name' = [name EXCEPT ![i] = want[c]]
      /\ value' = [value EXCEPT ![i] = 0]
      /\ ref' = ref
  BY DEF CreateAdd, i
<1>3. /\ pc' = [pc EXCEPT ![c] = "idle"]
      /\ want' = [want EXCEPT ![c] = NoName]
      /\ slot' = [slot EXCEPT ![c] = 1]
      /\ asked' = [asked EXCEPT ![c] = 0]
  BY <1>2 DEF Return, Goto
<1>4. want[c] \in Names /\ Holding(want[c]) = {}
  BY <1>2 DEF TypeOK, CreatesAlone
<1>5. TypeOK'
  <2>1. 1 \in Slots /\ 0 \in 0..SemMax
    BY SemAssumption DEF Slots
  <2> QED
    BY <1>1, <1>2, <1>3, <1>4, <2>1 DEF TypeOK
<1>6. UniqueNames'
  BY <1>1, <1>2, <1>4 DEF UniqueNames, TypeOK, Holding
<1>7. ActsOnNamed'
  BY <1>1, <1>2, <1>3 DEF ActsOnNamed, TypeOK
<1>8. CreatesAlone'
  BY <1>1, <1>2, <1>3 DEF CreatesAlone, TypeOK, Holding
<1>9. DeletesAlone'
  BY <1>3 DEF DeletesAlone, TypeOK
<1> QED
  BY <1>5, <1>6, <1>7, <1>8, <1>9

LEMMA DeleteFreeIInv ==
  ASSUME IInv, NEW c \in Callers, DeleteFree(c)
  PROVE  IInv'
<1> USE DEF IInv
<1>1. /\ pc[c] = "del" /\ Return(c)
      /\ name' = [name EXCEPT ![slot[c]] = NoName]
      /\ UNCHANGED <<value, ref>>
  BY DEF DeleteFree
<1>2. /\ pc' = [pc EXCEPT ![c] = "idle"]
      /\ want' = [want EXCEPT ![c] = NoName]
      /\ slot' = [slot EXCEPT ![c] = 1]
      /\ asked' = [asked EXCEPT ![c] = 0]
  BY <1>1 DEF Return, Goto
<1>3. slot[c] \in Slots /\ name[slot[c]] = want[c]
  BY <1>1 DEF TypeOK, ActsOnNamed
<1>4. TypeOK'
  <2>1. 1 \in Slots
    BY SemAssumption DEF Slots
  <2> QED
    BY <1>1, <1>2, <1>3, <2>1 DEF TypeOK
<1>5. UniqueNames'
  BY <1>1, <1>3 DEF UniqueNames, TypeOK
<1>6. ActsOnNamed'
  <2> SUFFICES ASSUME NEW d \in Callers, pc'[d] \in {"del", "take", "give"}
               PROVE  name'[slot'[d]] = want'[d]
    BY DEF ActsOnNamed
  <2>1. d # c /\ pc[d] = pc'[d] /\ slot'[d] = slot[d] /\ want'[d] = want[d]
    BY <1>2 DEF TypeOK
  <2>2. name[slot[d]] = want[d] /\ slot[d] \in Slots
    BY <2>1 DEF ActsOnNamed, TypeOK
  <2>3. slot[d] # slot[c]
    BY <1>1, <1>3, <2>1, <2>2 DEF DeletesAlone
  <2> QED
    BY <1>1, <2>1, <2>2, <2>3 DEF TypeOK
<1>7. CreatesAlone'
  BY <1>1, <1>2, <1>3 DEF CreatesAlone, TypeOK, Holding
<1>8. DeletesAlone'
  BY <1>2 DEF DeletesAlone, TypeOK
<1> QED
  BY <1>4, <1>5, <1>6, <1>7, <1>8

(* A caller with a variable of its own remembers nothing.                  *)
LEMMA TellNothing ==
  ASSUME Orderly, NEW c \in Callers, NEW n \in Names, CreateRefused(c, n) \/ GetSem(c, n)
  PROVE  UNCHANGED vars
BY DEF Orderly, CreateRefused, GetSem, Tell, vars

LEMMA TakeGiveTyped ==
  ASSUME TypeOK, NEW c \in Callers, TakeWait(c) \/ GivePost(c)
  PROVE  value' \in [Slots -> 0..SemMax]
BY SemAssumption DEF TypeOK, TakeWait, GivePost

LEMMA CreateFailsQuietly ==
  ASSUME Orderly, TypeOK, NEW c \in Callers, CreateInitFails(c)
  PROVE  UNCHANGED <<name, value, ref>>
BY DEF Orderly, TypeOK, CreateInitFails

LEMMA NextIInv ==
  ASSUME Orderly, IInv, [Next]_vars
  PROVE  IInv'
<1>1. ASSUME NEW c \in Callers, NEW n \in Names, Calls(c, n)
      PROVE  IInv'
  <2>1. CASE \E k \in Counts : CreateFind(c, n, k)
    BY <2>1, CreateFindIInv
  <2>2. CASE CreateRefused(c, n) \/ GetSem(c, n)
    BY <2>2, TellNothing
    DEF vars, IInv, TypeOK, UniqueNames, ActsOnNamed, CreatesAlone, DeletesAlone, Holding
  <2>3. CASE DeleteFind(c, n)
    <3>1. ~Busy(n, {"init", "add", "del", "take", "give"})
      BY <2>3 DEF DeleteFind, Orderly
    <3>2. ~Busy(n, {"del"})
      BY <3>1 DEF Busy
    <3> QED
      BY <2>3, <3>1, <3>2, EnterIInv DEF DeleteFind
  <2>4. CASE TakeFind(c, n)
    BY <2>4, EnterIInv DEF TakeFind, Orderly
  <2>5. CASE GiveFind(c, n)
    BY <2>5, EnterIInv DEF GiveFind, Orderly
  <2> QED
    BY <1>1, <2>1, <2>2, <2>3, <2>4, <2>5 DEF Calls
<1>2. ASSUME NEW c \in Callers, Steps(c)
      PROVE  IInv'
  <2>0. value \in [Slots -> 0..SemMax]
    BY DEF IInv, TypeOK
  <2>1. CASE CreateInit(c)
    BY <2>1, CreateInitIInv
  <2>2. CASE CreateInitFails(c)
    BY <2>0, <2>2, CreateFailsQuietly, ReturnIInv DEF CreateInitFails, IInv
  <2>3. CASE CreateAdd(c)
    BY <2>3, CreateAddIInv
  <2>4. CASE CreateFull(c) \/ TakeInterrupted(c)
    BY <2>0, <2>4, ReturnIInv DEF CreateFull, TakeInterrupted
  <2>5. CASE DeleteFree(c)
    BY <2>5, DeleteFreeIInv
  <2>6. CASE TakeWait(c) \/ GivePost(c)
    BY <2>6, TakeGiveTyped, ReturnIInv DEF TakeWait, GivePost, IInv
  <2> QED
    BY <1>2, <2>1, <2>2, <2>3, <2>4, <2>5, <2>6 DEF Steps
<1>3. CASE UNCHANGED vars
  BY <1>3
  DEF vars, IInv, TypeOK, UniqueNames, ActsOnNamed, CreatesAlone, DeletesAlone, Holding
<1> QED
  BY <1>1, <1>2, <1>3 DEF Next

LEMMA InitIInv == Init => IInv
<1> SUFFICES ASSUME Init
             PROVE  IInv
  OBVIOUS
<1>1. 1 \in Slots /\ 0 \in 0..SemMax /\ 0 \in Nat
  BY SemAssumption DEF Slots
<1>2. TypeOK
  BY <1>1 DEF Init, TypeOK
<1> QED
  BY <1>2 DEF Init, IInv, UniqueNames, ActsOnNamed, CreatesAlone, DeletesAlone

-----------------------------------------------------------------------------
(* The table keeps one slot for a name, and what a call has found is there *)
(* when the call uses it, although no mutex is held in between.            *)
THEOREM Invariant == ASSUME Orderly PROVE Spec => []IInv
<1>1. IInv /\ [Next]_vars => IInv'
  BY NextIInv
<1> QED
  BY <1>1, InitIInv, PTL DEF Spec

(* No two semaphores have one name.                                        *)
THEOREM NamesAreUnique == ASSUME Orderly PROVE Spec => []UniqueNames
<1>1. IInv => UniqueNames
  BY DEF IInv
<1> QED
  BY <1>1, Invariant, PTL

(* A take, a give and a delete act on the semaphore of their name.         *)
THEOREM CallsActOnNamed == ASSUME Orderly PROVE Spec => []ActsOnNamed
<1>1. IInv => ActsOnNamed
  BY DEF IInv
<1> QED
  BY <1>1, Invariant, PTL

-----------------------------------------------------------------------------
(* The refinement of NamedSems.                                            *)

Live == {n \in Names : Holding(n) # {}}
CountOf == [n \in Names |-> Count(n)]
CallOf == [c \in Callers |-> [op |-> Op(pc[c]), name |-> want[c]]]

(* A name's counter is the semaphore of its slot.                          *)
LEMMA CountIs ==
  IInv => \A i \in Slots : name[i] \in Names =>
            name[i] \in Live /\ CountOf[name[i]] = value[i]
<1> SUFFICES ASSUME IInv, NEW i \in Slots, name[i] \in Names
             PROVE  name[i] \in Live /\ CountOf[name[i]] = value[i]
  OBVIOUS
<1> DEFINE n == name[i]
<1>1. i \in Holding(n)
  BY DEF Holding
<1>2. Min(Holding(n)) \in Slots /\ name[Min(Holding(n))] = n
  BY <1>1, FirstMatches
<1>3. Min(Holding(n)) = i
  BY <1>2, SemAssumption DEF IInv, UniqueNames
<1> QED
  BY <1>1, <1>3 DEF Live, CountOf, Count

LEMMA CountIsNext ==
  IInv' => \A i \in Slots : name'[i] \in Names =>
             name'[i] \in Live' /\ CountOf'[name'[i]] = value'[i]
<1>1. (IInv => \A i \in Slots : name[i] \in Names =>
         name[i] \in Live /\ CountOf[name[i]] = value[i])'
  BY CountIs, PTL
<1> QED
  BY <1>1

LEMMA CountNothing ==
  IInv => \A n \in Names : n \notin Live => CountOf[n] = 0 /\ \A i \in Slots : name[i] # n
BY DEF Live, CountOf, Count, Holding

(* A name that is there has a slot.                                        *)
LEMMA LiveSlot ==
  IInv => \A n \in Live : \E i \in Slots : name[i] = n
BY DEF Live, Holding

(* Steps that leave the table alone.                                       *)
LEMMA SameTable ==
  UNCHANGED <<name, value>> => Live' = Live /\ CountOf' = CountOf
BY DEF Live, CountOf, Count, Holding

(* A step of a call that stays in it, enters it or ends it.                *)
LEMMA CallMoves ==
  ASSUME IInv, NEW c \in Callers, NEW label, NEW n,
         pc' = [pc EXCEPT ![c] = label], want' = [want EXCEPT ![c] = n]
  PROVE  CallOf' = [CallOf EXCEPT ![c] = [op |-> Op(label), name |-> n]]
<1>1. \A d \in Callers : pc'[d] = (IF d = c THEN label ELSE pc[d])
                      /\ want'[d] = (IF d = c THEN n ELSE want[d])
  BY DEF IInv, TypeOK
<1> QED
  BY <1>1 DEF CallOf

LEMMA CallEnters ==
  ASSUME IInv, NEW c \in Callers, NEW n \in Names, NEW label, pc[c] = "idle",
         pc' = [pc EXCEPT ![c] = label], want' = [want EXCEPT ![c] = n],
         UNCHANGED <<name, value>>
  PROVE  Abstract!Request(c, Op(label), n)
<1>1. want[c] = NoName
  BY DEF IInv, TypeOK
<1>2. CallOf[c] = Abstract!None
  BY <1>1 DEF CallOf, Op, Abstract!None
<1>3. CallOf' = [CallOf EXCEPT ![c] = [op |-> Op(label), name |-> n]]
  BY CallMoves
<1> QED
  BY <1>2, <1>3, SameTable DEF Abstract!Request, Live, CountOf, CallOf

LEMMA CallReturns ==
  ASSUME IInv, NEW c \in Callers, pc[c] # "idle", Return(c)
  PROVE  Abstract!Answer(c, Op(pc[c]), want[c])
<1>1. pc' = [pc EXCEPT ![c] = "idle"] /\ want' = [want EXCEPT ![c] = NoName]
  BY DEF Return, Goto
<1>2. CallOf' = [CallOf EXCEPT ![c] = [op |-> Op("idle"), name |-> NoName]]
  BY <1>1, CallMoves
<1>3. CallOf[c] = [op |-> Op(pc[c]), name |-> want[c]]
  BY DEF CallOf
<1> QED
  BY <1>2, <1>3 DEF Abstract!Answer, Abstract!None, CallOf, Op

(* With a free slot there are fewer names than slots.                      *)
LEMMA RoomForOne ==
  ASSUME IInv, NEW i \in Slots, name[i] = NoName
  PROVE  Cardinality(Live) < MaxSems
<1> DEFINE f == [n \in Live |-> Min(Holding(n))]
           S == Slots \ {i}
<1>1. \A n \in Live : f[n] \in Slots /\ name[f[n]] = n
  BY FirstMatches DEF Live
<1>2. \A n \in Live : f[n] # i
  BY <1>1, SemAssumption DEF Live
<1>3. f \in [Live -> S]
  BY <1>1, <1>2
<1>4. \A m, n \in Live : f[m] = f[n] => m = n
  BY <1>1
<1>5. f \in Injection(Live, S)
  BY <1>3, <1>4 DEF Injection, IsInjective
<1>6. IsFiniteSet(Slots) /\ Cardinality(Slots) = MaxSems
  BY SemAssumption, FS_Interval DEF Slots
<1>7. IsFiniteSet(S) /\ Cardinality(S) = MaxSems - 1
  BY <1>6, FS_RemoveElement
<1> HIDE DEF f, S
<1>8. IsFiniteSet(Live) /\ Cardinality(Live) <= Cardinality(S)
  BY <1>5, <1>7, FS_Injection
<1>9. Cardinality(Live) \in Nat
  BY <1>8, FS_CardinalityType
<1> QED
  BY <1>7, <1>8, <1>9, SemAssumption

LEMMA CreateAddCreates ==
  ASSUME IInv, IInv', NEW c \in Callers, NEW n, n = want[c], CreateAdd(c)
  PROVE  Abstract!Create(c, n)
<1> DEFINE i == Min(Holding(NoName))
<1>1. i \in Slots /\ name[i] = NoName
  BY FirstMatches DEF CreateAdd
<1>2. /\ pc[c] = "add" /\ Return(c)
      /\ name' = [name EXCEPT ![i] = n]
      /\ value' = [value EXCEPT ![i] = 0]
  BY DEF CreateAdd
<1> HIDE DEF i
<1>3. n \in Names /\ n # NoName /\ Holding(n) = {}
  BY <1>2 DEF IInv, TypeOK, CreatesAlone
<1>4. n \notin Live
  BY <1>3 DEF Live
<1>5. Live' = Live \cup {n}
  <2>1. i \in Holding(n)'
    BY <1>1, <1>2 DEF Holding, IInv, TypeOK
  <2>2. \A m \in Names \ {n} : Holding(m)' = Holding(m)
    BY <1>1, <1>2, SemAssumption DEF Holding, IInv, TypeOK
  <2> QED
    BY <1>3, <2>1, <2>2 DEF Live
<1>6. ASSUME NEW m \in Names
      PROVE  CountOf'[m] = CountOf[m]
  <2>1. CASE m = n
    <3>1. name'[i] = m /\ value'[i] = 0
      BY <1>1, <1>2, <2>1 DEF IInv, TypeOK
    <3>2. CountOf'[m] = 0
      BY <1>1, <3>1, CountIsNext
    <3> QED
      BY <1>4, <2>1, <3>2, CountNothing
  <2>2. CASE m # n
    <3>1. Holding(m)' = Holding(m)
      BY <1>1, <1>2, <2>2, SemAssumption DEF Holding, IInv, TypeOK
    <3>2. CASE Holding(m) = {}
      BY <3>1, <3>2 DEF CountOf, Count
    <3>3. CASE Holding(m) # {}
      <4>1. Min(Holding(m)) \in Slots /\ name[Min(Holding(m))] = m
        BY <3>3, FirstMatches
      <4>2. Min(Holding(m)) # i
        BY <1>1, <4>1, SemAssumption
      <4>3. value'[Min(Holding(m))] = value[Min(Holding(m))]
        BY <1>2, <4>1, <4>2 DEF IInv, TypeOK
      <4> QED
        BY <3>1, <4>3 DEF CountOf, Count
    <3> QED
      BY <3>2, <3>3
  <2> QED
    BY <2>1, <2>2
<1>7. CountOf' = CountOf
  BY <1>6 DEF CountOf
<1>8. Abstract!Answer(c, "create", n)
  <2>1. Abstract!Answer(c, Op(pc[c]), want[c])
    BY <1>2, CallReturns
  <2>2. Op(pc[c]) = "create"
    BY <1>2 DEF Op
  <2> QED
    BY <2>1, <2>2 DEF Abstract!Answer
<1>9. Abstract!Cardinality(Live) < MaxSems
  <2>1. Cardinality(Live) < MaxSems
    BY <1>1, RoomForOne
  <2> QED
    BY <2>1 DEF Cardinality, Abstract!Cardinality
<1> QED
  BY <1>4, <1>5, <1>7, <1>8, <1>9 DEF Abstract!Create, Live, CountOf

LEMMA DeleteFreeDeletes ==
  ASSUME IInv, NEW c \in Callers, NEW n, n = want[c], DeleteFree(c)
  PROVE  Abstract!Delete(c, n)
<1> DEFINE i == slot[c]
<1>1. /\ pc[c] = "del" /\ Return(c)
      /\ name' = [name EXCEPT ![i] = NoName]
      /\ value' = value
  BY DEF DeleteFree
<1>2. i \in Slots /\ name[i] = n /\ n \in Names /\ n # NoName
  BY <1>1 DEF IInv, TypeOK, ActsOnNamed
<1>3. \A j \in Slots : name[j] = n => j = i
  BY <1>2 DEF IInv, UniqueNames
<1>4. Holding(n)' = {}
  BY <1>1, <1>2, <1>3 DEF Holding, IInv, TypeOK
<1>5. \A m \in Names \ {n} : Holding(m)' = Holding(m)
  BY <1>1, <1>2, SemAssumption DEF Holding, IInv, TypeOK
<1>6. n \in Live
  BY <1>2 DEF Live, Holding
<1>7. Live' = Live \ {n}
  BY <1>4, <1>5 DEF Live
<1>8. CountOf' = [CountOf EXCEPT ![n] = 0]
  BY <1>1, <1>4, <1>5 DEF CountOf, Count
<1>9. Abstract!Answer(c, "delete", n)
  <2>1. Abstract!Answer(c, Op(pc[c]), want[c])
    BY <1>1, CallReturns
  <2>2. Op(pc[c]) = "delete"
    BY <1>1 DEF Op
  <2> QED
    BY <2>1, <2>2 DEF Abstract!Answer
<1> QED
  BY <1>6, <1>7, <1>8, <1>9 DEF Abstract!Delete, Live, CountOf

(* A take or a give moves the counter of its name and no other.            *)
LEMMA OneCounter ==
  ASSUME IInv, NEW c \in Callers, pc[c] \in {"take", "give"}, NEW v \in Nat,
         value' = [value EXCEPT ![slot[c]] = v], name' = name
  PROVE  /\ want[c] \in Live /\ Live' = Live
         /\ CountOf[want[c]] = value[slot[c]]
         /\ CountOf' = [CountOf EXCEPT ![want[c]] = v]
<1> DEFINE i == slot[c]
           n == want[c]
<1>1. i \in Slots /\ name[i] = n /\ n \in Names
  BY DEF IInv, TypeOK, ActsOnNamed
<1>2. n \in Live /\ CountOf[n] = value[i]
  BY <1>1, CountIs
<1>3. \A m : Holding(m)' = Holding(m)
  BY DEF Holding
<1>4. Live' = Live
  BY <1>3 DEF Live
<1>5. Min(Holding(n)) = i
  <2>1. Holding(n) # {}
    BY <1>1 DEF Holding
  <2> QED
    BY <1>1, <2>1, FirstMatches, SemAssumption DEF IInv, UniqueNames, TypeOK
<1>6. \A m \in Names : Holding(m) # {} => Min(Holding(m)) \in Slots /\ name[Min(Holding(m))] = m
  BY FirstMatches
<1>7. ASSUME NEW m \in Names
      PROVE  Count(m)' = IF m = n THEN v ELSE Count(m)
  <2>1. CASE Holding(m) = {}
    BY <1>1, <1>3, <2>1 DEF Count, Holding
  <2>2. CASE Holding(m) # {}
    BY <1>1, <1>3, <1>5, <1>6, <2>2 DEF Count, IInv, TypeOK
  <2> QED
    BY <2>1, <2>2
<1>8. CountOf' = [CountOf EXCEPT ![n] = v]
  BY <1>7 DEF CountOf
<1> QED
  BY <1>2, <1>4, <1>8

LEMMA TakeWaitTakes ==
  ASSUME IInv, NEW c \in Callers, TakeWait(c)
  PROVE  Abstract!Take(c, want[c])
<1> DEFINE v == value[slot[c]] - 1
<1>1. pc[c] = "take" /\ Return(c) /\ name' = name /\ value[slot[c]] > 0
  BY DEF TakeWait
<1>2. v \in Nat /\ value' = [value EXCEPT ![slot[c]] = v]
  BY <1>1, SemAssumption DEF TakeWait, IInv, TypeOK
<1>3. Abstract!Answer(c, "take", want[c])
  BY <1>1, CallReturns DEF Op
<1>4. /\ want[c] \in Live /\ Live' = Live
      /\ CountOf[want[c]] = value[slot[c]]
      /\ CountOf' = [CountOf EXCEPT ![want[c]] = v]
  BY <1>1, <1>2, OneCounter
<1> QED
  BY <1>1, <1>3, <1>4 DEF Abstract!Take, Live, CountOf

LEMMA GivePostGives ==
  ASSUME IInv, NEW c \in Callers, GivePost(c)
  PROVE  Abstract!Give(c, want[c]) \/ Abstract!Fail(c, "give", want[c])
<1> DEFINE v == value[slot[c]] + 1
<1>1. pc[c] = "give" /\ Return(c) /\ name' = name
  BY DEF GivePost
<1>2. Abstract!Answer(c, "give", want[c])
  BY <1>1, CallReturns DEF Op
<1>3. CASE value[slot[c]] < SemMax
  <2>1. v \in Nat /\ value' = [value EXCEPT ![slot[c]] = v]
    BY <1>1, <1>3, SemAssumption DEF GivePost, IInv, TypeOK
  <2>2. /\ want[c] \in Live /\ Live' = Live
        /\ CountOf[want[c]] = value[slot[c]]
        /\ CountOf' = [CountOf EXCEPT ![want[c]] = v]
    BY <1>1, <2>1, OneCounter
  <2> QED
    BY <1>2, <1>3, <2>2 DEF Abstract!Give, Live, CountOf
<1>4. CASE ~(value[slot[c]] < SemMax)
  <2>1. Live' = Live /\ CountOf' = CountOf
    BY <1>4, SameTable DEF GivePost
  <2> QED
    BY <1>2, <2>1 DEF Abstract!Fail, Live, CountOf
<1> QED
  BY <1>3, <1>4

LEMMA StepImplements ==
  ASSUME Orderly, IInv, IInv', [Next]_vars
  PROVE  [Abstract!Next]_(Abstract!semVars)
<1> USE DEF Abstract!Next
<1>1. ASSUME NEW c \in Callers, NEW n \in Names, Calls(c, n)
      PROVE  [Abstract!Next]_(Abstract!semVars)
  <2>1. ASSUME NEW k \in Counts, CreateFind(c, n, k)
        PROVE  Abstract!Request(c, "create", n)
    <3>1. Abstract!Request(c, Op("init"), n)
      BY <2>1, CallEnters DEF CreateFind, Goto
    <3> QED
      BY <3>1 DEF Op
  <2>2. CASE CreateRefused(c, n) \/ GetSem(c, n)
    <3>1. UNCHANGED vars
      BY <2>2, TellNothing
    <3>2. Live' = Live /\ CountOf' = CountOf /\ CallOf' = CallOf
      BY <3>1, SameTable DEF vars, CallOf
    <3> QED
      BY <3>2 DEF Abstract!semVars, Live, CountOf, CallOf
  <2>3. ASSUME NEW label \in {"del", "take", "give"}, Enter(c, n, label)
        PROVE  Abstract!Request(c, Op(label), n)
    BY <2>3, CallEnters DEF Enter, Goto
  <2>4. CASE DeleteFind(c, n)
    <3>1. Abstract!Request(c, "delete", n)
      BY <2>3, <2>4 DEF DeleteFind, Op
    <3> QED
      BY <3>1 DEF Abstract!Ops
  <2>5. CASE TakeFind(c, n)
    <3>1. Abstract!Request(c, "take", n)
      BY <2>3, <2>5 DEF TakeFind, Op
    <3> QED
      BY <3>1 DEF Abstract!Ops
  <2>6. CASE GiveFind(c, n)
    <3>1. Abstract!Request(c, "give", n)
      BY <2>3, <2>6 DEF GiveFind, Op
    <3> QED
      BY <3>1 DEF Abstract!Ops
  <2>7. CASE \E k \in Counts : CreateFind(c, n, k)
    <3>1. Abstract!Request(c, "create", n)
      BY <2>1, <2>7
    <3> QED
      BY <3>1 DEF Abstract!Ops
  <2> QED
    BY <1>1, <2>2, <2>4, <2>5, <2>6, <2>7 DEF Calls
<1>2. ASSUME NEW c \in Callers, Steps(c)
      PROVE  [Abstract!Next]_(Abstract!semVars)
  <2>0. pc[c] # "idle" => want[c] \in Names
    BY DEF IInv, TypeOK
  <2>1. CASE CreateInit(c)
    <3>1. /\ UNCHANGED <<name, value, want>>
          /\ pc[c] = "init" /\ pc' = [pc EXCEPT ![c] = "add"]
      BY <2>1, CreateInitIInv DEF CreateInit, Goto
    <3>2. \A d \in Callers : Op(pc'[d]) = Op(pc[d])
      BY <3>1 DEF Op, IInv, TypeOK
    <3>3. Live' = Live /\ CountOf' = CountOf /\ CallOf' = CallOf
      BY <3>1, <3>2, SameTable DEF CallOf
    <3> QED
      BY <3>3 DEF Abstract!semVars, Live, CountOf, CallOf
  <2>2. CASE CreateInitFails(c) \/ CreateFull(c)
    <3>1. pc[c] \in {"init", "add"} /\ Return(c)
      BY <2>2 DEF CreateInitFails, CreateFull
    <3>2. UNCHANGED <<name, value>>
      BY <2>2, CreateFailsQuietly DEF CreateFull, IInv
    <3>3. Live' = Live /\ CountOf' = CountOf
      BY <3>2, SameTable
    <3>4. Abstract!Answer(c, "create", want[c])
      BY <3>1, CallReturns DEF Op
    <3>5. Abstract!Fail(c, "create", want[c])
      BY <3>3, <3>4 DEF Abstract!Fail, Live, CountOf
    <3> QED
      BY <2>0, <3>1, <3>5 DEF Abstract!Ops
  <2>3. CASE CreateAdd(c)
    BY <2>0, <2>3, CreateAddCreates DEF CreateAdd
  <2>4. CASE DeleteFree(c)
    BY <2>0, <2>4, DeleteFreeDeletes DEF DeleteFree
  <2>5. CASE TakeWait(c)
    BY <2>0, <2>5, TakeWaitTakes DEF TakeWait
  <2>6. CASE TakeInterrupted(c)
    <3>1. pc[c] = "take" /\ Return(c) /\ UNCHANGED <<name, value>>
      BY <2>6 DEF TakeInterrupted
    <3>2. Live' = Live /\ CountOf' = CountOf
      BY <3>1, SameTable
    <3>3. Abstract!Answer(c, "take", want[c])
      BY <3>1, CallReturns DEF Op
    <3>4. Abstract!Fail(c, "take", want[c])
      BY <3>2, <3>3 DEF Abstract!Fail, Live, CountOf
    <3> QED
      BY <2>0, <3>1, <3>4 DEF Abstract!Ops
  <2>7. CASE GivePost(c)
    BY <2>0, <2>7, GivePostGives DEF GivePost, Abstract!Ops
  <2> QED
    BY <1>2, <2>1, <2>2, <2>3, <2>4, <2>5, <2>6, <2>7 DEF Steps
<1>3. CASE UNCHANGED vars
  <2>1. Live' = Live /\ CountOf' = CountOf /\ CallOf' = CallOf
    BY <1>3, SameTable DEF vars, CallOf
  <2> QED
    BY <2>1 DEF Abstract!semVars, Live, CountOf, CallOf
<1> QED
  BY <1>1, <1>2, <1>3 DEF Next

(* The table implements named counters: a call changes the counter of its  *)
(* own name, once, or fails, whatever other callers do to other names.     *)
THEOREM SemsAreNamed == ASSUME Orderly PROVE Spec => NamedSpec
<1>1. Init => Abstract!Init
  <2> SUFFICES ASSUME Init
               PROVE  Abstract!Init
    OBVIOUS
  <2>1. \A n \in Names : Holding(n) = {}
    BY SemAssumption DEF Init, Holding
  <2> QED
    BY <2>1 DEF Init, Abstract!Init, Abstract!None, Count, Op
<1>2. IInv /\ IInv' /\ [Next]_vars => [Abstract!Next]_(Abstract!semVars)
  BY StepImplements
<1> QED
  BY <1>1, <1>2, Invariant, PTL DEF Spec, NamedSpec, Abstract!Spec
=============================================================================
