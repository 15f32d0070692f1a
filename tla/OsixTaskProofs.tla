--------------------------- MODULE OsixTaskProofs ---------------------------
(***************************************************************************)
(* Proof that names are unique, that a task runs what it was created for   *)
(* and that no task is out of reach of a delete, for every table, callers, *)
(* names and threads, when each name is created by one caller and a delete *)
(* overlaps no create and no other delete; and, at the end, that no task   *)
(* sleeps through an event it asked for, for every set of tasks and events.*)
(***************************************************************************)
EXTENDS OsixTask, OsixEvent, FiniteSetTheorems, WellFoundedInduction, TLAPS

Creating == {"find", "add", "findAdded", "fill", "spawn", "store", "release", "undo"}
Ending == {"destroy", "free", "detach", "cancel"}
Labels == Creating \cup Ending \cup {"idle", "findOld", "findTask", "post"}

(* The types, of the program counters and jobs too.                        *)
Typed ==
  /\ TypeOK
  /\ pc \in [Callers -> Labels]
  /\ job \in [Threads -> (Callers \X Names) \cup {NoJob}]

(* No thread that runs was started for the slot.                           *)
Vacant(s) == \A t \in Running : tsk[t] # s

(* What a create has found or made by now.                                 *)
Creates(c) ==
  /\ pc[c] \in Creating => <<c, "create", want[c]>> \in Calls
  /\ pc[c] = "add" => \A s \in Slots : name[s] # want[c]
  /\ pc[c] = "findAdded" => \E s \in Slots : name[s] = want[c] /\ Vacant(s)
  /\ pc[c] \in {"fill", "spawn", "undo"} => name[idx[c]] = want[c] /\ Vacant(idx[c])
  /\ pc[c] \in {"spawn", "store"} => sync[idx[c]] = "held"
  /\ pc[c] = "spawn" => entry[idx[c]] = <<c, want[c]>>
  /\ pc[c] \in {"store", "release"} => name[idx[c]] = want[c]
  /\ pc[c] = "store" => \A t \in Running : tsk[t] = idx[c] => t = made[c]

(* A thread whose id is not stored yet.                                    *)
Pending(t) == \E c \in Callers : pc[c] = "store" /\ made[c] = t /\ idx[c] = tsk[t]

(* A thread whose slot has its id and its name, or is being deleted.       *)
Entered(t) == thr[tsk[t]] = t /\ (name[tsk[t]] # NoName \/ tsk[t] \in Deleting)

(* A thread that is held back will run what it was created for, and one    *)
(* that is not does, with the table complete.                              *)
Begun(t) ==
  /\ at[t] = "wrapper" => entry[tsk[t]] = job[t] /\ (Pending(t) \/ Entered(t))
  /\ at[t] = "entry" => runs[t] = job[t] /\ Entered(t)

(* The inductive invariant.                                                *)
TaskInv ==
  /\ Typed
  /\ DeletesAlone
  /\ UniqueNames
  /\ \A c \in Callers : Creates(c)
  /\ \A t \in Running : Begun(t)

-----------------------------------------------------------------------------
(* A find returns a slot of the name it looks for.                         *)
LEMMA FindsNamed ==
  ASSUME NEW n, Named(n) # {}
  PROVE  Min(Named(n)) \in Slots /\ name[Min(Named(n))] = n
<1>1. Named(n) \subseteq Nat
  BY TableAssumption DEF Named, Slots
<1>2. PICK x \in Named(n) : \A y \in Named(n) : ~(<<y, x>> \in OpToRel(<, Nat))
  BY <1>1, NatLessThanWellFounded, WFMin
<1>3. \A y \in Named(n) : x =< y
  <2> TAKE y \in Named(n)
  <2>1. x \in Nat /\ y \in Nat
    BY <1>1
  <2>2. ~(y < x)
    BY <1>2, <2>1 DEF OpToRel
  <2> QED
    BY <2>1, <2>2
<1>4. Min(Named(n)) \in Named(n)
  BY <1>3 DEF Min
<1> QED
  BY <1>4 DEF Named

(* A name that is being created is not empty, and one caller creates it.   *)
LEMMA WantIsName ==
  ASSUME TaskInv, NEW x \in Callers, pc[x] \in Creating
  PROVE  want[x] \in Names /\ want[x] # NoName
<1>1. <<x, "create", want[x]>> \in Jobs
  BY TableAssumption DEF TaskInv, Creates
<1> QED
  BY <1>1, NoneAssumption DEF Jobs

LEMMA WantIsOwn ==
  ASSUME CreatesOwn, TaskInv, NEW x \in Callers, NEW y \in Callers,
         pc[x] \in Creating, pc[y] \in Creating, want[x] = want[y]
  PROVE  x = y
<1>1. <<x, "create", want[x]>> \in Calls /\ <<y, "create", want[y]>> \in Calls
  BY DEF TaskInv, Creates
<1> QED
  BY <1>1 DEF CreatesOwn

(* A create that does not move keeps what it has found, as long as its     *)
(* name, and the slot of this name, are left alone.                        *)
LEMMA CreateStays ==
  ASSUME NEW x \in Callers, Creates(x),
         pc'[x] = pc[x], want'[x] = want[x], idx'[x] = idx[x], made'[x] = made[x],
         pc[x] \in Creating =>
           /\ \A s \in Slots : name'[s] = want[x] <=> name[s] = want[x]
           /\ \A t \in Running' : (t \in Running /\ tsk'[t] = tsk[t]) \/ name'[tsk'[t]] # want[x]
           /\ idx[x] \in Slots
           /\ name[idx[x]] = want[x] => sync'[idx[x]] = sync[idx[x]] /\ entry'[idx[x]] = entry[idx[x]]
  PROVE  Creates(x)'
<1>1. CASE pc[x] \notin Creating
  BY <1>1 DEF Creates, Creating
<1>2. CASE pc[x] \in {"find", "add"}
  BY <1>2 DEF Creates, Creating
<1>3. CASE pc[x] = "findAdded"
  <2>1. PICK s \in Slots : name[s] = want[x] /\ Vacant(s)
    BY <1>3 DEF Creates
  <2>2. name'[s] = want'[x] /\ Vacant(s)'
    BY <1>3, <2>1 DEF Creating, Vacant
  <2> QED
    BY <1>3, <2>2 DEF Creates, Creating
<1>4. CASE pc[x] \in {"fill", "spawn", "undo"}
  <2>1. name[idx[x]] = want[x] /\ Vacant(idx[x])
    BY <1>4 DEF Creates
  <2>2. name'[idx'[x]] = want'[x] /\ Vacant(idx[x])'
    BY <1>4, <2>1 DEF Creating, Vacant
  <2> QED
    BY <1>4, <2>1, <2>2 DEF Creates, Creating
<1>5. CASE pc[x] \in {"store", "release"}
  <2>1. name[idx[x]] = want[x] /\ name'[idx'[x]] = want'[x]
    BY <1>5 DEF Creates, Creating
  <2> QED
    BY <1>5, <2>1 DEF Creates, Creating
<1> QED
  BY <1>1, <1>2, <1>3, <1>4, <1>5 DEF Creating

(* A thread that does not move keeps what it has begun, as long as its     *)
(* slot still leads to it.                                                 *)
LEMMA ThreadStays ==
  ASSUME NEW t, Begun(t), at'[t] = at[t], job'[t] = job[t], runs'[t] = runs[t],
         entry'[tsk'[t]] = entry[tsk[t]],
         Pending(t) => Pending(t)' \/ Entered(t)',
         Entered(t) => Entered(t)'
  PROVE  Begun(t)'
  BY DEF Begun

-----------------------------------------------------------------------------
(* The types.                                                              *)

LEMMA TypedCall ==
  ASSUME TaskInv, NEW c \in Callers, NEW n \in Names, NEW l \in Labels,
         Goto(c, l), want' = [want EXCEPT ![c] = n], UNCHANGED <<table, threads, idx, made, aim>>
  PROVE  Typed'
  BY DEF TaskInv, Typed, TypeOK, Goto, table, threads

LEMMA TypedCreate ==
  ASSUME TaskInv, NEW c \in Callers, Create(c)
  PROVE  Typed'
<1> USE DEF Goto, Labels, Creating
<1>1. Typed
  BY DEF TaskInv
<1>2. ASSUME NEW n \in Names, CallCreate(c, n) PROVE Typed'
  BY <1>2, TypedCall DEF CallCreate
<1>3. CASE FindNew(c)
  BY <1>1, <1>3 DEF FindNew, Typed, TypeOK, table, threads
<1>4. CASE AddSlot(c)
  <2>1. name' \in [Slots -> Names \cup {NoName}]
    <3>1. want[c] \in Names \cup {NoName} /\ name \in [Slots -> Names \cup {NoName}]
      BY <1>1 DEF Typed, TypeOK
    <3>2. Named(NoName) # {} => Min(Named(NoName)) \in Slots
      BY FindsNamed
    <3> QED
      BY <1>4, <3>1, <3>2 DEF AddSlot
  <2>2. \/ pc' = [pc EXCEPT ![c] = "idle"]
        \/ pc' = [pc EXCEPT ![c] = "findAdded"]
    BY <1>4 DEF AddSlot
  <2>3. UNCHANGED <<thr, entry, sync, want, idx, made, threads>>
    BY <1>4 DEF AddSlot
  <2> QED
    BY <1>1, <2>1, <2>2, <2>3 DEF Typed, TypeOK, threads
<1>5. CASE FindAdded(c)
  <2>1. Named(want[c]) # {} => Min(Named(want[c])) \in Slots
    BY FindsNamed
  <2>2. PICK s \in Slots : idx' = [idx EXCEPT ![c] = s]
    BY <1>5, <2>1 DEF FindAdded
  <2> QED
    BY <1>1, <1>5, <2>2 DEF FindAdded, Typed, TypeOK, table, threads
<1>6. CASE Fill(c)
  <2>1. <<c, want[c]>> \in Callers \X Names
    BY <1>6, WantIsName DEF Fill
  <2> QED
    BY <1>1, <1>6, <2>1 DEF Fill, Typed, TypeOK, threads
<1>7. ASSUME NEW t \in Threads, Spawn(c, t) PROVE Typed'
  <2>1. <<c, want[c]>> \in Callers \X Names
    BY <1>7, WantIsName DEF Spawn
  <2> QED
    BY <1>1, <1>7, <2>1 DEF Spawn, Typed, TypeOK, table
<1>8. CASE StoreThr(c)
  BY <1>1, <1>8 DEF StoreThr, Typed, TypeOK, threads
<1>9. CASE Release(c)
  BY <1>1, <1>9 DEF Release, Typed, TypeOK, threads
<1>10. CASE SpawnFails(c)
  BY <1>1, <1>10 DEF SpawnFails, Typed, TypeOK, threads
<1>11. CASE UndoAdd(c)
  BY <1>1, <1>11 DEF UndoAdd, Typed, TypeOK, threads
<1> QED
  BY <1>2, <1>3, <1>4, <1>5, <1>6, <1>7, <1>8, <1>9, <1>10, <1>11 DEF Create

LEMMA TypedDelete ==
  ASSUME TaskInv, NEW c \in Callers, Delete(c)
  PROVE  Typed'
<1> USE DEF Goto, Labels, Ending
<1>1. Typed
  BY DEF TaskInv
<1>2. ASSUME NEW n \in Names, CallDelete(c, n) PROVE Typed'
  BY <1>2, TypedCall DEF CallDelete
<1>3. CASE FindOld(c)
  <2>1. CASE Named(want[c]) = {}
    BY <1>1, <1>3, <2>1 DEF FindOld, Typed, TypeOK, table, threads
  <2>2. CASE Named(want[c]) # {}
    <3>1. PICK s \in Slots : s = Min(Named(want[c]))
      BY <2>2, FindsNamed
    <3>2. /\ pc' = [pc EXCEPT ![c] = "destroy"] /\ idx' = [idx EXCEPT ![c] = s]
          /\ UNCHANGED <<table, threads, want, made>>
      BY <1>3, <2>2, <3>1 DEF FindOld
    <3> QED
      BY <1>1, <3>2 DEF Typed, TypeOK, table, threads
  <2> QED
    BY <2>1, <2>2
<1>4. CASE Destroy(c)
  BY <1>1, <1>4 DEF Destroy, Typed, TypeOK, threads
<1>5. CASE FreeSlot(c)
  BY <1>1, <1>5 DEF FreeSlot, Typed, TypeOK, threads
<1>6. CASE Detach(c)
  BY <1>1, <1>6 DEF Detach, Typed, TypeOK, table
<1>7. CASE Cancel(c)
  BY <1>1, <1>7 DEF Cancel, Typed, TypeOK, table
<1> QED
  BY <1>2, <1>3, <1>4, <1>5, <1>6, <1>7 DEF Delete

LEMMA TypedSend ==
  ASSUME TaskInv, NEW c \in Callers, Send(c)
  PROVE  Typed'
<1> USE DEF Goto, Labels
<1>1. Typed
  BY DEF TaskInv
<1>2. ASSUME NEW n \in Names, CallSend(c, n) PROVE Typed'
  BY <1>2, TypedCall DEF CallSend
<1>3. CASE FindTask(c)
  <2>1. Named(want[c]) # {} => Min(Named(want[c])) \in Slots
    BY FindsNamed
  <2> QED
    BY <1>1, <1>3, <2>1 DEF FindTask, Typed, TypeOK, table, threads
<1>4. CASE Post(c)
  BY <1>1, <1>4 DEF Post, Typed, TypeOK, table, threads
<1> QED
  BY <1>2, <1>3, <1>4 DEF Send

LEMMA TypedRun ==
  ASSUME TaskInv, NEW t \in Threads, Run(t)
  PROVE  Typed'
<1>1. Typed
  BY DEF TaskInv
<1>2. CASE Start(t)
  BY <1>1, <1>2 DEF Start, Typed, TypeOK, table, callers
<1>3. CASE End(t)
  BY <1>1, <1>3 DEF End, Typed, TypeOK, table, callers
<1> QED
  BY <1>2, <1>3 DEF Run

-----------------------------------------------------------------------------
(* Steps that only look at the table.                                      *)

(* One caller moves, and neither the table nor the threads change.         *)
Looks(c) ==
  /\ UNCHANGED <<table, threads>>
  /\ pc[c] \notin Ending \cup {"store"}
  /\ \A x \in Callers : x # c => /\ pc'[x] = pc[x] /\ want'[x] = want[x]
                                 /\ idx'[x] = idx[x] /\ made'[x] = made[x]

LEMMA LooksKeeps ==
  ASSUME TaskInv, DeletesAlone', Typed', NEW c \in Callers, Looks(c), Creates(c)'
  PROVE  TaskInv'
<1>1. UniqueNames'
  BY DEF TaskInv, UniqueNames, Looks, table
<1>2. Running' = Running
  BY DEF Running, Looks, threads
<1>3. ASSUME NEW x \in Callers PROVE Creates(x)'
  <2>1. CASE x = c
    BY <2>1
  <2>2. CASE x # c
    <3>1. Creates(x) /\ idx[x] \in Slots
      BY DEF TaskInv, Typed, TypeOK
    <3>2. tsk' = tsk /\ name' = name /\ sync' = sync /\ entry' = entry
      BY DEF Looks, table, threads
    <3> QED
      BY <1>2, <2>2, <3>1, <3>2, CreateStays DEF Looks
  <2> QED
    BY <2>1, <2>2
<1>4. ASSUME NEW t \in Running' PROVE Begun(t)'
  <2>1. Begun(t)
    BY <1>2, <1>4 DEF TaskInv
  <2>2. Pending(t) => Pending(t)'
    BY DEF Pending, Looks, threads
  <2>3. Entered(t) => Entered(t)'
    <3>1. Deleting \subseteq Deleting'
      BY DEF Deleting, Looks, Ending
    <3> QED
      BY <3>1 DEF Entered, Looks, table, threads
  <2> QED
    BY <2>1, <2>2, <2>3, ThreadStays DEF Looks, table, threads
<1> QED
  BY <1>1, <1>3, <1>4 DEF TaskInv

LEMMA LookingSteps ==
  ASSUME TaskInv, DeletesAlone', NEW c \in Callers,
         \/ \E n \in Names : <<c, "create", n>> \in Calls /\ CallCreate(c, n)
         \/ \E n \in Names : CallDelete(c, n) \/ CallSend(c, n)
         \/ FindNew(c) \/ FindAdded(c) \/ FindOld(c) \/ FindTask(c) \/ Post(c),
         Typed'
  PROVE  TaskInv'
<1>1. Typed /\ Creates(c)
  BY DEF TaskInv
<1>2. ASSUME NEW n \in Names, <<c, "create", n>> \in Calls, CallCreate(c, n)
      PROVE  Looks(c) /\ Creates(c)'
  BY <1>1, <1>2 DEF CallCreate, Goto, Typed, TypeOK, Looks, Creates, Creating, Ending
<1>3. ASSUME NEW n \in Names, CallDelete(c, n) \/ CallSend(c, n)
      PROVE  Looks(c) /\ Creates(c)'
  BY <1>1, <1>3 DEF CallDelete, CallSend, Goto, Typed, TypeOK, Looks, Creates, Creating, Ending
<1>4. CASE FindNew(c)
  <2>1. Looks(c)
    BY <1>1, <1>4 DEF FindNew, Goto, Typed, Looks, Ending
  <2>2. Named(want[c]) = {} => \A s \in Slots : name[s] # want[c]
    BY DEF Named
  <2>3. Creates(c)'
    BY <1>1, <1>4, <2>2 DEF FindNew, Goto, Typed, table, Creates, Creating
  <2> QED
    BY <2>1, <2>3, LooksKeeps
<1>5. CASE FindAdded(c)
  <2>1. PICK s \in Slots : name[s] = want[c] /\ Vacant(s)
    BY <1>1, <1>5 DEF FindAdded, Creates
  <2>2. want[c] # NoName
    BY <1>5, WantIsName DEF FindAdded, Creating
  <2>3. Named(want[c]) # {}
    BY <2>1 DEF Named
  <2>4. Min(Named(want[c])) = s
    BY <2>1, <2>2, <2>3, FindsNamed DEF TaskInv, UniqueNames
  <2>5. idx' = [idx EXCEPT ![c] = s]
    BY <1>5, <2>3, <2>4 DEF FindAdded
  <2>6. Looks(c)
    BY <1>1, <1>5, <2>5 DEF FindAdded, Goto, Typed, TypeOK, Looks, Ending
  <2>7. Vacant(s)'
    BY <2>1, <1>5 DEF Vacant, Running, FindAdded, threads
  <2>8. Creates(c)'
    BY <1>1, <1>5, <2>1, <2>5, <2>7 DEF FindAdded, Goto, Typed, TypeOK, table, Creates, Creating
  <2> QED
    BY <2>6, <2>8, LooksKeeps
<1>6. CASE FindOld(c) \/ FindTask(c) \/ Post(c)
  <2>1. /\ UNCHANGED <<table, threads, want, made>>
        /\ pc[c] \in {"findOld", "findTask", "post"}
        /\ \A x \in Callers : x # c => pc'[x] = pc[x] /\ idx'[x] = idx[x]
        /\ pc'[c] \notin Creating
    <3>1. CASE FindOld(c)
      BY <1>1, <3>1 DEF FindOld, Goto, Typed, TypeOK, Creating
    <3>2. CASE FindTask(c)
      BY <1>1, <3>2 DEF FindTask, Goto, Typed, TypeOK, Creating
    <3>3. CASE Post(c)
      BY <1>1, <3>3 DEF Post, Goto, Typed, Creating
    <3> QED
      BY <1>6, <3>1, <3>2, <3>3
  <2>2. Looks(c)
    BY <2>1 DEF Looks, Ending
  <2>3. Creates(c)'
    BY <2>1 DEF Creates, Creating
  <2> QED
    BY <2>2, <2>3, LooksKeeps
<1> QED
  BY <1>2, <1>3, <1>4, <1>5, <1>6, LooksKeeps

-----------------------------------------------------------------------------
(* Steps of a create that write the table.                                 *)

(* Nothing is being deleted meanwhile, so a free slot is vacant.           *)
LEMMA NoneDeleted ==
  ASSUME TaskInv, NEW c \in Callers, pc[c] \in Creating
  PROVE  /\ Deleting = {}
         /\ \A s \in Slots : name[s] = NoName => Vacant(s)
<1>1. Deleting = {}
  BY DEF TaskInv, DeletesAlone, Deleting, Creating
<1>2. ASSUME NEW s \in Slots, name[s] = NoName, NEW t \in Running, tsk[t] = s PROVE FALSE
  <2>1. Begun(t) /\ at[t] \in {"wrapper", "entry"}
    BY DEF TaskInv, Running
  <2>2. ~Entered(t)
    BY <1>1, <1>2 DEF Entered
  <2>3. PICK d \in Callers : pc[d] = "store" /\ idx[d] = s
    BY <1>2, <2>1, <2>2 DEF Begun, Pending
  <2>4. name[s] = want[d] /\ want[d] # NoName
    BY <2>3, WantIsName DEF TaskInv, Creates, Creating
  <2> QED
    BY <1>2, <2>4
<1> QED
  BY <1>1, <1>2 DEF Vacant

(* The slot of a create, from the fill on.                                 *)
Keeping == {"fill", "spawn", "store", "release", "undo"}

(* One caller moves and writes no slot but its own.                        *)
WritesOwn(c) ==
  /\ pc[c] \in Keeping
  /\ \A x \in Callers : x # c => pc'[x] = pc[x]
  /\ UNCHANGED <<want, idx>>
  /\ \A x \in Callers : x # c => made'[x] = made[x]
  /\ \A s \in Slots : s # idx[c] => /\ name'[s] = name[s] /\ thr'[s] = thr[s]
                                    /\ entry'[s] = entry[s] /\ sync'[s] = sync[s]
  /\ name'[idx[c]] \in {name[idx[c]], NoName}

LEMMA OwnSlot ==
  ASSUME TaskInv, NEW c \in Callers, pc[c] \in Keeping
  PROVE  idx[c] \in Slots /\ name[idx[c]] = want[c]
  BY DEF TaskInv, Typed, TypeOK, Creates, Keeping

(* Such a write disturbs no other create.                                  *)
LEMMA OthersStay ==
  ASSUME CreatesOwn, TaskInv, NEW c \in Callers, WritesOwn(c),
         \A t \in Running' : (t \in Running /\ tsk'[t] = tsk[t]) \/ tsk'[t] = idx[c]
  PROVE  UniqueNames' /\ \A x \in Callers : x # c => Creates(x)'
<1>1. idx[c] \in Slots /\ name[idx[c]] = want[c] /\ pc[c] \in Creating
  BY OwnSlot DEF WritesOwn, Keeping, Creating
<1>2. want[c] # NoName
  BY <1>1, WantIsName
<1>3. UniqueNames'
  BY <1>1 DEF TaskInv, UniqueNames, WritesOwn
<1>4. ASSUME NEW x \in Callers, x # c PROVE Creates(x)'
  <2>1. Creates(x) /\ idx[x] \in Slots
    BY DEF TaskInv, Typed, TypeOK
  <2>2. pc[x] \in Creating => want[x] # want[c] /\ want[x] # NoName
    BY <1>1, <1>4, WantIsOwn, WantIsName
  <2>3. pc[x] \in Creating => \A s \in Slots : name'[s] = want[x] <=> name[s] = want[x]
    BY <1>1, <2>2 DEF WritesOwn
  <2>4. pc[x] \in Creating => name'[idx[c]] # want[x]
    BY <1>1, <2>2 DEF WritesOwn
  <2>5. pc[x] \in Creating /\ name[idx[x]] = want[x] => idx[x] # idx[c]
    BY <1>1, <2>2
  <2> QED
    BY <1>4, <2>1, <2>3, <2>4, <2>5, CreateStays DEF WritesOwn
<1> QED
  BY <1>3, <1>4

LEMMA AddSlotStep ==
  ASSUME CreatesOwn, TaskInv, DeletesAlone', NEW c \in Callers, AddSlot(c), Typed'
  PROVE  TaskInv'
<1>1. Typed /\ Creates(c) /\ pc[c] = "add"
  BY DEF TaskInv, AddSlot
<1>2. CASE Named(NoName) = {}
  <2>1. Looks(c) /\ Creates(c)'
    BY <1>1, <1>2 DEF AddSlot, Goto, Typed, Looks, Ending, table, Creates, Creating
  <2> QED
    BY <2>1, LooksKeeps
<1>3. CASE Named(NoName) # {}
  <2>1. PICK s0 \in Slots : s0 = Min(Named(NoName)) /\ name[s0] = NoName
    BY <1>3, FindsNamed
  <2>2. /\ pc' = [pc EXCEPT ![c] = "findAdded"]
        /\ name' = [name EXCEPT ![s0] = want[c]]
        /\ UNCHANGED <<thr, entry, sync, threads, want, idx, made, aim>>
    BY <1>3, <2>1 DEF AddSlot, Goto
  <2>3. want[c] # NoName /\ \A s \in Slots : name[s] # want[c]
    BY <1>1, WantIsName DEF Creates, Creating
  <2>4. name'[s0] = want[c] /\ \A s \in Slots : s # s0 => name'[s] = name[s]
    BY <1>1, <2>1, <2>2 DEF Typed, TypeOK
  <2>5. UniqueNames'
    BY <2>3, <2>4 DEF TaskInv, UniqueNames
  <2>6. Running' = Running
    BY <2>2 DEF Running, threads
  <2>7. Vacant(s0) /\ Deleting = {}
    BY <1>1, <2>1, NoneDeleted DEF Creating
  <2>8. ASSUME NEW x \in Callers PROVE Creates(x)'
    <3>1. CASE x = c
      <4>1. Vacant(s0)' /\ name'[s0] = want'[c]
        BY <2>2, <2>4, <2>6, <2>7 DEF Vacant, threads
      <4> QED
        BY <1>1, <2>1, <2>2, <3>1, <4>1 DEF Creates, Creating, Typed
    <3>2. CASE x # c
      <4>1. Creates(x) /\ idx[x] \in Slots
        BY DEF TaskInv, Typed, TypeOK
      <4>2. pc[x] \in Creating => want[x] # want[c] /\ want[x] # NoName
        BY <1>1, <3>2, WantIsOwn, WantIsName DEF Creating
      <4>3. pc[x] \in Creating => \A s \in Slots : name'[s] = want[x] <=> name[s] = want[x]
        BY <2>1, <2>4, <4>2
      <4>4. pc'[x] = pc[x]
        BY <1>1, <2>2, <3>2 DEF Typed
      <4> QED
        BY <2>2, <2>6, <4>1, <4>3, <4>4, CreateStays DEF threads
    <3> QED
      BY <3>1, <3>2
  <2>9. ASSUME NEW t \in Running' PROVE Begun(t)'
    <3>1. Begun(t)
      BY <2>6, <2>9 DEF TaskInv
    <3>2. Pending(t) => Pending(t)'
      BY <1>1, <2>2 DEF Pending, threads, Typed
    <3>3. tsk[t] \in Slots
      BY <1>1, <2>6, <2>9 DEF Running, Typed, TypeOK
    <3>4. Entered(t) => Entered(t)'
      BY <2>1, <2>2, <2>3, <2>4, <2>7, <3>3 DEF Entered, threads
    <3> QED
      BY <2>2, <3>1, <3>2, <3>4, ThreadStays DEF threads
  <2> QED
    BY <2>5, <2>8, <2>9 DEF TaskInv
<1> QED
  BY <1>2, <1>3

(* Nor does it disturb a thread that was started for another slot.         *)
LEMMA ThreadsElsewhere ==
  ASSUME TaskInv, NEW c \in Callers, WritesOwn(c),
         NEW t \in Running, tsk[t] # idx[c], tsk'[t] = tsk[t],
         at'[t] = at[t], job'[t] = job[t], runs'[t] = runs[t]
  PROVE  Begun(t)'
<1>1. Begun(t) /\ tsk[t] \in Slots
  BY DEF TaskInv, Running, Typed, TypeOK
<1>2. Pending(t) => Pending(t)'
  BY DEF Pending, WritesOwn
<1>3. Deleting = {}
  BY NoneDeleted DEF WritesOwn, Keeping, Creating
<1>4. Entered(t) => Entered(t)'
  BY <1>1, <1>3 DEF Entered, WritesOwn
<1> QED
  BY <1>1, <1>2, <1>4, ThreadStays DEF WritesOwn

(* A write to a vacant slot, with no thread started or ended.              *)
LEMMA WriteVacant ==
  ASSUME CreatesOwn, TaskInv, DeletesAlone', Typed', NEW c \in Callers, WritesOwn(c),
         UNCHANGED threads, Vacant(idx[c]), Creates(c)'
  PROVE  TaskInv'
<1>1. Running' = Running /\ tsk' = tsk
  BY DEF Running, threads
<1>2. UniqueNames' /\ \A x \in Callers : x # c => Creates(x)'
  BY <1>1, OthersStay
<1>3. \A t \in Running' : Begun(t)'
  BY <1>1, ThreadsElsewhere DEF Vacant, threads
<1> QED
  BY <1>2, <1>3 DEF TaskInv

LEMMA VacantSteps ==
  ASSUME CreatesOwn, TaskInv, DeletesAlone', Typed', NEW c \in Callers,
         Fill(c) \/ SpawnFails(c) \/ UndoAdd(c)
  PROVE  TaskInv'
<1>1. Typed /\ Creates(c) /\ pc[c] \in {"fill", "spawn", "undo"}
  BY DEF TaskInv, Fill, SpawnFails, UndoAdd
<1>2. /\ idx[c] \in Slots /\ name[idx[c]] = want[c] /\ Vacant(idx[c])
      /\ <<c, "create", want[c]>> \in Calls
  BY <1>1, OwnSlot DEF Keeping, Creates, Creating
<1>3. UNCHANGED <<threads, want, idx>>
  BY DEF Fill, SpawnFails, UndoAdd
<1>4. Vacant(idx[c])'
  BY <1>2, <1>3 DEF Vacant, Running, threads
<1>5. CASE Fill(c)
  <2>1. WritesOwn(c)
    BY <1>1, <1>2, <1>5 DEF Fill, Goto, WritesOwn, Keeping, Typed, TypeOK
  <2>2. Creates(c)'
    <3>1. pc'[c] = "spawn" /\ sync'[idx[c]] = "held" /\ entry'[idx[c]] = <<c, want[c]>> /\ name' = name
      BY <1>1, <1>2, <1>5 DEF Fill, Goto, Typed, TypeOK
    <3> QED
      BY <1>2, <1>3, <1>4, <3>1 DEF Creates
  <2> QED
    BY <1>2, <1>3, <2>1, <2>2, WriteVacant
<1>6. CASE SpawnFails(c)
  <2>1. WritesOwn(c)
    BY <1>1, <1>2, <1>6 DEF SpawnFails, Goto, WritesOwn, Keeping, Typed, TypeOK
  <2>2. Creates(c)'
    <3>1. pc'[c] = "undo" /\ name' = name
      BY <1>1, <1>6 DEF SpawnFails, Goto, Typed
    <3> QED
      BY <1>2, <1>3, <1>4, <3>1 DEF Creates
  <2> QED
    BY <1>2, <1>3, <2>1, <2>2, WriteVacant
<1>7. CASE UndoAdd(c)
  <2>1. WritesOwn(c)
    BY <1>1, <1>2, <1>7 DEF UndoAdd, Goto, WritesOwn, Keeping, Typed, TypeOK
  <2>2. Creates(c)'
    BY <1>1, <1>7 DEF UndoAdd, Goto, Typed, Creates, Creating
  <2> QED
    BY <1>2, <1>3, <2>1, <2>2, WriteVacant
<1> QED
  BY <1>5, <1>6, <1>7

LEMMA SpawnStep ==
  ASSUME CreatesOwn, TaskInv, DeletesAlone', Typed', NEW c \in Callers, NEW t \in Threads,
         Spawn(c, t)
  PROVE  TaskInv'
<1>1. Typed /\ Creates(c) /\ pc[c] = "spawn"
  BY DEF TaskInv, Spawn
<1>2. /\ idx[c] \in Slots /\ name[idx[c]] = want[c] /\ Vacant(idx[c]) /\ sync[idx[c]] = "held"
      /\ <<c, "create", want[c]>> \in Calls /\ entry[idx[c]] = <<c, want[c]>>
  BY <1>1, OwnSlot DEF Keeping, Creates, Creating
<1>3. /\ pc'[c] = "store" /\ made'[c] = t
      /\ \A x \in Callers : x # c => pc'[x] = pc[x] /\ made'[x] = made[x]
      /\ UNCHANGED <<table, want, idx>>
  BY <1>1 DEF Spawn, Goto, Typed, TypeOK
<1>4. /\ at'[t] = "wrapper" /\ tsk'[t] = idx[c] /\ job'[t] = <<c, want[c]>>
      /\ \A u \in Threads : u # t => /\ at'[u] = at[u] /\ tsk'[u] = tsk[u]
                                     /\ job'[u] = job[u] /\ runs'[u] = runs[u]
  BY <1>1 DEF Spawn, Typed, TypeOK
<1>5. WritesOwn(c)
  BY <1>1, <1>3 DEF WritesOwn, Keeping, table
<1>6. \A u \in Running' : u \in Threads /\ (u # t => u \in Running /\ tsk'[u] = tsk[u])
  BY <1>4 DEF Running, Spawn
<1>7. UniqueNames' /\ \A x \in Callers : x # c => Creates(x)'
  BY <1>4, <1>5, <1>6, OthersStay
<1>8. Creates(c)'
  <2>1. \A u \in Running' : tsk'[u] = idx'[c] => u = made'[c]
    BY <1>2, <1>3, <1>6 DEF Vacant
  <2> QED
    BY <1>2, <1>3, <2>1 DEF Creates, table
<1>9. ASSUME NEW u \in Running' PROVE Begun(u)'
  <2>1. CASE u = t
    <3>1. Pending(t)'
      BY <1>3, <1>4 DEF Pending
    <3> QED
      BY <1>2, <1>3, <1>4, <2>1, <3>1 DEF Begun, table
  <2>2. CASE u # t
    BY <1>2, <1>4, <1>5, <1>6, <2>2, ThreadsElsewhere DEF Vacant
  <2> QED
    BY <2>1, <2>2
<1> QED
  BY <1>7, <1>8, <1>9 DEF TaskInv

(* The thread it has made gets its id, or its mutex.                       *)
LEMMA StoreStep ==
  ASSUME CreatesOwn, TaskInv, DeletesAlone', Typed', NEW c \in Callers, StoreThr(c)
  PROVE  TaskInv'
<1>1. Typed /\ Creates(c) /\ pc[c] = "store"
  BY DEF TaskInv, StoreThr
<1>2. /\ idx[c] \in Slots /\ name[idx[c]] = want[c] /\ want[c] # NoName
      /\ <<c, "create", want[c]>> \in Calls
      /\ \A t \in Running : tsk[t] = idx[c] => t = made[c]
  BY <1>1, OwnSlot, WantIsName DEF Keeping, Creates, Creating
<1>3. /\ pc'[c] = "release" /\ thr'[idx[c]] = made[c]
      /\ \A x \in Callers : x # c => pc'[x] = pc[x]
      /\ \A s \in Slots : s # idx[c] => thr'[s] = thr[s]
      /\ UNCHANGED <<name, entry, sync, threads, want, idx, made>>
  BY <1>1, <1>2 DEF StoreThr, Goto, Typed, TypeOK
<1>4. WritesOwn(c)
  BY <1>1, <1>3 DEF WritesOwn, Keeping
<1>5. Running' = Running /\ tsk' = tsk
  BY <1>3 DEF Running, threads
<1>6. UniqueNames' /\ \A x \in Callers : x # c => Creates(x)'
  BY <1>4, <1>5, OthersStay
<1>7. Creates(c)'
  BY <1>2, <1>3 DEF Creates
<1>8. ASSUME NEW t \in Running' PROVE Begun(t)'
  <2>1. CASE tsk[t] = idx[c]
    <3>1. Begun(t) /\ t = made[c]
      BY <1>2, <1>5, <1>8, <2>1 DEF TaskInv
    <3>2. Entered(t)'
      BY <1>2, <1>3, <1>5, <2>1, <3>1 DEF Entered
    <3> QED
      BY <1>3, <3>1, <3>2, ThreadStays DEF threads
  <2>2. CASE tsk[t] # idx[c]
    BY <1>3, <1>4, <1>5, <1>8, <2>2, ThreadsElsewhere DEF threads
  <2> QED
    BY <2>1, <2>2
<1> QED
  BY <1>6, <1>7, <1>8 DEF TaskInv

LEMMA ReleaseStep ==
  ASSUME CreatesOwn, TaskInv, DeletesAlone', Typed', NEW c \in Callers, Release(c)
  PROVE  TaskInv'
<1>1. Typed /\ pc[c] = "release"
  BY DEF TaskInv, Release
<1>2. idx[c] \in Slots
  BY <1>1 DEF Typed, TypeOK
<1>3. /\ pc'[c] = "idle"
      /\ \A x \in Callers : x # c => pc'[x] = pc[x]
      /\ \A s \in Slots : s # idx[c] => sync'[s] = sync[s]
      /\ UNCHANGED <<name, thr, entry, threads, want, idx, made>>
  BY <1>1, <1>2 DEF Release, Goto, Typed, TypeOK
<1>4. WritesOwn(c)
  BY <1>1, <1>3 DEF WritesOwn, Keeping
<1>5. Running' = Running /\ tsk' = tsk
  BY <1>3 DEF Running, threads
<1>6. UniqueNames' /\ \A x \in Callers : x # c => Creates(x)'
  BY <1>4, <1>5, OthersStay
<1>7. Creates(c)'
  BY <1>3 DEF Creates, Creating
<1>8. ASSUME NEW t \in Running' PROVE Begun(t)'
  <2>1. Begun(t)
    BY <1>5, <1>8 DEF TaskInv
  <2>2. Pending(t) => Pending(t)'
    BY <1>1, <1>3, <1>5 DEF Pending
  <2>3. Deleting = {}
    BY <1>1, NoneDeleted DEF Creating
  <2>4. Entered(t) => Entered(t)'
    BY <1>3, <1>5, <2>3 DEF Entered
  <2> QED
    BY <1>3, <2>1, <2>2, <2>4, ThreadStays DEF threads
<1> QED
  BY <1>6, <1>7, <1>8 DEF TaskInv

-----------------------------------------------------------------------------
(* Steps of a delete, which no create overlaps.                            *)

LEMMA DeleteIsAlone ==
  ASSUME TaskInv, NEW c \in Callers, pc[c] \in Ending
  PROVE  /\ \A x \in Callers : pc[x] \notin Creating
         /\ Deleting = {idx[c]}
         /\ \A t \in Running : Begun(t) /\ Entered(t) /\ t \in Threads /\ tsk[t] \in Slots
<1>1. \A x \in Callers : x # c => pc[x] \in {"idle", "findTask", "post"}
  BY DEF TaskInv, DeletesAlone, Ending
<1>2. \A x \in Callers : pc[x] \notin Creating
  BY <1>1 DEF Creating, Ending
<1>3. Deleting = {idx[c]}
  BY <1>1 DEF Deleting, Ending
<1>4. ASSUME NEW t \in Running PROVE Begun(t) /\ Entered(t) /\ t \in Threads /\ tsk[t] \in Slots
  <2>1. Begun(t) /\ at[t] \in {"wrapper", "entry"} /\ t \in Threads /\ tsk[t] \in Slots
    BY DEF TaskInv, Running, Typed, TypeOK
  <2>2. ~Pending(t)
    BY <1>2 DEF Pending, Creating
  <2> QED
    BY <2>1, <2>2 DEF Begun
<1> QED
  BY <1>2, <1>3, <1>4

(* What the caller still has to do for its slot, it does alone.            *)
LEMMA DeleteKeeps ==
  ASSUME TaskInv, DeletesAlone', Typed', NEW c \in Callers, pc[c] \in Ending,
         \E l \in Ending \cup {"idle"} : Goto(c, l),
         UNCHANGED <<thr, entry, idx, tsk, job, runs>>,
         \A s \in Slots : s # idx[c] => name'[s] = name[s],
         name'[idx[c]] \in {name[idx[c]], NoName},
         \A t \in Running' : t \in Running /\ at'[t] = at[t] /\ (pc'[c] = "idle" => tsk[t] # idx[c])
  PROVE  TaskInv'
<1>1. PICK l \in Ending \cup {"idle"} : pc' = [pc EXCEPT ![c] = l]
  BY DEF Goto
<1>2. /\ \A x \in Callers : pc'[x] \notin Creating
      /\ pc'[c] = l /\ (l # "idle" => idx[c] \in Deleting')
  <2>1. pc'[c] = l /\ \A x \in Callers : x # c => pc'[x] = pc[x]
    BY <1>1 DEF TaskInv, Typed
  <2>2. l # "idle" => idx'[c] \in Deleting'
    BY <2>1 DEF Deleting, Ending
  <2> QED
    BY <2>1, <2>2, DeleteIsAlone DEF Creating, Ending
<1>3. UniqueNames'
  BY DEF TaskInv, UniqueNames
<1>4. \A x \in Callers : Creates(x)'
  BY <1>2 DEF Creates, Creating
<1>5. ASSUME NEW t \in Running' PROVE Begun(t)'
  <2>1. Begun(t) /\ Entered(t) /\ tsk[t] \in Slots /\ Deleting = {idx[c]}
    BY <1>5, DeleteIsAlone
  <2>2. Entered(t)'
    BY <1>2, <1>5, <2>1 DEF Entered
  <2> QED
    BY <1>5, <2>1, <2>2, ThreadStays
<1> QED
  BY <1>3, <1>4, <1>5 DEF TaskInv

LEMMA DeletingSteps ==
  ASSUME TaskInv, DeletesAlone', Typed', NEW c \in Callers,
         Destroy(c) \/ FreeSlot(c) \/ Detach(c) \/ Cancel(c)
  PROVE  TaskInv'
<1>1. Typed /\ pc[c] \in Ending /\ idx[c] \in Slots
  BY DEF TaskInv, Typed, TypeOK, Destroy, FreeSlot, Detach, Cancel, Ending
<1>2. UNCHANGED <<thr, entry, idx, tsk, job, runs>>
  BY DEF Destroy, FreeSlot, Detach, Cancel, threads, table
<1>3. CASE Destroy(c)
  <2>1. Goto(c, "free") /\ UNCHANGED <<name, threads>> /\ pc'[c] # "idle"
    BY <1>1, <1>3 DEF Destroy, Goto, Typed
  <2> QED
    BY <1>1, <1>2, <2>1, DeleteKeeps DEF Running, threads, Ending
<1>4. CASE FreeSlot(c)
  <2>1. Goto(c, "detach") /\ UNCHANGED threads /\ pc'[c] # "idle"
    BY <1>1, <1>4 DEF FreeSlot, Goto, Typed
  <2>2. name'[idx[c]] = NoName /\ \A s \in Slots : s # idx[c] => name'[s] = name[s]
    BY <1>1, <1>4 DEF FreeSlot, Typed, TypeOK
  <2> QED
    BY <1>1, <1>2, <2>1, <2>2, DeleteKeeps DEF Running, threads, Ending
<1>5. CASE Detach(c)
  <2>1. Goto(c, "cancel") /\ UNCHANGED <<name, cancelled>> /\ pc'[c] # "idle"
    BY <1>1, <1>5 DEF Detach, Goto, Typed, table
  <2>2. \A t \in Running' : t \in Running /\ at'[t] = at[t]
    BY <1>1, <1>5, <2>1 DEF Detach, Typed, TypeOK, Running
  <2> QED
    BY <1>1, <1>2, <2>1, <2>2, DeleteKeeps DEF Ending
<1>6. CASE Cancel(c)
  <2>1. Goto(c, "idle") /\ UNCHANGED <<name, at>>
    BY <1>6 DEF Cancel, table
  <2>2. ASSUME NEW t \in Running'
        PROVE  t \in Running /\ tsk[t] # idx[c]
    <3>1. t \in Running /\ t # thr[idx[c]]
      BY <1>6 DEF Cancel, Running
    <3> QED
      BY <1>1, <3>1, DeleteIsAlone DEF Entered
  <2> QED
    BY <1>1, <1>2, <2>1, <2>2, DeleteKeeps DEF Ending
<1> QED
  BY <1>3, <1>4, <1>5, <1>6

-----------------------------------------------------------------------------
(* Steps of the threads.                                                   *)

LEMMA RunStep ==
  ASSUME TaskInv, DeletesAlone', Typed', NEW t \in Threads, Run(t)
  PROVE  TaskInv'
<1>1. UNCHANGED <<table, callers, tsk, job>>
  BY DEF Run, Start, End
<1>2. Typed
  BY DEF TaskInv
<1>3. Running' \subseteq Running
  BY <1>2 DEF Run, Start, End, Running, Typed, TypeOK
<1>4. UniqueNames'
  BY <1>1 DEF TaskInv, UniqueNames, table
<1>5. ASSUME NEW x \in Callers PROVE Creates(x)'
  <2>1. Creates(x) /\ idx[x] \in Slots
    BY DEF TaskInv, Typed, TypeOK
  <2> QED
    BY <1>1, <1>3, <2>1, CreateStays DEF table, callers
<1>6. ASSUME NEW u \in Running' PROVE Begun(u)'
  <2>1. Begun(u)
    BY <1>3, <1>6 DEF TaskInv
  <2>2. (Pending(u) => Pending(u)') /\ (Entered(u) => Entered(u)')
    BY <1>1 DEF Pending, Entered, Deleting, table, callers
  <2>3. CASE u # t
    <3>1. at'[u] = at[u] /\ runs'[u] = runs[u]
      BY <1>2, <1>6, <2>3 DEF Run, Start, End, Typed, TypeOK, Running
    <3> QED
      BY <1>1, <2>1, <2>2, <3>1, ThreadStays DEF table
  <2>4. CASE u = t
    <3>1. Start(t)
      BY <1>2, <1>6, <2>4 DEF Run, End, Running, Typed, TypeOK
    <3>2. at'[t] = "entry" /\ runs'[t] = entry[tsk[t]] /\ at[t] = "wrapper" /\ sync[tsk[t]] # "held"
      BY <1>2, <3>1 DEF Start, Typed, TypeOK
    <3>3. ~Pending(t)
      BY <3>2 DEF Pending, TaskInv, Creates
    <3> QED
      BY <1>1, <2>1, <2>2, <2>4, <3>2, <3>3 DEF Begun
  <2> QED
    BY <2>3, <2>4
<1> QED
  BY <1>4, <1>5, <1>6 DEF TaskInv

-----------------------------------------------------------------------------
LEMMA TaskInitial == Init => TaskInv
<1> SUFFICES ASSUME Init PROVE TaskInv
  OBVIOUS
<1>1. Typed
  BY TableAssumption DEF Init, Typed, TypeOK, Labels, Slots
<1>2. Running = {}
  BY DEF Init, Running
<1> QED
  BY <1>1, <1>2 DEF Init, TaskInv, DeletesAlone, UniqueNames, Creates, Creating, Slots

LEMMA TaskStep ==
  ASSUME CreatesOwn
  PROVE  TaskInv /\ [Next /\ DeletesAlone']_vars => TaskInv'
<1> SUFFICES ASSUME TaskInv, [Next /\ DeletesAlone']_vars PROVE TaskInv'
  OBVIOUS
<1>1. ASSUME NEW c \in Callers, Create(c), DeletesAlone' PROVE TaskInv'
  BY <1>1, TypedCreate, LookingSteps, AddSlotStep, VacantSteps, SpawnStep, StoreStep,
     ReleaseStep DEF Create
<1>2. ASSUME NEW c \in Callers, Delete(c), DeletesAlone' PROVE TaskInv'
  BY <1>2, TypedDelete, LookingSteps, DeletingSteps DEF Delete
<1>3. ASSUME NEW c \in Callers, Send(c), DeletesAlone' PROVE TaskInv'
  BY <1>3, TypedSend, LookingSteps DEF Send
<1>4. ASSUME NEW t \in Threads, Run(t), DeletesAlone' PROVE TaskInv'
  BY <1>4, TypedRun, RunStep
<1>5. CASE UNCHANGED vars
  BY <1>5 DEF vars, table, callers, threads, TaskInv, Typed, TypeOK, DeletesAlone, UniqueNames,
              Creates, Vacant, Running, Begun, Pending, Entered, Deleting
<1> QED
  BY <1>1, <1>2, <1>3, <1>4, <1>5 DEF Next

THEOREM TaskInvariant == ASSUME CreatesOwn PROVE OrderlySpec => []TaskInv
<1>1. TaskInv /\ [Next /\ DeletesAlone']_vars => TaskInv'
  BY TaskStep
<1> QED
  BY <1>1, TaskInitial, PTL DEF OrderlySpec

(* No two slots have one name, though a create tests for its name and      *)
(* enters it in two critical sections.                                     *)
THEOREM NamesAreUnique == ASSUME CreatesOwn PROVE OrderlySpec => []UniqueNames
<1>1. TaskInv => UniqueNames
  BY DEF TaskInv
<1> QED
  BY <1>1, TaskInvariant, PTL

(* The hand-shake of base_task_wrapper: a thread enters the application    *)
(* only as what it was created for and with its id in the table, although  *)
(* it may run before pthread_create has returned.                          *)
THEOREM TasksStartComplete == ASSUME CreatesOwn PROVE OrderlySpec => []StartsComplete
<1>1. TaskInv => StartsComplete
  BY DEF TaskInv, StartsComplete, Begun, Entered
<1> QED
  BY <1>1, TaskInvariant, PTL

(* Each thread that runs is in the table, or is about to be.               *)
THEOREM NoTaskOrphaned == ASSUME CreatesOwn PROVE OrderlySpec => []NoOrphan
<1>1. ASSUME TaskInv PROVE NoOrphan
  <2> SUFFICES ASSUME NEW t \in Running
               PROVE  \/ \E s \in Slots : thr[s] = t /\ (name[s] # NoName \/ s \in Deleting)
                      \/ \E c \in Callers : pc[c] = "store" /\ made[c] = t
    BY DEF NoOrphan
  <2>1. Begun(t) /\ at[t] \in {"wrapper", "entry"} /\ tsk[t] \in Slots
    BY <1>1 DEF TaskInv, Running, Typed, TypeOK
  <2>2. CASE Pending(t)
    BY <2>2 DEF Pending
  <2>3. CASE Entered(t)
    BY <2>1, <2>3 DEF Entered
  <2> QED
    BY <2>1, <2>2, <2>3 DEF Begun
<1> QED
  BY <1>1, TaskInvariant, PTL

-----------------------------------------------------------------------------
(* What a delete found under its name stays in its slot till the cancel.   *)
AimInv ==
  /\ aim \in [Callers -> Threads \cup {NoThread}]
  /\ \A c \in Callers : pc[c] \in Ending => thr[idx[c]] = aim[c]

LEMMA AimStep == TaskInv /\ AimInv /\ [Next /\ DeletesAlone']_vars => AimInv'
<1> SUFFICES ASSUME TaskInv, AimInv, [Next /\ DeletesAlone']_vars PROVE AimInv'
  OBVIOUS
<1>1. Typed
  BY DEF TaskInv
<1>2. ASSUME NEW c \in Callers, StoreThr(c) PROVE AimInv'
  <2>1. \A x \in Callers : pc[x] \notin Ending
    BY <1>2 DEF TaskInv, DeletesAlone, StoreThr, Ending
  <2>2. UNCHANGED aim /\ \A x \in Callers : pc'[x] \notin Ending
    BY <1>1, <1>2, <2>1 DEF StoreThr, Goto, Typed, Ending
  <2> QED
    BY <2>2 DEF AimInv
<1>3. ASSUME NEW c \in Callers, FindOld(c) PROVE AimInv'
  <2>1. CASE Named(want[c]) = {}
    BY <1>1, <1>3, <2>1 DEF FindOld, Goto, Typed, AimInv, Ending, table
  <2>2. CASE Named(want[c]) # {}
    <3>1. PICK s \in Slots : s = Min(Named(want[c]))
      BY <2>2, FindsNamed
    <3>2. /\ idx' = [idx EXCEPT ![c] = s] /\ aim' = [aim EXCEPT ![c] = thr[s]]
          /\ pc' = [pc EXCEPT ![c] = "destroy"] /\ UNCHANGED thr
      BY <1>3, <2>2, <3>1 DEF FindOld, Goto, table
    <3>3. thr[s] \in Threads \cup {NoThread}
      BY <1>1 DEF Typed, TypeOK
    <3> QED
      BY <1>1, <3>2, <3>3 DEF AimInv, Typed, TypeOK
  <2> QED
    BY <2>1, <2>2
<1>4. ASSUME NEW c \in Callers, Goto(c, "free") \/ Goto(c, "detach") \/ Goto(c, "cancel"),
             pc[c] \in Ending, UNCHANGED <<thr, idx, aim>>
      PROVE  AimInv'
  BY <1>1, <1>4 DEF Goto, Typed, AimInv
<1>5. ASSUME NEW c \in Callers, NEW l, l \notin Ending, Goto(c, l), UNCHANGED <<thr, aim>>,
             \A x \in Callers : x # c => idx'[x] = idx[x]
      PROVE  AimInv'
  BY <1>1, <1>5 DEF Goto, Typed, AimInv
<1>6. ASSUME NEW c \in Callers, Create(c) PROVE AimInv'
  <2> USE DEF Ending, Typed, TypeOK
  <2>1. ASSUME NEW n \in Names, CallCreate(c, n) PROVE AimInv'
    BY <1>5, <2>1 DEF CallCreate, table
  <2>2. CASE FindNew(c) \/ UndoAdd(c) \/ Fill(c) \/ Release(c) \/ SpawnFails(c)
    BY <1>5, <2>2 DEF FindNew, UndoAdd, Fill, Release, SpawnFails, table
  <2>3. CASE AddSlot(c)
    BY <1>5, <2>3 DEF AddSlot
  <2>4. CASE FindAdded(c)
    BY <1>1, <1>5, <2>4 DEF FindAdded, table
  <2>5. ASSUME NEW t \in Threads, Spawn(c, t) PROVE AimInv'
    BY <1>5, <2>5 DEF Spawn, table
  <2> QED
    BY <1>2, <1>6, <2>1, <2>2, <2>3, <2>4, <2>5 DEF Create
<1>7. ASSUME NEW c \in Callers, Delete(c) PROVE AimInv'
  <2>1. ASSUME NEW n \in Names, CallDelete(c, n) PROVE AimInv'
    BY <1>5, <2>1 DEF CallDelete, table, Ending
  <2>2. CASE Destroy(c) \/ FreeSlot(c) \/ Detach(c)
    BY <1>4, <2>2 DEF Destroy, FreeSlot, Detach, table, Ending
  <2>3. CASE Cancel(c)
    BY <1>5, <2>3 DEF Cancel, table, Ending
  <2> QED
    BY <1>3, <1>7, <2>1, <2>2, <2>3 DEF Delete
<1>8. ASSUME NEW c \in Callers, Send(c) PROVE AimInv'
  <2> USE DEF Ending, Typed, TypeOK
  <2>1. ASSUME NEW n \in Names, CallSend(c, n) PROVE AimInv'
    BY <1>5, <2>1 DEF CallSend, table
  <2>2. CASE FindTask(c)
    BY <1>1, <1>5, <2>2 DEF FindTask, table
  <2>3. CASE Post(c)
    BY <1>5, <2>3 DEF Post, table
  <2> QED
    BY <1>8, <2>1, <2>2, <2>3 DEF Send
<1>9. CASE UNCHANGED <<table, callers>>
  BY <1>9 DEF table, callers, AimInv
<1>10. ASSUME NEW t \in Threads, Run(t) PROVE AimInv'
  BY <1>9, <1>10 DEF Run, Start, End
<1> QED
  BY <1>6, <1>7, <1>8, <1>9, <1>10 DEF Next, vars

(* A delete cancels the task it found under the name, although it reads    *)
(* ThrId from a slot that it has freed: no create takes the slot.          *)
THEOREM DeletesWhatItFound == ASSUME CreatesOwn PROVE OrderlySpec => []CancelsNamed
<1>1. Init => AimInv
  BY DEF Init, AimInv, Ending
<1>2. AimInv => CancelsNamed
  BY DEF AimInv, CancelsNamed, Ending
<1> QED
  BY <1>1, <1>2, AimStep, TaskInvariant, PTL DEF OrderlySpec
-----------------------------------------------------------------------------
(* Events: no task sleeps through one it asked for, and receiving one      *)
(* drops no other.                                                         *)

LEMMA EventTypeInit == EventInit => EventTypeOK /\ SleepsForNothing
  BY DEF EventInit, EventTypeOK, SleepsForNothing

LEMMA EventTypeStep == EventTypeOK /\ [EventNext]_eventVars => EventTypeOK'
<1> SUFFICES ASSUME EventTypeOK, [EventNext]_eventVars
             PROVE  EventTypeOK'
  OBVIOUS
<1> USE DEF EventTypeOK
<1>1. ASSUME NEW k \in Tasks, NEW e \in SUBSET Events, SendTo(k, e)
      PROVE  EventTypeOK'
  BY <1>1 DEF SendTo
<1>2. ASSUME NEW k \in Tasks, NEW m \in SUBSET Events, NEW w \in BOOLEAN, CallReceive(k, m, w)
      PROVE  EventTypeOK'
  <2>1. wait' \in [Tasks -> BOOLEAN]
    BY <1>2, Zenon DEF CallReceive
  <2> QED
    BY <1>2, <2>1 DEF CallReceive
<1>3. ASSUME NEW k \in Tasks, RejectReceive(k)
      PROVE  EventTypeOK'
  BY <1>3 DEF RejectReceive
<1>4. ASSUME NEW k \in Tasks, Take(k)
      PROVE  EventTypeOK'
  BY <1>4 DEF Take, Asked
<1>5. ASSUME NEW k \in Tasks, Wait(k)
      PROVE  EventTypeOK'
  BY <1>5 DEF Wait
<1>6. ASSUME NEW k \in Tasks, SpuriousWake(k)
      PROVE  EventTypeOK'
  BY <1>6 DEF SpuriousWake
<1>7. CASE UNCHANGED eventVars
  BY <1>7 DEF eventVars
<1> QED
  BY <1>1, <1>2, <1>3, <1>4, <1>5, <1>6, <1>7 DEF EventNext, Receive

LEMMA SleepStep == EventTypeOK /\ SleepsForNothing /\ [EventNext]_eventVars => SleepsForNothing'
<1> SUFFICES ASSUME EventTypeOK, SleepsForNothing, [EventNext]_eventVars,
                    NEW j \in Tasks, (stage[j] = "asleep")'
             PROVE  (Asked(j) = {})'
  BY DEF SleepsForNothing
<1> USE DEF EventTypeOK, SleepsForNothing, Asked
(* A send to a sleeper wakes it, and one to another task does not touch j. *)
<1>1. ASSUME NEW k \in Tasks, NEW e \in SUBSET Events, SendTo(k, e)
      PROVE  (Asked(j) = {})'
  BY <1>1 DEF SendTo
<1>2. ASSUME NEW k \in Tasks, NEW m \in SUBSET Events, NEW w \in BOOLEAN, CallReceive(k, m, w)
      PROVE  (Asked(j) = {})'
  BY <1>2 DEF CallReceive
<1>3. ASSUME NEW k \in Tasks, RejectReceive(k)
      PROVE  (Asked(j) = {})'
  BY <1>3 DEF RejectReceive
<1>4. ASSUME NEW k \in Tasks, Take(k)
      PROVE  (Asked(j) = {})'
  BY <1>4 DEF Take
<1>5. ASSUME NEW k \in Tasks, Wait(k)
      PROVE  (Asked(j) = {})'
  BY <1>5 DEF Wait
<1>6. ASSUME NEW k \in Tasks, SpuriousWake(k)
      PROVE  (Asked(j) = {})'
  BY <1>6 DEF SpuriousWake
<1>7. CASE UNCHANGED eventVars
  BY <1>7 DEF eventVars
<1> QED
  BY <1>1, <1>2, <1>3, <1>4, <1>5, <1>6, <1>7 DEF EventNext, Receive

(* No task sleeps while an event it asked for is there.                    *)
THEOREM NoEventSleptThrough == EventSpec => []SleepsForNothing
<1>1. EventTypeOK /\ SleepsForNothing /\ [EventNext]_eventVars => (EventTypeOK /\ SleepsForNothing)'
  BY EventTypeStep, SleepStep
<1> QED
  BY EventTypeInit, <1>1, PTL DEF EventSpec

LEMMA TakeStep ==
  EventTypeOK /\ [EventNext]_eventVars => [\A k \in Tasks : events[k] \ events'[k] \subseteq got'[k]]_eventVars
<1> SUFFICES ASSUME EventTypeOK, [EventNext]_eventVars, NEW j \in Tasks
             PROVE  UNCHANGED eventVars \/ events[j] \ events'[j] \subseteq got'[j]
  OBVIOUS
<1> USE DEF EventTypeOK
<1>1. ASSUME NEW k \in Tasks, NEW e \in SUBSET Events, SendTo(k, e)
      PROVE  events[j] \ events'[j] \subseteq got'[j]
  BY <1>1 DEF SendTo
<1>2. ASSUME NEW k \in Tasks, Take(k)
      PROVE  events[j] \ events'[j] \subseteq got'[j]
  BY <1>2 DEF Take
<1>3. CASE events' = events
  BY <1>3
<1> QED
  BY <1>1, <1>2, <1>3 DEF EventNext, Receive, CallReceive, RejectReceive, Wait, SpuriousWake

(* Receiving an event drops no other.                                      *)
THEOREM NoEventDropped == EventSpec => TakesWhatItReturns
  BY EventTypeInit, EventTypeStep, TakeStep, PTL DEF EventSpec, TakesWhatItReturns
=============================================================================
