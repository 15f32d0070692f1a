------------------------------ MODULE OsixSem -------------------------------
(***************************************************************************)
(* The named semaphores of src/linux/base_sem.c.  Each scan of gaOsixSem   *)
(* runs under gOsixMutex and is one step; the semaphore that was found is  *)
(* used after the mutex is released.  A name is not empty, and a slot is   *)
(* free (u2Free) when it has none.                                         *)
(*                                                                         *)
(* base_sem_create initialises the semaphore that its caller's variable    *)
(* refers to, then enters the name in a slot whose own semaphore it clears *)
(* and never tells the caller which: the others find it by its name.       *)
(***************************************************************************)
EXTENDS Naturals, FiniteSets, FiniteSetsExt

CONSTANTS
  Callers,   (* threads                                                    *)
  Names,     (* names of semaphores                                        *)
  NoName,    (* an empty name                                              *)
  MaxSems,   (* OSIX_MAX_SEMS                                              *)
  SemMax,    (* SEM_VALUE_MAX                                              *)
  Counts,    (* values of u4InitialCount                                   *)
  Overlap,   (* creates and deletes of a name overlap other calls on it    *)
  KeepVar    (* create gets the variable that earlier calls wrote          *)

ASSUME SemAssumption ==
  MaxSems \in Nat \ {0} /\ SemMax \in Nat /\ Counts \subseteq Nat /\ NoName \notin Names

VARIABLES
  name,      (* per slot: au1Name                                          *)
  value,     (* per slot: the count of SemId                               *)
  pc,        (* per caller: the call it is in                              *)
  want,      (* per caller: the name it called with                        *)
  slot,      (* per caller: the slot it found, SemId                       *)
  asked,     (* per caller: u4InitialCount                                 *)
  ref        (* per caller: the slot *pSemId refers to, 0 for its own      *)

vars == <<name, value, pc, want, slot, asked, ref>>

Slots == 1..MaxSems

Holding(n) == {i \in Slots : name[i] = n}

(* Some caller is in one of these calls on the name.                       *)
Busy(n, calls) == \E c \in Callers : pc[c] \in calls /\ want[c] = n

Goto(c, label) == pc' = [pc EXCEPT ![c] = label]

Return(c) ==
  /\ Goto(c, "idle")
  /\ want' = [want EXCEPT ![c] = NoName]
  /\ slot' = [slot EXCEPT ![c] = 1]
  /\ asked' = [asked EXCEPT ![c] = 0]

(* The caller's variable gets the semaphore of slot i.                     *)
Tell(c, i) == ref' = IF KeepVar THEN [ref EXCEPT ![c] = i] ELSE ref

(* A call on n starts: what it found takes it to the next step.            *)
Enter(c, n, label) ==
  /\ pc[c] = "idle"
  /\ Holding(n) # {}
  /\ Goto(c, label)
  /\ want' = [want EXCEPT ![c] = n]
  /\ slot' = [slot EXCEPT ![c] = Min(Holding(n))]
  /\ UNCHANGED <<name, value, asked, ref>>

-----------------------------------------------------------------------------
(* base_sem_create *)

(* An existing name is refused, but its semaphore is written to *pSemId.   *)
CreateRefused(c, n) ==
  /\ pc[c] = "idle"
  /\ Holding(n) # {}
  /\ Tell(c, Min(Holding(n)))
  /\ UNCHANGED <<name, value, pc, want, slot, asked>>

(* The result of the find is not looked at.                                *)
CreateUnseen(c, n, k) ==
  /\ pc[c] = "idle"
  /\ Overlap \/ ~Busy(n, {"init", "add", "del"})
  /\ Goto(c, "init")
  /\ want' = [want EXCEPT ![c] = n]
  /\ asked' = [asked EXCEPT ![c] = k]
  /\ UNCHANGED <<name, value, slot, ref>>

CreateFind(c, n, k) ==
  /\ pc[c] = "idle"
  /\ Holding(n) = {}
  /\ Overlap \/ ~Busy(n, {"init", "add", "del"})
  /\ Goto(c, "init")
  /\ want' = [want EXCEPT ![c] = n]
  /\ asked' = [asked EXCEPT ![c] = k]
  /\ UNCHANGED <<name, value, slot, ref>>

(* sem_init of *pSemId.                                                    *)
CreateInit(c) ==
  /\ pc[c] = "init"
  /\ asked[c] <= SemMax
  /\ value' = IF ref[c] = 0 THEN value ELSE [value EXCEPT ![ref[c]] = asked[c]]
  /\ Goto(c, "add")
  /\ UNCHANGED <<name, want, slot, asked, ref>>

(* sem_init fails: the slot *pSemId refers to is freed.                    *)
CreateInitFails(c) ==
  /\ pc[c] = "init"
  /\ asked[c] > SemMax
  /\ name' = IF ref[c] = 0 THEN name ELSE [name EXCEPT ![ref[c]] = NoName]
  /\ Return(c)
  /\ UNCHANGED <<value, ref>>

(* The slot's semaphore stays as it was left.                              *)
CreateAddAsLeft(c) ==
  /\ pc[c] = "add"
  /\ Holding(NoName) # {}
  /\ name' = [name EXCEPT ![Min(Holding(NoName))] = want[c]]
  /\ Return(c)
  /\ UNCHANGED <<value, ref>>

(* base_sem_info_add, with 0 for its resource.                             *)
CreateAdd(c) ==
  /\ pc[c] = "add"
  /\ Holding(NoName) # {}
  /\ LET i == Min(Holding(NoName)) IN
       /\ name' = [name EXCEPT ![i] = want[c]]
       /\ value' = [value EXCEPT ![i] = 0]
  /\ Return(c)
  /\ UNCHANGED ref

CreateFull(c) ==
  /\ pc[c] = "add"
  /\ Holding(NoName) = {}
  /\ Return(c)
  /\ UNCHANGED <<name, value, ref>>

-----------------------------------------------------------------------------
(* base_sem_delete *)
DeleteFind(c, n) ==
  /\ Overlap \/ ~Busy(n, {"init", "add", "del", "take", "give"})
  /\ Enter(c, n, "del")

(* The index is off by one for a slot that has one before it.              *)
DeleteFreeBefore(c) ==
  /\ pc[c] = "del"
  /\ name' = [name EXCEPT ![IF slot[c] = 1 THEN 1 ELSE slot[c] - 1] = NoName]
  /\ Return(c)
  /\ UNCHANGED <<value, ref>>

(* base_sem_info_del; sem_destroy after it does nothing on Linux.          *)
DeleteFree(c) ==
  /\ pc[c] = "del"
  /\ name' = [name EXCEPT ![slot[c]] = NoName]
  /\ Return(c)
  /\ UNCHANGED <<value, ref>>

-----------------------------------------------------------------------------
(* base_sem_take *)
TakeFind(c, n) ==
  /\ Overlap \/ ~Busy(n, {"del"})
  /\ Enter(c, n, "take")

TakeWait(c) ==
  /\ pc[c] = "take"
  /\ value[slot[c]] > 0
  /\ value' = [value EXCEPT ![slot[c]] = @ - 1]
  /\ Return(c)
  /\ UNCHANGED <<name, ref>>

(* The test of sem_wait's result guards an empty statement.                *)
TakeInterrupted(c) ==
  /\ pc[c] = "take"
  /\ Return(c)
  /\ UNCHANGED <<name, value, ref>>

-----------------------------------------------------------------------------
(* base_sem_give *)
GiveFind(c, n) ==
  /\ Overlap \/ ~Busy(n, {"del"})
  /\ Enter(c, n, "give")

GivePost(c) ==
  /\ pc[c] = "give"
  /\ value' = IF value[slot[c]] < SemMax
              THEN [value EXCEPT ![slot[c]] = @ + 1]
              ELSE value
  /\ Return(c)
  /\ UNCHANGED <<name, ref>>

(* base_sem_get *)
GetSem(c, n) ==
  /\ pc[c] = "idle"
  /\ Holding(n) # {}
  /\ Tell(c, Min(Holding(n)))
  /\ UNCHANGED <<name, value, pc, want, slot, asked>>

-----------------------------------------------------------------------------
Init ==
  /\ name = [i \in Slots |-> NoName]
  /\ value = [i \in Slots |-> 0]
  /\ pc = [c \in Callers |-> "idle"]
  /\ want = [c \in Callers |-> NoName]
  /\ slot = [c \in Callers |-> 1]
  /\ asked = [c \in Callers |-> 0]
  /\ ref = [c \in Callers |-> 0]

Calls(c, n) ==
  \/ \E k \in Counts : CreateFind(c, n, k)
  \/ CreateRefused(c, n)
  \/ DeleteFind(c, n)
  \/ TakeFind(c, n)
  \/ GiveFind(c, n)
  \/ GetSem(c, n)

Steps(c) ==
  \/ CreateInit(c) \/ CreateInitFails(c) \/ CreateAdd(c) \/ CreateFull(c)
  \/ DeleteFree(c)
  \/ TakeWait(c) \/ TakeInterrupted(c)
  \/ GivePost(c)

Next == \E c \in Callers : Steps(c) \/ \E n \in Names : Calls(c, n)

Spec == Init /\ [][Next]_vars

-----------------------------------------------------------------------------
(* The types of the table and of the calls.                                *)
TypeOK ==
  /\ name \in [Slots -> Names \cup {NoName}]
  /\ value \in [Slots -> 0..SemMax]
  /\ pc \in [Callers -> {"idle", "init", "add", "del", "take", "give"}]
  /\ want \in [Callers -> Names \cup {NoName}]
  /\ slot \in [Callers -> Slots]
  /\ asked \in [Callers -> Nat]
  /\ ref \in [Callers -> Slots \cup {0}]
  /\ \A c \in Callers : pc[c] = "idle" <=> want[c] = NoName
  /\ KeepVar \/ \A c \in Callers : ref[c] = 0

(* No two semaphores have one name, although the test for the name and its *)
(* entry in the table are two critical sections.                           *)
UniqueNames ==
  \A i, j \in Slots : name[i] = name[j] /\ name[i] # NoName => i = j

(* What a take, a give or a delete found under its name is still there     *)
(* when it uses it, without the mutex.                                     *)
ActsOnNamed ==
  \A c \in Callers : pc[c] \in {"del", "take", "give"} => name[slot[c]] = want[c]

(* A creation that goes on has found no semaphore of its name, and nobody  *)
(* else creates that name.                                                 *)
CreatesAlone ==
  \A c \in Callers : pc[c] \in {"init", "add"} =>
    /\ Holding(want[c]) = {}
    /\ \A d \in Callers : pc[d] \in {"init", "add"} /\ want[d] = want[c] => d = c

(* Nobody else is in a call on a name that is being deleted.               *)
DeletesAlone ==
  \A c, d \in Callers : pc[c] = "del" /\ pc[d] # "idle" /\ want[d] = want[c] => d = c

IInv == TypeOK /\ UniqueNames /\ ActsOnNamed /\ CreatesAlone /\ DeletesAlone

-----------------------------------------------------------------------------
(* The counter of a name, and the call a step is part of.                  *)
Count(n) == IF Holding(n) = {} THEN 0 ELSE value[Min(Holding(n))]

Op(label) ==
  CASE label = "idle" -> "none"
    [] label \in {"init", "add"} -> "create"
    [] label = "del" -> "delete"
    [] OTHER -> label

Abstract == INSTANCE NamedSems WITH
  live <- {n \in Names : Holding(n) # {}},
  count <- [n \in Names |-> Count(n)],
  call <- [c \in Callers |-> [op |-> Op(pc[c]), name |-> want[c]]]

(* Through a table whose slots are used again, scanned in one critical     *)
(* section and used outside of it, every name has a counter of its own     *)
(* that starts at zero, and a call changes no other, and that one once.    *)
NamedSpec == Abstract!Spec

-----------------------------------------------------------------------------
(* What comments of base_sem.c say, and the code does not do.              *)

(* "u4InitialCount - Initial value of sema4."                              *)
StartsAtCount ==
  [][\A c \in Callers : CreateAdd(c) => value'[Min(Holding(NoName))] = asked[c]]_vars

(* "This is called by appln.s to take a sema4.": a take that succeeds has  *)
(* taken a permit.                                                         *)
SuccessTakes ==
  [][\A c \in Callers : pc[c] = "take" /\ pc'[c] = "idle" =>
       value'[slot[c]] = value[slot[c]] - 1]_vars
=============================================================================
