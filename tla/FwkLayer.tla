------------------------------ MODULE FwkLayer ------------------------------
(***************************************************************************)
(* The mutexes, conditions and semaphores of src/linux/base_mutex.c: three *)
(* tables of slots that no lock guards.  A create looks for a slot that is *)
(* not used, clears it, initialises its object and marks it used, and      *)
(* other threads run between any two of these.  A slot is known by its     *)
(* address: a handle goes on to name the slot after it was freed.          *)
(*                                                                         *)
(* A positive timeout of a lock is that of a try: its deadline is read     *)
(* from CLOCK_MONOTONIC and compared with CLOCK_REALTIME.  The counts of   *)
(* mutexes and conditions are read by nobody and left out.                 *)
(***************************************************************************)
EXTENDS Integers, FiniteSets, FiniteSetsExt

CONSTANTS
  Callers,    (* threads                                                   *)
  Nobody,     (* owner of a mutex that is free                             *)
  Names,      (* names of semaphores                                       *)
  NoName,     (* a cleared name                                            *)
  Mutexes,    (* FWK_MUTEX_MAX_LIMIT                                       *)
  Conds,      (* FWK_COND_MAX_LIMIT                                        *)
  Semas,      (* FWK_SEMA4_MAX_LIMIT                                       *)
  SemMax,     (* SEM_VALUE_MAX                                             *)
  Counts,     (* initial counters asked for                                *)
  Timeouts,   (* timeouts, in milliseconds, besides that of -1, for ever    *)
  Nsecs,      (* readings of the clock: nanoseconds of the second          *)
  Overlap     (* creates overlap, and deletes overlap calls on their slot  *)

ASSUME FwkAssumption ==
  /\ {Mutexes, Conds, Semas} \subseteq Nat \ {0}
  /\ SemMax \in Nat /\ Counts \subseteq Nat
  /\ Nobody \notin Callers /\ NoName \notin Names
ASSUME TimesAssumption == Timeouts \subseteq Nat /\ Nsecs \subseteq 0..999999999

VARIABLES
  used,      (* per slot: used                                             *)
  obj,       (* per slot: cleared, ready, or destroyed                     *)
  holder,    (* per mutex: who has it                                      *)
  value,     (* per semaphore: its counter                                 *)
  named,     (* per semaphore: attr.name                                   *)
  count,     (* gCurSema4Count                                             *)
  pc,        (* per caller: the step it is at                              *)
  at,        (* per caller: the slot its call is about                     *)
  mid,       (* per caller: the mutex of its fwk_waitCond                  *)
  arg,       (* per caller: polls left, or attr.value                      *)
  want,      (* per caller: attr.name                                      *)
  tmp        (* per caller: gCurSema4Count as it read it                   *)

tables == <<used, obj, holder, value, named, count>>
vars == <<tables, pc, at, mid, arg, want, tmp>>

Kinds == {"mutex", "cond", "sema"}
Size == [mutex |-> Mutexes, cond |-> Conds, sema |-> Semas]
Table(k) == {k} \X (1..Size[k])
Slots == UNION {Table(k) : k \in Kinds}
NoSlot == <<"none", 0>>
Limits == {-1} \cup Timeouts

Creating == {"scan", "clear", "init", "publish", "inc", "incStore"}
Deleting == {"dlock", "dunlock", "destroy", "free", "dec", "decStore"}

(* A call on slot s that has not returned, if it is at one of these steps. *)
In(c, s, steps) == pc[c] \in steps /\ s \in {at[c], mid[c]}
Pending(s) == \E c \in Callers : pc[c] # "idle" /\ s \in {at[c], mid[c]}

(* Nobody is in a create of kind k, or in a delete of a semaphore, which   *)
(* changes the count that creates change, if k is that.                    *)
Alone(k) ==
  \A d \in Callers :
    pc[d] \in Creating \cup (IF k = "sema" THEN Deleting ELSE {}) => at[d][1] # k

(* A slot whose handle c may use now.                                      *)
MayUse(c, s) ==
  /\ pc[c] = "idle" /\ used[s]
  /\ Overlap \/ \A d \in Callers : ~In(d, s, Deleting)

Call(c, label, s) ==
  /\ pc' = [pc EXCEPT ![c] = label]
  /\ at' = [at EXCEPT ![c] = s]

Goto(c, label) ==
  /\ pc' = [pc EXCEPT ![c] = label]
  /\ UNCHANGED <<at, mid, arg, want, tmp>>

Return(c) ==
  /\ Call(c, "idle", NoSlot)
  /\ mid' = [mid EXCEPT ![c] = NoSlot]
  /\ arg' = [arg EXCEPT ![c] = 0]
  /\ want' = [want EXCEPT ![c] = NoName]
  /\ tmp' = [tmp EXCEPT ![c] = 0]

HasNone(c) == \A m \in Table("mutex") : holder[m] # c

-----------------------------------------------------------------------------
(* fwk_createMutex, fwk_createCond, fwk_createSemaphore *)

CallCreate(c, k) ==
  /\ pc[c] = "idle"
  /\ Overlap \/ Alone(k)
  /\ Call(c, "scan", <<k, 1>>)
  /\ IF k = "sema"
     THEN /\ \E n \in Names : want' = [want EXCEPT ![c] = n]
          /\ \E v \in Counts : arg' = [arg EXCEPT ![c] = v]
     ELSE UNCHANGED <<want, arg>>
  /\ UNCHANGED <<tables, mid, tmp>>

ScanNext(c) ==
  /\ pc[c] = "scan" /\ used[at[c]]
  /\ IF at[c][2] = Size[at[c][1]]
     THEN Return(c)
     ELSE /\ at' = [at EXCEPT ![c] = <<@[1], @[2] + 1>>]
          /\ UNCHANGED <<pc, mid, arg, want, tmp>>
  /\ UNCHANGED tables

(* It takes the slot whether or not it is used.                            *)
ScanAny(c) ==
  /\ pc[c] = "scan"
  /\ Goto(c, "clear")
  /\ UNCHANGED tables

ScanHit(c) ==
  /\ pc[c] = "scan" /\ ~used[at[c]]
  /\ Goto(c, "clear")
  /\ UNCHANGED tables

Clear(c) ==
  /\ pc[c] = "clear"
  /\ obj' = [obj EXCEPT ![at[c]] = "clear"]
  /\ holder' = [m \in DOMAIN holder |-> IF m = at[c] THEN Nobody ELSE holder[m]]
  /\ value' = [s \in DOMAIN value |-> IF s = at[c] THEN 0 ELSE value[s]]
  /\ named' = [s \in DOMAIN named |-> IF s = at[c] THEN NoName ELSE named[s]]
  /\ Goto(c, "init")
  /\ UNCHANGED <<used, count>>

(* A mutex whose initialisation fails is destroyed.                        *)
InitMutex(c) ==
  /\ pc[c] = "init" /\ at[c][1] = "mutex"
  /\ \/ /\ obj' = [obj EXCEPT ![at[c]] = "ready"]
        /\ holder' = [holder EXCEPT ![at[c]] = Nobody]
        /\ Goto(c, "publish")
     \/ /\ obj' = [obj EXCEPT ![at[c]] = "dead"]
        /\ Return(c)
        /\ UNCHANGED holder
  /\ UNCHANGED <<used, value, named, count>>

(* A condition that fails deletes the mutex mid, which was cleared.        *)
InitCond(c) ==
  /\ pc[c] = "init" /\ at[c][1] = "cond"
  /\ \/ obj' = [obj EXCEPT ![at[c]] = "ready"] /\ Goto(c, "publish")
     \/ Return(c) /\ UNCHANGED obj
  /\ UNCHANGED <<used, holder, value, named, count>>

(* The attributes of the slot, cleared before, are read, and not the       *)
(* caller's: the counter starts at 0 and sem_init cannot fail.             *)
InitSema(c) ==
  /\ pc[c] = "init" /\ at[c][1] = "sema"
  /\ obj' = [obj EXCEPT ![at[c]] = "ready"]
  /\ value' = [value EXCEPT ![at[c]] = 0]
  /\ Goto(c, "publish")
  /\ UNCHANGED <<used, holder, named, count>>

Publish(c) ==
  /\ pc[c] = "publish"
  /\ used' = [used EXCEPT ![at[c]] = TRUE]
  /\ named' = [s \in DOMAIN named |-> IF s = at[c] THEN want[c] ELSE named[s]]
  /\ IF at[c][1] = "sema" THEN Goto(c, "inc") ELSE Return(c)
  /\ UNCHANGED <<obj, holder, value, count>>

(* gCurSema4Count is loaded and stored, after a create or a delete.        *)
LoadCount(c) ==
  /\ pc[c] \in {"inc", "dec"}
  /\ tmp' = [tmp EXCEPT ![c] = count]
  /\ pc' = [pc EXCEPT ![c] = IF @ = "inc" THEN "incStore" ELSE "decStore"]
  /\ UNCHANGED <<tables, at, mid, arg, want>>

StoreCount(c) ==
  /\ pc[c] \in {"incStore", "decStore"}
  /\ count' = IF pc[c] = "incStore" THEN tmp[c] + 1 ELSE tmp[c] - 1
  /\ Return(c)
  /\ UNCHANGED <<used, obj, holder, value, named>>

-----------------------------------------------------------------------------
(* fwk_deleteMutex, fwk_deleteCond, fwk_deleteSemaphore *)

(* The lock and the unlock are left out.                                   *)
CallDeleteAtOnce(c, s) ==
  /\ MayUse(c, s)
  /\ Overlap \/ (~Pending(s) /\ (s[1] = "sema" => Alone("sema")))
  /\ HasNone(c)
  /\ Call(c, "destroy", s)
  /\ UNCHANGED <<tables, mid, arg, want, tmp>>

CallDelete(c, s) ==
  /\ MayUse(c, s)
  /\ Overlap \/ (~Pending(s) /\ (s[1] = "sema" => Alone("sema")))
  /\ HasNone(c)
  /\ Call(c, IF s[1] = "mutex" THEN "dlock" ELSE "destroy", s)
  /\ UNCHANGED <<tables, mid, arg, want, tmp>>

DeleteLock(c) ==
  /\ pc[c] = "dlock"
  /\ \/ /\ obj[at[c]] # "dead" /\ holder[at[c]] = Nobody
        /\ holder' = [holder EXCEPT ![at[c]] = c]
        /\ Goto(c, "dunlock")
     \/ /\ obj[at[c]] = "dead"
        /\ Goto(c, "destroy")
        /\ UNCHANGED holder
  /\ UNCHANGED <<used, obj, value, named, count>>

DeleteUnlock(c) ==
  /\ pc[c] = "dunlock"
  /\ holder' = [holder EXCEPT ![at[c]] = Nobody]
  /\ Goto(c, "destroy")
  /\ UNCHANGED <<used, obj, value, named, count>>

(* A mutex that is held may say so and stay.                               *)
Destroy(c) ==
  /\ pc[c] = "destroy"
  /\ \/ /\ obj' = [obj EXCEPT ![at[c]] = "dead"]
        /\ Goto(c, "free")
     \/ /\ at[c][1] = "mutex" /\ holder[at[c]] # Nobody
        /\ Return(c)
        /\ UNCHANGED obj
  /\ UNCHANGED <<used, holder, value, named, count>>

Free(c) ==
  /\ pc[c] = "free"
  /\ used' = [used EXCEPT ![at[c]] = FALSE]
  /\ IF at[c][1] = "sema" THEN Goto(c, "dec") ELSE Return(c)
  /\ UNCHANGED <<obj, holder, value, named, count>>

-----------------------------------------------------------------------------
(* fwk_lockMutex, fwk_unlockMutex *)

CallLock(c, m, t) ==
  /\ MayUse(c, m) /\ HasNone(c)
  /\ Call(c, IF t < 0 THEN "lock" ELSE "trylock", m)
  /\ UNCHANGED <<tables, mid, arg, want, tmp>>

LockGets(c) ==
  /\ pc[c] \in {"lock", "trylock"}
  /\ obj[at[c]] # "dead" /\ holder[at[c]] = Nobody
  /\ holder' = [holder EXCEPT ![at[c]] = c]
  /\ Return(c)
  /\ UNCHANGED <<used, obj, value, named, count>>

LockFails(c) ==
  /\ \/ pc[c] = "trylock" /\ holder[at[c]] # Nobody
     \/ pc[c] \in {"lock", "trylock"} /\ obj[at[c]] = "dead"
  /\ Return(c)
  /\ UNCHANGED tables

Unlock(c, m) ==
  /\ pc[c] = "idle" /\ holder[m] = c
  /\ holder' = [holder EXCEPT ![m] = Nobody]
  /\ UNCHANGED <<used, obj, value, named, count, pc, at, mid, arg, want, tmp>>

-----------------------------------------------------------------------------
(* fwk_waitCond, fwk_wakeupCond *)

(* fwk_msToTs adds (t % 1000) * 1000000000 ns, a product of 32-bit ints    *)
(* that wraps, and is a multiple of 512; then it carries one second.       *)
Wrapped(t) ==
  LET p == ((t % 1000) * 1953125) % 8388608
  IN  512 * (IF p < 4194304 THEN p ELSE p - 8388608)

(* The deadline has a number of nanoseconds below a second.                *)
ValidTs(nsec, t) == Wrapped(t) >= -nsec /\ Wrapped(t) < 2000000000 - nsec

(* With a deadline that is not valid the call returns and changes nothing. *)
CallWait(c, s, m, t) ==
  /\ MayUse(c, s) /\ holder[m] = c
  /\ Overlap \/ \A d \in Callers : ~In(d, m, Deleting)
  /\ t < 0 \/ \E nsec \in Nsecs : ValidTs(nsec, t)
  /\ holder' = [holder EXCEPT ![m] = Nobody]
  /\ Call(c, IF t < 0 THEN "asleep" ELSE "nap", s)
  /\ mid' = [mid EXCEPT ![c] = m]
  /\ UNCHANGED <<used, obj, value, named, count, arg, want, tmp>>

TimeOut(c) ==
  /\ pc[c] = "nap"
  /\ Goto(c, "relock")
  /\ UNCHANGED tables

SpuriousWake(c) ==
  /\ pc[c] \in {"asleep", "nap"}
  /\ Goto(c, "relock")
  /\ UNCHANGED tables

Relock(c) ==
  /\ pc[c] = "relock" /\ holder[mid[c]] = Nobody
  /\ holder' = [holder EXCEPT ![mid[c]] = c]
  /\ Return(c)
  /\ UNCHANGED <<used, obj, value, named, count>>

Wakeup(c, s) ==
  /\ MayUse(c, s)
  /\ \E d \in Callers : In(d, s, {"asleep", "nap"}) /\ Goto(d, "relock")
  /\ UNCHANGED tables

-----------------------------------------------------------------------------
(* fwk_takeSemaphore, fwk_giveSemaphore *)

CallTake(c, s, t) ==
  /\ MayUse(c, s)
  /\ Call(c, CASE t < 0 -> "take" [] t = 0 -> "trytake" [] OTHER -> "poll", s)
  /\ arg' = [arg EXCEPT ![c] = IF t > 0 THEN t \div 10 ELSE 0]
  /\ UNCHANGED <<tables, mid, want, tmp>>

TakeGets(c) ==
  /\ pc[c] \in {"take", "trytake"} \/ (pc[c] = "poll" /\ arg[c] > 0)
  /\ value[at[c]] > 0
  /\ value' = [value EXCEPT ![at[c]] = @ - 1]
  /\ Return(c)
  /\ UNCHANGED <<used, obj, holder, named, count>>

TakeFails(c) ==
  /\ \/ pc[c] = "trytake" /\ value[at[c]] = 0
     \/ pc[c] = "poll" /\ arg[c] = 0
  /\ Return(c)
  /\ UNCHANGED tables

(* It tries without counting.                                              *)
PollOn(c) ==
  /\ pc[c] = "poll" /\ arg[c] > 0 /\ value[at[c]] = 0
  /\ UNCHANGED vars

Poll(c) ==
  /\ pc[c] = "poll" /\ arg[c] > 0 /\ value[at[c]] = 0
  /\ arg' = [arg EXCEPT ![c] = @ - 1]
  /\ UNCHANGED <<tables, pc, at, mid, want, tmp>>

Give(c, s) ==
  /\ MayUse(c, s)
  /\ value[s] < SemMax
  /\ value' = [value EXCEPT ![s] = @ + 1]
  /\ UNCHANGED <<used, obj, holder, named, count, pc, at, mid, arg, want, tmp>>

(* fwk_semaphoreID: the slot of a name, 0 for NULL.                        *)
SemaphoreID(n) ==
  LET hits == {i \in 1..Semas : i <= count /\ named[<<"sema", i>>] = n}
  IN  IF hits = {} THEN 0 ELSE Min(hits)

-----------------------------------------------------------------------------
Init ==
  /\ used = [s \in Slots |-> FALSE]
  /\ obj = [s \in Slots |-> "clear"]
  /\ holder = [m \in Table("mutex") |-> Nobody]
  /\ value = [s \in Table("sema") |-> 0]
  /\ named = [s \in Table("sema") |-> NoName]
  /\ count = 0
  /\ pc = [c \in Callers |-> "idle"]
  /\ at = [c \in Callers |-> NoSlot]
  /\ mid = [c \in Callers |-> NoSlot]
  /\ arg = [c \in Callers |-> 0]
  /\ want = [c \in Callers |-> NoName]
  /\ tmp = [c \in Callers |-> 0]

Calls(c) ==
  \/ \E k \in Kinds : CallCreate(c, k)
  \/ \E s \in Slots : CallDelete(c, s)
  \/ \E m \in Table("mutex") : Unlock(c, m) \/ \E t \in Limits : CallLock(c, m, t)
  \/ \E s \in Table("cond") :
       \/ Wakeup(c, s)
       \/ \E m \in Table("mutex"), t \in Limits : CallWait(c, s, m, t)
  \/ \E s \in Table("sema") : Give(c, s) \/ \E t \in Limits : CallTake(c, s, t)

(* The steps of a call that has begun, but for a wake-up nobody asked for. *)
Steps(c) ==
  \/ ScanNext(c) \/ ScanHit(c) \/ Clear(c) \/ Publish(c)
  \/ InitMutex(c) \/ InitCond(c) \/ InitSema(c)
  \/ LoadCount(c) \/ StoreCount(c)
  \/ DeleteLock(c) \/ DeleteUnlock(c) \/ Destroy(c) \/ Free(c)
  \/ LockGets(c) \/ LockFails(c)
  \/ TimeOut(c) \/ Relock(c)
  \/ TakeGets(c) \/ TakeFails(c) \/ Poll(c)

Next == \E c \in Callers : Calls(c) \/ Steps(c) \/ SpuriousWake(c)

Spec == Init /\ [][Next]_vars

FairSpec == Spec /\ \A c \in Callers : WF_vars(Steps(c))

-----------------------------------------------------------------------------
(* The types of the tables and of the calls.                               *)
TypeOK ==
  /\ used \in [Slots -> BOOLEAN]
  /\ obj \in [Slots -> {"clear", "ready", "dead"}]
  /\ holder \in [Table("mutex") -> Callers \cup {Nobody}]
  /\ value \in [Table("sema") -> 0..SemMax]
  /\ named \in [Table("sema") -> Names \cup {NoName}]
  /\ count \in 0..Semas
  /\ \A c \in Callers : pc[c] = "idle" <=> at[c] = NoSlot

(* Whoever holds a mutex, sleeps on a condition or waits for a semaphore   *)
(* does so in a slot that is initialised and used: a delete waits for the  *)
(* holder before it destroys, and a create takes no slot from others.      *)
HeldIsReady ==
  /\ \A m \in Table("mutex") : holder[m] # Nobody => used[m] /\ obj[m] = "ready"
  /\ \A c \in Callers, s \in Slots :
       In(c, s, {"lock", "trylock", "asleep", "nap", "relock", "take", "trytake", "poll"})
         => used[s] /\ obj[s] = "ready"

(* An object whose slot is used is destroyed by nobody but the delete that *)
(* is about to free the slot, and initialised again by nobody.             *)
UsedIsReady ==
  \A s \in Slots : used[s] => obj[s] = "ready" \/ \E c \in Callers : In(c, s, {"free"})

(* Each call with a timeout ends, unless a mutex it must take again is     *)
(* never given up.                                                         *)
TimedReturns ==
  /\ \A c \in Callers : pc[c] \in {"trylock", "trytake", "poll"} ~> pc[c] = "idle"
  /\ \A c \in Callers : pc[c] = "nap" ~> pc[c] \in {"relock", "idle"}

-----------------------------------------------------------------------------
(* What the header says, and the code does not do.                         *)

(* include/linux/mutex.h:109, "Find it with fwk_semaphoreID(name)".        *)
FindsByName ==
  (\A c \in Callers : pc[c] = "idle") =>
     \A s \in Table("sema") : used[s] =>
       LET i == SemaphoreID(named[s])
       IN  i # 0 /\ used[<<"sema", i>>]

(* include/linux/mutex.h:102, "initial counter, default 0".                *)
StartsAtValue ==
  [][\A c \in Callers : InitSema(c) => value'[at[c]] = arg[c]]_vars

(* include/linux/mutex.h:53, "positive means waiting millisecond": a take  *)
(* that fails has tried at least once.                                     *)
TriesOnce ==
  [][\A c \in Callers : pc[c] = "idle" /\ pc'[c] = "poll" => arg'[c] > 0]_vars

(* Two creates that have returned made two objects: the slot a create is   *)
(* in belongs to no other.                                                 *)
OwnSlot ==
  \A c, d \in Callers :
    pc[c] \in Creating \ {"scan"} /\ pc[d] \in Creating \ {"scan"} /\ at[c] = at[d] => c = d
=============================================================================
