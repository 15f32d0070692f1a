------------------------------ MODULE OsixTask ------------------------------
(***************************************************************************)
(* The task table of src/linux/base_task.c: creating a task under a name,  *)
(* the hand-shake that holds its thread back until the table is filled in, *)
(* deleting it by name, and base_event_send's use of the table.  Each scan *)
(* of the table runs under gOsixMutex and is one step; everything else     *)
(* reads and writes the table without it.                                  *)
(*                                                                         *)
(* A name is not empty, and a slot is free (u2Free) when it has none: the  *)
(* two are always written together.  Where the code's outcome is undefined *)
(* (a find that writes through an unset index, a cancel of thread 0) the   *)
(* process may also die; a behaviour may end at any state.                 *)
(***************************************************************************)
EXTENDS FiniteSets, FiniteSetsExt, Integers

CONSTANTS
  MaxTsks,   (* OSIX_MAX_TSKS                                              *)
  Names,     (* names of tasks                                             *)
  Threads,   (* values of pthread_t                                        *)
  Callers,   (* threads that create and delete tasks and send events       *)
  Calls,     (* what each of them calls: a subset of Jobs                  *)
  NoName,    (* an empty name                                              *)
  NoThread,  (* a ThrId never written                                      *)
  NoJob      (* a pTskStrtAddr never written                               *)

Jobs == Callers \X {"create", "delete", "send"} \X Names

ASSUME TableAssumption == MaxTsks \in Nat \ {0} /\ Calls \subseteq Jobs
ASSUME NoneAssumption ==
  NoName \notin Names /\ NoThread \notin Threads /\ NoJob \notin Callers \X Names

VARIABLES
  name,      (* per slot: au1Name                                          *)
  thr,       (* per slot: ThrId                                            *)
  entry,     (* per slot: pTskStrtAddr and u4Arg, named by whose they are  *)
  sync,      (* per slot: the mutexes and the condition, TskMutex held     *)
  pc,        (* per caller                                                 *)
  want,      (* per caller: the name it was called with                    *)
  idx,       (* per caller: u4Idx or TskId                                 *)
  made,      (* per caller: the thread pthread_create made                 *)
  aim,       (* history, per caller: the thread it found under the name    *)
  at,        (* per thread: where it is                                    *)
  tsk,       (* per thread: pTsk, the slot it was started for              *)
  job,       (* history, per thread: what it was created to run            *)
  runs,      (* per thread: TaskPtr                                        *)
  detached, cancelled   (* sets of threads                                 *)

table == <<name, thr, entry, sync>>
callers == <<pc, want, idx, made, aim>>
threads == <<at, tsk, job, runs, detached, cancelled>>
vars == <<table, callers, threads>>

Slots == 1..MaxTsks

Goto(c, label) == pc' = [pc EXCEPT ![c] = label]

Named(n) == {s \in Slots : name[s] = n}

-----------------------------------------------------------------------------
(* base_task_create                                                        *)

CallCreate(c, n) ==
  /\ pc[c] = "idle"
  /\ Goto(c, "find")
  /\ want' = [want EXCEPT ![c] = n]
  /\ UNCHANGED <<table, threads, idx, made, aim>>

(* The same, without the test of the result.                               *)
FindIgnored(c) ==
  /\ pc[c] = "find"
  /\ Goto(c, "add")
  /\ UNCHANGED <<table, threads, want, idx, made, aim>>

FindNew(c) ==
  /\ pc[c] = "find"
  /\ Goto(c, IF Named(want[c]) = {} THEN "add" ELSE "idle")
  /\ UNCHANGED <<table, threads, want, idx, made, aim>>

AddSlot(c) ==
  /\ pc[c] = "add"
  /\ IF Named(NoName) = {}
     THEN Goto(c, "idle") /\ UNCHANGED name
     ELSE Goto(c, "findAdded") /\ name' = [name EXCEPT ![Min(Named(NoName))] = want[c]]
  /\ UNCHANGED <<thr, entry, sync, threads, want, idx, made, aim>>

(* The name may be gone again: then u4Idx is whatever it was.              *)
FindAdded(c) ==
  /\ pc[c] = "findAdded"
  /\ \E s \in IF Named(want[c]) = {} THEN Slots ELSE {Min(Named(want[c]))} :
       idx' = [idx EXCEPT ![c] = s]
  /\ Goto(c, "fill")
  /\ UNCHANGED <<table, threads, want, made, aim>>

(* The mutexes are initialised, and TskMutex is not taken.                 *)
FillOpen(c) ==
  /\ pc[c] = "fill"
  /\ sync' = [sync EXCEPT ![idx[c]] = "ready"]
  /\ entry' = [entry EXCEPT ![idx[c]] = <<c, want[c]>>]
  /\ Goto(c, "spawn")
  /\ UNCHANGED <<name, thr, threads, want, idx, made, aim>>

(* Initialises the slot's mutexes and condition, and takes TskMutex.       *)
Fill(c) ==
  /\ pc[c] = "fill"
  /\ sync' = [sync EXCEPT ![idx[c]] = "held"]
  /\ entry' = [entry EXCEPT ![idx[c]] = <<c, want[c]>>]
  /\ Goto(c, "spawn")
  /\ UNCHANGED <<name, thr, threads, want, idx, made, aim>>

(* pthread_create: the thread may run before its id is stored.             *)
Spawn(c, t) ==
  /\ pc[c] = "spawn"
  /\ at[t] = "none"
  /\ at' = [at EXCEPT ![t] = "wrapper"]
  /\ tsk' = [tsk EXCEPT ![t] = idx[c]]
  /\ job' = [job EXCEPT ![t] = <<c, want[c]>>]
  /\ runs' = [runs EXCEPT ![t] = NoJob]
  /\ made' = [made EXCEPT ![c] = t]
  /\ Goto(c, "store")
  /\ UNCHANGED <<table, want, idx, aim, detached, cancelled>>

StoreThr(c) ==
  /\ pc[c] = "store"
  /\ thr' = [thr EXCEPT ![idx[c]] = made[c]]
  /\ Goto(c, "release")
  /\ UNCHANGED <<name, entry, sync, threads, want, idx, made, aim>>

Release(c) ==
  /\ pc[c] = "release"
  /\ sync' = [sync EXCEPT ![idx[c]] = IF @ = "held" THEN "ready" ELSE @]
  /\ Goto(c, "idle")
  /\ UNCHANGED <<name, thr, entry, threads, want, idx, made, aim>>

(* pthread_create failed: unlock and destroy, then free the slot.          *)
SpawnFails(c) ==
  /\ pc[c] = "spawn"
  /\ sync' = [sync EXCEPT ![idx[c]] = "none"]
  /\ Goto(c, "undo")
  /\ UNCHANGED <<name, thr, entry, threads, want, idx, made, aim>>

UndoAdd(c) ==
  /\ pc[c] = "undo"
  /\ name' = [name EXCEPT ![idx[c]] = NoName]
  /\ Goto(c, "idle")
  /\ UNCHANGED <<thr, entry, sync, threads, want, idx, made, aim>>

-----------------------------------------------------------------------------
(* base_task_wrapper: it goes on when it has had TskMutex, or when the     *)
(* mutex is destroyed and the lock fails unnoticed.  A cancel that came    *)
(* before ends it at pthread_setcanceltype.                                *)

Start(t) ==
  /\ at[t] = "wrapper"
  /\ sync[tsk[t]] # "held"
  /\ t \notin cancelled
  /\ at' = [at EXCEPT ![t] = "entry"]
  /\ runs' = [runs EXCEPT ![t] = entry[tsk[t]]]
  /\ UNCHANGED <<table, callers, tsk, job, detached, cancelled>>

(* The entry point returns, or a cancel ends the thread.                   *)
End(t) ==
  /\ \/ at[t] = "entry"
     \/ at[t] = "wrapper" /\ sync[tsk[t]] # "held" /\ t \in cancelled
  /\ at' = [at EXCEPT ![t] = IF t \in detached THEN "none" ELSE "gone"]
  /\ detached' = detached \ {t}
  /\ cancelled' = cancelled \ {t}
  /\ UNCHANGED <<table, callers, tsk, job, runs>>

-----------------------------------------------------------------------------
(* base_task_delete                                                        *)

CallDelete(c, n) ==
  /\ pc[c] = "idle"
  /\ Goto(c, "findOld")
  /\ want' = [want EXCEPT ![c] = n]
  /\ UNCHANGED <<table, threads, idx, made, aim>>

FindOld(c) ==
  /\ pc[c] = "findOld"
  /\ IF Named(want[c]) = {}
     THEN Goto(c, "idle") /\ UNCHANGED <<idx, aim>>
     ELSE LET s == Min(Named(want[c])) IN
          /\ Goto(c, "destroy")
          /\ idx' = [idx EXCEPT ![c] = s]
          /\ aim' = [aim EXCEPT ![c] = thr[s]]
  /\ UNCHANGED <<table, threads, want, made>>

(* A mutex that is held is not destroyed.                                  *)
Destroy(c) ==
  /\ pc[c] = "destroy"
  /\ sync' = [sync EXCEPT ![idx[c]] = IF @ = "held" THEN @ ELSE "none"]
  /\ Goto(c, "free")
  /\ UNCHANGED <<name, thr, entry, threads, want, idx, made, aim>>

FreeSlot(c) ==
  /\ pc[c] = "free"
  /\ name' = [name EXCEPT ![idx[c]] = NoName]
  /\ Goto(c, "detach")
  /\ UNCHANGED <<thr, entry, sync, threads, want, idx, made, aim>>

(* The slot is read again, after it was freed.                             *)
Detach(c) ==
  LET t == thr[idx[c]] IN
  /\ pc[c] = "detach"
  /\ IF t \in Threads /\ at[t] = "gone"
     THEN at' = [at EXCEPT ![t] = "none"] /\ UNCHANGED detached
     ELSE /\ detached' = detached \cup {u \in Threads : u = t /\ at[u] # "none"}
          /\ UNCHANGED at
  /\ Goto(c, "cancel")
  /\ UNCHANGED <<table, tsk, job, runs, cancelled, want, idx, made, aim>>

(* Only frees the slot.                                                    *)
CancelNothing(c) ==
  /\ pc[c] = "cancel"
  /\ Goto(c, "idle")
  /\ UNCHANGED <<table, threads, want, idx, made, aim>>

Cancel(c) ==
  LET t == thr[idx[c]] IN
  /\ pc[c] = "cancel"
  /\ cancelled' = cancelled \cup {u \in Threads : u = t /\ at[u] # "none"}
  /\ Goto(c, "idle")
  /\ UNCHANGED <<table, at, tsk, job, runs, detached, want, idx, made, aim>>

-----------------------------------------------------------------------------
(* base_event_send, up to the update of the events of the slot it found    *)

CallSend(c, n) ==
  /\ pc[c] = "idle"
  /\ Goto(c, "findTask")
  /\ want' = [want EXCEPT ![c] = n]
  /\ UNCHANGED <<table, threads, idx, made, aim>>

FindTask(c) ==
  /\ pc[c] = "findTask"
  /\ IF Named(want[c]) = {}
     THEN Goto(c, "idle") /\ UNCHANGED idx
     ELSE Goto(c, "post") /\ idx' = [idx EXCEPT ![c] = Min(Named(want[c]))]
  /\ UNCHANGED <<table, threads, want, made, aim>>

Post(c) ==
  /\ pc[c] = "post"
  /\ Goto(c, "idle")
  /\ UNCHANGED <<table, threads, want, idx, made, aim>>

-----------------------------------------------------------------------------
Init ==
  /\ name = [s \in Slots |-> NoName]
  /\ thr = [s \in Slots |-> NoThread]
  /\ entry = [s \in Slots |-> NoJob]
  /\ sync = [s \in Slots |-> "none"]
  /\ pc = [c \in Callers |-> "idle"]
  /\ want = [c \in Callers |-> NoName]
  /\ idx = [c \in Callers |-> 1]
  /\ made = [c \in Callers |-> NoThread]
  /\ aim = [c \in Callers |-> NoThread]
  /\ at = [t \in Threads |-> "none"]
  /\ tsk = [t \in Threads |-> 1]
  /\ job = [t \in Threads |-> NoJob]
  /\ runs = [t \in Threads |-> NoJob]
  /\ detached = {} /\ cancelled = {}

Create(c) ==
  \/ \E n \in Names : <<c, "create", n>> \in Calls /\ CallCreate(c, n)
  \/ FindNew(c) \/ AddSlot(c) \/ FindAdded(c) \/ Fill(c)
  \/ \E t \in Threads : Spawn(c, t)
  \/ StoreThr(c) \/ Release(c)
  \/ SpawnFails(c) \/ UndoAdd(c)

Delete(c) ==
  \/ \E n \in Names : <<c, "delete", n>> \in Calls /\ CallDelete(c, n)
  \/ FindOld(c) \/ Destroy(c) \/ FreeSlot(c) \/ Detach(c) \/ Cancel(c)

Send(c) ==
  \/ \E n \in Names : <<c, "send", n>> \in Calls /\ CallSend(c, n)
  \/ FindTask(c) \/ Post(c)

Run(t) == Start(t) \/ End(t)

Next ==
  \/ \E c \in Callers : Create(c) \/ Delete(c) \/ Send(c)
  \/ \E t \in Threads : Run(t)

Spec == Init /\ [][Next]_vars

(* A delete overlaps no create and no other delete: the slot it has freed  *)
(* is not taken before it has read ThrId.                                  *)
DeletesAlone ==
  \A c, o \in Callers :
    /\ pc[c] \in {"findOld", "destroy", "free", "detach", "cancel"}
    /\ pc[o] \notin {"idle", "findTask", "post"}
    => c = o

OrderlySpec == Init /\ [][Next /\ DeletesAlone']_vars

(* No two callers create under one name.                                   *)
CreatesOwn ==
  \A x, y \in Calls : x[2] = "create" /\ y[2] = "create" /\ x[3] = y[3] => x[1] = y[1]

-----------------------------------------------------------------------------
(* The slots whose task is being deleted, from the find on.                *)
Deleting == {idx[c] : c \in {d \in Callers : pc[d] \in {"destroy", "free", "detach", "cancel"}}}

Running == {t \in Threads : at[t] \in {"wrapper", "entry"} /\ t \notin cancelled}

(* The slot of the thread, to base_task_cur_get; 0 when it has none.       *)
CurTask(t) == Min({s \in Slots : thr[s] = t} \cup {MaxTsks + 1}) % (MaxTsks + 1)

(* The types of the table and of the threads.                              *)
TypeOK ==
  /\ name \in [Slots -> Names \cup {NoName}]
  /\ thr \in [Slots -> Threads \cup {NoThread}]
  /\ entry \in [Slots -> (Callers \X Names) \cup {NoJob}]
  /\ sync \in [Slots -> {"none", "ready", "held"}]
  /\ want \in [Callers -> Names \cup {NoName}]
  /\ idx \in [Callers -> Slots]
  /\ made \in [Callers -> Threads \cup {NoThread}]
  /\ at \in [Threads -> {"none", "wrapper", "entry", "gone"}]
  /\ tsk \in [Threads -> Slots]
  /\ runs \in [Threads -> (Callers \X Names) \cup {NoJob}]
  /\ detached \subseteq Threads /\ cancelled \subseteq Threads

(* "Task by this name already exists" (base_task_create): no two slots     *)
(* have one name.  The find and the add are two critical sections.         *)
UniqueNames == \A s, r \in Slots : name[s] = name[r] /\ name[s] # NoName => s = r

(* The hand-shake of base_task_wrapper, "to prevent the application from   *)
(* kicking off even before CreateTask has completed": a task that runs     *)
(* runs what it was created for, and its slot holds its id, so that a      *)
(* delete or an event meets it; until a delete of its slot has begun.      *)
StartsComplete ==
  \A t \in Running :
    at[t] = "entry" /\ tsk[t] \notin Deleting => runs[t] = job[t] /\ thr[tsk[t]] = t

(* Every task that runs can be deleted by a name, is being deleted or is   *)
(* being created: base_task_create and base_task_delete leave no thread    *)
(* that nothing can end.                                                   *)
NoOrphan ==
  \A t \in Running :
    \/ \E s \in Slots : thr[s] = t /\ (name[s] # NoName \/ s \in Deleting)
    \/ \E c \in Callers : pc[c] = "store" /\ made[c] = t

(* "This deletes a task of a specified name" (base_task_delete): what it   *)
(* cancels is the task it found under the name.                            *)
CancelsNamed == \A c \in Callers : pc[c] \in {"detach", "cancel"} => thr[idx[c]] = aim[c]

(* "Name of task to which to send event" (base_event_send): the slot the   *)
(* events go to is that of the task of this name.                          *)
PostsToNamed == \A c \in Callers : pc[c] = "post" => name[idx[c]] = want[c]

(* "This returns the TaskId of caller task" (base_task_cur_get): the first *)
(* slot with the caller's ThrId is its own, also when the id was that of a *)
(* task that is gone.                                                      *)
FindsItself ==
  \A t \in Running : at[t] = "entry" /\ tsk[t] \notin Deleting => CurTask(t) = tsk[t]
=============================================================================
