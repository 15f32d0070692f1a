------------------------------ MODULE MsgQueue ------------------------------
(***************************************************************************)
(* The message queue of src/linux/base_queue.c: a ring of MaxMsgs + 1      *)
(* slots between a read and a write pointer, guarded by QueMutex, with     *)
(* receivers waiting on QueCond.                                           *)
(*                                                                         *)
(* A thread is idle, or inside one call at the step pc names.  The mutex   *)
(* splits a call into steps: nothing else is atomic.  Pointers are slot    *)
(* numbers; the slot past the last one (N) is pQEnd, where a pointer       *)
(* stands for a moment before it wraps to pQBase.                          *)
(***************************************************************************)
EXTENDS Naturals, Sequences, FiniteSets

CONSTANTS
  Senders,        (* threads that send                                     *)
  Receivers,      (* threads that receive; one of them deletes the queue   *)
  Msgs,           (* message contents                                      *)
  NoMsg,          (* "no message" in a call record                         *)
  Nobody,         (* the owner of a free mutex                             *)
  MaxMsgs,        (* u4MaxMsgs of base_queue_create                        *)
  CounterMod,     (* u4OverFlows wraps here (2^32 in the code)             *)
  DeleteWhenBusy  (* whether callers delete a queue other threads are in   *)

ASSUME MaxMsgsAssumption == MaxMsgs \in Nat
ASSUME CounterAssumption == CounterMod \in Nat \ {0}
ASSUME ThreadsAssumption ==
  /\ IsFiniteSet(Receivers)
  /\ Senders \cap Receivers = {}
  /\ Nobody \notin Senders \cup Receivers
ASSUME DeleteAssumption == DeleteWhenBusy \in BOOLEAN

VARIABLES
  alive,     (* the queue is allocated                                     *)
  buf,       (* contents of the slots                                      *)
  rd, wr,    (* pQRead, pQWrite                                            *)
  over,      (* u4OverFlows                                                *)
  mutex,     (* owner of QueMutex                                          *)
  pc,        (* per thread: the step it is about to take                   *)
  call,      (* per thread: its request (pMsg, i4Timeout) or its answer    *)
  tmp,       (* per sender: u4OverFlows as loaded by the increment         *)
  rejected   (* history: sends answered -1, modulo CounterMod              *)

ringVars == <<buf, rd, wr>>
overVars == <<over, tmp, rejected>>
vars == <<alive, buf, rd, wr, over, mutex, pc, call, tmp, rejected>>

Threads == Senders \cup Receivers

N == MaxMsgs + 1

Modes == {"nowait", "timed", "forever"}

-----------------------------------------------------------------------------
(* The ring.                                                               *)

Slot(k) == IF k >= N THEN k - N ELSE k

Count == IF wr >= rd THEN wr - rd ELSE wr + N - rd

Contents == [i \in 1..Count |-> buf[Slot(rd + i - 1)]]

(* The two tests of PTHREAD_Send_MsgQ: the next slot is the one being read. *)
Full == (wr + 1 = N /\ rd = 0) \/ wr + 1 = rd

(* The two tests, but blind at the end of the buffer.                      *)
FullNoWrap == wr + 1 = rd

Empty == wr = rd

-----------------------------------------------------------------------------
(* Control.                                                                *)

HoldingSteps == {"s_copy", "s_wrap", "r_check", "r_wrap"}

Goto(t, from, to) ==
  /\ alive
  /\ pc[t] = from
  /\ pc' = [pc EXCEPT ![t] = to]

Lock(t) == mutex = Nobody /\ mutex' = t

Unlock == mutex' = Nobody

Answer(t, op, m) == call' = [call EXCEPT ![t] = [op |-> op, msg |-> m]]

Blocked == {r \in Receivers : pc[r] = "r_blocked"}

-----------------------------------------------------------------------------
(* A queue created with the overflow count of an earlier one.              *)
CreateNoReset ==
  /\ ~alive
  /\ \A t \in Threads : pc[t] = "idle"
  /\ alive' = TRUE
  /\ rd' = 0
  /\ wr' = 0
  /\ rejected' = 0
  /\ mutex' = Nobody
  /\ UNCHANGED <<buf, pc, call, over, tmp>>

(* PTHREAD_Create_MsgQ.  The slots keep whatever malloc returned.          *)
Create ==
  /\ ~alive
  /\ \A t \in Threads : pc[t] = "idle"
  /\ alive' = TRUE
  /\ rd' = 0
  /\ wr' = 0
  /\ over' = 0
  /\ rejected' = 0
  /\ mutex' = Nobody
  /\ UNCHANGED <<buf, pc, call, tmp>>

(* PTHREAD_Delete_MsgQ: take the mutex, destroy it with the condition      *)
(* variable, free the queue.  The thread that receives deletes.            *)
Delete(r) ==
  /\ alive
  /\ pc[r] = "idle"
  /\ mutex = Nobody
  /\ DeleteWhenBusy \/ \A t \in Threads : pc[t] = "idle"
  /\ alive' = FALSE
  /\ UNCHANGED <<ringVars, overVars, mutex, pc, call>>

-----------------------------------------------------------------------------
(* PTHREAD_Send_MsgQ                                                       *)

CallSend(s, m) ==
  /\ Goto(s, "idle", "s_lock")
  /\ Answer(s, "send", m)
  /\ UNCHANGED <<alive, ringVars, overVars, mutex>>

LockSend(s) ==
  /\ Goto(s, "s_lock", "s_copy")
  /\ Lock(s)
  /\ UNCHANGED <<alive, ringVars, overVars, call>>

(* Full: unlock first, count the overflow afterwards, outside the mutex.   *)
RejectSend(s) ==
  /\ Goto(s, "s_copy", "s_over")
  /\ Full
  /\ Unlock
  /\ Answer(s, "full", NoMsg)
  /\ rejected' = (rejected + 1) % CounterMod
  /\ UNCHANGED <<alive, ringVars, over, tmp>>

(* u4OverFlows++ is a load and a store.                                    *)
LoadOverFlows(s) ==
  /\ Goto(s, "s_over", "s_inc")
  /\ tmp' = [tmp EXCEPT ![s] = over]
  /\ UNCHANGED <<alive, ringVars, over, rejected, mutex, call>>

StoreOverFlows(s) ==
  /\ Goto(s, "s_inc", "idle")
  /\ over' = (tmp[s] + 1) % CounterMod
  /\ UNCHANGED <<alive, ringVars, tmp, rejected, mutex, call>>

(* The test for room misses the wrap: the ring is emptied by overrunning it. *)
WriteMsgOverrun(s) ==
  /\ Goto(s, "s_copy", "s_wrap")
  /\ ~FullNoWrap
  /\ buf' = [buf EXCEPT ![wr] = call[s].msg]
  /\ wr' = wr + 1
  /\ Answer(s, "sent", NoMsg)
  /\ UNCHANGED <<alive, rd, overVars, mutex>>

(* memcpy into the slot and advance the write pointer.                     *)
WriteMsg(s) ==
  /\ Goto(s, "s_copy", "s_wrap")
  /\ ~Full
  /\ buf' = [buf EXCEPT ![wr] = call[s].msg]
  /\ wr' = wr + 1
  /\ Answer(s, "sent", NoMsg)
  /\ UNCHANGED <<alive, rd, overVars, mutex>>

(* The wakeup saved when the queue was not empty before this message.      *)
PublishMsgIfFirst(s) ==
  /\ alive
  /\ pc[s] = "s_wrap"
  /\ wr' = IF wr = N THEN 0 ELSE wr
  /\ \/ /\ Blocked = {} \/ Count # 1
        /\ pc' = [pc EXCEPT ![s] = "idle"]
     \/ /\ Count = 1
        /\ \E r \in Blocked :
             pc' = [pc EXCEPT ![s] = "idle", ![r] = "r_relock"]
  /\ Unlock
  /\ UNCHANGED <<alive, buf, rd, overVars, call>>

(* The wrap of the write pointer forgotten.                                *)
PublishMsgNoWrap(s) ==
  /\ alive
  /\ pc[s] = "s_wrap"
  /\ pc' = [pc EXCEPT ![s] = "idle"]
  /\ Unlock
  /\ UNCHANGED <<alive, ringVars, overVars, call>>

(* Wrap the write pointer, signal one waiting receiver if there is one,    *)
(* unlock.  A signalled receiver contends for the mutex again.             *)
PublishMsg(s) ==
  /\ alive
  /\ pc[s] = "s_wrap"
  /\ wr' = IF wr = N THEN 0 ELSE wr
  /\ \/ /\ Blocked = {}
        /\ pc' = [pc EXCEPT ![s] = "idle"]
     \/ \E r \in Blocked :
          pc' = [pc EXCEPT ![s] = "idle", ![r] = "r_relock"]
  /\ Unlock
  /\ UNCHANGED <<alive, buf, rd, overVars, call>>

-----------------------------------------------------------------------------
(* PTHREAD_Receive_MsgQ.  i4Timeout = 0 is NO_WAIT; the deadline computed  *)
(* from any other value is never used.                                     *)

CallReceive(r, mode) ==
  /\ Goto(r, "idle", "r_lock")
  /\ Answer(r, mode, NoMsg)
  /\ UNCHANGED <<alive, ringVars, overVars, mutex>>

LockReceive(r) ==
  /\ Goto(r, "r_lock", "r_check")
  /\ Lock(r)
  /\ UNCHANGED <<alive, ringVars, overVars, call>>

RejectReceive(r) ==
  /\ Goto(r, "r_check", "idle")
  /\ call[r].op = "nowait"
  /\ Empty
  /\ Unlock
  /\ Answer(r, "empty", NoMsg)
  /\ UNCHANGED <<alive, ringVars, overVars>>

(* pthread_cond_wait: release the mutex and block, in one step.            *)
Block(r) ==
  /\ Goto(r, "r_check", "r_blocked")
  /\ call[r].op # "nowait"
  /\ Empty
  /\ Unlock
  /\ UNCHANGED <<alive, ringVars, overVars, call>>

SpuriousWake(r) ==
  /\ Goto(r, "r_blocked", "r_relock")
  /\ UNCHANGED <<alive, ringVars, overVars, mutex, call>>

(* pthread_cond_wait returns owning the mutex, and the loop tests again.   *)
Relock(r) ==
  /\ Goto(r, "r_relock", "r_check")
  /\ Lock(r)
  /\ UNCHANGED <<alive, ringVars, overVars, call>>

(* memcpy out of the slot and advance the read pointer.                    *)
ReadMsg(r) ==
  /\ Goto(r, "r_check", "r_wrap")
  /\ ~Empty
  /\ rd' = rd + 1
  /\ Answer(r, "got", buf[rd])
  /\ UNCHANGED <<alive, buf, wr, overVars, mutex>>

WrapRead(r) ==
  /\ Goto(r, "r_wrap", "idle")
  /\ rd' = IF rd = N THEN 0 ELSE rd
  /\ Unlock
  /\ UNCHANGED <<alive, buf, wr, overVars, call>>

-----------------------------------------------------------------------------
Init ==
  /\ alive = FALSE
  /\ buf \in [0..MaxMsgs -> {NoMsg}]
  /\ rd = 0
  /\ wr = 0
  /\ over = 0
  /\ mutex = Nobody
  /\ pc = [t \in Threads |-> "idle"]
  /\ call = [t \in Threads |-> [op |-> "none", msg |-> NoMsg]]
  /\ tmp = [s \in Senders |-> 0]
  /\ rejected = 0

(* The steps of a sender after its call.                                   *)
SendStep(s) ==
  \/ LockSend(s)
  \/ RejectSend(s)
  \/ LoadOverFlows(s)
  \/ StoreOverFlows(s)
  \/ WriteMsg(s)
  \/ PublishMsg(s)

(* The steps of a receiver after its call, except waking for no reason.    *)
ReceiveStep(r) ==
  \/ LockReceive(r)
  \/ RejectReceive(r)
  \/ Block(r)
  \/ Relock(r)
  \/ ReadMsg(r)
  \/ WrapRead(r)

(* Everything but the arrival of new messages.                             *)
Serve ==
  \/ Create
  \/ \E s \in Senders : SendStep(s)
  \/ \E r \in Receivers : ReceiveStep(r) \/ SpuriousWake(r) \/ Delete(r)
  \/ \E r \in Receivers, mode \in Modes : CallReceive(r, mode)

Next == Serve \/ \E s \in Senders, m \in Msgs : CallSend(s, m)

Spec == Init /\ [][Next]_vars

(* A thread that can take its next step keeps being scheduled.  Nothing is *)
(* assumed of callers, of spurious wakeups or of the order in which the    *)
(* mutex is granted.                                                       *)
Fairness ==
  /\ \A s \in Senders : WF_vars(SendStep(s))
  /\ \A r \in Receivers : WF_vars(ReceiveStep(r))

FairSpec == Spec /\ Fairness

-----------------------------------------------------------------------------
Steps == {"idle", "s_lock", "s_copy", "s_wrap", "s_over", "s_inc",
          "r_lock", "r_check", "r_wrap", "r_blocked", "r_relock"}

Ops == {"none", "send", "sent", "full", "got", "empty"} \cup Modes

(* The types of the state of the queue and of its callers.                 *)
TypeOK ==
  /\ alive \in BOOLEAN
  /\ buf \in [0..MaxMsgs -> Msgs \cup {NoMsg}]
  /\ rd \in 0..N
  /\ wr \in 0..N
  /\ over \in 0..(CounterMod - 1)
  /\ mutex \in Threads \cup {Nobody}
  /\ pc \in [Threads -> Steps]
  /\ call \in [Threads -> [op : Ops, msg : Msgs \cup {NoMsg}]]
  /\ tmp \in [Senders -> 0..(CounterMod - 1)]
  /\ rejected \in 0..(CounterMod - 1)

(* The message queue behaves as a bounded first-in first-out queue: a send *)
(* is refused only when MaxMsgs messages are waiting, a receive returns    *)
(* the oldest message, and only NO_WAIT returns without one.  Senders,     *)
(* receivers and a deletion interleave between any two steps.              *)
Fifo == INSTANCE BoundedFifo WITH
  open <- alive,
  q <- IF alive THEN Contents ELSE <<>>,
  Capacity <- MaxMsgs

FifoSpec == Fifo!Spec

(* Receivers on their way to test the queue after waiting for it.          *)
Coming == {r \in Receivers : pc[r] \in {"r_relock", "r_check"}}

Publishing == \E s \in Senders : pc[s] = "s_wrap"

(* While a receiver is blocked in pthread_cond_wait, every message in the  *)
(* queue has a receiver already woken for it, but for the one whose sender *)
(* is about to signal: PTHREAD_Send_MsgQ signals once per message, not     *)
(* once per non-empty queue, and this is why that is enough.               *)
NoLostWakeup ==
  alive /\ Blocked # {} =>
    Count <= Cardinality(Coming) + (IF Publishing THEN 1 ELSE 0)

(* When a message waits and receivers are blocked, a receiver gets to it   *)
(* or the queue is deleted: no message is stranded beside a sleeper.       *)
NoStrandedMessage ==
  alive /\ Count > 0 /\ Blocked # {} ~> ~alive \/ Count = 0 \/ Blocked = {}

(* Between overflows u4OverFlows tells how many sends were refused.        *)
OverflowExact ==
  alive /\ (\A s \in Senders : pc[s] \notin {"s_over", "s_inc"})
    => over = rejected

-----------------------------------------------------------------------------
(* The inductive invariant behind NoLostWakeup and FifoSpec.               *)

SendSteps == {"idle", "s_lock", "s_copy", "s_wrap", "s_over", "s_inc"}

ReceiveSteps == {"idle", "r_lock", "r_check", "r_wrap", "r_blocked", "r_relock"}

(* A thread takes only the steps of its own calls.                         *)
RolesInv ==
  /\ \A s \in Senders : pc[s] \in SendSteps
  /\ \A r \in Receivers : pc[r] \in ReceiveSteps

(* The threads between lock and unlock are the owner of the mutex.         *)
OwnerInv == \A t \in Threads : pc[t] \in HoldingSteps <=> mutex = t

(* A call keeps its request until the step that answers it.                *)
RequestInv ==
  /\ \A s \in Senders :
       pc[s] \in {"s_lock", "s_copy"} => call[s].op = "send"
  /\ \A r \in Receivers :
       pc[r] \in {"r_lock", "r_check", "r_blocked", "r_relock"} =>
         call[r].op \in Modes

(* A pointer stands at the end of the buffer only between its advance and  *)
(* its wrap, and the ring never fills its last slot: N messages would look *)
(* like none.                                                              *)
RingInv ==
  /\ wr = N => rd # 0 /\ Publishing
  /\ rd = N => \E r \in Receivers : pc[r] = "r_wrap"

IInv == TypeOK /\ RolesInv /\ OwnerInv /\ RequestInv /\ RingInv

-----------------------------------------------------------------------------
(* What comments of base_queue.c and base_queue.h say, and the code does   *)
(* not do.                                                                 *)

(* "the queue holds only u4MaxMsgs-1 messages to be safe"                  *)
HoldsOneLess == alive => Count <= IF MaxMsgs = 0 THEN 0 ELSE MaxMsgs - 1

(* "i4Timeout - Time to wait in case of WAIT": a timed receive returns.    *)
TimedReceiveReturns ==
  \A r \in Receivers :
    alive /\ pc[r] = "r_blocked" /\ call[r].op = "timed"
      ~> ~alive \/ pc[r] # "r_blocked"

(* "Wait for semaphore to ensure that when the queue is deleted no one is  *)
(* reading from or writing into it".                                       *)
DeletedUnused == ~alive => \A t \in Threads : pc[t] = "idle"
=============================================================================
