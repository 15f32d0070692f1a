--------------------------- MODULE MsgQueueProofs ---------------------------
(***************************************************************************)
(* Proofs about MsgQueue for every number of threads, queue size and       *)
(* message set: the inductive invariant, that no wakeup is lost, and that  *)
(* the queue implements BoundedFifo.                                       *)
(***************************************************************************)
EXTENDS MsgQueue, FiniteSetTheorems, SequenceTheorems, TLAPS

(* The assumptions on the constants, in the form the proofs use.           *)
LEMMA Constants ==
  /\ MaxMsgs \in Nat
  /\ N \in Nat \ {0}
  /\ N = MaxMsgs + 1
  /\ CounterMod \in Nat \ {0}
  /\ Nobody \notin Threads
  /\ Senders \cap Receivers = {}
  /\ IsFiniteSet(Receivers)
BY MaxMsgsAssumption, CounterAssumption, ThreadsAssumption DEF N, Threads

-----------------------------------------------------------------------------
(* The initial state satisfies the inductive invariant.                    *)
LEMMA InitIInv == Init => IInv
<1> SUFFICES ASSUME Init PROVE IInv
  OBVIOUS
<1>1. TypeOK
  <2>1. buf \in [0..MaxMsgs -> Msgs \cup {NoMsg}]
    BY DEF Init
  <2>2. pc \in [Threads -> Steps]
    BY DEF Init, Steps
  <2>3. call \in [Threads -> [op : Ops, msg : Msgs \cup {NoMsg}]]
    BY DEF Init, Ops
  <2>4. rd \in 0..N /\ wr \in 0..N
    BY Constants DEF Init
  <2>5. over \in 0..(CounterMod - 1) /\ rejected \in 0..(CounterMod - 1)
        /\ tmp \in [Senders -> 0..(CounterMod - 1)]
    BY Constants DEF Init
  <2> QED
    BY <2>1, <2>2, <2>3, <2>4, <2>5 DEF Init, TypeOK
<1>2. RolesInv
  BY DEF Init, RolesInv, SendSteps, ReceiveSteps, Threads
<1>3. OwnerInv
  BY Constants DEF Init, OwnerInv, HoldingSteps
<1>4. RequestInv
  BY DEF Init, RequestInv, Threads
<1>5. RingInv
  BY Constants DEF Init, RingInv
<1> QED
  BY <1>1, <1>2, <1>3, <1>4, <1>5 DEF IInv

-----------------------------------------------------------------------------
(* Every step preserves the inductive invariant.                           *)
LEMMA NextIInv == IInv /\ [Next]_vars => IInv'
<1> SUFFICES ASSUME IInv, [Next]_vars PROVE IInv'
  OBVIOUS
<1> USE Constants DEF IInv
<1> USE DEF ringVars, overVars, Goto, Answer, Lock, Unlock
<1>1. CASE Create
  <2>1. TypeOK'
    BY <1>1 DEF Create, TypeOK
  <2>2. RolesInv' /\ RequestInv'
    BY <1>1 DEF Create, RolesInv, RequestInv
  <2>3. OwnerInv'
    BY <1>1 DEF Create, OwnerInv, HoldingSteps
  <2>4. RingInv'
    BY <1>1 DEF Create, RingInv
  <2> QED BY <2>1, <2>2, <2>3, <2>4
<1>2. ASSUME NEW r \in Receivers, Delete(r) PROVE IInv'
  BY <1>2 DEF Delete, TypeOK, RolesInv, OwnerInv, RequestInv, RingInv, Publishing
<1>3. ASSUME NEW s \in Senders, NEW m \in Msgs, CallSend(s, m) PROVE IInv'
  <2>1. TypeOK'
    BY <1>3 DEF CallSend, TypeOK, Threads, Steps, Ops
  <2>2. RolesInv' /\ RequestInv'
    BY <1>3 DEF CallSend, RolesInv, RequestInv, TypeOK, Threads, SendSteps
  <2>3. OwnerInv'
    BY <1>3 DEF CallSend, OwnerInv, HoldingSteps, TypeOK, Threads
  <2>4. RingInv'
    BY <1>3 DEF CallSend, RingInv, Publishing, TypeOK, Threads
  <2> QED BY <2>1, <2>2, <2>3, <2>4
<1>4. ASSUME NEW s \in Senders, LockSend(s) PROVE IInv'
  <2>1. TypeOK'
    BY <1>4 DEF LockSend, TypeOK, Threads, Steps
  <2>2. RolesInv' /\ RequestInv'
    BY <1>4 DEF LockSend, RolesInv, RequestInv, TypeOK, Threads, SendSteps
  <2>3. OwnerInv'
    BY <1>4 DEF LockSend, OwnerInv, HoldingSteps, TypeOK, Threads
  <2>4. RingInv'
    BY <1>4 DEF LockSend, RingInv, Publishing, TypeOK, Threads
  <2> QED BY <2>1, <2>2, <2>3, <2>4
<1>5. ASSUME NEW s \in Senders, RejectSend(s) PROVE IInv'
  <2>1. TypeOK'
    BY <1>5 DEF RejectSend, TypeOK, Threads, Steps, Ops
  <2>2. RolesInv' /\ RequestInv'
    BY <1>5 DEF RejectSend, RolesInv, RequestInv, TypeOK, Threads, SendSteps
  <2>3. OwnerInv'
    BY <1>5 DEF RejectSend, OwnerInv, HoldingSteps, TypeOK, Threads
  <2>4. RingInv'
    BY <1>5 DEF RejectSend, RingInv, Publishing, TypeOK, Threads
  <2> QED BY <2>1, <2>2, <2>3, <2>4
<1>6. ASSUME NEW s \in Senders, LoadOverFlows(s) PROVE IInv'
  <2>1. TypeOK'
    BY <1>6 DEF LoadOverFlows, TypeOK, Threads, Steps
  <2>2. RolesInv' /\ RequestInv'
    BY <1>6 DEF LoadOverFlows, RolesInv, RequestInv, TypeOK, Threads, SendSteps
  <2>3. OwnerInv'
    BY <1>6 DEF LoadOverFlows, OwnerInv, HoldingSteps, TypeOK, Threads
  <2>4. RingInv'
    BY <1>6 DEF LoadOverFlows, RingInv, Publishing, TypeOK, Threads
  <2> QED BY <2>1, <2>2, <2>3, <2>4
<1>7. ASSUME NEW s \in Senders, StoreOverFlows(s) PROVE IInv'
  <2>1. TypeOK'
    BY <1>7 DEF StoreOverFlows, TypeOK, Threads, Steps
  <2>2. RolesInv' /\ RequestInv'
    BY <1>7 DEF StoreOverFlows, RolesInv, RequestInv, TypeOK, Threads, SendSteps
  <2>3. OwnerInv'
    BY <1>7 DEF StoreOverFlows, OwnerInv, HoldingSteps, TypeOK, Threads
  <2>4. RingInv'
    BY <1>7 DEF StoreOverFlows, RingInv, Publishing, TypeOK, Threads
  <2> QED BY <2>1, <2>2, <2>3, <2>4
<1>8. ASSUME NEW s \in Senders, WriteMsg(s) PROVE IInv'
  <2>0. wr # N /\ rd # N
    BY <1>8 DEF WriteMsg, OwnerInv, HoldingSteps, RingInv, Publishing, Threads
  <2>1. TypeOK'
    BY <1>8, <2>0 DEF WriteMsg, TypeOK, Threads, Steps, Ops
  <2>2. RolesInv' /\ RequestInv'
    BY <1>8 DEF WriteMsg, RolesInv, RequestInv, TypeOK, Threads, SendSteps
  <2>3. OwnerInv'
    BY <1>8 DEF WriteMsg, OwnerInv, HoldingSteps, TypeOK, Threads
  <2>4. RingInv'
    BY <1>8, <2>0 DEF WriteMsg, RingInv, Publishing, TypeOK, Threads, Full
  <2> QED BY <2>1, <2>2, <2>3, <2>4
<1>9. ASSUME NEW s \in Senders, PublishMsg(s) PROVE IInv'
  <2>0. Blocked \subseteq Receivers /\ \A r \in Blocked : pc[r] = "r_blocked"
    BY DEF Blocked
  <2>1. TypeOK'
    <3>1. pc' \in [Threads -> Steps]
      BY <1>9, <2>0 DEF PublishMsg, TypeOK, Threads, Steps
    <3>2. wr' \in 0..N
      BY <1>9 DEF PublishMsg, TypeOK
    <3> QED
      BY <1>9, <3>1, <3>2 DEF PublishMsg, TypeOK
  <2>2. RolesInv' /\ RequestInv'
    BY <1>9, <2>0 DEF PublishMsg, RolesInv, RequestInv, TypeOK, Threads,
                      SendSteps, ReceiveSteps
  <2>3. OwnerInv'
    BY <1>9, <2>0 DEF PublishMsg, OwnerInv, HoldingSteps, TypeOK, Threads
  <2>4. RingInv'
    BY <1>9, <2>0 DEF PublishMsg, RingInv, OwnerInv, HoldingSteps, Publishing, TypeOK, Threads
  <2> QED BY <2>1, <2>2, <2>3, <2>4
<1>10. ASSUME NEW r \in Receivers, NEW mode \in Modes, CallReceive(r, mode)
       PROVE IInv'
  <2>1. TypeOK'
    BY <1>10 DEF CallReceive, TypeOK, Threads, Steps, Ops
  <2>2. RolesInv' /\ RequestInv'
    BY <1>10 DEF CallReceive, RolesInv, RequestInv, TypeOK, Threads, ReceiveSteps
  <2>3. OwnerInv'
    BY <1>10 DEF CallReceive, OwnerInv, HoldingSteps, TypeOK, Threads
  <2>4. RingInv'
    BY <1>10 DEF CallReceive, RingInv, Publishing, TypeOK, Threads
  <2> QED BY <2>1, <2>2, <2>3, <2>4
<1>11. ASSUME NEW r \in Receivers, LockReceive(r) \/ Relock(r) PROVE IInv'
  <2>1. TypeOK'
    BY <1>11 DEF LockReceive, Relock, TypeOK, Threads, Steps
  <2>2. RolesInv' /\ RequestInv'
    BY <1>11 DEF LockReceive, Relock, RolesInv, RequestInv, TypeOK, Threads, ReceiveSteps
  <2>3. OwnerInv'
    BY <1>11 DEF LockReceive, Relock, OwnerInv, HoldingSteps, TypeOK, Threads
  <2>4. RingInv'
    BY <1>11 DEF LockReceive, Relock, RingInv, Publishing, TypeOK, Threads
  <2> QED BY <2>1, <2>2, <2>3, <2>4
<1>12. ASSUME NEW r \in Receivers, RejectReceive(r) PROVE IInv'
  <2>1. TypeOK'
    BY <1>12 DEF RejectReceive, TypeOK, Threads, Steps, Ops
  <2>2. RolesInv' /\ RequestInv'
    BY <1>12 DEF RejectReceive, RolesInv, RequestInv, TypeOK, Threads, ReceiveSteps
  <2>3. OwnerInv'
    BY <1>12 DEF RejectReceive, OwnerInv, HoldingSteps, TypeOK, Threads
  <2>4. RingInv'
    BY <1>12 DEF RejectReceive, RingInv, Publishing, TypeOK, Threads
  <2> QED BY <2>1, <2>2, <2>3, <2>4
<1>13. ASSUME NEW r \in Receivers, Block(r) PROVE IInv'
  <2>1. TypeOK'
    BY <1>13 DEF Block, TypeOK, Threads, Steps
  <2>2. RolesInv' /\ RequestInv'
    BY <1>13 DEF Block, RolesInv, RequestInv, TypeOK, Threads, ReceiveSteps
  <2>3. OwnerInv'
    BY <1>13 DEF Block, OwnerInv, HoldingSteps, TypeOK, Threads
  <2>4. RingInv'
    BY <1>13 DEF Block, RingInv, Publishing, TypeOK, Threads
  <2> QED BY <2>1, <2>2, <2>3, <2>4
<1>14. ASSUME NEW r \in Receivers, SpuriousWake(r) PROVE IInv'
  <2>1. TypeOK'
    BY <1>14 DEF SpuriousWake, TypeOK, Threads, Steps
  <2>2. RolesInv' /\ RequestInv'
    BY <1>14 DEF SpuriousWake, RolesInv, RequestInv, TypeOK, Threads, ReceiveSteps
  <2>3. OwnerInv'
    BY <1>14 DEF SpuriousWake, OwnerInv, HoldingSteps, TypeOK, Threads
  <2>4. RingInv'
    BY <1>14 DEF SpuriousWake, RingInv, Publishing, TypeOK, Threads
  <2> QED BY <2>1, <2>2, <2>3, <2>4
<1>15. ASSUME NEW r \in Receivers, ReadMsg(r) PROVE IInv'
  <2>0. wr # N /\ rd # N
    BY <1>15 DEF ReadMsg, OwnerInv, HoldingSteps, RingInv, Publishing, Threads
  <2>1. TypeOK'
    BY <1>15, <2>0 DEF ReadMsg, TypeOK, Threads, Steps, Ops
  <2>2. RolesInv' /\ RequestInv'
    BY <1>15 DEF ReadMsg, RolesInv, RequestInv, TypeOK, Threads, ReceiveSteps
  <2>3. OwnerInv'
    BY <1>15 DEF ReadMsg, OwnerInv, HoldingSteps, TypeOK, Threads
  <2>4. RingInv'
    BY <1>15, <2>0 DEF ReadMsg, RingInv, Publishing, TypeOK, Threads
  <2> QED BY <2>1, <2>2, <2>3, <2>4
<1>16. ASSUME NEW r \in Receivers, WrapRead(r) PROVE IInv'
  <2>0. wr # N
    BY <1>16 DEF WrapRead, OwnerInv, HoldingSteps, RingInv, Publishing, Threads
  <2>1. TypeOK'
    BY <1>16 DEF WrapRead, TypeOK, Threads, Steps
  <2>2. RolesInv' /\ RequestInv'
    BY <1>16 DEF WrapRead, RolesInv, RequestInv, TypeOK, Threads, ReceiveSteps
  <2>3. OwnerInv'
    BY <1>16 DEF WrapRead, OwnerInv, HoldingSteps, TypeOK, Threads
  <2>4. RingInv'
    BY <1>16, <2>0 DEF WrapRead, RingInv, OwnerInv, HoldingSteps, TypeOK, Threads
  <2> QED BY <2>1, <2>2, <2>3, <2>4
<1>17. CASE UNCHANGED vars
  BY <1>17 DEF vars, TypeOK, RolesInv, OwnerInv, RequestInv, RingInv, Publishing
<1> QED
  BY <1>1, <1>2, <1>3, <1>4, <1>5, <1>6, <1>7, <1>8, <1>9, <1>10, <1>11,
     <1>12, <1>13, <1>14, <1>15, <1>16, <1>17
  DEF Next, Serve, SendStep, ReceiveStep

(* The state of the queue, its callers and its mutex is always consistent: *)
(* types, one owner of the mutex, pointers off the end of the buffer       *)
(* outside a critical section, and never a full ring read as an empty one. *)
THEOREM Invariant == Spec => []IInv
BY InitIInv, NextIInv, PTL DEF Spec

-----------------------------------------------------------------------------
(* Arithmetic of the ring.                                                 *)

(* The number of messages is a natural number, at most MaxMsgs.            *)
LEMMA CountBound == IInv => Count \in 0..MaxMsgs
<1> SUFFICES ASSUME IInv PROVE Count \in 0..MaxMsgs
  OBVIOUS
<1>1. ~(wr = N /\ rd = N)
  BY DEF IInv, RingInv, Publishing, OwnerInv, HoldingSteps, Threads, RolesInv,
         SendSteps
<1> QED
  BY <1>1, Constants DEF IInv, TypeOK, RingInv, Count

(* In a critical section that has moved neither pointer yet, both are      *)
(* inside the buffer.                                                      *)
LEMMA InsideBuffer ==
  ASSUME IInv, NEW t \in Threads, pc[t] \in {"s_copy", "r_check"}
  PROVE  wr \in 0..(N - 1) /\ rd \in 0..(N - 1)
<1>1. wr # N /\ rd # N
  BY DEF IInv, OwnerInv, HoldingSteps, RingInv, Publishing, Threads
<1> QED
  BY <1>1, Constants DEF IInv, TypeOK

(* Writing a message adds one.                                             *)
LEMMA CountWrite ==
  ASSUME IInv, NEW s \in Senders, WriteMsg(s)
  PROVE  Count' = Count + 1
<1>1. wr \in 0..(N - 1) /\ rd \in 0..(N - 1)
  BY InsideBuffer DEF WriteMsg, Goto, Threads
<1> QED
  BY <1>1, Constants DEF WriteMsg, Full, Count

(* Wrapping the write pointer changes nothing.                             *)
LEMMA CountPublish ==
  ASSUME IInv, NEW s \in Senders, PublishMsg(s)
  PROVE  Count' = Count
<1>1. rd # N
  BY DEF PublishMsg, IInv, OwnerInv, HoldingSteps, RingInv, Threads
<1> QED
  BY <1>1, Constants DEF PublishMsg, IInv, TypeOK, RingInv, Count

(* Reading a message takes one away.                                       *)
LEMMA CountRead ==
  ASSUME IInv, NEW r \in Receivers, ReadMsg(r)
  PROVE  Count > 0 /\ Count' = Count - 1
<1>1. wr \in 0..(N - 1) /\ rd \in 0..(N - 1)
  BY InsideBuffer DEF ReadMsg, Goto, Threads
<1> QED
  BY <1>1, Constants DEF ReadMsg, Empty, Count

(* Wrapping the read pointer changes nothing.                              *)
LEMMA CountWrapRead ==
  ASSUME IInv, NEW r \in Receivers, WrapRead(r)
  PROVE  Count' = Count
<1>1. wr # N
  BY DEF WrapRead, Goto, IInv, OwnerInv, HoldingSteps, RingInv, Publishing, Threads
<1> QED
  BY <1>1, Constants DEF WrapRead, IInv, TypeOK, RingInv, Count
-----------------------------------------------------------------------------
(* No lost wakeup.                                                         *)

(* Counting the receivers that come and go.                                *)
LEMMA ComingCard ==
  /\ Coming \subseteq Receivers
  /\ Cardinality(Coming) \in Nat
  /\ \A r \in Receivers \ Coming :
       Cardinality(Coming \cup {r}) = Cardinality(Coming) + 1
  /\ \A r \in Coming : Cardinality(Coming \ {r}) = Cardinality(Coming) - 1
<1>1. Coming \subseteq Receivers
  BY DEF Coming
<1>2. IsFiniteSet(Coming)
  BY <1>1, Constants, FS_Subset
<1> QED
  BY <1>1, <1>2, FS_CardinalityType, FS_AddElement, FS_RemoveElement

LEMMA NextNoLostWakeup ==
  IInv /\ NoLostWakeup /\ [Next]_vars => NoLostWakeup'
<1> SUFFICES ASSUME IInv, NoLostWakeup, [Next]_vars PROVE NoLostWakeup'
  OBVIOUS
<1> USE DEF Goto, Lock, Unlock, Answer, ringVars, overVars
<1>0. Count \in Nat /\ Cardinality(Coming) \in Nat
  BY CountBound, Constants, ComingCard
<1>1. CASE Create
  <2>1. Blocked' = {}
    BY <1>1 DEF Create, Blocked, Threads
  <2> QED BY <2>1 DEF NoLostWakeup
<1>2. ASSUME NEW r \in Receivers, Delete(r) PROVE NoLostWakeup'
  BY <1>2 DEF Delete, NoLostWakeup
(* Steps that leave the ring and the waiting and coming receivers alone.   *)
<1>3. ASSUME Count' = Count, Blocked' = Blocked, Coming' = Coming,
             Publishing' = Publishing, alive' = alive
      PROVE  NoLostWakeup'
  BY <1>3 DEF NoLostWakeup
<1>4. ASSUME NEW s \in Senders,
             \/ \E m \in Msgs : CallSend(s, m)
             \/ LockSend(s) \/ RejectSend(s)
             \/ LoadOverFlows(s) \/ StoreOverFlows(s)
      PROVE  NoLostWakeup'
  <2>1. pc[s] \notin {"s_wrap"} /\ pc'[s] \notin {"s_wrap"}
        /\ \A t \in Threads \ {s} : pc'[t] = pc[t]
    BY <1>4 DEF CallSend, LockSend, RejectSend, LoadOverFlows, StoreOverFlows,
                IInv, TypeOK, Threads
  <2>2. Count' = Count /\ alive' = alive
    BY <1>4 DEF CallSend, LockSend, RejectSend, LoadOverFlows, StoreOverFlows, Count
  <2>3. Blocked' = Blocked /\ Coming' = Coming
    BY <2>1, Constants DEF Blocked, Coming, Threads
  <2>4. Publishing' = Publishing
    BY <2>1 DEF Publishing, Threads
  <2> QED BY <1>3, <2>2, <2>3, <2>4
(* One more message, and its sender is about to signal.                    *)
<1>5. ASSUME NEW s \in Senders, WriteMsg(s) PROVE NoLostWakeup'
  <2>1. ~Publishing
    BY <1>5 DEF WriteMsg, IInv, OwnerInv, HoldingSteps, Publishing, Threads
  <2>2. Publishing' /\ alive' = alive
    BY <1>5 DEF WriteMsg, Publishing, IInv, TypeOK, Threads
  <2>3. Blocked' = Blocked /\ Coming' = Coming
    BY <1>5, Constants DEF WriteMsg, Blocked, Coming, IInv, TypeOK, Threads
  <2>4. Count' = Count + 1
    BY <1>5, CountWrite
  <2> QED BY <1>0, <2>1, <2>2, <2>3, <2>4 DEF NoLostWakeup
(* The signal: a blocked receiver, if there is one, starts to come.        *)
<1>6. ASSUME NEW s \in Senders, PublishMsg(s) PROVE NoLostWakeup'
  <2>1. Publishing
    BY <1>6 DEF PublishMsg, Publishing
  <2>2. ~Publishing' /\ alive' = alive
    BY <1>6, Constants DEF PublishMsg, Publishing, IInv, OwnerInv, HoldingSteps,
                           TypeOK, Threads, Blocked
  <2>3. Count' = Count
    BY <1>6, CountPublish
  <2>4. CASE Blocked = {} /\ pc' = [pc EXCEPT ![s] = "idle"]
    <3>1. Blocked' = {}
      BY <2>4, Constants DEF Blocked, IInv, TypeOK, Threads
    <3> QED BY <3>1 DEF NoLostWakeup
  <2>5. ASSUME NEW r \in Blocked,
               pc' = [pc EXCEPT ![s] = "idle", ![r] = "r_relock"]
        PROVE  NoLostWakeup'
    <3>1. r \in Receivers \ Coming
      BY DEF Blocked, Coming
    <3>2. Coming' = Coming \cup {r}
      BY <2>5, <3>1, Constants DEF Coming, IInv, TypeOK, Threads
    <3>3. Cardinality(Coming') = Cardinality(Coming) + 1
      BY <3>1, <3>2, ComingCard
    <3> QED
      BY <1>0, <2>1, <2>2, <2>3, <3>3 DEF NoLostWakeup, PublishMsg, Blocked
  <2> QED BY <1>6, <2>4, <2>5 DEF PublishMsg
<1>7. ASSUME NEW r \in Receivers, NEW mode \in Modes, CallReceive(r, mode)
      PROVE  NoLostWakeup'
  <2>1. Count' = Count /\ alive' = alive
    BY <1>7 DEF CallReceive, Count
  <2>2. Blocked' = Blocked /\ Coming' = Coming
    BY <1>7 DEF CallReceive, Blocked, Coming, IInv, TypeOK, Threads
  <2>3. Publishing' = Publishing
    BY <1>7, Constants DEF CallReceive, Publishing, IInv, TypeOK, Threads
  <2> QED BY <1>3, <2>1, <2>2, <2>3
(* A receiver that starts to come brings the bound up.                     *)
<1>8. ASSUME NEW r \in Receivers, LockReceive(r) \/ SpuriousWake(r)
      PROVE  NoLostWakeup'
  <2>1. Count' = Count /\ alive' = alive
    BY <1>8 DEF LockReceive, SpuriousWake, Count
  <2>2. Blocked' \subseteq Blocked
    BY <1>8 DEF LockReceive, SpuriousWake, Blocked, IInv, TypeOK, Threads
  <2>3. r \in Receivers \ Coming
    BY <1>8 DEF LockReceive, SpuriousWake, Coming
  <2>4. Coming' = Coming \cup {r}
    BY <1>8 DEF LockReceive, SpuriousWake, Coming, IInv, TypeOK, Threads
  <2>5. Publishing' = Publishing
    BY <1>8, Constants DEF LockReceive, SpuriousWake, Publishing, IInv, TypeOK, Threads
  <2>6. Cardinality(Coming') = Cardinality(Coming) + 1
    BY <2>3, <2>4, ComingCard
  <2>7. Blocked' # {} => Blocked # {}
    BY <2>2
  <2> QED BY <1>0, <2>1, <2>5, <2>6, <2>7 DEF NoLostWakeup
<1>9. ASSUME NEW r \in Receivers, Relock(r) PROVE NoLostWakeup'
  <2>1. Count' = Count /\ alive' = alive
    BY <1>9 DEF Relock, Count
  <2>2. Blocked' = Blocked /\ Coming' = Coming
    BY <1>9 DEF Relock, Blocked, Coming, IInv, TypeOK, Threads
  <2>3. Publishing' = Publishing
    BY <1>9, Constants DEF Relock, Publishing, IInv, TypeOK, Threads
  <2> QED BY <1>3, <2>1, <2>2, <2>3
(* A receiver gives up or blocks only when no message is left.             *)
<1>10. ASSUME NEW r \in Receivers, RejectReceive(r) \/ Block(r)
       PROVE  NoLostWakeup'
  <2>1. Count' = 0
    BY <1>10, Constants DEF RejectReceive, Block, Empty, Count, IInv, TypeOK
  <2>2. Coming' \subseteq Receivers
    BY DEF Coming
  <2>3. Cardinality(Coming') \in Nat
    BY <2>2, Constants, FS_Subset, FS_CardinalityType
  <2> QED BY <2>1, <2>3 DEF NoLostWakeup
(* A receiver that takes a message was coming for one.                     *)
<1>11. ASSUME NEW r \in Receivers, ReadMsg(r) PROVE NoLostWakeup'
  <2>1. alive' = alive /\ Blocked' = Blocked
    BY <1>11 DEF ReadMsg, Blocked, IInv, TypeOK, Threads
  <2>2. Publishing' = Publishing
    BY <1>11, Constants DEF ReadMsg, Publishing, IInv, TypeOK, Threads
  <2>3. r \in Coming /\ Coming' = Coming \ {r}
    BY <1>11 DEF ReadMsg, Coming, IInv, TypeOK, Threads
  <2>4. Cardinality(Coming') = Cardinality(Coming) - 1
    BY <2>3, ComingCard
  <2>5. Count' = Count - 1
    BY <1>11, CountRead
  <2> QED BY <1>0, <2>1, <2>2, <2>4, <2>5 DEF NoLostWakeup
<1>12. ASSUME NEW r \in Receivers, WrapRead(r) PROVE NoLostWakeup'
  <2>1. alive' = alive /\ Blocked' = Blocked /\ Coming' = Coming
    BY <1>12 DEF WrapRead, Blocked, Coming, IInv, TypeOK, Threads
  <2>2. Publishing' = Publishing
    BY <1>12, Constants DEF WrapRead, Publishing, IInv, TypeOK, Threads
  <2>3. Count' = Count
    BY <1>12, CountWrapRead
  <2> QED BY <1>3, <2>1, <2>2, <2>3
<1>13. CASE UNCHANGED vars
  <2>1. /\ Count' = Count /\ Blocked' = Blocked /\ Coming' = Coming
        /\ Publishing' = Publishing /\ alive' = alive
    BY <1>13 DEF vars, Count, Blocked, Coming, Publishing
  <2> QED BY <1>3, <2>1
<1> QED
  BY <1>1, <1>2, <1>4, <1>5, <1>6, <1>7, <1>8, <1>9, <1>10, <1>11, <1>12, <1>13
  DEF Next, Serve, SendStep, ReceiveStep

(* While a receiver is blocked, every message has a receiver already woken *)
(* for it: one signal per message sent never loses a wakeup, however many  *)
(* senders and receivers share the queue.                                  *)
THEOREM WakeupSafe == Spec => []NoLostWakeup
<1>1. Init => NoLostWakeup
  BY DEF Init, NoLostWakeup
<1> QED
  BY <1>1, NextNoLostWakeup, Invariant, PTL DEF Spec

-----------------------------------------------------------------------------
(* The queue implements BoundedFifo.                                       *)

Items == Msgs \cup {NoMsg}

(* The slots between the pointers, as a sequence.                          *)
ContentsOK ==
  /\ Contents \in Seq(Items)
  /\ Len(Contents) = Count
  /\ \A i \in 1..Count : Contents[i] = buf[Slot(rd + i - 1)]

LEMMA ContentsSeq == IInv => ContentsOK
<1> SUFFICES ASSUME IInv PROVE ContentsOK
  OBVIOUS
<1>1. Count \in 0..MaxMsgs
  BY CountBound
<1>2. \A i \in 1..Count : Slot(rd + i - 1) \in 0..MaxMsgs
  BY <1>1, Constants DEF IInv, TypeOK, Slot
<1>3. \A i \in 1..Count : buf[Slot(rd + i - 1)] \in Items
  BY <1>2 DEF IInv, TypeOK, Items
<1> QED
  BY <1>1, <1>3, Constants DEF Contents, ContentsOK

(* memcpy into the free slot appends the message.                          *)
LEMMA ContentsWrite ==
  ASSUME IInv, IInv', NEW s \in Senders, WriteMsg(s)
  PROVE  Contents' = Append(Contents, call[s].msg)
<1>1. wr \in 0..(N - 1) /\ rd \in 0..(N - 1)
  BY InsideBuffer DEF WriteMsg, Goto, Threads
<1>2. Count \in 0..MaxMsgs /\ Count' = Count + 1
  BY CountBound, CountWrite
<1>3. call[s].msg \in Items
  BY DEF IInv, TypeOK, Threads, Items
<1>4. /\ Contents \in Seq(Items) /\ Len(Contents) = Count
      /\ \A i \in 1..Count : Contents[i] = buf[Slot(rd + i - 1)]
  BY ContentsSeq DEF ContentsOK
<1>0. IInv' => ContentsOK'
  BY ContentsSeq, PTL
<1>5. Contents' \in Seq(Items) /\ Len(Contents') = Count + 1
  BY <1>0, <1>2 DEF ContentsOK, Items
<1>6. \A i \in 1..(Count + 1) : Contents'[i] = buf'[Slot(rd + i - 1)]
  BY <1>2 DEF Contents, WriteMsg, Slot
<1>7. Slot(rd + Count) = wr
  BY <1>1, Constants DEF Count, Slot
<1>8. \A i \in 1..Count : Slot(rd + i - 1) # wr /\ Slot(rd + i - 1) \in 0..MaxMsgs
  BY <1>1, <1>2, Constants DEF Count, Slot
<1>9. /\ buf'[wr] = call[s].msg
      /\ \A k \in 0..MaxMsgs \ {wr} : buf'[k] = buf[k]
  BY <1>1, Constants DEF WriteMsg, IInv, TypeOK
<1>10. \A i \in 1..(Count + 1) :
         Contents'[i] = Append(Contents, call[s].msg)[i]
  <2> SUFFICES ASSUME NEW i \in 1..(Count + 1)
               PROVE  Contents'[i] = Append(Contents, call[s].msg)[i]
    OBVIOUS
  <2>0. Contents'[i] = buf'[Slot(rd + i - 1)]
    BY <1>6
  <2>1. CASE i = Count + 1
    <3>1. rd + i - 1 = rd + Count
      BY <2>1, <1>1, <1>2
    <3>2. Contents'[i] = call[s].msg
      BY <2>0, <3>1, <1>7, <1>9
    <3>3. Append(Contents, call[s].msg)[i] = call[s].msg
      BY <2>1, <1>3, <1>4
    <3> QED BY <3>2, <3>3
  <2>2. CASE i \in 1..Count
    <3>1. Contents'[i] = buf[Slot(rd + i - 1)]
      BY <2>0, <2>2, <1>8, <1>9
    <3>2. Append(Contents, call[s].msg)[i] = Contents[i]
      BY <2>2, <1>2, <1>3, <1>4
    <3> QED BY <2>2, <3>1, <3>2, <1>4
  <2>3. i = Count + 1 \/ i \in 1..Count
    BY <1>2, Constants
  <2> QED BY <2>1, <2>2, <2>3
<1>11. Append(Contents, call[s].msg) \in Seq(Items)
       /\ Len(Append(Contents, call[s].msg)) = Count + 1
  BY <1>3, <1>4
<1> QED
  BY <1>5, <1>10, <1>11, SeqEqual

(* memcpy out of the oldest slot takes the head away.                      *)
LEMMA ContentsRead ==
  ASSUME IInv, IInv', NEW r \in Receivers, ReadMsg(r)
  PROVE  /\ Contents # <<>>
         /\ Head(Contents) = buf[rd]
         /\ Contents' = Tail(Contents)
<1>1. wr \in 0..(N - 1) /\ rd \in 0..(N - 1)
  BY InsideBuffer DEF ReadMsg, Goto, Threads
<1>2. Count \in 1..MaxMsgs /\ Count' = Count - 1
  BY CountBound, CountRead, Constants
<1>3. /\ Contents \in Seq(Items) /\ Len(Contents) = Count
      /\ \A i \in 1..Count : Contents[i] = buf[Slot(rd + i - 1)]
  BY ContentsSeq DEF ContentsOK
<1>0. IInv' => ContentsOK'
  BY ContentsSeq, PTL
<1>4. Contents' \in Seq(Items) /\ Len(Contents') = Count - 1
  BY <1>0, <1>2 DEF ContentsOK, Items
<1>5. \A i \in 1..(Count - 1) : Contents'[i] = buf[Slot(rd' + i - 1)]
  BY <1>2 DEF Contents, ReadMsg, Slot
<1>6. Contents # <<>>
  BY <1>2, <1>3
<1>7. Head(Contents) = buf[rd]
  BY <1>1, <1>2, <1>3, <1>6, Constants DEF Slot
<1>8. /\ Tail(Contents) \in Seq(Items) /\ Len(Tail(Contents)) = Count - 1
      /\ \A i \in 1..(Count - 1) : Tail(Contents)[i] = Contents[i + 1]
  BY <1>2, <1>3, <1>6, HeadTailProperties
<1>9. \A i \in 1..(Count - 1) : Contents'[i] = Tail(Contents)[i]
  <2> SUFFICES ASSUME NEW i \in 1..(Count - 1)
               PROVE  Contents'[i] = Tail(Contents)[i]
    OBVIOUS
  <2>1. rd' + i - 1 = rd + (i + 1) - 1
    BY <1>1, <1>2 DEF ReadMsg
  <2>2. i + 1 \in 1..Count
    BY <1>2
  <2> QED BY <2>1, <2>2, <1>3, <1>5, <1>8
<1>10. Contents' = Tail(Contents)
  BY <1>4, <1>8, <1>9, SeqEqual
<1> QED
  BY <1>6, <1>7, <1>10

(* Wrapping a pointer leaves the sequence as it is.                        *)
LEMMA ContentsWrapWrite ==
  ASSUME IInv, NEW s \in Senders, PublishMsg(s)
  PROVE  Contents' = Contents
<1>1. Count' = Count
  BY CountPublish
<1> QED
  BY <1>1 DEF PublishMsg, Contents, Slot

LEMMA ContentsWrapRead ==
  ASSUME IInv, NEW r \in Receivers, WrapRead(r)
  PROVE  Contents' = Contents
<1>1. Count' = Count /\ Count \in 0..MaxMsgs
  BY CountWrapRead, CountBound
<1>2. wr # N /\ rd \in 0..N
  BY DEF WrapRead, Goto, IInv, TypeOK, OwnerInv, HoldingSteps, RingInv, Publishing, Threads
<1>3. \A i \in 1..Count : Slot(rd' + i - 1) = Slot(rd + i - 1)
  BY <1>1, <1>2, Constants DEF WrapRead, Slot
<1> QED
  BY <1>1, <1>3 DEF WrapRead, Contents, Slot

LEMMA FifoInit == Init => Fifo!Init
BY DEF Init, Fifo!Init, Threads, Fifo!Threads

(* Every step of the code is a step of BoundedFifo or changes nothing its  *)
(* callers can see.                                                        *)
LEMMA FifoNext ==
  IInv /\ IInv' /\ [Next]_vars => [Fifo!Next]_(Fifo!fvars)
<1> SUFFICES ASSUME IInv, IInv', [Next]_vars
             PROVE  [Fifo!Next]_(Fifo!fvars)
  OBVIOUS
<1> USE DEF Goto, Lock, Unlock, Answer, ringVars, overVars
<1>a. ContentsOK /\ ContentsOK'
  BY ContentsSeq, PTL
<1>b. Count \in 0..MaxMsgs /\ Count' \in 0..MaxMsgs
  <2>1. IInv' => (Count \in 0..MaxMsgs)'
    BY CountBound, PTL
  <2> QED BY <2>1, CountBound
(* A step that keeps the ring and the answers is invisible.                *)
<1>c. ASSUME alive' = alive, Contents' = Contents, call' = call
      PROVE  UNCHANGED Fifo!fvars
  BY <1>c DEF Fifo!fvars
<1>d. ASSUME buf' = buf, rd' = rd, wr' = wr PROVE Contents' = Contents
  BY <1>d DEF Contents, Count
<1>e. ASSUME alive, Count = 0 PROVE Contents = <<>>
  BY <1>e, <1>a DEF ContentsOK
<1>1. CASE Create
  <2>1. Count' = 0
    BY <1>1, Constants DEF Create, Count
  <2>2. Contents' = <<>>
    BY <2>1, <1>a DEF ContentsOK
  <2>3. Fifo!Create
    BY <1>1, <2>2 DEF Create, Fifo!Create
  <2> QED BY <2>3 DEF Fifo!Next
<1>2. ASSUME NEW r \in Receivers, Delete(r) PROVE Fifo!Next
  <2>1. Fifo!Destroy
    BY <1>2 DEF Delete, Fifo!Destroy
  <2> QED BY <2>1 DEF Fifo!Next
<1>3. ASSUME NEW s \in Senders, NEW m \in Msgs, CallSend(s, m) PROVE Fifo!Next
  <2>1. Contents' = Contents
    BY <1>3, <1>d DEF CallSend
  <2>2. Fifo!Request(s)
    BY <1>3, <2>1 DEF CallSend, Fifo!Request, Fifo!Answer
  <2> QED BY <2>2 DEF Fifo!Next, Fifo!Threads
<1>4. ASSUME NEW s \in Senders, RejectSend(s) PROVE Fifo!Next
  <2>1. wr \in 0..(N - 1) /\ rd \in 0..(N - 1)
    BY <1>4, InsideBuffer DEF RejectSend, Threads
  <2>2. Count = MaxMsgs
    BY <1>4, <2>1, Constants DEF RejectSend, Full, Count
  <2>3. Contents' = Contents
    BY <1>4, <1>d DEF RejectSend
  <2>4. call[s].op = "send"
    BY <1>4 DEF RejectSend, IInv, RequestInv
  <2>5. Fifo!Reject(s)
    BY <1>4, <1>a, <2>2, <2>3, <2>4 DEF RejectSend, Fifo!Reject, Fifo!Answer, ContentsOK
  <2> QED BY <2>5 DEF Fifo!Next
<1>5. ASSUME NEW s \in Senders, WriteMsg(s) PROVE Fifo!Next
  <2>1. Contents' = Append(Contents, call[s].msg)
    BY <1>5, ContentsWrite
  <2>2. Len(Contents) < MaxMsgs
    BY <1>5, <1>a, <1>b, CountWrite, Constants DEF ContentsOK
  <2>3. call[s].op = "send"
    BY <1>5 DEF WriteMsg, IInv, RequestInv
  <2>4. Fifo!Accept(s)
    BY <1>5, <2>1, <2>2, <2>3 DEF WriteMsg, Fifo!Accept, Fifo!Answer
  <2> QED BY <2>4 DEF Fifo!Next
<1>6. ASSUME NEW r \in Receivers, NEW mode \in Modes, CallReceive(r, mode)
      PROVE  Fifo!Next
  <2>1. Contents' = Contents
    BY <1>6, <1>d DEF CallReceive
  <2>2. Fifo!Request(r)
    BY <1>6, <2>1 DEF CallReceive, Fifo!Request, Fifo!Answer, Fifo!Modes, Modes
  <2> QED BY <2>2 DEF Fifo!Next, Fifo!Threads
<1>7. ASSUME NEW r \in Receivers, RejectReceive(r) PROVE Fifo!Next
  <2>1. Count = 0
    BY <1>7, Constants DEF RejectReceive, Empty, Count, IInv, TypeOK
  <2>2. Contents' = Contents
    BY <1>7, <1>d DEF RejectReceive
  <2>3. Fifo!Nothing(r)
    BY <1>7, <1>e, <2>1, <2>2 DEF RejectReceive, Fifo!Nothing, Fifo!Answer
  <2> QED BY <2>3 DEF Fifo!Next
<1>8. ASSUME NEW r \in Receivers, ReadMsg(r) PROVE Fifo!Next
  <2>1. /\ Contents # <<>>
        /\ Head(Contents) = buf[rd]
        /\ Contents' = Tail(Contents)
    BY <1>8, ContentsRead
  <2>2. call[r].op \in Fifo!Modes
    BY <1>8 DEF ReadMsg, IInv, RequestInv, Fifo!Modes, Modes
  <2>3. Fifo!Deliver(r)
    BY <1>8, <2>1, <2>2 DEF ReadMsg, Fifo!Deliver, Fifo!Answer
  <2> QED BY <2>3 DEF Fifo!Next
<1>9. ASSUME NEW s \in Senders,
             LockSend(s) \/ LoadOverFlows(s) \/ StoreOverFlows(s)
      PROVE  UNCHANGED Fifo!fvars
  BY <1>9, <1>c, <1>d DEF LockSend, LoadOverFlows, StoreOverFlows
<1>10. ASSUME NEW s \in Senders, PublishMsg(s) PROVE UNCHANGED Fifo!fvars
  BY <1>10, <1>c, ContentsWrapWrite DEF PublishMsg
<1>11. ASSUME NEW r \in Receivers,
              LockReceive(r) \/ Block(r) \/ SpuriousWake(r) \/ Relock(r)
       PROVE  UNCHANGED Fifo!fvars
  BY <1>11, <1>c, <1>d DEF LockReceive, Block, SpuriousWake, Relock
<1>12. ASSUME NEW r \in Receivers, WrapRead(r) PROVE UNCHANGED Fifo!fvars
  BY <1>12, <1>c, ContentsWrapRead DEF WrapRead
<1>13. CASE UNCHANGED vars
  BY <1>13, <1>c, <1>d DEF vars
<1> QED
  BY <1>1, <1>2, <1>3, <1>4, <1>5, <1>6, <1>7, <1>8, <1>9, <1>10, <1>11, <1>12, <1>13
  DEF Next, Serve, SendStep, ReceiveStep

(* For any number of senders and receivers and any queue size, the ring,   *)
(* its mutex and its condition variable behave as one first-in first-out   *)
(* queue of MaxMsgs messages.                                              *)
THEOREM QueueIsFifo == Spec => FifoSpec
<1>1. Spec => []IInv
  BY Invariant
<1> QED
  BY <1>1, FifoInit, FifoNext, PTL DEF Spec, FifoSpec, Fifo!Spec

=============================================================================
