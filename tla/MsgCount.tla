------------------------------ MODULE MsgCount ------------------------------
(***************************************************************************)
(* PTHREAD_MsgQ_NumMsgs of src/linux/base_queue.c beside the sends and the *)
(* receives of MsgQueue.  It copies the queue structure without the mutex, *)
(* so the two pointers it subtracts are loaded at different moments, in an *)
(* order the compiler chooses.                                             *)
(***************************************************************************)
EXTENDS MsgQueue

VARIABLES
  counter,   (* the receiver inside NumMsgs, or Nobody                     *)
  copied,    (* the pointers it has copied so far                          *)
  copy,      (* their values                                               *)
  seen,      (* history: the numbers of messages held since its call       *)
  answer     (* what the last NumMsgs returned                             *)

countVars == <<counter, copied, copy, seen, answer>>
allVars == <<vars, countVars>>

Pointers == {"rd", "wr"}

NoAnswer == N + 1

CallNumMsgs(r) ==
  /\ alive
  /\ pc[r] = "idle"
  /\ counter = Nobody
  /\ counter' = r
  /\ seen' = {Count}
  /\ copied' = {}
  /\ copy' = [p \in Pointers |-> 0]
  /\ answer' = NoAnswer
  /\ UNCHANGED vars

CopyPointer(p) ==
  /\ counter # Nobody
  /\ p \notin copied
  /\ copied' = copied \cup {p}
  /\ copy' = [copy EXCEPT ![p] = IF p = "rd" THEN rd ELSE wr]
  /\ UNCHANGED <<vars, counter, seen, answer>>

(* The distance between the copies, without the branch for a wrapped ring. *)
NumMsgsNoWrap ==
  /\ copied = Pointers
  /\ answer' = IF copy["wr"] < copy["rd"] THEN 0 ELSE copy["wr"] - copy["rd"]
  /\ counter' = Nobody
  /\ copied' = {}
  /\ UNCHANGED <<vars, copy, seen>>

NumMsgs ==
  /\ copied = Pointers
  /\ answer' = IF copy["wr"] < copy["rd"]
               THEN copy["wr"] + N - copy["rd"]
               ELSE copy["wr"] - copy["rd"]
  /\ counter' = Nobody
  /\ copied' = {}
  /\ UNCHANGED <<vars, copy, seen>>

(* The other threads go on; the counting one is busy and nobody deletes.   *)
Elsewhere ==
  /\ Next
  /\ counter # Nobody => alive' /\ pc'[counter] = pc[counter]
  /\ seen' = IF counter = Nobody THEN seen ELSE seen \cup {Count'}
  /\ UNCHANGED <<counter, copied, copy, answer>>

CountInit ==
  /\ Init
  /\ counter = Nobody
  /\ copied = {}
  /\ copy = [p \in Pointers |-> 0]
  /\ seen = {0}
  /\ answer = NoAnswer

CountNext ==
  \/ Elsewhere
  \/ \E r \in Receivers : CallNumMsgs(r)
  \/ \E p \in Pointers : CopyPointer(p)
  \/ NumMsgs

CountSpec == CountInit /\ [][CountNext]_allVars

-----------------------------------------------------------------------------
(* "Returns No. of messages currently in a Q": NumMsgs answers with a      *)
(* number of messages the queue held at some moment of the call.  It does  *)
(* when its caller is the only receiver, whatever the senders do; not when *)
(* another receiver moves the read pointer between the two copies.         *)
NumMsgsCurrent == answer # NoAnswer => answer \in seen
=============================================================================
