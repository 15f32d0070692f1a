----------------------------- MODULE MCMsgQueue -----------------------------
(***************************************************************************)
(* TLC instances of MsgQueue.  For liveness the environment sends a finite *)
(* number of messages: an endless stream of sends could keep the mutex     *)
(* from a receiver, which no pthread mutex promises to prevent.            *)
(***************************************************************************)
EXTENDS MsgQueue

CONSTANTS MaxSends   (* sends the environment makes in a bounded run       *)

VARIABLE left        (* sends it has left                                  *)

FreeInit == Init /\ left = 0
FreeSpec == FreeInit /\ [][Next /\ UNCHANGED left]_<<vars, left>>

BoundedNext ==
  \/ Serve /\ UNCHANGED left
  \/ /\ left > 0
     /\ left' = left - 1
     /\ \E s \in Senders, m \in Msgs : CallSend(s, m)

BoundedInit == Init /\ left = MaxSends

BoundedSpec == BoundedInit /\ [][BoundedNext]_<<vars, left>> /\ Fairness
=============================================================================
