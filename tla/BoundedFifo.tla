---------------------------- MODULE BoundedFifo ----------------------------
(***************************************************************************)
(* What a message queue promises its callers, with no ring, no mutex and   *)
(* no condition variable: a sequence of at most Capacity messages, and for *)
(* every thread the call it has made or the answer it was given.  Each     *)
(* operation takes effect at one instant between its call and its return.  *)
(***************************************************************************)
EXTENDS Naturals, Sequences

CONSTANTS
  Senders,    (* threads that call base_queue_send                         *)
  Receivers,  (* threads that call base_queue_receive                      *)
  Msgs,       (* message contents                                          *)
  NoMsg,      (* stands for "no message" in a call record                  *)
  Capacity    (* messages the queue promises to hold                       *)

VARIABLES
  open,       (* the queue exists                                          *)
  q,          (* messages accepted and not yet received, oldest first      *)
  call        (* per thread: [op, msg], the request or the answer          *)

fvars == <<open, q, call>>

Threads == Senders \cup Receivers

Modes == {"nowait", "timed", "forever"}

Answer(t, op, m) == call' = [call EXCEPT ![t] = [op |-> op, msg |-> m]]

Init ==
  /\ open = FALSE
  /\ q = <<>>
  /\ call = [t \in Threads |-> [op |-> "none", msg |-> NoMsg]]

Create ==
  /\ ~open
  /\ open' = TRUE
  /\ q' = <<>>
  /\ UNCHANGED call

Destroy ==
  /\ open
  /\ open' = FALSE
  /\ q' = <<>>
  /\ UNCHANGED call

(* A thread hands over a request; its previous answer is forgotten.        *)
Request(t) ==
  /\ open
  /\ \/ t \in Senders /\ \E m \in Msgs : Answer(t, "send", m)
     \/ t \in Receivers /\ \E mode \in Modes : Answer(t, mode, NoMsg)
  /\ UNCHANGED <<open, q>>

(* A message is accepted exactly when there is room for it.                *)
Accept(s) ==
  /\ open
  /\ call[s].op = "send"
  /\ Len(q) < Capacity
  /\ q' = Append(q, call[s].msg)
  /\ Answer(s, "sent", NoMsg)
  /\ UNCHANGED open

(* A send fails only when the queue holds Capacity messages.               *)
Reject(s) ==
  /\ open
  /\ call[s].op = "send"
  /\ Len(q) = Capacity
  /\ Answer(s, "full", NoMsg)
  /\ UNCHANGED <<open, q>>

(* A receive delivers the oldest message.                                  *)
Deliver(r) ==
  /\ open
  /\ call[r].op \in Modes
  /\ q # <<>>
  /\ q' = Tail(q)
  /\ Answer(r, "got", Head(q))
  /\ UNCHANGED open

(* Only a NO_WAIT receive comes back without a message.                    *)
Nothing(r) ==
  /\ open
  /\ call[r].op = "nowait"
  /\ q = <<>>
  /\ Answer(r, "empty", NoMsg)
  /\ UNCHANGED <<open, q>>

Next ==
  \/ Create
  \/ Destroy
  \/ \E t \in Threads : Request(t)
  \/ \E s \in Senders : Accept(s) \/ Reject(s)
  \/ \E r \in Receivers : Deliver(r) \/ Nothing(r)

Spec == Init /\ [][Next]_fvars
=============================================================================
