----------------------------- MODULE NamedSems ------------------------------
(***************************************************************************)
(* What the named semaphores of base_sem.c promise: under each name that   *)
(* was created, a counter that starts at zero, and no more than MaxSems    *)
(* names.  A call changes the counter of the name it was made with, once,  *)
(* as it returns, or fails and changes nothing.                            *)
(***************************************************************************)
EXTENDS Naturals, FiniteSets

CONSTANTS
  Callers,   (* threads                                                    *)
  Names,     (* names of semaphores                                        *)
  NoName,    (* the name of a caller in no call                            *)
  MaxSems,   (* semaphores there can be                                    *)
  SemMax     (* permits a semaphore can hold                               *)

VARIABLES
  live,      (* names that are created and not deleted                     *)
  count,     (* per name: permits, none for a name that is not there       *)
  call       (* per caller: [op, name], the call it is in                  *)

semVars == <<live, count, call>>

Ops == {"create", "delete", "take", "give"}
None == [op |-> "none", name |-> NoName]

Init ==
  /\ live = {}
  /\ count = [n \in Names |-> 0]
  /\ call = [c \in Callers |-> None]

Request(c, op, n) ==
  /\ call[c] = None
  /\ call' = [call EXCEPT ![c] = [op |-> op, name |-> n]]
  /\ UNCHANGED <<live, count>>

Answer(c, op, n) ==
  /\ call[c] = [op |-> op, name |-> n]
  /\ call' = [call EXCEPT ![c] = None]

Create(c, n) ==
  /\ Answer(c, "create", n)
  /\ n \notin live
  /\ Cardinality(live) < MaxSems
  /\ live' = live \cup {n}
  /\ UNCHANGED count

Delete(c, n) ==
  /\ Answer(c, "delete", n)
  /\ n \in live
  /\ live' = live \ {n}
  /\ count' = [count EXCEPT ![n] = 0]

Take(c, n) ==
  /\ Answer(c, "take", n)
  /\ n \in live /\ count[n] > 0
  /\ count' = [count EXCEPT ![n] = @ - 1]
  /\ UNCHANGED live

Give(c, n) ==
  /\ Answer(c, "give", n)
  /\ n \in live /\ count[n] < SemMax
  /\ count' = [count EXCEPT ![n] = @ + 1]
  /\ UNCHANGED live

Fail(c, op, n) ==
  /\ op # "delete"
  /\ Answer(c, op, n)
  /\ UNCHANGED <<live, count>>

Next ==
  \E c \in Callers, n \in Names :
    \/ \E op \in Ops : Request(c, op, n) \/ Fail(c, op, n)
    \/ Create(c, n) \/ Delete(c, n) \/ Take(c, n) \/ Give(c, n)

Spec == Init /\ [][Next]_semVars
=============================================================================
