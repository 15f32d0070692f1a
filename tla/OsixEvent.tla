----------------------------- MODULE OsixEvent ------------------------------
(***************************************************************************)
(* The events of a task in src/linux/base_event.c: a set of bits that any  *)
(* thread adds to and that only the task itself takes from, waiting on     *)
(* EvtCond while none of those it asked for is there.  What each of the    *)
(* two does under EvtMutex is one step.                                    *)
(*                                                                         *)
(* The task is one that stays in the task table: finding it is in OsixTask.*)
(***************************************************************************)
CONSTANTS
  Tasks,    (* slots of the task table                                     *)
  Events    (* the bits of u4Events                                        *)

VARIABLES
  events,   (* per task: u4Events                                          *)
  stage,    (* per task: where it is in base_event_receive                 *)
  mask,     (* per task: the events it asked for                           *)
  wait,     (* per task: u4Flg is not OSIX_NO_WAIT                         *)
  got       (* per task: *pu4RcvdEvts                                      *)

eventVars == <<events, stage, mask, wait, got>>

(* EvtCond is not signalled.                                               *)
SendQuietly(k, e) ==
  /\ events' = [events EXCEPT ![k] = @ \cup e]
  /\ UNCHANGED <<stage, mask, wait, got>>

(* base_event_send, on the task it found                                   *)
SendTo(k, e) ==
  /\ events' = [events EXCEPT ![k] = @ \cup e]
  /\ stage' = [stage EXCEPT ![k] = IF @ = "asleep" THEN "woken" ELSE @]
  /\ UNCHANGED <<mask, wait, got>>

(* base_event_receive                                                      *)
CallReceive(k, m, w) ==
  /\ stage[k] = "idle"
  /\ stage' = [stage EXCEPT ![k] = "called"]
  /\ mask' = [mask EXCEPT ![k] = m]
  /\ wait' = [wait EXCEPT ![k] = w]
  /\ got' = [got EXCEPT ![k] = {}]
  /\ UNCHANGED events

Asked(k) == events[k] \cap mask[k]

RejectReceive(k) ==
  /\ stage[k] = "called"
  /\ ~wait[k] /\ Asked(k) = {}
  /\ stage' = [stage EXCEPT ![k] = "idle"]
  /\ UNCHANGED <<events, mask, wait, got>>

(* Clears u4Events.                                                        *)
TakeAll(k) ==
  /\ stage[k] \in {"called", "woken"}
  /\ Asked(k) # {}
  /\ got' = [got EXCEPT ![k] = Asked(k)]
  /\ events' = [events EXCEPT ![k] = {}]
  /\ stage' = [stage EXCEPT ![k] = "idle"]
  /\ UNCHANGED <<mask, wait>>

Take(k) ==
  /\ stage[k] \in {"called", "woken"}
  /\ Asked(k) # {}
  /\ got' = [got EXCEPT ![k] = Asked(k)]
  /\ events' = [events EXCEPT ![k] = @ \ Asked(k)]
  /\ stage' = [stage EXCEPT ![k] = "idle"]
  /\ UNCHANGED <<mask, wait>>

(* pthread_cond_wait, again after every wake-up that found nothing.        *)
Wait(k) ==
  /\ stage[k] \in {"called", "woken"}
  /\ Asked(k) = {}
  /\ stage[k] = "called" => wait[k]
  /\ stage' = [stage EXCEPT ![k] = "asleep"]
  /\ UNCHANGED <<events, mask, wait, got>>

SpuriousWake(k) ==
  /\ stage[k] = "asleep"
  /\ stage' = [stage EXCEPT ![k] = "woken"]
  /\ UNCHANGED <<events, mask, wait, got>>

EventInit ==
  /\ events = [k \in Tasks |-> {}]
  /\ stage = [k \in Tasks |-> "idle"]
  /\ mask = [k \in Tasks |-> {}]
  /\ wait = [k \in Tasks |-> FALSE]
  /\ got = [k \in Tasks |-> {}]

Receive(k) == RejectReceive(k) \/ Take(k) \/ Wait(k)

EventNext ==
  \E k \in Tasks :
    \/ \E e \in SUBSET Events : SendTo(k, e)
    \/ \E m \in SUBSET Events, w \in BOOLEAN : CallReceive(k, m, w)
    \/ Receive(k)
    \/ SpuriousWake(k)

EventSpec == EventInit /\ [][EventNext]_eventVars

(* A task that is called or woken goes on.                                 *)
EventFairSpec == EventSpec /\ \A k \in Tasks : WF_eventVars(Receive(k))

-----------------------------------------------------------------------------
(* The types of the task's part of the table and of the call.              *)
EventTypeOK ==
  /\ events \in [Tasks -> SUBSET Events]
  /\ stage \in [Tasks -> {"idle", "called", "asleep", "woken"}]
  /\ mask \in [Tasks -> SUBSET Events]
  /\ wait \in [Tasks -> BOOLEAN]
  /\ got \in [Tasks -> SUBSET Events]

(* pthread_cond_signal in base_event_send: no task sleeps on EvtCond while *)
(* an event it asked for is there, whatever was sent before, during or     *)
(* after its call.                                                         *)
SleepsForNothing == \A k \in Tasks : stage[k] = "asleep" => Asked(k) = {}

(* base_event_receive clears the events it returns and no others: an event *)
(* that was sent and not asked for stays for a later call.                 *)
TakesWhatItReturns == [][\A k \in Tasks : events[k] \ events'[k] \subseteq got'[k]]_eventVars

(* A task that asked for an event that is there gets it.                   *)
EventArrives ==
  \A k \in Tasks : stage[k] # "idle" /\ Asked(k) # {} ~> stage[k] = "idle" /\ got[k] # {}
=============================================================================
