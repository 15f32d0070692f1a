-------------------------------- MODULE Heap --------------------------------
(***************************************************************************)
(* What a memory pool promises: the blocks callers hold are disjoint, each *)
(* is big enough for what was asked, and a request is refused only when it *)
(* cannot be met: nowhere in the arena is there room for it.  No list, no  *)
(* headers, no lock.                                                       *)
(***************************************************************************)
EXTENDS Naturals

CONSTANTS
  Callers,   (* threads that allocate                                      *)
  Needs,     (* units a block needs, 0 for a request that cannot be met    *)
  Slack,     (* units a block may be bigger than needed                    *)
  Size       (* units of the arena                                         *)

VARIABLES
  blocks,    (* the blocks callers hold: [by, addr, size]                  *)
  call       (* per caller: its request, or what it was given              *)

hvars == <<blocks, call>>

Units(b) == b.addr .. (b.addr + b.size - 1)

Unused == (0 .. (Size - 1)) \ UNION {Units(b) : b \in blocks}

(* There are n free units in a row.                                        *)
Room(n) == \E a \in 0 .. (Size - n) : a .. (a + n - 1) \subseteq Unused

Answer(c, op, n) == call' = [call EXCEPT ![c] = [op |-> op, need |-> n]]

Init ==
  /\ blocks = {}
  /\ call = [c \in Callers |-> [op |-> "none", need |-> 0]]

Request(c) ==
  /\ \E n \in Needs : Answer(c, "asked", n)
  /\ UNCHANGED blocks

Allocate(c) ==
  \E a \in 0 .. (Size - 1), extra \in 0 .. Slack :
    LET b == [by |-> c, addr |-> a, size |-> call[c].need + extra] IN
    /\ call[c].op = "asked"
    /\ call[c].need > 0
    /\ a + b.size <= Size
    /\ Units(b) \subseteq Unused
    /\ blocks' = blocks \cup {b}
    /\ Answer(c, "block", 0)

Refuse(c) ==
  /\ call[c].op = "asked"
  /\ call[c].need = 0 \/ call[c].need > Size \/ ~Room(call[c].need)
  /\ Answer(c, "null", 0)
  /\ UNCHANGED blocks

Release ==
  /\ \E b \in blocks : blocks' = blocks \ {b}
  /\ UNCHANGED call

Next == Release \/ \E c \in Callers : Request(c) \/ Allocate(c) \/ Refuse(c)

Spec == Init /\ [][Next]_hvars
=============================================================================
