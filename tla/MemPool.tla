------------------------------ MODULE MemPool ------------------------------
(***************************************************************************)
(* The memory pool of src/linux/base_mem.c: one array, a list of its free  *)
(* blocks in address order, and a header before every block with its size  *)
(* and, in the top bit, whether it is allocated.  gfwkmemmgmtSemId guards  *)
(* the list; the first base_mem_malloc sets it all up, before the lock.    *)
(*                                                                         *)
(* Addresses count units from the aligned start of the array, a header is  *)
(* Header units and BASE_MEM_MIN_MEM_SIZE is Min units.                    *)
(***************************************************************************)
EXTENDS Naturals, Sequences, FiniteSets

CONSTANTS
  Callers,     (* threads that allocate and free                           *)
  Pool,        (* units of the array                                       *)
  Header,      (* gbasememstructsize                                       *)
  Min,         (* BASE_MEM_MIN_MEM_SIZE                                    *)
  Bit,         (* gbasememallocatedbit, above every size                   *)
  Requests,    (* sizes callers ask for                                    *)
  FirstAlone   (* whether the first allocation is over before the others   *)

ASSUME SizesAssumption ==
  /\ Header \in Nat \ {0}
  /\ Min \in Nat \ {0}
  /\ Pool \in Nat /\ Pool > Header
  /\ Bit \in Nat /\ Bit > Pool
  /\ Requests \subseteq Nat
  /\ FirstAlone \in BOOLEAN

VARIABLES
  ready,     (* gbasememend is set                                         *)
  free,      (* the free list, from gbasememstart to gbasememend           *)
  size,      (* per address: the size field of the header there            *)
  remaining, (* gbasememfreebytesremaining                                 *)
  minimum,   (* gbasememminfreebytesremaining                              *)
  bit,       (* gbasememallocatedbit is set                                *)
  pc,        (* per caller: the step it is about to take                   *)
  call,      (* per caller: the units its request needs, or its answer     *)
  held,      (* history: the blocks given and not freed: [by, addr, size]  *)
  back       (* per caller: the block it is giving back                    *)

listVars == <<ready, free, size, remaining, minimum, bit>>
vars == <<listVars, pc, call, held, back>>

Arena == Pool - Header

Goto(c, from, to) == pc[c] = from /\ pc' = [pc EXCEPT ![c] = to]

Answer(c, op, n) == call' = [call EXCEPT ![c] = [op |-> op, need |-> n]]

(* Header added and rounded up to a multiple of Min; nothing is that big.  *)
Need(s) ==
  IF s = 0 \/ s >= Bit THEN 0
  ELSE LET n == s + Header IN IF n % Min = 0 THEN n ELSE n + Min - (n % Min)

-----------------------------------------------------------------------------
(* base_mem_insert: how the block at a joins the list l of free blocks     *)
(* whose headers say sz.                                                   *)

(* Blocks the iteration passes: until one is not below a.                  *)
Passed(l, a) ==
  CHOOSE k \in 0 .. Len(l) :
    /\ \A i \in 1 .. k : l[i] < a
    /\ k < Len(l) => l[k + 1] >= a

(* The block after it is never merged.                                     *)
InsertBeforeOnly(l, sz, a) ==
  LET k == Passed(l, a)
      joins == k > 0 /\ l[k] + sz[l[k]] = a
  IN  IF joins
      THEN [free |-> l, size |-> [sz EXCEPT ![l[k]] = @ + sz[a]]]
      ELSE [free |-> SubSeq(l, 1, k) \o <<a>> \o SubSeq(l, k + 1, Len(l)), size |-> sz]

Insert(l, sz, a) ==
  LET k == Passed(l, a)
      before == k > 0 /\ l[k] + sz[l[k]] = a
      block == IF before THEN l[k] ELSE a
      sz1 == IF before THEN [sz EXCEPT ![block] = @ + sz[a]] ELSE sz
      after == k < Len(l) /\ block + sz1[block] = l[k + 1]
  IN  [free |-> SubSeq(l, 1, k)
                  \o (IF before THEN <<>> ELSE <<a>>)
                  \o SubSeq(l, IF after THEN k + 2 ELSE k + 1, Len(l)),
       size |-> IF after THEN [sz1 EXCEPT ![block] = @ + sz1[l[k + 1]]] ELSE sz1]

-----------------------------------------------------------------------------
(* base_mem_malloc *)

(* The test of gbasememend is outside of the lock.                         *)
CallMalloc(c, s) ==
  /\ Goto(c, "idle", IF ready THEN "malloc" ELSE "init")
  /\ FirstAlone => \A d \in Callers : pc[d] \notin {"init", "initFirst"}
  /\ Answer(c, "asked", Need(s))
  /\ UNCHANGED <<listVars, held, back>>

(* base_mem_init as far as gbasememend ...                                 *)
InitList(c) ==
  /\ Goto(c, "init", "initFirst")
  /\ ready' = TRUE
  /\ free' = <<0>>
  /\ UNCHANGED <<size, remaining, minimum, bit, call, held, back>>

(* ... and the block before it, with the counters.  Only if that block is  *)
(* still on the list is the list cut there.                                *)
InitFirst(c) ==
  /\ Goto(c, "initFirst", "malloc")
  /\ size' = [size EXCEPT ![0] = Arena]
  /\ free' = IF 0 \in {free[i] : i \in 1 .. Len(free)} THEN <<0>> ELSE free
  /\ remaining' = Arena
  /\ minimum' = Arena
  /\ bit' = TRUE
  /\ UNCHANGED <<ready, call, held, back>>

(* The first block of the list that is big enough.                         *)
Fits(n) == {i \in 1 .. Len(free) : size[free[i]] >= n}

FirstFit(n) == CHOOSE i \in Fits(n) : \A j \in Fits(n) : i <= j

(* Take it off the list, and put what is left of it back if that is more   *)
(* than Min.                                                               *)
Malloc(c) ==
  LET n == call[c].need
      i == FirstFit(n)
      a == free[i]
      others == SubSeq(free, 1, i - 1) \o SubSeq(free, i + 1, Len(free))
      rest == size[a] - n
      after == IF rest > Min
               THEN Insert(others, [size EXCEPT ![a] = n, ![a + n] = rest], a + n)
               ELSE [free |-> others, size |-> size]
      got == after.size[a]
  IN
  /\ Goto(c, "malloc", "idle")
  /\ n > 0
  /\ n <= remaining
  /\ Fits(n) # {}
  /\ free' = after.free
  /\ size' = [after.size EXCEPT ![a] = got + Bit]
  /\ remaining' = remaining - got
  /\ minimum' = IF remaining' < minimum THEN remaining' ELSE minimum
  /\ held' = held \cup {[by |-> c, addr |-> a, size |-> got]}
  /\ Answer(c, "block", 0)
  /\ UNCHANGED <<ready, bit, back>>

(* Nothing asked for, too few units, or no block that is big enough.       *)
MallocFails(c) ==
  /\ Goto(c, "malloc", "idle")
  /\ \/ call[c].need = 0
     \/ call[c].need > remaining
     \/ Fits(call[c].need) = {}
  /\ Answer(c, "null", 0)
  /\ UNCHANGED <<listVars, held, back>>

-----------------------------------------------------------------------------
(* base_mem_free, of a block somebody holds                                *)

(* The bit is cleared before the lock is taken ...                         *)
CallFree(c, b) ==
  /\ Goto(c, "idle", "free")
  /\ b \in held
  /\ size[b.addr] >= Bit
  /\ size' = [size EXCEPT ![b.addr] = @ - Bit]
  /\ held' = held \ {b}
  /\ back' = [back EXCEPT ![c] = {b}]
  /\ UNCHANGED <<ready, free, remaining, minimum, bit, call>>

(* ... and the block put on the list after.                                *)
Free(c) ==
  /\ Goto(c, "free", "idle")
  /\ \E b \in back[c] :
       LET list == Insert(free, size, b.addr) IN
       /\ remaining' = remaining + size[b.addr]
       /\ free' = list.free
       /\ size' = list.size
  /\ back' = [back EXCEPT ![c] = {}]
  /\ UNCHANGED <<ready, minimum, bit, call, held>>

-----------------------------------------------------------------------------
Init ==
  /\ ready = FALSE
  /\ free = <<>>
  /\ size = [a \in 0 .. (Pool - 1) |-> 0]
  /\ remaining = 0
  /\ minimum = 0
  /\ bit = FALSE
  /\ pc = [c \in Callers |-> "idle"]
  /\ call = [c \in Callers |-> [op |-> "none", need |-> 0]]
  /\ held = {}
  /\ back = [c \in Callers |-> {}]

Next ==
  \E c \in Callers :
    \/ \E s \in Requests : CallMalloc(c, s)
    \/ InitList(c)
    \/ InitFirst(c)
    \/ Malloc(c)
    \/ MallocFails(c)
    \/ \E b \in held : CallFree(c, b)
    \/ Free(c)

Spec == Init /\ [][Next]_vars

-----------------------------------------------------------------------------
(* Given and not yet back on the list.                                     *)
Out == held \cup UNION {back[c] : c \in Callers}

Units(a, n) == a .. (a + n - 1)

(* The types of the state of the pool.                                     *)
TypeOK ==
  /\ ready \in BOOLEAN /\ bit \in BOOLEAN
  /\ free \in Seq(0 .. (Arena - 1))
  /\ size \in [0 .. (Pool - 1) -> 0 .. (Bit + Arena)]
  /\ remaining \in 0 .. Arena
  /\ minimum \in 0 .. remaining
  /\ pc \in [Callers -> {"idle", "init", "initFirst", "malloc", "free"}]
  /\ \A b \in Out : b.addr + b.size <= Arena

(* The pool keeps the promise of a heap, through any splitting, freeing    *)
(* and merging of blocks by several callers: no two blocks overlap, none   *)
(* is smaller than asked or more than Min bigger, and a request fails only *)
(* when no free stretch of the arena is long enough.  A block is back when *)
(* it is on the list.                                                      *)
TheHeap == INSTANCE Heap WITH
  Needs <- {Need(s) : s \in Requests},
  Slack <- Min,
  Size <- Arena,
  blocks <- Out

HeapSpec == TheHeap!Spec

Listed == {free[i] : i \in 1 .. Len(free)}

FreeUnits == UNION {Units(a, size[a]) : a \in Listed}

(* Nothing leaks: the free blocks, in address order and never touching     *)
(* each other, and the blocks given out cover the arena, and the count of  *)
(* free bytes is what the list holds.                                      *)
NothingLeaks ==
  bit =>
    /\ \A i \in 1 .. (Len(free) - 1) : free[i] + size[free[i]] < free[i + 1]
    /\ FreeUnits \cup UNION {Units(b.addr, b.size) : b \in Out} = 0 .. (Arena - 1)
    /\ remaining = Cardinality(FreeUnits)

-----------------------------------------------------------------------------
(* What a comment of base_mem.h says, and the code does not ensure.        *)

(* "The next free memory in the list": what the list links is free.        *)
ListedIsFree == \A b \in held : b.addr \notin Listed
=============================================================================
