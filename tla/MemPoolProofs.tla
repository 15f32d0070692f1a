--------------------------- MODULE MemPoolProofs ----------------------------
(***************************************************************************)
(* Proof that the pool implements the heap and that nothing leaks from it, *)
(* for every size of the pool, of its headers and of the requests, and for *)
(* any number of callers, when the first allocation is over before the     *)
(* others begin.                                                           *)
(***************************************************************************)
EXTENDS MemPool, FiniteSetTheorems, SequenceTheorems, WellFoundedInduction, TLAPS

Addresses == 0 .. (Pool - 1)

(* A list in address order, and its blocks with the sizes sz: no two of    *)
(* them overlap or touch.                                                  *)
Sorted(l) == l \in Seq(Nat) /\ \A i, j \in 1 .. Len(l) : i < j => l[i] < l[j]

Elems(l) == {l[i] : i \in 1 .. Len(l)}

Apart(L, sz) == \A x \in L : sz[x] \in Nat \ {0} /\ \A y \in L : x < y => x + sz[x] < y

(* Unit u belongs to the block of n units at a, or to one of the list.     *)
In(u, a, n) == a <= u /\ u < a + n

OnList(u, L, sz) == \E x \in L : In(u, x, sz[x])

-----------------------------------------------------------------------------
(* The inductive invariant.                                                *)

Labels == {"idle", "init", "initFirst", "malloc", "free"}
Starting == {"init", "initFirst"}

Typed ==
  /\ ready \in BOOLEAN /\ bit \in BOOLEAN
  /\ size \in [Addresses -> Nat]
  /\ pc \in [Callers -> Labels]
  /\ call \in [Callers -> [op : {"none", "asked", "block", "null"}, need : Nat]]
  /\ DOMAIN back = Callers

(* Where the callers are before the pool is set up, and after.             *)
PhaseInv ==
  /\ ~bit => held = {} /\ \A c \in Callers : back[c] = {} /\ pc[c] \in {"idle"} \cup Starting
  /\ bit => ready /\ \A c \in Callers : pc[c] \notin Starting
  /\ \A c, d \in Callers : pc[c] \in Starting /\ pc[d] \in Starting => c = d
  /\ \A c \in Callers : pc[c] = "init" => ~ready
  /\ \A c \in Callers : pc[c] = "initFirst" => ready /\ free = <<0>>
  /\ ready => bit \/ \E c \in Callers : pc[c] = "initFirst"

(* A caller gives back one block, which nobody holds or gives back too.    *)
BackInv ==
  /\ \A c \in Callers :
       /\ pc[c] \in {"init", "initFirst", "malloc"} => call[c].op = "asked"
       /\ pc[c] # "free" => back[c] = {}
       /\ pc[c] = "free" => \E b : back[c] = {b}
       /\ back[c] \cap held = {}
  /\ \A c, d \in Callers : c # d => back[c] \cap back[d] = {}

(* The free blocks at L with the sizes sz lie in the arena.                *)
ListFits(L, sz) ==
  /\ L \subseteq Addresses /\ sz \in [Addresses -> Nat]
  /\ Apart(L, sz)
  /\ \A u \in Nat : OnList(u, L, sz) => u < Arena

(* So do the blocks O that are out, and no unit belongs to two of them, or *)
(* to one and the list.                                                    *)
BlocksFit(L, sz, O) ==
  /\ \A b \in O : b.addr \in Nat /\ b.size \in Nat \ {0} /\ b.addr + b.size <= Arena
  /\ \A u \in Nat : \A b \in O : In(u, b.addr, b.size) =>
       /\ ~OnList(u, L, sz)
       /\ \A d \in O : In(u, d.addr, d.size) => d = b

(* Each unit belongs to one of them.                                       *)
Covered(L, sz, O) ==
  \A u \in 0 .. (Arena - 1) : OnList(u, L, sz) \/ \E b \in O : In(u, b.addr, b.size)

Counted(L, sz, r) == r = Cardinality({u \in Nat : OnList(u, L, sz)})

Layout(L, sz, O, r) ==
  ListFits(L, sz) /\ BlocksFit(L, sz, O) /\ Covered(L, sz, O) /\ Counted(L, sz, r)

UnitsInv ==
  /\ Sorted(free)
  /\ Layout(Listed, size, Out, remaining)
  /\ \A b \in held : size[b.addr] = b.size + Bit
  /\ \A c \in Callers : \A b \in back[c] : size[b.addr] = b.size

PoolInv == Typed /\ PhaseInv /\ BackInv /\ (bit => UnitsInv)

-----------------------------------------------------------------------------
(* The operators of the list.                                              *)

LEMMA LeastOf ==
  ASSUME NEW S \in SUBSET Nat, S # {}
  PROVE  \E m \in S : \A y \in S : m <= y
<1>1. PICK m \in S : \A y \in S : ~(<<y, m>> \in OpToRel(<, Nat))
  BY NatLessThanWellFounded, WFMin
<1>2. \A y \in S : m <= y
  <2> TAKE y \in S
  <2>1. y \in Nat /\ m \in Nat
    OBVIOUS
  <2>2. ~(y < m)
    BY <1>1, <2>1 DEF OpToRel
  <2> QED
    BY <2>1, <2>2
<1> QED
  BY <1>2

(* The iteration stops between the blocks below a and the others.          *)
LEMMA PassedSplits ==
  ASSUME NEW l, Sorted(l), NEW a \in Nat
  PROVE  /\ Passed(l, a) \in 0 .. Len(l)
         /\ \A i \in 1 .. Len(l) : i <= Passed(l, a) <=> l[i] < a
<1> DEFINE Stops == {i \in 1 .. Len(l) : ~(l[i] < a)}
<1>1. l \in Seq(Nat) /\ Len(l) \in Nat /\ \A i \in 1 .. Len(l) : l[i] \in Nat
  BY DEF Sorted
<1>2. \E k \in 0 .. Len(l) : (\A i \in 1 .. k : l[i] < a) /\ (k < Len(l) => l[k + 1] >= a)
  <2>1. CASE Stops = {}
    <3>1. \A i \in 1 .. Len(l) : l[i] < a
      BY <2>1
    <3> QED
      BY <1>1, <3>1
  <2>2. CASE Stops # {}
    <3>1. Stops \in SUBSET Nat
      BY <1>1
    <3>2. PICK m \in Stops : \A y \in Stops : m <= y
      <4> HIDE DEF Stops
      <4> QED
        BY <2>2, <3>1, LeastOf
    <3>3. \A y \in Stops : ~(y < m)
      <4> TAKE y \in Stops
      <4>1. y \in Nat /\ m \in Nat /\ m <= y
        BY <3>1, <3>2
      <4> QED
        BY <4>1
    <3>4. m \in 1 .. Len(l) /\ l[m] >= a
      BY <1>1
    <3>5. \A i \in 1 .. (m - 1) : l[i] < a
      <4> TAKE i \in 1 .. (m - 1)
      <4>1. i \in 1 .. Len(l) /\ i < m
        BY <1>1, <3>4
      <4> QED
        BY <3>3, <4>1
    <3>6. m - 1 \in 0 .. Len(l) /\ (m - 1) + 1 = m
      BY <1>1, <3>4
    <3> QED
      BY <3>4, <3>5, <3>6
  <2> QED
    BY <2>1, <2>2
<1>3. PICK k \in 0 .. Len(l) :
        k = Passed(l, a) /\ (\A i \in 1 .. k : l[i] < a) /\ (k < Len(l) => l[k + 1] >= a)
  BY <1>2 DEF Passed
<1>4. \A i \in 1 .. Len(l) : i > k => l[i] >= a
  <2> SUFFICES ASSUME NEW i \in 1 .. Len(l), i > k
               PROVE  l[i] >= a
    OBVIOUS
  <2>1. k + 1 \in 1 .. Len(l) /\ l[k + 1] >= a
    BY <1>1, <1>3
  <2>2. i # k + 1 => l[k + 1] < l[i]
    BY <1>1, <2>1 DEF Sorted
  <2> QED
    BY <1>1, <2>1, <2>2
<1> QED
  BY <1>1, <1>3, <1>4

(* A stretch of a sorted list.                                             *)
LEMMA PartSorted ==
  ASSUME NEW l, Sorted(l), NEW k \in 1 .. (Len(l) + 1), NEW m \in 0 .. Len(l)
  PROVE  Sorted(SubSeq(l, k, m)) /\ Elems(SubSeq(l, k, m)) = {l[i] : i \in k .. m}
<1> DEFINE r == SubSeq(l, k, m)
<1>1. l \in Seq(Nat) /\ Len(l) \in Nat /\ \A i \in 1 .. Len(l) : l[i] \in Nat
  BY DEF Sorted
<1>2. \A i \in k .. m : i \in 1 .. Len(l) /\ l[i] \in Nat
  BY <1>1
<1>3. /\ r \in Seq(Nat)
      /\ Len(r) = IF k <= m THEN m - k + 1 ELSE 0
      /\ \A i \in 1 .. m - k + 1 : r[i] = l[k + i - 1]
  BY <1>1, <1>2, SubSeqProperties
<1> HIDE DEF r
<1>4. \A i \in 1 .. Len(r) : k + i - 1 \in k .. m /\ r[i] = l[k + i - 1]
  BY <1>1, <1>3
<1>5. \A i \in k .. m : i - k + 1 \in 1 .. Len(r) /\ l[i] = r[i - k + 1]
  <2> TAKE i \in k .. m
  <2>1. i - k + 1 \in 1 .. m - k + 1 /\ k + (i - k + 1) - 1 = i
    BY <1>1
  <2> QED
    BY <1>1, <1>3, <2>1
<1>6. Sorted(r)
  <2> SUFFICES ASSUME NEW i \in 1 .. Len(r), NEW j \in 1 .. Len(r), i < j
               PROVE  r[i] < r[j]
    BY <1>3 DEF Sorted
  <2>1. k + i - 1 < k + j - 1
    BY <1>1, <1>3
  <2>2. k + i - 1 \in 1 .. Len(l) /\ k + j - 1 \in 1 .. Len(l)
    BY <1>2, <1>4
  <2> QED
    BY <1>4, <2>1, <2>2 DEF Sorted
<1>7. Elems(r) = {l[i] : i \in k .. m}
  <2>1. \A x \in Elems(r) : x \in {l[i] : i \in k .. m}
    BY <1>4 DEF Elems
  <2>2. \A i \in k .. m : l[i] \in Elems(r)
    BY <1>5 DEF Elems
  <2> QED
    BY <2>1, <2>2
<1> QED
  BY <1>6, <1>7 DEF r

(* Two lists, one below the other, in a row.                               *)
LEMMA RowSorted ==
  ASSUME NEW p, Sorted(p), NEW q, Sorted(q), \A x \in Elems(p), y \in Elems(q) : x < y
  PROVE  Sorted(p \o q) /\ Elems(p \o q) = Elems(p) \cup Elems(q)
<1> DEFINE r == p \o q
<1>1. /\ p \in Seq(Nat) /\ Len(p) \in Nat
      /\ q \in Seq(Nat) /\ Len(q) \in Nat
  BY DEF Sorted
<1>2. /\ r \in Seq(Nat)
      /\ Len(r) = Len(p) + Len(q)
      /\ \A i \in 1 .. Len(p) + Len(q) : r[i] = IF i <= Len(p) THEN p[i] ELSE q[i - Len(p)]
  BY <1>1, ConcatProperties
<1> HIDE DEF r
<1>3. \A i \in 1 .. Len(r) :
        \/ i \in 1 .. Len(p) /\ r[i] = p[i]
        \/ ~(i <= Len(p)) /\ i - Len(p) \in 1 .. Len(q) /\ r[i] = q[i - Len(p)]
  <2> TAKE i \in 1 .. Len(r)
  <2>1. i \in 1 .. Len(p) + Len(q)
    BY <1>2
  <2>2. CASE i <= Len(p)
    <3>1. i \in 1 .. Len(p)
      BY <1>1, <2>1, <2>2
    <3> QED
      BY <1>2, <2>1, <2>2, <3>1
  <2>3. CASE ~(i <= Len(p))
    <3>1. i - Len(p) \in 1 .. Len(q)
      BY <1>1, <2>1, <2>3
    <3> QED
      BY <1>2, <2>1, <2>3, <3>1
  <2> QED
    BY <2>2, <2>3
<1>4. \A i \in 1 .. Len(p) : i \in 1 .. Len(r) /\ r[i] = p[i]
  BY <1>1, <1>2
<1>5. \A i \in 1 .. Len(q) : i + Len(p) \in 1 .. Len(r) /\ r[i + Len(p)] = q[i]
  <2> TAKE i \in 1 .. Len(q)
  <2>1. i + Len(p) \in 1 .. Len(p) + Len(q) /\ ~(i + Len(p) <= Len(p)) /\ (i + Len(p)) - Len(p) = i
    BY <1>1
  <2> QED
    BY <1>2, <2>1
<1>6. Sorted(r)
  <2> SUFFICES ASSUME NEW i \in 1 .. Len(r), NEW j \in 1 .. Len(r), i < j
               PROVE  r[i] < r[j]
    BY <1>2 DEF Sorted
  <2>1. CASE i \in 1 .. Len(p) /\ j \in 1 .. Len(p)
    BY <1>4, <2>1 DEF Sorted
  <2>2. CASE i \in 1 .. Len(p) /\ j \notin 1 .. Len(p)
    <3>1. r[i] \in Elems(p) /\ r[j] \in Elems(q)
      BY <1>3, <1>4, <2>2 DEF Elems
    <3> QED
      BY <3>1
  <2>3. CASE i \notin 1 .. Len(p)
    <3>1. i - Len(p) \in 1 .. Len(q) /\ r[i] = q[i - Len(p)]
      BY <1>3, <2>3
    <3>2. j \notin 1 .. Len(p)
      BY <1>1, <1>2, <2>3
    <3>3. j - Len(p) \in 1 .. Len(q) /\ r[j] = q[j - Len(p)]
      BY <1>3, <3>2
    <3>4. i - Len(p) < j - Len(p)
      BY <1>1, <1>2
    <3> QED
      BY <3>1, <3>3, <3>4 DEF Sorted
  <2> QED
    BY <2>1, <2>2, <2>3
<1>7. Elems(r) = Elems(p) \cup Elems(q)
  <2>1. \A x \in Elems(r) : x \in Elems(p) \cup Elems(q)
    BY <1>3 DEF Elems
  <2>2. \A x \in Elems(p) : x \in Elems(r)
    BY <1>4 DEF Elems
  <2>3. \A x \in Elems(q) : x \in Elems(r)
    BY <1>5 DEF Elems
  <2> QED
    BY <2>1, <2>2, <2>3
<1> QED
  BY <1>6, <1>7 DEF r

(* A list without its blocks from k + 1 to m - 1.                          *)
LEMMA CutOut ==
  ASSUME NEW l, Sorted(l), NEW k \in 0 .. Len(l), NEW m \in (k + 1) .. (Len(l) + 1)
  PROVE  LET r == SubSeq(l, 1, k) \o SubSeq(l, m, Len(l)) IN
         /\ Sorted(r)
         /\ Elems(r) = {l[i] : i \in 1 .. k} \cup {l[i] : i \in m .. Len(l)}
<1>1. Len(l) \in Nat
  BY DEF Sorted
<1>2. Sorted(SubSeq(l, 1, k)) /\ Elems(SubSeq(l, 1, k)) = {l[i] : i \in 1 .. k}
  BY <1>1, PartSorted
<1>3. Sorted(SubSeq(l, m, Len(l))) /\ Elems(SubSeq(l, m, Len(l))) = {l[i] : i \in m .. Len(l)}
  BY <1>1, PartSorted
<1>4. \A i \in 1 .. k, j \in m .. Len(l) : l[i] < l[j]
  BY <1>1 DEF Sorted
<1> QED
  BY <1>2, <1>3, <1>4, RowSorted

(* Three lists in a row.                                                   *)
LEMMA RowOfThree ==
  ASSUME NEW p, Sorted(p), NEW e, Sorted(e), NEW q, Sorted(q),
         \A x \in Elems(p), y \in Elems(e) : x < y,
         \A x \in Elems(p), y \in Elems(q) : x < y,
         \A x \in Elems(e), y \in Elems(q) : x < y
  PROVE  Sorted(p \o e \o q) /\ Elems(p \o e \o q) = Elems(p) \cup Elems(e) \cup Elems(q)
<1>1. Sorted(p \o e) /\ Elems(p \o e) = Elems(p) \cup Elems(e)
  BY RowSorted
<1>2. \A x \in Elems(p \o e), y \in Elems(q) : x < y
  BY <1>1
<1> QED
  BY <1>1, <1>2, RowSorted

-----------------------------------------------------------------------------
(* The block at a joins the blocks at L.                                   *)

(* No block of L overlaps it.                                              *)
Beside(a, L, sz) ==
  \A x \in L : x # a /\ (x < a => x + sz[x] <= a) /\ (a < x => a + sz[a] <= x)

(* The blocks at M with the sizes tz are those and it, merged.             *)
Joined(M, tz, a, L, sz) ==
  /\ tz \in [Addresses -> Nat]
  /\ M \subseteq L \cup {a}
  /\ Apart(M, tz)
  /\ \A z \in Addresses : z \notin M => tz[z] = sz[z]
  /\ \A u \in Nat : OnList(u, M, tz) <=> OnList(u, L, sz) \/ In(u, a, sz[a])

LEMMA UnlistedBeside ==
  ASSUME NEW L \in SUBSET Nat, NEW sz, Apart(L, sz), NEW a \in Nat, sz[a] \in Nat \ {0},
         \A u \in Nat : In(u, a, sz[a]) => ~OnList(u, L, sz)
  PROVE  Beside(a, L, sz)
<1> SUFFICES ASSUME NEW x \in L
             PROVE  x # a /\ (x < a => x + sz[x] <= a) /\ (a < x => a + sz[a] <= x)
  BY DEF Beside
<1>1. x \in Nat /\ sz[x] \in Nat \ {0}
  BY DEF Apart
<1>2. OnList(x, L, sz) /\ (In(a, x, sz[x]) => OnList(a, L, sz))
  BY <1>1 DEF OnList, In
<1>3. ~In(x, a, sz[a])
  BY <1>1, <1>2
<1>4. ~In(a, x, sz[x])
  <2>1. In(a, a, sz[a])
    BY DEF In
  <2> QED
    BY <1>2, <2>1
<1> QED
  BY <1>1, <1>3, <1>4 DEF In

(* The block before it ends where it begins, or none does; the same after. *)
LEMMA JoinsAlone ==
  ASSUME NEW L \in SUBSET Addresses, NEW sz \in [Addresses -> Nat], Apart(L, sz),
         NEW a \in Addresses, sz[a] > 0, Beside(a, L, sz),
         \A x \in L : x + sz[x] # a /\ a + sz[a] # x
  PROVE  Joined(L \cup {a}, sz, a, L, sz)
<1>1. Pool \in Nat /\ \A x \in Addresses : x \in Nat /\ sz[x] \in Nat
  BY SizesAssumption DEF Addresses
<1>2. Apart(L \cup {a}, sz)
  <2>1. \A x \in L : sz[x] \in Nat \ {0} /\ (x < a => x + sz[x] < a) /\ (a < x => a + sz[a] < x)
    BY <1>1 DEF Apart, Beside
  <2> QED
    BY <1>1, <2>1 DEF Apart
<1>3. \A u \in Nat : OnList(u, L \cup {a}, sz) <=> OnList(u, L, sz) \/ In(u, a, sz[a])
  BY DEF OnList
<1> QED
  BY <1>2, <1>3 DEF Joined

LEMMA JoinsBefore ==
  ASSUME NEW L \in SUBSET Addresses, NEW sz \in [Addresses -> Nat], Apart(L, sz),
         NEW a \in Addresses, sz[a] > 0, Beside(a, L, sz),
         NEW x \in L, x + sz[x] = a,
         \A y \in L : a + sz[a] # y
  PROVE  Joined(L, [sz EXCEPT ![x] = @ + sz[a]], a, L, sz)
<1> DEFINE tz == [sz EXCEPT ![x] = @ + sz[a]]
<1>1. Pool \in Nat /\ \A y \in Addresses : y \in Nat /\ sz[y] \in Nat
  BY SizesAssumption DEF Addresses
<1>2. tz \in [Addresses -> Nat] /\ tz[x] = sz[x] + sz[a] /\ \A y \in Addresses : y # x => tz[y] = sz[y]
  BY <1>1
<1> HIDE DEF tz
<1>3. \A y \in L : y # a /\ (a < y => a + sz[a] < y)
  BY <1>1 DEF Beside
<1>4. Apart(L, tz)
  <2> SUFFICES ASSUME NEW y \in L
               PROVE  tz[y] \in Nat \ {0} /\ \A w \in L : y < w => y + tz[y] < w
    BY DEF Apart
  <2>1. CASE y = x
    <3>1. tz[y] \in Nat \ {0} /\ y + tz[y] = a + sz[a]
      BY <1>1, <1>2, <2>1
    <3>2. \A w \in L : y < w => a < w
      BY <1>1, <1>3, <2>1 DEF Apart
    <3> QED
      BY <1>3, <3>1, <3>2
  <2>2. CASE y # x
    BY <1>2, <2>2 DEF Apart
  <2> QED
    BY <2>1, <2>2
<1>5. ASSUME NEW u \in Nat
      PROVE  OnList(u, L, tz) <=> OnList(u, L, sz) \/ In(u, a, sz[a])
  <2>1. In(u, x, tz[x]) <=> In(u, x, sz[x]) \/ In(u, a, sz[a])
    BY <1>1, <1>2 DEF In
  <2>2. \A y \in L : y # x => (In(u, y, tz[y]) <=> In(u, y, sz[y]))
    BY <1>2
  <2> QED
    BY <2>1, <2>2 DEF OnList
<1>6. \A z \in Addresses : z \notin L => tz[z] = sz[z]
  BY <1>2
<1>7. Joined(L, tz, a, L, sz)
  BY <1>2, <1>4, <1>5, <1>6 DEF Joined
<1> QED
  BY <1>7 DEF tz

LEMMA JoinsAfter ==
  ASSUME NEW L \in SUBSET Addresses, NEW sz \in [Addresses -> Nat], Apart(L, sz),
         NEW a \in Addresses, sz[a] > 0, Beside(a, L, sz),
         NEW y \in L, a + sz[a] = y,
         \A x \in L : x + sz[x] # a
  PROVE  Joined((L \ {y}) \cup {a}, [sz EXCEPT ![a] = @ + sz[y]], a, L, sz)
<1> DEFINE tz == [sz EXCEPT ![a] = @ + sz[y]]
           M == (L \ {y}) \cup {a}
<1>1. Pool \in Nat /\ \A x \in Addresses : x \in Nat /\ sz[x] \in Nat
  BY SizesAssumption DEF Addresses
<1>2. tz \in [Addresses -> Nat] /\ tz[a] = sz[a] + sz[y] /\ \A x \in Addresses : x # a => tz[x] = sz[x]
  BY <1>1
<1> HIDE DEF tz
<1>3. \A x \in L : x # a /\ (x < a => x + sz[x] < a)
  BY <1>1 DEF Beside
<1>4. Apart(M, tz)
  <2> SUFFICES ASSUME NEW x \in M
               PROVE  tz[x] \in Nat \ {0} /\ \A w \in M : x < w => x + tz[x] < w
    BY DEF Apart
  <2>1. CASE x = a
    <3>1. tz[x] \in Nat \ {0} /\ x + tz[x] = y + sz[y]
      BY <1>1, <1>2, <2>1
    <3>2. \A w \in M : x < w => w \in L /\ a + sz[a] <= w /\ w # y
      BY <1>1, <2>1 DEF Beside
    <3>3. \A w \in M : x < w => w \in L /\ y < w
      BY <1>1, <3>2
    <3> QED
      BY <3>1, <3>3 DEF Apart
  <2>2. CASE x # a
    <3>1. x \in L /\ tz[x] = sz[x] /\ sz[x] \in Nat \ {0}
      BY <1>2, <2>2 DEF Apart
    <3> QED
      BY <1>3, <3>1 DEF Apart
  <2> QED
    BY <2>1, <2>2
<1>5. ASSUME NEW u \in Nat
      PROVE  OnList(u, M, tz) <=> OnList(u, L, sz) \/ In(u, a, sz[a])
  <2>1. In(u, a, tz[a]) <=> In(u, a, sz[a]) \/ In(u, y, sz[y])
    BY <1>1, <1>2 DEF In
  <2>2. \A x \in L : In(u, x, tz[x]) <=> In(u, x, sz[x])
    BY <1>2, <1>3
  <2> QED
    BY <2>1, <2>2 DEF OnList
<1>6. \A z \in Addresses : z \notin M => tz[z] = sz[z]
  BY <1>2
<1>7. Joined(M, tz, a, L, sz)
  BY <1>2, <1>4, <1>5, <1>6 DEF Joined
<1> QED
  BY <1>7 DEF tz

LEMMA JoinsBoth ==
  ASSUME NEW L \in SUBSET Addresses, NEW sz \in [Addresses -> Nat], Apart(L, sz),
         NEW a \in Addresses, sz[a] > 0, Beside(a, L, sz),
         NEW x \in L, x + sz[x] = a,
         NEW y \in L, a + sz[a] = y
  PROVE  Joined(L \ {y}, [sz EXCEPT ![x] = sz[x] + sz[a] + sz[y]], a, L, sz)
<1> DEFINE tz == [sz EXCEPT ![x] = sz[x] + sz[a] + sz[y]]
           M == L \ {y}
<1>1. Pool \in Nat /\ \A w \in Addresses : w \in Nat /\ sz[w] \in Nat
  BY SizesAssumption DEF Addresses
<1>2. tz \in [Addresses -> Nat] /\ tz[x] = sz[x] + sz[a] + sz[y] /\ \A w \in Addresses : w # x => tz[w] = sz[w]
  BY <1>1
<1> HIDE DEF tz
<1>3. \A w \in L : w # a /\ (a < w => y <= w)
  BY <1>1 DEF Beside
<1>4. sz[x] > 0 /\ x \in M
  BY <1>1 DEF Apart
<1>5. Apart(M, tz)
  <2> SUFFICES ASSUME NEW v \in M
               PROVE  tz[v] \in Nat \ {0} /\ \A w \in M : v < w => v + tz[v] < w
    BY DEF Apart
  <2>1. CASE v = x
    <3>1. tz[v] \in Nat \ {0} /\ v + tz[v] = y + sz[y]
      BY <1>1, <1>2, <2>1
    <3>2. \A w \in M : v < w => a < w
      BY <1>1, <1>3, <2>1 DEF Apart
    <3>3. \A w \in M : v < w => w \in L /\ y < w
      BY <1>1, <1>3, <3>2
    <3> QED
      BY <3>1, <3>3 DEF Apart
  <2>2. CASE v # x
    BY <1>2, <2>2 DEF Apart
  <2> QED
    BY <2>1, <2>2
<1>6. ASSUME NEW u \in Nat
      PROVE  OnList(u, M, tz) <=> OnList(u, L, sz) \/ In(u, a, sz[a])
  <2>1. In(u, x, tz[x]) <=> In(u, x, sz[x]) \/ In(u, a, sz[a]) \/ In(u, y, sz[y])
    BY <1>1, <1>2 DEF In
  <2>2. \A w \in M : w # x => (In(u, w, tz[w]) <=> In(u, w, sz[w]))
    BY <1>2
  <2> QED
    BY <1>4, <2>1, <2>2 DEF OnList
<1>7. \A z \in Addresses : z \notin M => tz[z] = sz[z]
  BY <1>2, <1>4
<1>8. Joined(M, tz, a, L, sz)
  BY <1>2, <1>5, <1>6, <1>7 DEF Joined
<1> QED
  BY <1>8 DEF tz

(* base_mem_insert keeps the order of the list, and merges what touches.   *)
LEMMA InsertJoins ==
  ASSUME NEW l, Sorted(l), Elems(l) \subseteq Addresses,
         NEW sz \in [Addresses -> Nat], Apart(Elems(l), sz),
         NEW a \in Addresses, sz[a] > 0, Beside(a, Elems(l), sz)
  PROVE  /\ Sorted(Insert(l, sz, a).free)
         /\ Joined(Elems(Insert(l, sz, a).free), Insert(l, sz, a).size, a, Elems(l), sz)
<1> DEFINE L == Elems(l)
           Goal == /\ Sorted(Insert(l, sz, a).free)
                   /\ Joined(Elems(Insert(l, sz, a).free), Insert(l, sz, a).size, a, L, sz)
<1>1. /\ l \in Seq(Nat) /\ Len(l) \in Nat
      /\ \A i \in 1 .. Len(l) : l[i] \in L /\ l[i] \in Addresses /\ l[i] # a
  BY DEF Sorted, Elems, Beside
<1>2. \A x \in Addresses : x \in Nat /\ sz[x] \in Nat
  BY SizesAssumption DEF Addresses
<1>3. PICK k \in 0 .. Len(l) :
        k = Passed(l, a) /\ \A i \in 1 .. Len(l) : i <= k <=> l[i] < a
  BY <1>2, PassedSplits
<1>4. /\ \A i \in 1 .. k : i \in 1 .. Len(l) /\ l[i] < a
      /\ \A i \in (k + 1) .. Len(l) : i \in 1 .. Len(l) /\ a < l[i]
  <2>1. \A i \in 1 .. k : i \in 1 .. Len(l) /\ i <= k
    BY <1>1
  <2>2. \A i \in (k + 1) .. Len(l) : i \in 1 .. Len(l) /\ ~(i <= k)
    BY <1>1
  <2>3. \A i \in 1 .. Len(l) : ~(l[i] < a) => a < l[i]
    BY <1>1, <1>2
  <2>4. \A i \in 1 .. k : l[i] < a
    BY <1>3, <2>1
  <2>5. \A i \in (k + 1) .. Len(l) : a < l[i]
    BY <1>3, <2>2, <2>3
  <2> QED
    BY <2>1, <2>2, <2>4, <2>5
<1>5. ASSUME NEW x \in L, x + sz[x] = a
      PROVE  k > 0 /\ x = l[k]
  <2>1. PICK i \in 1 .. Len(l) : x = l[i]
    BY DEF Elems
  <2>2. sz[x] > 0 /\ x < a
    BY <1>1, <1>2, <1>5, <2>1 DEF Apart
  <2>3. i <= k /\ k \in 1 .. Len(l)
    BY <1>1, <1>3, <2>1, <2>2
  <2>4. CASE i < k
    <3>1. l[k] \in L /\ x < l[k] /\ l[k] < a
      BY <1>1, <1>4, <2>1, <2>3, <2>4 DEF Sorted
    <3>2. x + sz[x] < l[k]
      BY <3>1 DEF Apart
    <3> QED
      BY <1>1, <1>2, <1>5, <2>3, <3>1, <3>2
  <2> QED
    BY <1>1, <2>1, <2>3, <2>4
<1>6. ASSUME NEW y \in L, a + sz[a] = y
      PROVE  k < Len(l) /\ y = l[k + 1]
  <2>1. PICK i \in 1 .. Len(l) : y = l[i]
    BY DEF Elems
  <2>2. a < y
    BY <1>1, <1>2, <1>6, <2>1
  <2>3. i > k /\ k + 1 \in (k + 1) .. Len(l) /\ k + 1 \in 1 .. Len(l)
    <3>1. ~(l[i] < a)
      BY <1>1, <1>2, <2>1, <2>2
    <3>2. ~(i <= k)
      BY <1>3, <3>1
    <3> QED
      BY <1>1, <3>2
  <2>4. CASE i > k + 1
    <3>1. l[k + 1] \in L /\ a < l[k + 1] /\ l[k + 1] < y
      BY <1>1, <1>4, <2>1, <2>3, <2>4 DEF Sorted
    <3>2. a + sz[a] <= l[k + 1]
      BY <3>1 DEF Beside
    <3> QED
      BY <1>1, <1>2, <1>6, <2>1, <2>3, <3>1, <3>2
  <2> QED
    BY <1>1, <2>1, <2>3, <2>4
<1>7. /\ L = {l[i] : i \in 1 .. k} \cup {l[i] : i \in (k + 1) .. Len(l)}
      /\ k < Len(l) => L \ {l[k + 1]} = {l[i] : i \in 1 .. k} \cup {l[i] : i \in (k + 2) .. Len(l)}
  <2>1. 1 .. Len(l) = (1 .. k) \cup ((k + 1) .. Len(l))
    BY <1>1
  <2>2. CASE k < Len(l)
    <3>1. k + 1 \in 1 .. Len(l) /\ 1 .. Len(l) = (1 .. k) \cup ((k + 2) .. Len(l)) \cup {k + 1}
      BY <1>1, <2>2
    <3>2. \A i \in 1 .. Len(l) : i # k + 1 => l[i] # l[k + 1]
      <4> SUFFICES ASSUME NEW i \in 1 .. Len(l), i # k + 1
                   PROVE  l[i] # l[k + 1]
        OBVIOUS
      <4>1. i < k + 1 \/ k + 1 < i
        OBVIOUS
      <4>2. l[i] \in Nat /\ l[k + 1] \in Nat
        BY <1>1, <1>2, <3>1
      <4> QED
        BY <3>1, <4>1, <4>2 DEF Sorted
    <3>3. \A i \in (1 .. k) \cup ((k + 2) .. Len(l)) : i # k + 1 /\ i \in 1 .. Len(l)
      BY <1>1
    <3> QED
      BY <2>1, <3>1, <3>2, <3>3 DEF Elems
  <2> QED
    BY <2>1, <2>2 DEF Elems
<1> DEFINE before == k > 0 /\ l[k] + sz[l[k]] = a
           after == k < Len(l) /\ a + sz[a] = l[k + 1]
<1>8. CASE ~before /\ ~after
  <2>1. /\ Insert(l, sz, a).free = SubSeq(l, 1, k) \o <<a>> \o SubSeq(l, k + 1, Len(l))
        /\ Insert(l, sz, a).size = sz
    BY <1>3, <1>8 DEF Insert
  <2>2. \A x \in L : x + sz[x] # a /\ a + sz[a] # x
    BY <1>5, <1>6, <1>8
  <2>3. Joined(L \cup {a}, sz, a, L, sz)
    BY <2>2, JoinsAlone
  <2>4. /\ Sorted(Insert(l, sz, a).free)
        /\ Elems(Insert(l, sz, a).free) = L \cup {a}
    <3>1. k + 1 \in (k + 1) .. (Len(l) + 1)
      BY <1>1
    <3>2. PICK p : /\ p = SubSeq(l, 1, k)
                   /\ Sorted(p) /\ Elems(p) = {l[i] : i \in 1 .. k}
      <4>1. 1 \in 1 .. (Len(l) + 1)
        BY <1>1
      <4> QED
        BY <4>1, PartSorted
    <3>3. PICK q : /\ q = SubSeq(l, k + 1, Len(l))
                   /\ Sorted(q) /\ Elems(q) = {l[i] : i \in (k + 1) .. Len(l)}
      <4>1. k + 1 \in 1 .. (Len(l) + 1) /\ Len(l) \in 0 .. Len(l)
        BY <1>1, <3>1
      <4> QED
        BY <4>1, PartSorted
    <3>4. PICK e : e = <<a>>
      OBVIOUS
    <3>5. Sorted(e) /\ Elems(e) = {a}
      BY <1>2, <3>4 DEF Sorted, Elems
    <3>6. /\ \A x \in Elems(p) : x < a
          /\ \A y \in Elems(q) : a < y
          /\ \A x \in Elems(p), y \in Elems(q) : x < y
      <4>1. \A x \in Elems(p) : x \in Nat /\ x < a
        BY <1>1, <1>2, <1>4, <3>2
      <4>2. \A y \in Elems(q) : y \in Nat /\ a < y
        BY <1>1, <1>2, <1>4, <3>1, <3>3
      <4> QED
        BY <1>2, <4>1, <4>2
    <3>7. Sorted(p \o e \o q) /\ Elems(p \o e \o q) = Elems(p) \cup Elems(e) \cup Elems(q)
      <4>1. /\ \A x \in Elems(p), y \in Elems(e) : x < y
            /\ \A x \in Elems(p), y \in Elems(q) : x < y
            /\ \A x \in Elems(e), y \in Elems(q) : x < y
        BY <3>5, <3>6
      <4>2. Sorted(p) /\ Sorted(e) /\ Sorted(q)
        BY <3>2, <3>3, <3>5
      <4> QED
        BY <4>1, <4>2, RowOfThree
    <3>8. Insert(l, sz, a).free = p \o e \o q
      BY <2>1, <3>2, <3>3, <3>4
    <3> QED
      BY <1>7, <3>2, <3>3, <3>5, <3>7, <3>8
  <2> QED
    BY <2>1, <2>3, <2>4
<1>9. CASE before /\ ~after
  <2>1. k \in 1 .. Len(l) /\ l[k] \in L /\ l[k] \in Addresses
    BY <1>1, <1>9
  <2>2. l[k] + (sz[l[k]] + sz[a]) = a + sz[a]
    BY <1>2, <1>9, <2>1
  <2>3. Insert(l, sz, a).free = SubSeq(l, 1, k) \o <<>> \o SubSeq(l, k + 1, Len(l))
    BY <1>3, <1>9, <2>1, <2>2 DEF Insert
  <2>4. Insert(l, sz, a).size = [sz EXCEPT ![l[k]] = @ + sz[a]]
    BY <1>3, <1>9, <2>1, <2>2 DEF Insert
  <2>5. \A y \in L : a + sz[a] # y
    BY <1>6, <1>9
  <2>6. Joined(L, [sz EXCEPT ![l[k]] = @ + sz[a]], a, L, sz)
    BY <1>9, <2>1, <2>5, JoinsBefore
  <2>7. /\ Sorted(Insert(l, sz, a).free)
        /\ Elems(Insert(l, sz, a).free) = L
    <3>1. SubSeq(l, 1, k) \o <<>> = SubSeq(l, 1, k)
      <4>1. SubSeq(l, 1, k) \in Seq(Nat)
        <5>1. 1 \in 1 .. (Len(l) + 1) /\ k \in 0 .. Len(l)
          BY <1>1
        <5>2. Sorted(SubSeq(l, 1, k))
          BY <5>1, PartSorted
        <5> QED
          BY <5>2 DEF Sorted
      <4> QED
        BY <4>1, ConcatEmptySeq
    <3>2. k + 1 \in (k + 1) .. (Len(l) + 1)
      BY <1>1
    <3> DEFINE r == SubSeq(l, 1, k) \o SubSeq(l, k + 1, Len(l))
    <3>3. /\ Sorted(r)
          /\ Elems(r) = {l[i] : i \in 1 .. k} \cup {l[i] : i \in (k + 1) .. Len(l)}
      BY <3>2, CutOut
    <3> HIDE DEF r
    <3>4. Insert(l, sz, a).free = r
      BY <2>3, <3>1 DEF r
    <3> QED
      BY <1>7, <3>3, <3>4
  <2> QED
    BY <2>4, <2>6, <2>7
<1>10. CASE ~before /\ after
  <2>1. k + 1 \in 1 .. Len(l) /\ l[k + 1] \in L /\ l[k + 1] \in Addresses
    <3>1. Len(l) \in Nat /\ k < Len(l)
      BY <1>1, <1>10
    <3>2. k + 1 \in 1 .. Len(l)
      BY <3>1
    <3> QED
      BY <1>1, <3>2
  <2>2. /\ Insert(l, sz, a).free = SubSeq(l, 1, k) \o <<a>> \o SubSeq(l, k + 2, Len(l))
        /\ Insert(l, sz, a).size = [sz EXCEPT ![a] = @ + sz[l[k + 1]]]
    BY <1>3, <1>10 DEF Insert
  <2>3. \A x \in L : x + sz[x] # a
    BY <1>5, <1>10
  <2>4. Joined((L \ {l[k + 1]}) \cup {a}, [sz EXCEPT ![a] = @ + sz[l[k + 1]]], a, L, sz)
    BY <1>10, <2>1, <2>3, JoinsAfter
  <2>5. /\ Sorted(Insert(l, sz, a).free)
        /\ Elems(Insert(l, sz, a).free) = (L \ {l[k + 1]}) \cup {a}
    <3>1. a \in Nat /\ k + 2 \in (k + 1) .. (Len(l) + 1) /\ \A i \in (k + 2) .. Len(l) : i \in (k + 1) .. Len(l)
      BY <1>1, <1>2, <1>10
    <3>2. PICK p : /\ p = SubSeq(l, 1, k)
                   /\ Sorted(p) /\ Elems(p) = {l[i] : i \in 1 .. k}
      <4>1. 1 \in 1 .. (Len(l) + 1)
        BY <1>1
      <4> QED
        BY <4>1, PartSorted
    <3>3. PICK q : /\ q = SubSeq(l, k + 2, Len(l))
                   /\ Sorted(q) /\ Elems(q) = {l[i] : i \in (k + 2) .. Len(l)}
      <4>1. k + 2 \in 1 .. (Len(l) + 1) /\ Len(l) \in 0 .. Len(l)
        BY <1>1, <3>1
      <4> QED
        BY <4>1, PartSorted
    <3>4. PICK e : e = <<a>>
      OBVIOUS
    <3>5. Sorted(e) /\ Elems(e) = {a}
      BY <1>2, <3>4 DEF Sorted, Elems
    <3>6. /\ \A x \in Elems(p) : x < a
          /\ \A y \in Elems(q) : a < y
          /\ \A x \in Elems(p), y \in Elems(q) : x < y
      <4>1. \A x \in Elems(p) : x \in Nat /\ x < a
        BY <1>1, <1>2, <1>4, <3>2
      <4>2. \A y \in Elems(q) : y \in Nat /\ a < y
        BY <1>1, <1>2, <1>4, <3>1, <3>3
      <4> QED
        BY <1>2, <4>1, <4>2
    <3>7. Sorted(p \o e \o q) /\ Elems(p \o e \o q) = Elems(p) \cup Elems(e) \cup Elems(q)
      <4>1. /\ \A x \in Elems(p), y \in Elems(e) : x < y
            /\ \A x \in Elems(p), y \in Elems(q) : x < y
            /\ \A x \in Elems(e), y \in Elems(q) : x < y
        BY <3>5, <3>6
      <4>2. Sorted(p) /\ Sorted(e) /\ Sorted(q)
        BY <3>2, <3>3, <3>5
      <4> QED
        BY <4>1, <4>2, RowOfThree
    <3>8. Insert(l, sz, a).free = p \o e \o q
      BY <2>2, <3>2, <3>3, <3>4
    <3> QED
      BY <1>7, <1>10, <3>2, <3>3, <3>5, <3>7, <3>8
  <2> QED
    BY <2>2, <2>4, <2>5
<1>11. CASE before /\ after
  <2>0. k \in 1 .. Len(l) /\ k + 1 \in 1 .. Len(l)
    <3>1. Len(l) \in Nat /\ k > 0 /\ k < Len(l)
      BY <1>1, <1>11
    <3> QED
      BY <3>1
  <2>1. PICK x \in L, y \in L : x = l[k] /\ y = l[k + 1] /\ x \in Addresses /\ y \in Addresses
    BY <1>1, <2>0
  <2> DEFINE sz1 == [sz EXCEPT ![x] = @ + sz[a]]
  <2>2. x # y
    BY <1>1, <2>0, <2>1 DEF Sorted
  <2>3. sz1[x] = sz[x] + sz[a] /\ sz1[y] = sz[y]
    BY <2>1, <2>2
  <2>4. k > 0 /\ x + sz[x] = a /\ k < Len(l) /\ x + sz1[x] = y
    <3>1. k > 0 /\ x + sz[x] = a /\ k < Len(l) /\ a + sz[a] = y
      BY <1>11, <2>1
    <3>2. x \in Nat /\ sz[x] \in Nat /\ sz[a] \in Nat
      BY <1>2, <2>1
    <3> HIDE DEF sz1
    <3> QED
      BY <2>3, <3>1, <3>2
  <2>5. /\ Insert(l, sz, a).free = SubSeq(l, 1, k) \o <<>> \o SubSeq(l, k + 2, Len(l))
        /\ Insert(l, sz, a).size = [sz1 EXCEPT ![x] = @ + sz1[y]]
    BY <1>3, <2>1, <2>4 DEF Insert
  <2>6. [sz1 EXCEPT ![x] = @ + sz1[y]] = [sz EXCEPT ![x] = sz[x] + sz[a] + sz[y]]
    BY <2>1, <2>3
  <2>7. Joined(L \ {y}, [sz EXCEPT ![x] = sz[x] + sz[a] + sz[y]], a, L, sz)
    <3>1. sz[a] > 0 /\ x + sz[x] = a /\ a + sz[a] = y
      BY <1>11, <2>1
    <3> QED
      BY <2>1, <3>1, JoinsBoth
  <2>8. /\ Sorted(Insert(l, sz, a).free)
        /\ Elems(Insert(l, sz, a).free) = L \ {y}
    <3>1. SubSeq(l, 1, k) \o <<>> = SubSeq(l, 1, k)
      <4>1. SubSeq(l, 1, k) \in Seq(Nat)
        <5>1. 1 \in 1 .. (Len(l) + 1) /\ k \in 0 .. Len(l)
          BY <1>1
        <5>2. Sorted(SubSeq(l, 1, k))
          BY <5>1, PartSorted
        <5> QED
          BY <5>2 DEF Sorted
      <4> QED
        BY <4>1, ConcatEmptySeq
    <3>2. k + 2 \in (k + 1) .. (Len(l) + 1)
      BY <1>1, <1>11
    <3> DEFINE r == SubSeq(l, 1, k) \o SubSeq(l, k + 2, Len(l))
    <3>3. /\ Sorted(r)
          /\ Elems(r) = {l[i] : i \in 1 .. k} \cup {l[i] : i \in (k + 2) .. Len(l)}
      BY <3>2, CutOut
    <3> HIDE DEF r
    <3>4. Insert(l, sz, a).free = r
      BY <2>5, <3>1 DEF r
    <3>5. L \ {y} = {l[i] : i \in 1 .. k} \cup {l[i] : i \in (k + 2) .. Len(l)}
      BY <1>7, <1>11, <2>1
    <3> QED
      BY <3>3, <3>4, <3>5
  <2> QED
    BY <2>5, <2>6, <2>7, <2>8
<1> QED
  BY <1>8, <1>9, <1>10, <1>11

-----------------------------------------------------------------------------
(* base_mem_malloc takes got units at a from the blocks at L: those left   *)
(* are at M.                                                               *)
Took(M, tz, a, got, L, sz) ==
  /\ M \subseteq Addresses /\ tz \in [Addresses -> Nat]
  /\ Apart(M, tz)
  /\ a \in L /\ a \notin M /\ got = tz[a] /\ got > 0
  /\ \A u \in Nat : OnList(u, M, tz) <=> OnList(u, L, sz) /\ ~In(u, a, got)
  /\ \A u \in Nat : In(u, a, got) => OnList(u, L, sz)
  /\ \A z \in Addresses : ~OnList(z, L, sz) => tz[z] = sz[z]

(* Without the block at a.                                                 *)
LEMMA ListWithout ==
  ASSUME NEW L \in SUBSET Addresses, NEW sz \in [Addresses -> Nat], Apart(L, sz), NEW a \in L
  PROVE  /\ Apart(L \ {a}, sz)
         /\ \A u \in Nat : OnList(u, L \ {a}, sz) <=> OnList(u, L, sz) /\ ~In(u, a, sz[a])
<1>1. Pool \in Nat /\ \A x \in Addresses : x \in Nat /\ sz[x] \in Nat
  BY SizesAssumption DEF Addresses
<1>2. Apart(L \ {a}, sz)
  BY DEF Apart
<1>3. ASSUME NEW u \in Nat, NEW x \in L \ {a}, In(u, x, sz[x])
      PROVE  ~In(u, a, sz[a])
  BY <1>1, <1>3 DEF Apart, In
<1> QED
  BY <1>2, <1>3 DEF OnList

LEMMA TakesWhole ==
  ASSUME NEW L \in SUBSET Addresses, NEW sz \in [Addresses -> Nat], Apart(L, sz), NEW a \in L
  PROVE  Took(L \ {a}, sz, a, sz[a], L, sz)
<1>1. sz[a] > 0
  BY DEF Apart
<1>2. \A u \in Nat : In(u, a, sz[a]) => OnList(u, L, sz)
  BY DEF OnList
<1> QED
  BY <1>1, <1>2, ListWithout DEF Took

LEMMA TakesFirst ==
  ASSUME NEW L \in SUBSET Addresses, NEW sz \in [Addresses -> Nat], Apart(L, sz), NEW a \in L,
         NEW n \in Nat \ {0}, n < sz[a], a + n \in Addresses,
         NEW rest, rest = sz[a] - n,
         NEW M, NEW tz,
         Joined(M, tz, a + n, L \ {a}, [sz EXCEPT ![a] = n, ![a + n] = rest])
  PROVE  Took(M, tz, a, n, L, sz)
<1> DEFINE sz2 == [sz EXCEPT ![a] = n, ![a + n] = rest]
<1>1. Pool \in Nat /\ \A x \in Addresses : x \in Nat /\ sz[x] \in Nat
  BY SizesAssumption DEF Addresses
<1>2. a \in Nat /\ sz[a] \in Nat /\ rest \in Nat \ {0} /\ a + n # a /\ n + rest = sz[a]
  BY <1>1
<1>3. /\ sz2 \in [Addresses -> Nat] /\ sz2[a] = n /\ sz2[a + n] = rest
      /\ \A x \in Addresses : x # a /\ x # a + n => sz2[x] = sz[x]
  BY <1>2
<1>4. Joined(M, tz, a + n, L \ {a}, sz2)
  OBVIOUS
<1> HIDE DEF sz2
<1>5. \A x \in L \ {a} : x # a + n
  BY <1>1, <1>2 DEF Apart
<1>6. \A u \in Nat : OnList(u, L \ {a}, sz2) <=> OnList(u, L \ {a}, sz)
  BY <1>3, <1>5 DEF OnList
<1>7. M \subseteq (L \ {a}) \cup {a + n} /\ M \subseteq Addresses /\ a \notin M
  BY <1>2, <1>4 DEF Joined
<1>8. tz[a] = n
  BY <1>3, <1>4, <1>7 DEF Joined
<1>9. ASSUME NEW u \in Nat
      PROVE  In(u, a, sz[a]) <=> In(u, a, n) \/ In(u, a + n, rest)
  BY <1>2 DEF In
<1>10. ASSUME NEW u \in Nat
       PROVE  ~(In(u, a, n) /\ In(u, a + n, rest))
  BY <1>2 DEF In
<1>11. \A u \in Nat : In(u, a, sz[a]) => OnList(u, L, sz)
  BY DEF OnList
<1>12. \A u \in Nat : OnList(u, M, tz) <=> OnList(u, L, sz) /\ ~In(u, a, n)
  <2> TAKE u \in Nat
  <2>1. OnList(u, M, tz) <=> OnList(u, L \ {a}, sz) \/ In(u, a + n, rest)
    BY <1>3, <1>4, <1>6 DEF Joined
  <2>2. OnList(u, L \ {a}, sz) <=> OnList(u, L, sz) /\ ~In(u, a, sz[a])
    BY ListWithout
  <2> QED
    BY <1>9, <1>10, <1>11, <2>1, <2>2
<1>13. \A u \in Nat : In(u, a, n) => OnList(u, L, sz)
  BY <1>9, <1>11
<1>14. ASSUME NEW z \in Addresses, ~OnList(z, L, sz)
       PROVE  tz[z] = sz[z]
  <2>1. z \in Nat /\ OnList(a, L, sz) /\ OnList(a + n, L, sz)
    <3>1. In(a, a, sz[a]) /\ In(a + n, a, sz[a]) /\ a + n \in Nat
      BY <1>2 DEF In
    <3> QED
      BY <1>1, <1>2, <1>11, <3>1
  <2>2. z # a /\ z # a + n
    BY <1>14, <2>1
  <2>3. z \notin M
    <3>1. z \notin L
      <4>1. z \in L => In(z, z, sz[z])
        BY <1>1 DEF Apart, In
      <4> QED
        BY <1>14, <4>1 DEF OnList
    <3> QED
      BY <1>7, <2>2, <3>1
  <2> QED
    BY <1>3, <1>4, <2>2, <2>3 DEF Joined
<1>15. tz \in [Addresses -> Nat] /\ Apart(M, tz)
  BY <1>4 DEF Joined
<1> QED
  BY <1>7, <1>8, <1>12, <1>13, <1>14, <1>15 DEF Took

(* The first fit, as the code takes it: the block at i of the list.        *)
LEMMA MallocTakes ==
  ASSUME NEW l, Sorted(l), Elems(l) \subseteq Addresses,
         NEW sz \in [Addresses -> Nat], Apart(Elems(l), sz),
         \A u \in Nat : OnList(u, Elems(l), sz) => u < Arena,
         NEW i \in 1 .. Len(l), NEW n \in Nat \ {0}, sz[l[i]] >= n
  PROVE  LET a == l[i]
             others == SubSeq(l, 1, i - 1) \o SubSeq(l, i + 1, Len(l))
             rest == sz[a] - n
             after == IF rest > Min
                      THEN Insert(others, [sz EXCEPT ![a] = n, ![a + n] = rest], a + n)
                      ELSE [free |-> others, size |-> sz]
             got == after.size[a]
         IN  /\ Sorted(after.free)
             /\ Took(Elems(after.free), after.size, a, got, Elems(l), sz)
             /\ got \in n .. (n + Min)
<1>1. l \in Seq(Nat) /\ Len(l) \in Nat /\ Min \in Nat /\ Pool \in Nat /\ Header \in Nat
  BY SizesAssumption DEF Sorted
<1>2. PICK a \in Elems(l) : a = l[i] /\ a \in Addresses /\ a \in Nat /\ sz[a] \in Nat
  BY SizesAssumption DEF Elems, Addresses
<1>3. PICK others : others = SubSeq(l, 1, i - 1) \o SubSeq(l, i + 1, Len(l))
  OBVIOUS
<1>4. Sorted(others) /\ Elems(others) = Elems(l) \ {a}
  <2>1. i - 1 \in 0 .. Len(l) /\ i + 1 \in ((i - 1) + 1) .. (Len(l) + 1)
    BY <1>1
  <2>2. /\ Sorted(others)
        /\ Elems(others) = {l[j] : j \in 1 .. (i - 1)} \cup {l[j] : j \in (i + 1) .. Len(l)}
    BY <1>3, <2>1, CutOut
  <2>3. \A j \in 1 .. Len(l) : j = i \/ j \in 1 .. (i - 1) \/ j \in (i + 1) .. Len(l)
    BY <1>1
  <2>4. \A j \in (1 .. (i - 1)) \cup ((i + 1) .. Len(l)) : j \in 1 .. Len(l) /\ (j < i \/ i < j)
    BY <1>1
  <2>5. \A j \in (1 .. (i - 1)) \cup ((i + 1) .. Len(l)) : l[j] \in Elems(l) /\ l[j] # a
    <3> SUFFICES ASSUME NEW j \in (1 .. (i - 1)) \cup ((i + 1) .. Len(l))
                 PROVE  l[j] \in Elems(l) /\ l[j] # a
      OBVIOUS
    <3>1. j \in 1 .. Len(l) /\ (j < i \/ i < j)
      BY <2>4
    <3>2. l[j] \in Nat /\ (l[j] < l[i] \/ l[i] < l[j])
      BY <1>1, <3>1 DEF Sorted
    <3> QED
      BY <1>2, <3>1, <3>2 DEF Elems
  <2>6. \A x \in Elems(l) : x = a \/ \E j \in (1 .. (i - 1)) \cup ((i + 1) .. Len(l)) : x = l[j]
    BY <1>2, <2>3 DEF Elems
  <2> QED
    BY <2>2, <2>5, <2>6
<1>5. PICK rest \in Nat : rest = sz[a] - n /\ n + rest = sz[a]
  BY <1>2
<1>6. CASE ~(rest > Min)
  <2>1. Took(Elems(others), sz, a, sz[a], Elems(l), sz)
    <3>1. Took(Elems(l) \ {a}, sz, a, sz[a], Elems(l), sz)
      BY TakesWhole
    <3> QED
      BY <1>4, <3>1
  <2>2. sz[a] \in n .. (n + Min)
    BY <1>1, <1>2, <1>5, <1>6
  <2> QED
    BY <1>2, <1>3, <1>4, <1>5, <1>6, <2>1, <2>2
<1>7. CASE rest > Min
  <2>1. n < sz[a] /\ rest > 0
    BY <1>1, <1>5, <1>7
  <2>2. a + n \in Addresses
    <3>1. In(a + n, a, sz[a]) /\ a + n \in Nat
      BY <1>2, <2>1 DEF In
    <3>2. a + n < Arena
      BY <1>2, <3>1 DEF OnList
    <3> QED
      BY <1>1, <3>1, <3>2, SizesAssumption DEF Arena, Addresses
  <2>3. PICK sz2 \in [Addresses -> Nat] : sz2 = [sz EXCEPT ![a] = n, ![a + n] = rest]
    BY <1>2
  <2>4. /\ sz2[a] = n /\ sz2[a + n] = rest
        /\ \A x \in Addresses : x # a /\ x # a + n => sz2[x] = sz[x]
    BY <1>2, <2>2, <2>3
  <2>5. \A x \in Elems(others) : x \in Nat /\ x # a + n /\ sz2[x] = sz[x] /\ sz[x] \in Nat \ {0}
    <3> SUFFICES ASSUME NEW x \in Elems(others)
                 PROVE  x \in Nat /\ x # a + n /\ sz2[x] = sz[x] /\ sz[x] \in Nat \ {0}
      OBVIOUS
    <3>1. x \in Elems(l) /\ x # a /\ x \in Addresses /\ x \in Nat /\ sz[x] \in Nat \ {0}
      BY <1>4, SizesAssumption DEF Apart, Addresses
    <3>2. x # a + n
      BY <1>2, <2>1, <3>1 DEF Apart
    <3> QED
      BY <2>4, <3>1, <3>2
  <2>6. Apart(Elems(others), sz2)
    BY <1>4, <2>5 DEF Apart
  <2>7. Beside(a + n, Elems(others), sz2)
    <3> SUFFICES ASSUME NEW x \in Elems(others)
                 PROVE  x # a + n /\ (x < a + n => x + sz2[x] <= a + n)
                                  /\ (a + n < x => a + n + sz2[a + n] <= x)
      BY DEF Beside
    <3>1. x # a /\ (x < a => x + sz[x] < a) /\ (a < x => a + sz[a] < x)
      BY <1>2, <1>4 DEF Apart
    <3>2. x \in Nat /\ x # a + n /\ sz2[x] = sz[x] /\ sz[x] \in Nat
      BY <2>5
    <3>3. a + n + sz2[a + n] = a + sz[a]
      BY <1>2, <1>5, <2>4
    <3>4. a + n < x => a < x
      BY <1>2, <3>2
    <3>5. x < a + n => x < a
      <4>1. ~(a < x /\ x < a + n)
        BY <1>2, <2>1, <3>1, <3>2
      <4> QED
        BY <1>2, <3>1, <3>2, <4>1
    <3>6. x < a => x + sz2[x] <= a + n
      <4>1. x < a => x + sz[x] < a
        BY <3>1
      <4> QED
        BY <1>2, <3>2, <4>1
    <3>7. a < x => a + n + sz2[a + n] <= x
      <4>1. a < x => a + sz[a] < x
        BY <3>1
      <4> QED
        BY <1>2, <3>2, <3>3, <4>1
    <3> QED
      BY <3>2, <3>4, <3>5, <3>6, <3>7
  <2>8. PICK r : r = Insert(others, sz2, a + n)
    OBVIOUS
  <2>9. Sorted(r.free) /\ Joined(Elems(r.free), r.size, a + n, Elems(l) \ {a}, sz2)
    <3>1. PICK b \in Addresses : b = a + n
      BY <2>2
    <3>2. Elems(others) \subseteq Addresses /\ sz2[b] > 0
      BY <1>4, <2>1, <2>4, <3>1
    <3>3. Sorted(others) /\ Apart(Elems(others), sz2) /\ Beside(b, Elems(others), sz2)
      BY <1>4, <2>6, <2>7, <3>1
    <3>4. /\ Sorted(Insert(others, sz2, b).free)
          /\ Joined(Elems(Insert(others, sz2, b).free), Insert(others, sz2, b).size,
                    b, Elems(others), sz2)
      BY <3>2, <3>3, InsertJoins
    <3> QED
      BY <1>4, <2>8, <3>1, <3>4
  <2>10. Took(Elems(r.free), r.size, a, n, Elems(l), sz)
    BY <1>5, <2>1, <2>2, <2>3, <2>9, TakesFirst
  <2>11. r.size[a] = n /\ n \in n .. (n + Min)
    BY <1>1, <2>10 DEF Took
  <2> QED
    BY <1>2, <1>3, <1>5, <1>7, <2>3, <2>8, <2>9, <2>10, <2>11
<1> QED
  BY <1>6, <1>7

-----------------------------------------------------------------------------
(* The count of free units.                                                *)

(* The units of a list are those its blocks cover.                         *)
LEMMA ListUnits ==
  ASSUME NEW L \in SUBSET Addresses, NEW sz, Apart(L, sz),
         \A u \in Nat : OnList(u, L, sz) => u < Arena
  PROVE  /\ UNION {Units(x, sz[x]) : x \in L} = {u \in Nat : OnList(u, L, sz)}
         /\ IsFiniteSet({u \in Nat : OnList(u, L, sz)})
<1>1. \A x \in L : x \in Nat /\ sz[x] \in Nat \ {0}
  BY SizesAssumption DEF Addresses, Apart
<1>2. \A x \in L : Units(x, sz[x]) = {u \in Nat : In(u, x, sz[x])}
  BY <1>1 DEF Units, In
<1>3. UNION {Units(x, sz[x]) : x \in L} = {u \in Nat : OnList(u, L, sz)}
  BY <1>2 DEF OnList
<1>4. IsFiniteSet({u \in Nat : OnList(u, L, sz)})
  <2>1. Arena \in Int
    BY SizesAssumption DEF Arena
  <2>2. {u \in Nat : OnList(u, L, sz)} \in SUBSET (0 .. Arena)
    BY <2>1
  <2>3. IsFiniteSet(0 .. Arena)
    BY <2>1, FS_Interval
  <2> QED
    BY <2>2, <2>3, FS_Subset
<1> QED
  BY <1>3, <1>4

(* A block is as many units as it is long.                                 *)
LEMMA BlockUnits ==
  ASSUME NEW a \in Nat, NEW n \in Nat
  PROVE  /\ {u \in Nat : In(u, a, n)} = a .. (a + n - 1)
         /\ IsFiniteSet({u \in Nat : In(u, a, n)})
         /\ Cardinality({u \in Nat : In(u, a, n)}) = n
<1>1. {u \in Nat : In(u, a, n)} = a .. (a + n - 1)
  BY DEF In
<1>2. IsFiniteSet(a .. (a + n - 1)) /\ Cardinality(a .. (a + n - 1)) = n
  <2>1. a \in Int /\ a + n - 1 \in Int /\ (a > a + n - 1 => n = 0) /\ (a + n - 1) - a + 1 = n
    OBVIOUS
  <2> QED
    BY <2>1, FS_Interval
<1> QED
  BY <1>1, <1>2

(* The count after n units of it are taken, or n others put there.         *)
LEMMA CountLess ==
  ASSUME NEW F, IsFiniteSet(F), NEW B, IsFiniteSet(B), B \subseteq F
  PROVE  Cardinality(F \ B) = Cardinality(F) - Cardinality(B)
<1>1. F \cap B = B
  OBVIOUS
<1> QED
  BY <1>1, FS_Difference

LEMMA CountMore ==
  ASSUME NEW F, IsFiniteSet(F), NEW B, IsFiniteSet(B), F \cap B = {}
  PROVE  Cardinality(F \cup B) = Cardinality(F) + Cardinality(B)
<1>1. Cardinality({}) = 0 /\ Cardinality(F) \in Nat /\ Cardinality(B) \in Nat
  BY FS_EmptySet, FS_CardinalityType
<1>2. Cardinality(F \cup B) = Cardinality(F) + Cardinality(B) - Cardinality(F \cap B)
  BY FS_Union
<1>3. Cardinality(F \cap B) = 0
  BY <1>1
<1> QED
  BY <1>1, <1>2, <1>3

-----------------------------------------------------------------------------
(* How the layout of the arena changes.                                    *)

(* A block is taken from the list; what its header says is its own affair. *)
LEMMA LayoutTaken ==
  ASSUME NEW L, NEW sz, NEW O, NEW r, Layout(L, sz, O, r),
         NEW M, NEW tz, NEW b, Took(M, tz, b.addr, b.size, L, sz),
         NEW w \in Nat
  PROVE  Layout(M, [tz EXCEPT ![b.addr] = w], O \cup {b}, r - b.size)
<1> DEFINE vz == [tz EXCEPT ![b.addr] = w]
<1>1. ListFits(L, sz) /\ BlocksFit(L, sz, O) /\ Covered(L, sz, O) /\ Counted(L, sz, r)
  BY DEF Layout
<1>2. /\ b.addr \in Nat /\ b.size \in Nat \ {0} /\ b.addr \in Addresses /\ b.addr \notin M
      /\ M \subseteq Addresses /\ tz \in [Addresses -> Nat] /\ Apart(M, tz)
  <2>1. M \subseteq Addresses /\ tz \in [Addresses -> Nat] /\ Apart(M, tz) /\ b.addr \notin M
    BY DEF Took
  <2>2. b.addr \in Addresses
    BY <1>1 DEF ListFits, Took
  <2>3. b.size = tz[b.addr] /\ b.size > 0
    BY DEF Took
  <2>4. b.addr \in Nat
    BY <2>2, SizesAssumption DEF Addresses
  <2>5. b.size \in Nat \ {0}
    <3>1. tz[b.addr] \in Nat
      BY <2>1, <2>2
    <3> QED
      BY <2>3, <3>1
  <2> QED
    BY <2>1, <2>2, <2>4, <2>5
<1>3. vz \in [Addresses -> Nat] /\ \A x \in M : vz[x] = tz[x]
  BY <1>2
<1> HIDE DEF vz
<1>4. \A u \in Nat : OnList(u, M, vz) <=> OnList(u, L, sz) /\ ~In(u, b.addr, b.size)
  <2>1. \A u \in Nat : OnList(u, M, vz) <=> OnList(u, M, tz)
    BY <1>3 DEF OnList
  <2> QED
    BY <2>1 DEF Took
<1>5. \A u \in Nat : In(u, b.addr, b.size) => OnList(u, L, sz)
  BY DEF Took
<1>6. ListFits(M, vz)
  <2>1. Apart(M, vz)
    BY <1>2, <1>3 DEF Apart
  <2> QED
    BY <1>1, <1>2, <1>3, <1>4, <2>1 DEF ListFits
<1>7. b.addr + b.size <= Arena
  <2>1. b.addr + b.size - 1 \in Nat /\ In(b.addr + b.size - 1, b.addr, b.size)
    BY <1>2 DEF In
  <2>2. b.addr + b.size - 1 < Arena /\ Arena \in Int
    BY <1>1, <1>5, <2>1, SizesAssumption DEF ListFits, Arena
  <2> QED
    BY <1>2, <2>2
<1>8. BlocksFit(M, vz, O \cup {b})
  BY <1>1, <1>2, <1>4, <1>5, <1>7 DEF BlocksFit
<1>9. Covered(M, vz, O \cup {b})
  <2> SUFFICES ASSUME NEW u \in 0 .. (Arena - 1)
               PROVE  OnList(u, M, vz) \/ \E d \in O \cup {b} : In(u, d.addr, d.size)
    BY DEF Covered
  <2>1. u \in Nat
    BY SizesAssumption DEF Arena
  <2> QED
    BY <1>1, <1>4, <2>1 DEF Covered
<1>10. Counted(M, vz, r - b.size)
  <2> DEFINE F == {u \in Nat : OnList(u, L, sz)}
             B == {u \in Nat : In(u, b.addr, b.size)}
  <2>1. {u \in Nat : OnList(u, M, vz)} = F \ B
    BY <1>4
  <2>2. IsFiniteSet(F)
    BY <1>1, ListUnits DEF ListFits
  <2>3. IsFiniteSet(B) /\ Cardinality(B) = b.size
    BY <1>2, BlockUnits
  <2>4. B \subseteq F
    BY <1>5
  <2> HIDE DEF F, B
  <2>5. Cardinality(F \ B) = Cardinality(F) - b.size
    BY <2>2, <2>3, <2>4, CountLess
  <2>6. r = Cardinality(F)
    BY <1>1 DEF Counted, F
  <2> QED
    BY <2>1, <2>5, <2>6 DEF Counted
<1>11. Layout(M, vz, O \cup {b}, r - b.size)
  BY <1>6, <1>8, <1>9, <1>10 DEF Layout
<1> QED
  BY <1>11 DEF vz

(* A block is put on the list.                                             *)
LEMMA LayoutGiven ==
  ASSUME NEW L, NEW sz, NEW O, NEW r, Layout(L, sz, O, r),
         NEW M, NEW tz, NEW b \in O, sz[b.addr] = b.size, Joined(M, tz, b.addr, L, sz)
  PROVE  Layout(M, tz, O \ {b}, r + b.size)
<1>1. ListFits(L, sz) /\ BlocksFit(L, sz, O) /\ Covered(L, sz, O) /\ Counted(L, sz, r)
  BY DEF Layout
<1>2. b.addr \in Nat /\ b.size \in Nat \ {0} /\ b.addr + b.size <= Arena
  BY <1>1 DEF BlocksFit
<1>3. b.addr \in Addresses /\ Arena \in Int
  BY <1>2, SizesAssumption DEF Addresses, Arena
<1>4. \A u \in Nat : OnList(u, M, tz) <=> OnList(u, L, sz) \/ In(u, b.addr, b.size)
  BY DEF Joined
<1>5. \A u \in Nat : In(u, b.addr, b.size) =>
        /\ ~OnList(u, L, sz)
        /\ \A d \in O : In(u, d.addr, d.size) => d = b
  BY <1>1 DEF BlocksFit
<1>6. ListFits(M, tz)
  <2>1. M \subseteq Addresses /\ tz \in [Addresses -> Nat] /\ Apart(M, tz)
    BY <1>1, <1>3 DEF Joined, ListFits
  <2>2. \A u \in Nat : In(u, b.addr, b.size) => u < Arena
    BY <1>2, <1>3 DEF In
  <2> QED
    BY <1>1, <1>4, <2>1, <2>2 DEF ListFits
<1>7. BlocksFit(M, tz, O \ {b})
  BY <1>1, <1>4, <1>5 DEF BlocksFit
<1>8. Covered(M, tz, O \ {b})
  <2> SUFFICES ASSUME NEW u \in 0 .. (Arena - 1)
               PROVE  OnList(u, M, tz) \/ \E d \in O \ {b} : In(u, d.addr, d.size)
    BY DEF Covered
  <2>1. u \in Nat
    BY <1>3
  <2> QED
    BY <1>1, <1>4, <2>1 DEF Covered
<1>9. Counted(M, tz, r + b.size)
  <2> DEFINE F == {u \in Nat : OnList(u, L, sz)}
             B == {u \in Nat : In(u, b.addr, b.size)}
  <2>1. {u \in Nat : OnList(u, M, tz)} = F \cup B
    BY <1>4
  <2>2. IsFiniteSet(F)
    BY <1>1, ListUnits DEF ListFits
  <2>3. IsFiniteSet(B) /\ Cardinality(B) = b.size
    BY <1>2, BlockUnits
  <2>4. F \cap B = {}
    BY <1>5
  <2> HIDE DEF F, B
  <2>5. Cardinality(F \cup B) = Cardinality(F) + b.size
    BY <2>2, <2>3, <2>4, CountMore
  <2>6. r = Cardinality(F)
    BY <1>1 DEF Counted, F
  <2> QED
    BY <2>1, <2>5, <2>6 DEF Counted
<1> QED
  BY <1>6, <1>7, <1>8, <1>9 DEF Layout

(* A header changes that is not of a free block.                           *)
LEMMA LayoutFrame ==
  ASSUME NEW L, NEW sz, NEW O, NEW r, Layout(L, sz, O, r),
         NEW a, a \notin L, NEW w \in Nat
  PROVE  Layout(L, [sz EXCEPT ![a] = w], O, r)
<1> DEFINE vz == [sz EXCEPT ![a] = w]
<1>1. ListFits(L, sz)
  BY DEF Layout
<1>2. L \subseteq Addresses /\ vz \in [Addresses -> Nat] /\ \A x \in L : vz[x] = sz[x]
  BY <1>1 DEF ListFits
<1> HIDE DEF vz
<1>3. \A u : OnList(u, L, vz) <=> OnList(u, L, sz)
  BY <1>2 DEF OnList
<1>4. Apart(L, vz)
  BY <1>1, <1>2 DEF ListFits, Apart
<1>5. {u \in Nat : OnList(u, L, vz)} = {u \in Nat : OnList(u, L, sz)}
  BY <1>3
<1>6. Layout(L, vz, O, r)
  BY <1>1, <1>2, <1>3, <1>4, <1>5 DEF Layout, ListFits, BlocksFit, Covered, Counted
<1> QED
  BY <1>6 DEF vz

(* A block that is out does not overlap the list.                          *)
LEMMA OutBeside ==
  ASSUME NEW L, NEW sz, NEW O, NEW r, Layout(L, sz, O, r), NEW b \in O
  PROVE  /\ b.addr \in Addresses /\ b.addr \in Nat /\ ~OnList(b.addr, L, sz) /\ b.addr \notin L
         /\ sz[b.addr] = b.size => sz[b.addr] > 0 /\ Beside(b.addr, L, sz)
         /\ \A d \in O : d.addr = b.addr => d = b
<1>1. ListFits(L, sz) /\ BlocksFit(L, sz, O)
  BY DEF Layout
<1>2. b.addr \in Nat /\ b.size \in Nat \ {0} /\ b.addr \in Addresses
  BY <1>1, SizesAssumption DEF BlocksFit, Addresses, Arena
<1>3. \A d \in O : d.addr \in Nat /\ d.size \in Nat \ {0}
  BY <1>1 DEF BlocksFit
<1>4. \A d \in O : In(d.addr, d.addr, d.size)
  BY <1>3 DEF In
<1>5. ~OnList(b.addr, L, sz)
  BY <1>1, <1>2, <1>4 DEF BlocksFit
<1>6. b.addr \notin L
  <2>1. \A x \in L : x \in Nat /\ sz[x] \in Nat \ {0}
    BY <1>1, SizesAssumption DEF ListFits, Apart, Addresses
  <2>2. b.addr \in L => In(b.addr, b.addr, sz[b.addr])
    BY <2>1 DEF In
  <2> QED
    BY <1>5, <2>2 DEF OnList
<1>7. sz[b.addr] = b.size => sz[b.addr] > 0 /\ Beside(b.addr, L, sz)
  <2> SUFFICES ASSUME sz[b.addr] = b.size
               PROVE  sz[b.addr] > 0 /\ Beside(b.addr, L, sz)
    OBVIOUS
  <2>1. \A u \in Nat : In(u, b.addr, sz[b.addr]) => ~OnList(u, L, sz)
    BY <1>1 DEF BlocksFit
  <2>2. L \in SUBSET Nat /\ Apart(L, sz)
    BY <1>1, SizesAssumption DEF ListFits, Addresses
  <2>3. Beside(b.addr, L, sz)
    BY <1>2, <2>1, <2>2, UnlistedBeside
  <2> QED
    BY <1>2, <2>3
<1>8. \A d \in O : d.addr = b.addr => d = b
  BY <1>1, <1>2, <1>4 DEF BlocksFit
<1> QED
  BY <1>2, <1>5, <1>6, <1>7, <1>8

-----------------------------------------------------------------------------
(* What the actions do to the pool.                                        *)

LEMMA FirstFits ==
  ASSUME Sorted(free), NEW n, Fits(n) # {}
  PROVE  FirstFit(n) \in 1 .. Len(free) /\ size[free[FirstFit(n)]] >= n
<1>1. Fits(n) \in SUBSET Nat
  BY DEF Fits, Sorted
<1>2. PICK m \in Fits(n) : \A y \in Fits(n) : m <= y
  BY <1>1, LeastOf
<1>3. FirstFit(n) \in Fits(n)
  BY <1>2 DEF FirstFit
<1> QED
  BY <1>3 DEF Fits

(* A caller that allocates or frees does so in a pool that is set up.      *)
LEMMA SetUp ==
  ASSUME PoolInv, NEW c \in Callers, pc[c] \in {"malloc", "free"}
  PROVE  bit /\ UnitsInv
BY DEF PoolInv, PhaseInv, Starting

LEMMA MallocSteps ==
  ASSUME NEW c, Malloc(c)
  PROVE  /\ pc[c] = "malloc" /\ pc' = [pc EXCEPT ![c] = "idle"]
         /\ call[c].need > 0 /\ Fits(call[c].need) # {}
         /\ Answer(c, "block", 0)
         /\ UNCHANGED <<ready, bit, back>>
BY Zenon DEF Malloc, Goto

(* base_mem_malloc gives the block b, and leaves the list with sizes tz.   *)
Gives(c, b, tz) ==
  /\ b = [by |-> c, addr |-> b.addr, size |-> b.size]
  /\ b.size \in call[c].need .. (call[c].need + Min)
  /\ Sorted(free') /\ Took(Listed', tz, b.addr, b.size, Listed, size)
  /\ size' = [tz EXCEPT ![b.addr] = b.size + Bit]
  /\ remaining' = remaining - b.size
  /\ held' = held \cup {b}

LEMMA MallocGives ==
  ASSUME PoolInv, NEW c \in Callers, Malloc(c)
  PROVE  \E b, tz : Gives(c, b, tz)
<1> DEFINE n == call[c].need
           i == FirstFit(n)
           a == free[i]
           others == SubSeq(free, 1, i - 1) \o SubSeq(free, i + 1, Len(free))
           rest == size[a] - n
           after == IF rest > Min
                    THEN Insert(others, [size EXCEPT ![a] = n, ![a + n] = rest], a + n)
                    ELSE [free |-> others, size |-> size]
           got == after.size[a]
           b == [by |-> c, addr |-> a, size |-> got]
<1>0. pc[c] = "malloc" /\ call[c].need > 0 /\ Fits(call[c].need) # {}
  BY MallocSteps
<1>1. UnitsInv /\ call[c].need \in Nat \ {0}
  <2>1. UnitsInv
    BY <1>0, SetUp
  <2>2. call[c].need \in Nat
    BY DEF PoolInv, Typed
  <2> QED
    BY <1>0, <2>1, <2>2
<1>2. Sorted(free) /\ ListFits(Elems(free), size) /\ Listed = Elems(free)
  <2>1. Listed = Elems(free)
    BY Zenon DEF Listed, Elems
  <2> QED
    BY <1>1, <2>1 DEF UnitsInv, Layout
<1>3. i \in 1 .. Len(free) /\ size[a] >= n
  <2>1. \A k : k = call[c].need => FirstFit(k) \in 1 .. Len(free) /\ size[free[FirstFit(k)]] >= k
    BY <1>0, <1>2, FirstFits
  <2> QED
    BY Zenon, <2>1
<1>4. /\ Sorted(after.free)
      /\ Took(Elems(after.free), after.size, a, got, Elems(free), size)
      /\ got \in n .. (n + Min)
  <2> HIDE DEF n, i
  <2> QED
    BY Zenon, <1>1, <1>2, <1>3, MallocTakes DEF ListFits, n
<1>5. /\ free' = after.free
      /\ size' = [after.size EXCEPT ![a] = got + Bit]
      /\ remaining' = remaining - got
      /\ held' = held \cup {b}
  BY Zenon DEF Malloc
<1> HIDE DEF after, got, a, n
<1>6. Listed' = Elems(after.free)
  BY <1>5 DEF Listed, Elems
<1>7. b.addr = a /\ b.size = got /\ b = [by |-> c, addr |-> b.addr, size |-> b.size]
  OBVIOUS
<1> HIDE DEF b
<1>8. Gives(c, b, after.size)
  BY <1>2, <1>4, <1>5, <1>6, <1>7 DEF Gives, n
<1> QED
  BY <1>8

(* base_mem_free puts the block b on the list.                             *)
LEMMA FreeGives ==
  ASSUME PoolInv, NEW c \in Callers, Free(c)
  PROVE  \E b \in Out :
           /\ back[c] = {b} /\ size[b.addr] = b.size
           /\ Sorted(free') /\ Joined(Listed', size', b.addr, Listed, size)
           /\ remaining' = remaining + b.size
<1>1. UnitsInv /\ \E b : back[c] = {b}
  <2>1. UnitsInv
    BY SetUp DEF Free, Goto
  <2> QED
    BY <2>1 DEF Free, Goto, PoolInv, BackInv
<1>2. PICK b \in Out : back[c] = {b} /\ size[b.addr] = b.size
  BY <1>1 DEF UnitsInv, Out
<1>3. Sorted(free) /\ ListFits(Elems(free), size) /\ Listed = Elems(free)
  BY <1>1 DEF UnitsInv, Layout, Listed, Elems
<1>4. b.addr \in Addresses /\ size[b.addr] > 0 /\ Beside(b.addr, Elems(free), size)
  BY <1>1, <1>2, <1>3, OutBeside DEF UnitsInv
<1>5. PICK list : list = Insert(free, size, b.addr)
  OBVIOUS
<1>6. Sorted(list.free) /\ Joined(Elems(list.free), list.size, b.addr, Elems(free), size)
  BY <1>3, <1>4, <1>5, InsertJoins DEF ListFits
<1>7. remaining' = remaining + size[b.addr] /\ free' = list.free /\ size' = list.size
  BY <1>2, <1>5 DEF Free
<1>8. Listed' = Elems(list.free)
  BY <1>7 DEF Listed, Elems
<1> QED
  BY <1>2, <1>3, <1>6, <1>7, <1>8

LEMMA NeedIsNat ==
  ASSUME NEW s \in Requests
  PROVE  Need(s) \in Nat
<1>1. s \in Nat /\ Header \in Nat /\ Min \in Nat \ {0}
  BY SizesAssumption
<1>2. \A n \in Nat : n % Min \in Nat /\ n % Min < Min
  BY <1>1
<1> QED
  BY <1>1, <1>2 DEF Need

-----------------------------------------------------------------------------
(* The invariant is inductive.                                             *)

LEMMA TypedKept ==
  ASSUME PoolInv, [Next]_vars
  PROVE  Typed'
<1>1. Typed
  BY DEF PoolInv
<1> SUFFICES ASSUME NEW c \in Callers
             PROVE  \/ \E s \in Requests : CallMalloc(c, s)
                    \/ InitList(c) \/ InitFirst(c) \/ Malloc(c) \/ MallocFails(c)
                    \/ (\E b \in held : CallFree(c, b)) \/ Free(c)
                    => Typed'
  <2>1. CASE UNCHANGED vars
    BY <1>1, <2>1 DEF Typed, vars, listVars
  <2>2. CASE Next
    BY <2>2 DEF Next
  <2> QED
    BY <2>1, <2>2
<1>2. ASSUME NEW s \in Requests, CallMalloc(c, s) PROVE Typed'
  <2>1. Need(s) \in Nat
    BY NeedIsNat
  <2>2. pc' \in [Callers -> Labels]
    BY <1>1, <1>2 DEF CallMalloc, Goto, Typed, Labels
  <2>3. call' \in [Callers -> [op : {"none", "asked", "block", "null"}, need : Nat]]
    BY <1>1, <1>2, <2>1 DEF CallMalloc, Answer, Typed
  <2> QED
    BY <1>1, <1>2, <2>2, <2>3 DEF CallMalloc, Typed, listVars
<1>3. CASE InitList(c)
  BY <1>1, <1>3 DEF InitList, Goto, Typed, Labels
<1>4. CASE InitFirst(c)
  <2>1. Arena \in Nat
    BY SizesAssumption DEF Arena
  <2> QED
    BY <1>1, <1>4, <2>1 DEF InitFirst, Goto, Typed, Labels
<1>5. CASE Malloc(c)
  <2>1. PICK b, tz : Gives(c, b, tz)
    BY <1>5, MallocGives
  <2>2. size' \in [Addresses -> Nat]
    <3>1. tz \in [Addresses -> Nat] /\ b.size \in Nat /\ Bit \in Nat
      <4>1. call[c].need \in Nat /\ Min \in Nat
        BY <1>1, SizesAssumption DEF Typed
      <4> QED
        BY <2>1, <4>1, SizesAssumption DEF Gives, Took
    <3>2. b.size + Bit \in Nat
      BY <3>1
    <3>3. size' = [tz EXCEPT ![b.addr] = b.size + Bit]
      BY <2>1 DEF Gives
    <3> QED
      BY <3>1, <3>2, <3>3
  <2>3. pc' \in [Callers -> Labels]
    BY <1>1, <1>5, MallocSteps DEF Typed, Labels
  <2>4. call' \in [Callers -> [op : {"none", "asked", "block", "null"}, need : Nat]]
    BY <1>1, <1>5, MallocSteps DEF Answer, Typed
  <2>5. UNCHANGED <<ready, bit, back>>
    BY <1>5, MallocSteps
  <2> QED
    BY <1>1, <2>2, <2>3, <2>4, <2>5 DEF Typed
<1>6. CASE MallocFails(c)
  <2>1. pc' \in [Callers -> Labels]
    BY <1>1, <1>6 DEF MallocFails, Goto, Typed, Labels
  <2>2. call' \in [Callers -> [op : {"none", "asked", "block", "null"}, need : Nat]]
    BY <1>1, <1>6 DEF MallocFails, Answer, Typed
  <2> QED
    BY <1>1, <1>6, <2>1, <2>2 DEF MallocFails, Typed, listVars
<1>7. ASSUME NEW b \in held, CallFree(c, b) PROVE Typed'
  <2>1. size' \in [Addresses -> Nat]
    <3>1. b.addr \in Addresses => size[b.addr] - Bit \in Nat
      BY <1>1, <1>7, SizesAssumption DEF CallFree, Typed
    <3> QED
      BY <1>1, <1>7, <3>1 DEF CallFree, Typed
  <2>2. pc' \in [Callers -> Labels]
    BY <1>1, <1>7 DEF CallFree, Goto, Typed, Labels
  <2> QED
    BY <1>1, <1>7, <2>1, <2>2 DEF CallFree, Typed
<1>8. CASE Free(c)
  <2>1. size' \in [Addresses -> Nat]
    <3>1. PICK b \in Out : Joined(Listed', size', b.addr, Listed, size)
      BY <1>8, FreeGives
    <3> QED
      BY <3>1 DEF Joined
  <2>2. pc' \in [Callers -> Labels]
    BY <1>1, <1>8 DEF Free, Goto, Typed, Labels
  <2> QED
    BY <1>1, <1>8, <2>1, <2>2 DEF Free, Typed
<1> QED
  BY <1>2, <1>3, <1>4, <1>5, <1>6, <1>7, <1>8

LEMMA PhaseKept ==
  ASSUME FirstAlone, PoolInv, [Next]_vars
  PROVE  PhaseInv'
<1>1. PhaseInv /\ pc \in [Callers -> Labels] /\ DOMAIN back = Callers
  BY DEF PoolInv, Typed
<1> SUFFICES ASSUME NEW c \in Callers
             PROVE  \/ \E s \in Requests : CallMalloc(c, s)
                    \/ InitList(c) \/ InitFirst(c) \/ Malloc(c) \/ MallocFails(c)
                    \/ (\E b \in held : CallFree(c, b)) \/ Free(c)
                    => PhaseInv'
  <2>1. CASE UNCHANGED vars
    BY <1>1, <2>1 DEF PhaseInv, vars, listVars
  <2>2. CASE Next
    BY <2>2 DEF Next
  <2> QED
    BY <2>1, <2>2
<1>2. ASSUME NEW s \in Requests, CallMalloc(c, s) PROVE PhaseInv'
  <2>1. \A d \in Callers : pc[d] \notin Starting
    BY <1>2 DEF CallMalloc, Starting
  <2>2. ready = bit
    BY <1>1, <1>2, <2>1 DEF PhaseInv, PoolInv, Typed, Starting
  <2>3. UNCHANGED <<ready, bit, free, held, back>>
    BY <1>2 DEF CallMalloc, listVars
  <2>4. pc' = [pc EXCEPT ![c] = IF ready THEN "malloc" ELSE "init"]
    BY <1>2 DEF CallMalloc, Goto
  <2> QED
    BY <1>1, <2>1, <2>2, <2>3, <2>4 DEF PhaseInv, Starting
<1>3. CASE InitList(c)
  <2>1. pc[c] = "init" /\ pc' = [pc EXCEPT ![c] = "initFirst"]
    BY <1>3 DEF InitList, Goto
  <2>2. ready' = TRUE /\ free' = <<0>> /\ UNCHANGED <<bit, held, back>>
    BY <1>3 DEF InitList
  <2>3. ~bit
    BY <1>1, <2>1 DEF PhaseInv, Starting
  <2> QED
    BY <1>1, <2>1, <2>2, <2>3 DEF PhaseInv, Starting
<1>4. CASE InitFirst(c)
  <2>1. pc[c] = "initFirst" /\ pc' = [pc EXCEPT ![c] = "malloc"]
    BY <1>4 DEF InitFirst, Goto
  <2>2. bit' = TRUE /\ UNCHANGED ready
    BY <1>4 DEF InitFirst
  <2>3. ready
    BY <1>1, <2>1 DEF PhaseInv
  <2>4. \A d \in Callers : pc'[d] \notin Starting
    BY <1>1, <2>1 DEF PhaseInv, Starting
  <2> QED
    BY <2>2, <2>3, <2>4 DEF PhaseInv, Starting
<1>5. ASSUME bit, UNCHANGED <<ready, bit>>,
             NEW l \in Labels \ Starting, pc' = [pc EXCEPT ![c] = l]
      PROVE  PhaseInv'
  <2>1. \A d \in Callers : pc'[d] \notin Starting
    BY <1>1, <1>5 DEF PhaseInv
  <2> QED
    BY <1>1, <1>5, <2>1 DEF PhaseInv, Starting
<1>6. CASE Malloc(c)
  <2>1. bit /\ UNCHANGED <<ready, bit>> /\ pc' = [pc EXCEPT ![c] = "idle"]
    BY <1>6, SetUp, MallocSteps
  <2> QED
    BY <1>5, <2>1 DEF Labels, Starting
<1>7. CASE MallocFails(c)
  <2>1. bit /\ UNCHANGED <<ready, bit>> /\ pc' = [pc EXCEPT ![c] = "idle"]
    BY <1>7, SetUp DEF MallocFails, Goto, listVars
  <2> QED
    BY <1>5, <2>1 DEF Labels, Starting
<1>8. ASSUME NEW b \in held, CallFree(c, b) PROVE PhaseInv'
  <2>1. UNCHANGED <<ready, bit>> /\ pc' = [pc EXCEPT ![c] = "free"]
    BY <1>8 DEF CallFree, Goto
  <2>2. bit
    BY <1>1 DEF PhaseInv, PoolInv, Typed
  <2> QED
    BY <1>5, <2>1, <2>2 DEF Labels, Starting
<1>9. CASE Free(c)
  <2>1. bit /\ UNCHANGED <<ready, bit>> /\ pc' = [pc EXCEPT ![c] = "idle"]
    BY <1>9, SetUp DEF Free, Goto
  <2> QED
    BY <1>5, <2>1 DEF Labels, Starting
<1> QED
  BY <1>2, <1>3, <1>4, <1>6, <1>7, <1>8, <1>9

LEMMA BackKept ==
  ASSUME PoolInv, [Next]_vars
  PROVE  BackInv'
<1>1. BackInv /\ pc \in [Callers -> Labels] /\ DOMAIN back = Callers /\ call \in [Callers -> [op : {"none", "asked", "block", "null"}, need : Nat]]
  BY DEF PoolInv, Typed
<1> SUFFICES ASSUME NEW c \in Callers
             PROVE  \/ \E s \in Requests : CallMalloc(c, s)
                    \/ InitList(c) \/ InitFirst(c) \/ Malloc(c) \/ MallocFails(c)
                    \/ (\E b \in held : CallFree(c, b)) \/ Free(c)
                    => BackInv'
  <2>1. CASE UNCHANGED vars
    BY <1>1, <2>1 DEF BackInv, vars, listVars
  <2>2. CASE Next
    BY <2>2 DEF Next
  <2> QED
    BY <2>1, <2>2
<1>2. ASSUME NEW s \in Requests, CallMalloc(c, s) PROVE BackInv'
  <2>1. UNCHANGED <<held, back>>
    BY <1>2 DEF CallMalloc
  <2>2. pc[c] = "idle" /\ \E l \in {"malloc", "init"} : pc' = [pc EXCEPT ![c] = l]
    BY <1>2 DEF CallMalloc, Goto
  <2>3. call' = [call EXCEPT ![c] = [op |-> "asked", need |-> Need(s)]]
    BY <1>2 DEF CallMalloc, Answer
  <2> QED
    BY <1>1, <2>1, <2>2, <2>3 DEF BackInv
<1>3. CASE InitList(c)
  <2>1. UNCHANGED <<held, back, call>> /\ pc[c] = "init" /\ pc' = [pc EXCEPT ![c] = "initFirst"]
    BY <1>3 DEF InitList, Goto
  <2> QED
    BY <1>1, <2>1 DEF BackInv
<1>4. CASE InitFirst(c)
  <2>1. UNCHANGED <<held, back, call>> /\ pc[c] = "initFirst" /\ pc' = [pc EXCEPT ![c] = "malloc"]
    BY <1>4 DEF InitFirst, Goto
  <2> QED
    BY <1>1, <2>1 DEF BackInv
<1>5. CASE Malloc(c)
  <2>1. PICK b, tz : Gives(c, b, tz)
    BY <1>5, MallocGives
  <2>2. b \notin Out
    <3>1. UnitsInv
      BY <1>5, SetUp, MallocSteps
    <3>2. b.addr \in Listed
      BY <2>1 DEF Gives, Took
    <3>3. \A d \in Out : d.addr \notin Listed
      BY <3>1, OutBeside DEF UnitsInv
    <3> QED
      BY <3>2, <3>3
  <2>3. \A d \in Callers : b \notin back[d]
    BY <2>2 DEF Out
  <2>4. /\ UNCHANGED back
        /\ pc[c] = "malloc" /\ pc' = [pc EXCEPT ![c] = "idle"]
        /\ call' = [call EXCEPT ![c] = [op |-> "block", need |-> 0]]
    BY <1>5, MallocSteps DEF Answer
  <2>5. held' = held \cup {b}
    BY <2>1 DEF Gives
  <2>6. \A d \in Callers : back'[d] \cap held' = {}
    BY <1>1, <2>3, <2>4, <2>5 DEF BackInv
  <2>7. ASSUME NEW d \in Callers
        PROVE  /\ pc'[d] \in {"init", "initFirst", "malloc"} => call'[d].op = "asked"
               /\ pc'[d] # "free" => back'[d] = {}
               /\ pc'[d] = "free" => \E x : back'[d] = {x}
    <3>1. CASE d = c
      BY <1>1, <2>4, <3>1 DEF BackInv
    <3>2. CASE d # c
      BY <1>1, <2>4, <3>2 DEF BackInv
    <3> QED
      BY <3>1, <3>2
  <2>8. \A d, e \in Callers : d # e => back'[d] \cap back'[e] = {}
    BY <1>1, <2>4 DEF BackInv
  <2> QED
    BY <2>6, <2>7, <2>8 DEF BackInv
<1>6. CASE MallocFails(c)
  <2>1. /\ UNCHANGED <<held, back>>
        /\ pc[c] = "malloc" /\ pc' = [pc EXCEPT ![c] = "idle"]
        /\ call' = [call EXCEPT ![c] = [op |-> "null", need |-> 0]]
    BY <1>6 DEF MallocFails, Goto, Answer
  <2> QED
    BY <1>1, <2>1 DEF BackInv
<1>7. ASSUME NEW b \in held, CallFree(c, b) PROVE BackInv'
  <2>1. /\ UNCHANGED call
        /\ pc[c] = "idle" /\ pc' = [pc EXCEPT ![c] = "free"]
        /\ held' = held \ {b} /\ back' = [back EXCEPT ![c] = {b}]
    BY <1>7 DEF CallFree, Goto
  <2>2. back[c] = {} /\ \A d \in Callers : b \notin back[d]
    BY <1>1, <2>1 DEF BackInv
  <2>3. back'[c] = {b} /\ pc'[c] = "free"
    BY <1>1, <2>1
  <2>4. \A d \in Callers : d # c => back'[d] = back[d] /\ pc'[d] = pc[d]
    BY <1>1, <2>1
  <2>5. \A d \in Callers : back'[d] \cap held' = {}
    BY <1>1, <2>1, <2>3, <2>4 DEF BackInv
  <2>6. \A d, e \in Callers : d # e => back'[d] \cap back'[e] = {}
    BY <1>1, <2>2, <2>3, <2>4 DEF BackInv
  <2>7. ASSUME NEW d \in Callers
        PROVE  /\ pc'[d] \in {"init", "initFirst", "malloc"} => call'[d].op = "asked"
               /\ pc'[d] # "free" => back'[d] = {}
               /\ pc'[d] = "free" => \E x : back'[d] = {x}
    <3>1. CASE d = c
      BY <2>3, <3>1
    <3>2. CASE d # c
      BY <1>1, <2>1, <2>4, <3>2 DEF BackInv
    <3> QED
      BY <3>1, <3>2
  <2> QED
    BY <2>5, <2>6, <2>7 DEF BackInv
<1>8. CASE Free(c)
  <2>1. /\ UNCHANGED <<call, held>>
        /\ pc[c] = "free" /\ pc' = [pc EXCEPT ![c] = "idle"]
        /\ back' = [back EXCEPT ![c] = {}]
    BY <1>8 DEF Free, Goto
  <2> QED
    BY <1>1, <2>1 DEF BackInv
<1> QED
  BY <1>2, <1>3, <1>4, <1>5, <1>6, <1>7, <1>8

(* The pool as base_mem_init leaves it: one block that is the arena.       *)
LEMMA LayoutFirst ==
  ASSUME NEW sz \in [Addresses -> Nat], sz[0] = Arena
  PROVE  Layout({0}, sz, {}, Arena)
<1>1. Arena \in Nat \ {0} /\ Arena < Pool /\ Pool \in Nat /\ 0 \in Addresses
  BY SizesAssumption DEF Arena, Addresses
<1>2. \A u \in Nat : OnList(u, {0}, sz) <=> In(u, 0, Arena)
  BY DEF OnList
<1>3. \A u \in Nat : In(u, 0, Arena) <=> u < Arena
  BY <1>1 DEF In
<1>4. Apart({0}, sz)
  BY <1>1 DEF Apart
<1>5. ListFits({0}, sz)
  BY <1>1, <1>2, <1>3, <1>4 DEF ListFits
<1>6. BlocksFit({0}, sz, {})
  BY DEF BlocksFit
<1>7. Covered({0}, sz, {})
  <2>1. \A u \in 0 .. (Arena - 1) : u \in Nat /\ u < Arena
    BY <1>1
  <2> QED
    BY <1>2, <1>3, <2>1 DEF Covered
<1>8. Counted({0}, sz, Arena)
  <2>1. {u \in Nat : OnList(u, {0}, sz)} = {u \in Nat : In(u, 0, Arena)}
    BY <1>2
  <2>2. Cardinality({u \in Nat : In(u, 0, Arena)}) = Arena
    BY <1>1, BlockUnits
  <2> QED
    BY <2>1, <2>2 DEF Counted
<1> QED
  BY <1>5, <1>6, <1>7, <1>8 DEF Layout

(* What is out, as blocks are given, given back and put on the list.       *)
LEMMA OutChanges ==
  ASSUME PoolInv, NEW c \in Callers
  PROVE  /\ UNCHANGED <<held, back>> => Out' = Out
         /\ \A b : held' = held \cup {b} /\ UNCHANGED back => Out' = Out \cup {b}
         /\ \A b \in held : pc[c] = "idle" /\ held' = held \ {b} /\ back' = [back EXCEPT ![c] = {b}]
                              => Out' = Out
         /\ \A b : pc[c] = "free" /\ back[c] = {b} /\ UNCHANGED held /\ back' = [back EXCEPT ![c] = {}]
                              => Out' = Out \ {b}
<1>1. BackInv /\ DOMAIN back = Callers
  BY DEF PoolInv, Typed
<1>2. UNCHANGED <<held, back>> => Out' = Out
  BY DEF Out
<1>3. ASSUME NEW b, held' = held \cup {b}, UNCHANGED back
      PROVE  Out' = Out \cup {b}
  BY <1>3 DEF Out
<1>4. ASSUME NEW b \in held, pc[c] = "idle", held' = held \ {b}, back' = [back EXCEPT ![c] = {b}]
      PROVE  Out' = Out
  <2>1. back[c] = {} /\ back'[c] = {b} /\ \A d \in Callers : d # c => back'[d] = back[d]
    BY <1>1, <1>4 DEF BackInv
  <2>2. \A x : (\E d \in Callers : x \in back'[d]) <=> x = b \/ \E d \in Callers : x \in back[d]
    BY <2>1
  <2> QED
    BY <1>4, <2>2 DEF Out
<1>5. ASSUME NEW b, pc[c] = "free", back[c] = {b}, UNCHANGED held, back' = [back EXCEPT ![c] = {}]
      PROVE  Out' = Out \ {b}
  <2>1. back'[c] = {} /\ \A d \in Callers : d # c => back'[d] = back[d] /\ b \notin back[d]
    BY <1>1, <1>5 DEF BackInv
  <2>2. b \notin held
    BY <1>1, <1>5 DEF BackInv
  <2>3. \A x : (\E d \in Callers : x \in back'[d]) <=> x # b /\ \E d \in Callers : x \in back[d]
    BY <1>5, <2>1
  <2> QED
    BY <1>5, <2>2, <2>3 DEF Out
<1> QED
  BY <1>2, <1>3, <1>4, <1>5

LEMMA UnitsKept ==
  ASSUME PoolInv, [Next]_vars
  PROVE  bit' => UnitsInv'
<1>1. bit => UnitsInv
  BY DEF PoolInv
<1> SUFFICES ASSUME NEW c \in Callers
             PROVE  \/ \E s \in Requests : CallMalloc(c, s)
                    \/ InitList(c) \/ InitFirst(c) \/ Malloc(c) \/ MallocFails(c)
                    \/ (\E b \in held : CallFree(c, b)) \/ Free(c)
                    => (bit' => UnitsInv')
  <2>1. CASE UNCHANGED vars
    BY <1>1, <2>1 DEF UnitsInv, Listed, Out, vars, listVars
  <2>2. CASE Next
    BY <2>2 DEF Next
  <2> QED
    BY <2>1, <2>2
<1>2. ASSUME UNCHANGED <<listVars, held, back>>
      PROVE  bit' => UnitsInv'
  BY <1>1, <1>2 DEF UnitsInv, Listed, Out, listVars
<1>3. ASSUME NEW s \in Requests, CallMalloc(c, s) PROVE bit' => UnitsInv'
  BY <1>2, <1>3 DEF CallMalloc
<1>4. CASE InitList(c)
  <2>1. ~bit /\ UNCHANGED bit
    BY <1>4 DEF InitList, Goto, PoolInv, PhaseInv, Starting
  <2> QED
    BY <2>1
<1>5. CASE InitFirst(c)
  <2>1. held = {} /\ (\A d \in Callers : back[d] = {}) /\ free = <<0>>
    BY <1>5 DEF InitFirst, Goto, PoolInv, PhaseInv, Starting
  <2>2. UNCHANGED <<held, back>> /\ remaining' = Arena /\ size' = [size EXCEPT ![0] = Arena]
    BY <1>5 DEF InitFirst
  <2>3. free' = <<0>>
    BY <1>5, <2>1 DEF InitFirst
  <2>4. Sorted(free') /\ Listed' = {0}
    BY <2>3 DEF Sorted, Listed
  <2>5. Out' = {}
    BY <2>1, <2>2 DEF Out
  <2>6. size' \in [Addresses -> Nat] /\ size'[0] = Arena
    <3>1. 0 \in Addresses /\ Arena \in Nat /\ size \in [Addresses -> Nat]
      BY SizesAssumption DEF Addresses, Arena, PoolInv, Typed
    <3> QED
      BY <2>2, <3>1
  <2>7. Layout(Listed', size', Out', remaining')
    BY <2>2, <2>4, <2>5, <2>6, LayoutFirst
  <2> QED
    BY <2>1, <2>2, <2>4, <2>7 DEF UnitsInv
<1>6. CASE Malloc(c)
  <2>1. PICK b, tz : Gives(c, b, tz)
    BY <1>6, MallocGives
  <2>2. UnitsInv /\ UNCHANGED back
    BY <1>6, SetUp, MallocSteps
  <2>3. Layout(Listed, size, Out, remaining)
    BY <2>2 DEF UnitsInv
  <2>4. Took(Listed', tz, b.addr, b.size, Listed, size)
    BY <2>1 DEF Gives
  <2>5. size' = [tz EXCEPT ![b.addr] = b.size + Bit] /\ remaining' = remaining - b.size
    BY <2>1 DEF Gives
  <2>6. b.size + Bit \in Nat
    <3>1. call[c].need \in Nat /\ Min \in Nat /\ Bit \in Nat
      BY SizesAssumption DEF PoolInv, Typed
    <3>2. b.size \in call[c].need .. (call[c].need + Min)
      BY <2>1 DEF Gives
    <3> QED
      BY <3>1, <3>2
  <2>7. Out' = Out \cup {b} /\ held' = held \cup {b}
    <3>1. held' = held \cup {b}
      BY <2>1 DEF Gives
    <3> QED
      BY <2>2, <3>1, OutChanges
  <2>8. Layout(Listed', size', Out', remaining')
    <3>1. Layout(Listed', [tz EXCEPT ![b.addr] = b.size + Bit], Out \cup {b}, remaining - b.size)
      BY <2>3, <2>4, <2>6, LayoutTaken
    <3> QED
      BY <2>5, <2>7, <3>1
  <2>9. \A d \in Out : d.addr \in Addresses /\ d.addr # b.addr /\ size'[d.addr] = size[d.addr]
    <3> SUFFICES ASSUME NEW d \in Out
                 PROVE  d.addr \in Addresses /\ d.addr # b.addr /\ size'[d.addr] = size[d.addr]
      OBVIOUS
    <3>1. d.addr \in Addresses /\ ~OnList(d.addr, Listed, size) /\ d.addr \notin Listed
      BY <2>3, OutBeside
    <3>2. b.addr \in Listed /\ tz[d.addr] = size[d.addr] /\ tz \in [Addresses -> Nat]
      BY <2>4, <3>1 DEF Took
    <3> QED
      BY <2>5, <3>1, <3>2
  <2>10. size'[b.addr] = b.size + Bit
    <3>1. b.addr \in Addresses /\ tz \in [Addresses -> Nat]
      BY <2>3, <2>4 DEF Took, Layout, ListFits
    <3> QED
      BY <2>5, <3>1
  <2>11. \A d \in held' : size'[d.addr] = d.size + Bit
    BY <2>2, <2>7, <2>9, <2>10 DEF UnitsInv, Out
  <2>12. \A d \in Callers : \A x \in back'[d] : size'[x.addr] = x.size
    BY <2>2, <2>9 DEF UnitsInv, Out
  <2>13. Sorted(free')
    BY <2>1 DEF Gives
  <2> QED
    BY <2>8, <2>11, <2>12, <2>13 DEF UnitsInv
<1>7. CASE MallocFails(c)
  BY <1>2, <1>7 DEF MallocFails
<1>8. ASSUME NEW b \in held, CallFree(c, b) PROVE bit' => UnitsInv'
  <2>1. UnitsInv
    BY <1>1 DEF PoolInv, PhaseInv, Typed
  <2>2. /\ pc[c] = "idle" /\ size' = [size EXCEPT ![b.addr] = @ - Bit]
        /\ held' = held \ {b} /\ back' = [back EXCEPT ![c] = {b}]
        /\ UNCHANGED <<free, remaining>>
    BY <1>8 DEF CallFree, Goto
  <2>3. Out' = Out /\ Listed' = Listed
    BY <2>2, OutChanges DEF Listed
  <2>4. b \in Out /\ \A d \in Callers : back[d] \subseteq Out
    BY DEF Out
  <2>5. Layout(Listed, size, Out, remaining)
    BY <2>1 DEF UnitsInv
  <2>6. /\ b.addr \in Addresses /\ b.addr \notin Listed
        /\ \A d \in Out : d.addr = b.addr => d = b
    BY <2>4, <2>5, OutBeside
  <2>7. size[b.addr] = b.size + Bit /\ size[b.addr] - Bit = b.size /\ b.size \in Nat
    <3>1. size[b.addr] = b.size + Bit
      BY <2>1 DEF UnitsInv
    <3>2. b.size \in Nat
      BY <2>4, <2>5 DEF Layout, BlocksFit
    <3> QED
      BY <3>1, <3>2, SizesAssumption
  <2>8. Layout(Listed', size', Out', remaining')
    <3>1. Layout(Listed, [size EXCEPT ![b.addr] = b.size], Out, remaining)
      BY <2>5, <2>6, <2>7, LayoutFrame
    <3> QED
      BY <2>2, <2>3, <2>7, <3>1
  <2>9. size \in [Addresses -> Nat]
    BY DEF PoolInv, Typed
  <2>10. size'[b.addr] = b.size /\ \A d \in Out : d # b => size'[d.addr] = size[d.addr]
    BY <2>2, <2>6, <2>7, <2>9
  <2>11. \A d \in held' : size'[d.addr] = d.size + Bit
    BY <2>1, <2>2, <2>10 DEF UnitsInv, Out
  <2>12. \A d \in Callers : \A x \in back'[d] : size'[x.addr] = x.size
    <3> SUFFICES ASSUME NEW d \in Callers, NEW x \in back'[d], x # b
                 PROVE  size'[x.addr] = x.size
      BY <2>10
    <3>1. x \in back[d]
      BY <2>2
    <3> QED
      BY <2>1, <2>4, <2>10, <3>1 DEF UnitsInv
  <2> QED
    BY <2>1, <2>2, <2>8, <2>11, <2>12 DEF UnitsInv
<1>9. CASE Free(c)
  <2>1. UnitsInv
    BY <1>9, SetUp DEF Free, Goto
  <2>2. PICK b \in Out :
           /\ back[c] = {b} /\ size[b.addr] = b.size
           /\ Sorted(free') /\ Joined(Listed', size', b.addr, Listed, size)
           /\ remaining' = remaining + b.size
    BY <1>9, FreeGives
  <2>3. pc[c] = "free" /\ UNCHANGED held /\ back' = [back EXCEPT ![c] = {}]
    BY <1>9 DEF Free, Goto
  <2>4. Out' = Out \ {b}
    BY <2>2, <2>3, OutChanges
  <2>5. Layout(Listed, size, Out, remaining)
    BY <2>1 DEF UnitsInv
  <2>6. Layout(Listed', size', Out', remaining')
    <3>1. Layout(Listed', size', Out \ {b}, remaining + b.size)
      BY <2>2, <2>5, LayoutGiven
    <3> QED
      BY <2>2, <2>4, <3>1
  <2>7. \A d \in Out' : size'[d.addr] = size[d.addr]
    <3> SUFFICES ASSUME NEW d \in Out, d # b
                 PROVE  size'[d.addr] = size[d.addr]
      BY <2>4
    <3>1. d.addr \in Addresses /\ d.addr \notin Listed
      BY <2>5, OutBeside
    <3>2. d.addr # b.addr
      BY <2>5, OutBeside
    <3>3. d.addr \notin Listed'
      BY <2>2, <3>1, <3>2 DEF Joined
    <3> QED
      BY <2>2, <3>1, <3>3 DEF Joined
  <2>8. \A d \in held' : size'[d.addr] = d.size + Bit
    <3>1. held' \subseteq Out'
      BY DEF Out
    <3> QED
      BY <2>1, <2>3, <2>7, <3>1 DEF UnitsInv
  <2>9. \A d \in Callers : \A x \in back'[d] : size'[x.addr] = x.size
    <3>1. \A d \in Callers : back'[d] \subseteq Out' /\ back'[d] \subseteq back[d]
      <4>1. \A d \in Callers : back'[d] \subseteq Out'
        BY DEF Out
      <4>2. \A d \in Callers : back'[d] \subseteq back[d]
        BY <2>3
      <4> QED
        BY <4>1, <4>2
    <3> QED
      BY <2>1, <2>7, <3>1 DEF UnitsInv
  <2> QED
    BY <2>2, <2>6, <2>8, <2>9 DEF UnitsInv
<1> QED
  BY <1>3, <1>4, <1>5, <1>6, <1>7, <1>8, <1>9

(* The blocks of the list and those that are out share out the arena, when *)
(* the first base_mem_malloc is over before the others begin.              *)
THEOREM PoolIsSound ==
  ASSUME FirstAlone
  PROVE  Spec => []PoolInv
<1>1. Init => PoolInv
  <2> SUFFICES ASSUME Init
               PROVE  PoolInv
    OBVIOUS
  <2>1. Typed
    <3>1. size = [a \in Addresses |-> 0]
      BY DEF Init, Addresses
    <3>2. size \in [Addresses -> Nat]
      BY <3>1
    <3>3. call \in [Callers -> [op : {"none", "asked", "block", "null"}, need : Nat]]
      BY DEF Init
    <3>4. pc \in [Callers -> Labels] /\ DOMAIN back = Callers /\ ready \in BOOLEAN /\ bit \in BOOLEAN
      BY DEF Init, Labels
    <3> QED
      BY <3>2, <3>3, <3>4 DEF Typed
  <2>2. PhaseInv
    BY DEF Init, PhaseInv, Starting
  <2>3. BackInv
    BY DEF Init, BackInv
  <2>4. ~bit
    BY DEF Init
  <2> QED
    BY <2>1, <2>2, <2>3, <2>4 DEF PoolInv
<1>2. PoolInv /\ [Next]_vars => PoolInv'
  BY TypedKept, PhaseKept, BackKept, UnitsKept DEF PoolInv
<1> QED
  BY <1>1, <1>2, PTL DEF Spec

-----------------------------------------------------------------------------
(* What the invariant says of the units of the arena.                      *)

LEMMA UnitsOfFree ==
  ASSUME UnitsInv
  PROVE  /\ FreeUnits = {u \in Nat : OnList(u, Listed, size)}
         /\ IsFiniteSet(FreeUnits) /\ remaining = Cardinality(FreeUnits)
         /\ FreeUnits \subseteq 0 .. (Arena - 1) /\ Arena \in Nat
<1>1. ListFits(Listed, size) /\ Counted(Listed, size, remaining)
  BY DEF UnitsInv, Layout
<1>2. /\ UNION {Units(x, size[x]) : x \in Listed} = {u \in Nat : OnList(u, Listed, size)}
      /\ IsFiniteSet({u \in Nat : OnList(u, Listed, size)})
  BY <1>1, ListUnits DEF ListFits
<1>3. FreeUnits = {u \in Nat : OnList(u, Listed, size)}
  BY <1>2 DEF FreeUnits
<1>4. remaining = Cardinality(FreeUnits)
  BY <1>1, <1>3 DEF Counted
<1>5. Arena \in Nat
  BY SizesAssumption DEF Arena
<1>6. \A u \in FreeUnits : u \in 0 .. (Arena - 1)
  BY <1>1, <1>3, <1>5 DEF ListFits
<1> QED
  BY <1>2, <1>3, <1>4, <1>5, <1>6

LEMMA UnitsOfBlock ==
  ASSUME UnitsInv, NEW b \in Out
  PROVE  /\ b.addr .. (b.addr + b.size - 1) = {u \in Nat : In(u, b.addr, b.size)}
         /\ b.addr .. (b.addr + b.size - 1) \subseteq 0 .. (Arena - 1)
         /\ \A u \in b.addr .. (b.addr + b.size - 1) : u \notin FreeUnits
<1>1. BlocksFit(Listed, size, Out)
  BY DEF UnitsInv, Layout
<1>2. b.addr \in Nat /\ b.size \in Nat \ {0} /\ b.addr + b.size <= Arena /\ Arena \in Nat
  BY <1>1, SizesAssumption DEF BlocksFit, Arena
<1>3. b.addr .. (b.addr + b.size - 1) = {u \in Nat : In(u, b.addr, b.size)}
  BY <1>2, BlockUnits
<1>4. \A u \in b.addr .. (b.addr + b.size - 1) : u \in 0 .. (Arena - 1)
  BY <1>2
<1>5. \A u \in Nat : In(u, b.addr, b.size) => u \notin FreeUnits
  BY <1>1, UnitsOfFree DEF BlocksFit
<1> QED
  BY <1>3, <1>4, <1>5

LEMMA UnusedIsFree ==
  ASSUME UnitsInv
  PROVE  /\ TheHeap!Unused = FreeUnits
         /\ FreeUnits \cup UNION {Units(b.addr, b.size) : b \in Out} = 0 .. (Arena - 1)
<1>1. Covered(Listed, size, Out)
  BY DEF UnitsInv, Layout
<1>2. FreeUnits = {u \in Nat : OnList(u, Listed, size)} /\ FreeUnits \subseteq 0 .. (Arena - 1)
  BY UnitsOfFree
<1>3. \A u \in 0 .. (Arena - 1) : u \in Nat
  OBVIOUS
<1>4. \A u \in 0 .. (Arena - 1) : u \in FreeUnits \/ \E b \in Out : u \in b.addr .. (b.addr + b.size - 1)
  <2> TAKE u \in 0 .. (Arena - 1)
  <2>1. u \in Nat /\ (OnList(u, Listed, size) \/ \E b \in Out : In(u, b.addr, b.size))
    BY <1>1, <1>3 DEF Covered
  <2> QED
    BY <1>2, <2>1, UnitsOfBlock
<1>5. \A b \in Out : \A u \in b.addr .. (b.addr + b.size - 1) : u \in 0 .. (Arena - 1) /\ u \notin FreeUnits
  BY UnitsOfBlock
<1>6. TheHeap!Unused = FreeUnits
  BY <1>2, <1>4, <1>5 DEF TheHeap!Unused, TheHeap!Units
<1>7. FreeUnits \cup UNION {Units(b.addr, b.size) : b \in Out} = 0 .. (Arena - 1)
  BY <1>2, <1>4, <1>5 DEF Units
<1> QED
  BY <1>6, <1>7

(* Nothing leaks: through any splitting, freeing and merging by several    *)
(* callers, the free blocks stay in order, never touch, and cover with     *)
(* those that are out the whole arena, and the count of base_mem.c is      *)
(* theirs.                                                                 *)
THEOREM PoolLosesNothing ==
  ASSUME FirstAlone
  PROVE  Spec => []NothingLeaks
<1>1. ASSUME UnitsInv
      PROVE  \A i \in 1 .. (Len(free) - 1) : free[i] + size[free[i]] < free[i + 1]
  <2> TAKE i \in 1 .. (Len(free) - 1)
  <2>1. Sorted(free) /\ Apart(Listed, size)
    BY <1>1 DEF UnitsInv, Layout, ListFits
  <2>2. Len(free) \in Nat
    BY <2>1 DEF Sorted
  <2>3. i \in 1 .. Len(free) /\ i + 1 \in 1 .. Len(free) /\ i < i + 1
    BY <2>2
  <2>4. free[i] < free[i + 1]
    BY <2>1, <2>3 DEF Sorted
  <2>5. free[i] \in Listed /\ free[i + 1] \in Listed
    BY <2>3 DEF Listed
  <2> QED
    BY <2>1, <2>4, <2>5 DEF Apart
<1>2. PoolInv => NothingLeaks
  BY <1>1, UnitsOfFree, UnusedIsFree DEF PoolInv, NothingLeaks
<1> QED
  BY <1>2, PoolIsSound, PTL

-----------------------------------------------------------------------------
(* The pool implements the heap.                                           *)

(* The free units in a row are in one block of the list, as blocks never   *)
(* touch: a request is refused only when there is no room for it.          *)
LEMMA RoomInOneBlock ==
  ASSUME UnitsInv, NEW n \in Nat \ {0}, n <= Arena, TheHeap!Room(n)
  PROVE  n <= remaining /\ Fits(n) # {}
<1>1. PICK a \in 0 .. (Arena - n) : a .. (a + n - 1) \subseteq FreeUnits
  BY UnusedIsFree DEF TheHeap!Room
<1>2. a \in Nat /\ Arena \in Nat
  BY UnitsOfFree
<1>3. n <= remaining
  <2>1. Cardinality(a .. (a + n - 1)) = n
    <3>1. n \in Nat
      OBVIOUS
    <3>2. /\ {u \in Nat : In(u, a, n)} = a .. (a + n - 1)
          /\ Cardinality({u \in Nat : In(u, a, n)}) = n
      BY <1>2, <3>1, BlockUnits
    <3> QED
      BY <3>2
  <2>2. IsFiniteSet(FreeUnits) /\ remaining = Cardinality(FreeUnits)
    BY UnitsOfFree
  <2>3. Cardinality(a .. (a + n - 1)) <= Cardinality(FreeUnits)
    BY <1>1, <2>2, FS_Subset
  <2> QED
    BY <2>1, <2>2, <2>3
<1>4. ListFits(Listed, size)
  BY DEF UnitsInv, Layout
<1>5. \A x \in Listed : x \in Nat /\ size[x] \in Nat \ {0}
  BY <1>4, SizesAssumption DEF ListFits, Apart, Addresses
<1>6. \A u \in a .. (a + n - 1) : u \in Nat /\ \E x \in Listed : In(u, x, size[x])
  BY <1>1, UnitsOfFree DEF OnList
<1>7. PICK x \in Listed : In(a, x, size[x])
  BY <1>2, <1>6
<1>8. size[x] >= n
  <2> SUFFICES ASSUME size[x] < n
               PROVE  FALSE
    BY <1>5
  <2>1. x + size[x] \in a .. (a + n - 1)
    BY <1>2, <1>5, <1>7 DEF In
  <2>2. PICK y \in Listed : In(x + size[x], y, size[y])
    BY <1>6, <2>1
  <2>3. CASE x < y
    <3>1. x + size[x] < y
      BY <1>4, <2>3 DEF ListFits, Apart
    <3> QED
      BY <1>5, <2>2, <3>1 DEF In
  <2>4. CASE y < x
    <3>1. y + size[y] < x
      BY <1>4, <2>4 DEF ListFits, Apart
    <3> QED
      BY <1>5, <2>2, <3>1 DEF In
  <2>5. CASE x = y
    BY <1>5, <2>2, <2>5 DEF In
  <2> QED
    BY <1>5, <2>3, <2>4, <2>5
<1>9. Fits(n) # {}
  BY <1>8 DEF Listed, Fits
<1> QED
  BY <1>3, <1>9

LEMMA MallocAllocates ==
  ASSUME PoolInv, NEW c \in Callers, Malloc(c)
  PROVE  TheHeap!Allocate(c)
<1>1. UnitsInv /\ call[c].op = "asked" /\ call[c].need \in Nat \ {0}
  <2>1. pc[c] = "malloc" /\ call[c].need > 0
    BY MallocSteps
  <2>2. UnitsInv
    BY <2>1, SetUp DEF PoolInv
  <2>3. call[c].op = "asked"
    BY <2>1 DEF PoolInv, BackInv
  <2>4. call[c].need \in Nat
    BY DEF PoolInv, Typed
  <2> QED
    BY <2>1, <2>2, <2>3, <2>4
<1>2. PICK b, tz : Gives(c, b, tz)
  BY MallocGives
<1>3. /\ b = [by |-> c, addr |-> b.addr, size |-> b.size]
      /\ b.size \in call[c].need .. (call[c].need + Min)
      /\ Took(Listed', tz, b.addr, b.size, Listed, size)
      /\ held' = held \cup {b}
  BY <1>2 DEF Gives
<1>4. Min \in Nat /\ b.size \in Nat \ {0} /\ b.size - call[c].need \in 0 .. Min
      /\ call[c].need + (b.size - call[c].need) = b.size
  BY <1>1, <1>3, SizesAssumption
<1>5. b.addr \in Nat /\ \A u \in Nat : In(u, b.addr, b.size) => u \in FreeUnits
  <2>1. b.addr \in Listed /\ \A u \in Nat : In(u, b.addr, b.size) => OnList(u, Listed, size)
    BY <1>3 DEF Took
  <2>2. Listed \subseteq Addresses
    BY <1>1 DEF UnitsInv, Layout, ListFits
  <2>3. b.addr \in Addresses
    BY <2>1, <2>2
  <2>4. b.addr \in Nat
    BY <2>3, SizesAssumption DEF Addresses
  <2> QED
    BY <1>1, <2>1, <2>4, UnitsOfFree
<1>6. b.addr .. (b.addr + b.size - 1) \subseteq TheHeap!Unused
  <2>1. b.addr .. (b.addr + b.size - 1) = {u \in Nat : In(u, b.addr, b.size)}
    BY <1>4, <1>5, BlockUnits
  <2> QED
    BY <1>1, <1>5, <2>1, UnusedIsFree
<1>7. b.addr \in 0 .. (Arena - 1) /\ b.addr + b.size <= Arena
  <2>1. FreeUnits \subseteq 0 .. (Arena - 1) /\ Arena \in Nat
    BY <1>1, UnitsOfFree
  <2>2. b.addr \in FreeUnits /\ b.addr + b.size - 1 \in FreeUnits
    <3>1. /\ b.addr + b.size - 1 \in Nat
          /\ In(b.addr, b.addr, b.size) /\ In(b.addr + b.size - 1, b.addr, b.size)
      BY <1>4, <1>5 DEF In
    <3> QED
      BY <1>5, <3>1
  <2> QED
    BY <1>4, <1>5, <2>1, <2>2
<1>8. Out' = Out \cup {b} /\ Answer(c, "block", 0)
  <2>1. Answer(c, "block", 0) /\ UNCHANGED back
    BY MallocSteps
  <2> QED
    BY <1>3, <2>1, OutChanges
<1>9. PICK extra \in 0 .. Min : extra = b.size - call[c].need /\ call[c].need + extra = b.size
  BY <1>4
<1>10. b = [by |-> c, addr |-> b.addr, size |-> call[c].need + extra]
  BY <1>3, <1>9
<1>11. PICK a \in 0 .. (Arena - 1) : a = b.addr
  BY <1>7
<1>12. [by |-> c, addr |-> a, size |-> call[c].need + extra] = b
  BY <1>10, <1>11
<1>13. call[c].need > 0 /\ TheHeap!Units(b) \subseteq TheHeap!Unused /\ TheHeap!Answer(c, "block", 0)
  BY <1>1, <1>6, <1>8 DEF TheHeap!Units, Answer, TheHeap!Answer
<1> QED
  BY <1>1, <1>7, <1>8, <1>11, <1>12, <1>13 DEF TheHeap!Allocate

LEMMA MallocRefuses ==
  ASSUME PoolInv, NEW c \in Callers, MallocFails(c)
  PROVE  TheHeap!Refuse(c)
<1>1. pc[c] = "malloc" /\ UNCHANGED <<held, back>> /\ Answer(c, "null", 0)
  BY DEF MallocFails, Goto
<1>2. \/ call[c].need = 0 \/ call[c].need > remaining \/ Fits(call[c].need) = {}
  BY DEF MallocFails
<1>3. UnitsInv /\ call[c].op = "asked" /\ call[c].need \in Nat
  BY <1>1, SetUp DEF PoolInv, BackInv, Typed
<1>4. Arena \in Nat /\ remaining \in Nat
  BY <1>3, UnitsOfFree, FS_CardinalityType
<1>5. call[c].need = 0 \/ call[c].need > Arena \/ ~TheHeap!Room(call[c].need)
  <2> SUFFICES ASSUME call[c].need # 0, call[c].need <= Arena, TheHeap!Room(call[c].need)
               PROVE  FALSE
    BY <1>3, <1>4
  <2>1. call[c].need <= remaining /\ Fits(call[c].need) # {}
    BY <1>3, RoomInOneBlock
  <2> QED
    BY <1>2, <1>3, <1>4, <2>1
<1>6. Out' = Out
  BY <1>1, OutChanges
<1> QED
  BY <1>1, <1>3, <1>5, <1>6 DEF TheHeap!Refuse, TheHeap!Answer, Answer

(* base_mem.c keeps the promise of a heap: no two blocks overlap, each is  *)
(* as big as asked or at most Min units bigger, and NULL is the answer     *)
(* only when nowhere in the arena there is room.                           *)
THEOREM PoolIsHeap ==
  ASSUME FirstAlone
  PROVE  Spec => HeapSpec
<1>1. Init => TheHeap!Init
  BY DEF Init, TheHeap!Init, Out
<1>2. ASSUME PoolInv, [Next]_vars
      PROVE  [TheHeap!Next]_(TheHeap!hvars)
  <2>1. CASE UNCHANGED vars
    BY <2>1 DEF vars, TheHeap!hvars, Out
  <2>2. ASSUME UNCHANGED <<call, held, back>>
        PROVE  UNCHANGED TheHeap!hvars
    BY <2>2 DEF TheHeap!hvars, Out
  <2>3. ASSUME NEW c \in Callers, NEW s \in Requests, CallMalloc(c, s)
        PROVE  TheHeap!Next
    <3>1. UNCHANGED <<held, back>>
      BY <2>3 DEF CallMalloc
    <3>2. Out' = Out
      BY <1>2, <3>1, OutChanges
    <3>3. TheHeap!Request(c)
      BY <2>3, <3>2 DEF CallMalloc, TheHeap!Request, TheHeap!Answer, Answer
    <3> QED
      BY <3>3 DEF TheHeap!Next
  <2>4. ASSUME NEW c \in Callers, InitList(c)
        PROVE  UNCHANGED TheHeap!hvars
    BY <2>2, <2>4 DEF InitList
  <2>5. ASSUME NEW c \in Callers, InitFirst(c)
        PROVE  UNCHANGED TheHeap!hvars
    BY <2>2, <2>5 DEF InitFirst
  <2>6. ASSUME NEW c \in Callers, Malloc(c)
        PROVE  TheHeap!Next
    BY <1>2, <2>6, MallocAllocates DEF TheHeap!Next
  <2>7. ASSUME NEW c \in Callers, MallocFails(c)
        PROVE  TheHeap!Next
    BY <1>2, <2>7, MallocRefuses DEF TheHeap!Next
  <2>8. ASSUME NEW c \in Callers, NEW b \in held, CallFree(c, b)
        PROVE  UNCHANGED TheHeap!hvars
    <3>1. Out' = Out
      BY <1>2, <2>8, OutChanges DEF CallFree, Goto
    <3> QED
      BY <2>8, <3>1 DEF CallFree, TheHeap!hvars
  <2>9. ASSUME NEW c \in Callers, Free(c)
        PROVE  TheHeap!Next
    <3>1. PICK b \in Out : back[c] = {b}
      BY <1>2, <2>9, FreeGives
    <3>2. Out' = Out \ {b} /\ UNCHANGED call
      BY <1>2, <2>9, <3>1, OutChanges DEF Free, Goto
    <3>3. TheHeap!Release
      BY <3>1, <3>2 DEF TheHeap!Release
    <3> QED
      BY <3>3 DEF TheHeap!Next
  <2> QED
    BY <1>2, <2>1, <2>3, <2>4, <2>5, <2>6, <2>7, <2>8, <2>9 DEF Next
<1> QED
  BY <1>1, <1>2, PoolIsSound, PTL DEF Spec, HeapSpec, TheHeap!Spec
=============================================================================
