--------------------------- MODULE SlabHeapProofs ---------------------------
(***************************************************************************)
(* What the slab allocator's operations do to its memory, for every heap,  *)
(* set of cores and range of classes.                                      *)
(*                                                                         *)
(* The free lists are kept in the free objects themselves, so what has to  *)
(* be shown is that no write of the allocator's, or of the program into an *)
(* object it holds, meets a word that something else is kept in.  A list   *)
(* is a stack of batches (Stack, IsList); the heap up to the break is a    *)
(* tiling by objects of which each is on one list or out (Good).  push and *)
(* pop keep the tiling, and so do the rounds of the slow path and of the   *)
(* loop that halves a list, allocate and free (Reach, Sound).  Words that  *)
(* are out are left alone, so that the objects of the program and those    *)
(* that realloc is copying stay intact (HeldOK, ProgOK).                   *)
(***************************************************************************)
EXTENDS Slab, FiniteSetTheorems, WellFoundedInduction, TLAPS

(* The leaves are Zenon's, but for those that name another prover. *)
USE Zenon

(* A nonempty set of numbers has its least element. *)
LEMMA LeastNat ==
  ASSUME NEW S \in SUBSET Nat, S # {}
  PROVE  \E m \in S : \A x \in S : m <= x
<1>1. PICK m \in S : \A x \in S : ~(<<x, m>> \in OpToRel(<, Nat))
  BY NatLessThanWellFounded, WFMin
<1>r. PICK R : R = OpToRel(<, Nat)
  OBVIOUS
<1>2. R = {p \in Nat \X Nat : p[1] < p[2]}
  BY <1>r DEF OpToRel
<1>3. \A x \in S : <<x, m>> \notin R
  BY <1>1, <1>r
<1>4. ASSUME NEW x \in S PROVE m <= x
  <2>p. PICK p : p = <<x, m>>
    OBVIOUS
  <2>1. p \in Nat \X Nat /\ p[1] = x /\ p[2] = m /\ p \notin R
    BY SMT, <1>3, <2>p
  <2>2. ~(x < m)
    BY <1>2, <2>1
  <2> QED
    BY SMT, <2>2
<1> QED
  BY <1>4

(* The least and the greatest element, once one knows them. *)
LEMMA MinIs ==
  ASSUME NEW S \in SUBSET Int, NEW m \in S, \A x \in S : m <= x
  PROVE  Min(S) = m
<1>1. \A x \in S : (\A y \in S : x <= y) => x = m
  BY SMT
<1> QED
  BY <1>1 DEF Min

(* And a largest one that is a bound from above is what Max chooses. *)
LEMMA MaxIs ==
  ASSUME NEW S \in SUBSET Int, NEW m \in S, \A x \in S : m >= x
  PROVE  Max(S) = m
<1>1. \A x \in S : (\A y \in S : x >= y) => x = m
  BY SMT
<1> QED
  BY <1>1 DEF Max

(* What the function by which Shl computes satisfies. *)
Doubles(f, n) == f = [i \in 0..n |-> IF i = 0 THEN 1 ELSE 2 * f[i - 1]]

(* There is such a function. *)
LEMMA Doubling ==
  ASSUME NEW n \in Nat
  PROVE  \E f : Doubles(f, n)
<1> DEFINE Bad == {k \in Nat : ~\E f : Doubles(f, k)}
<1> SUFFICES ASSUME Bad # {} PROVE FALSE
  OBVIOUS
<1>1. PICK k \in Bad : \A x \in Bad : k <= x
  BY LeastNat, Bad \in SUBSET Nat
<1>2. CASE k = 0
  <2>1. [i \in 0..0 |-> 1] = [i \in 0..0 |-> IF i = 0 THEN 1 ELSE 2 * [j \in 0..0 |-> 1][i - 1]]
    BY SMT
  <2> QED
    BY <1>1, <1>2, <2>1 DEF Doubles
<1>3. CASE k # 0
  <2>1. k - 1 \in Nat /\ ~(k <= k - 1) /\ k \in Nat
    BY SMT, <1>3
  <2>2. PICK f : f = [i \in 0..(k - 1) |-> IF i = 0 THEN 1 ELSE 2 * f[i - 1]]
    BY <1>1, <2>1 DEF Doubles
  <2> DEFINE g == [i \in 0..k |-> IF i = k THEN 2 * f[k - 1] ELSE f[i]]
  <2>3. g = [i \in 0..k |-> IF i = 0 THEN 1 ELSE 2 * g[i - 1]]
    <3> SUFFICES ASSUME NEW i \in 0..k
                 PROVE  g[i] = IF i = 0 THEN 1 ELSE 2 * g[i - 1]
      OBVIOUS
    <3>1. CASE i = k
      BY SMT, <1>3, <2>1, <3>1
    <3>2. CASE i # k
      <4>1. i \in 0..(k - 1) /\ (i # 0 => i - 1 \in 0..k /\ i - 1 # k)
        BY SMT, <2>1, <3>2
      <4>2. f[i] = IF i = 0 THEN 1 ELSE 2 * f[i - 1]
        BY <2>2, <4>1
      <4> QED
        BY <3>2, <4>1, <4>2
    <3> QED
      BY <3>1, <3>2
  <2> QED
    BY <1>1, <2>3 DEF Doubles
<1> QED
  BY <1>2, <1>3

(* Shl by that function. *)
LEMMA ShlBy ==
  ASSUME NEW n \in Nat
  PROVE  \E f : Doubles(f, n) /\ Shl(n) = f[n]
BY Doubling DEF Shl, Doubles

(* Any two such functions agree. *)
LEMMA DoublingUnique ==
  ASSUME NEW n \in Nat, NEW m \in Nat, n <= m,
         NEW f, Doubles(f, n), NEW g, Doubles(g, m)
  PROVE  \A i \in 0..n : f[i] = g[i]
<1> DEFINE Bad == {i \in 0..n : f[i] # g[i]}
<1> SUFFICES ASSUME Bad # {} PROVE FALSE
  OBVIOUS
<1>0. Bad \in SUBSET Nat
  BY SMT
<1>1. PICK k \in Bad : \A x \in Bad : k <= x
  BY <1>0, LeastNat
<1>2. k \in 0..n /\ k \in 0..m /\ f[k] # g[k]
  BY SMT, <1>1
<1>3. k # 0
  BY <1>2 DEF Doubles
<1>4. k - 1 \in 0..n /\ ~(k <= k - 1)
  BY SMT, <1>2, <1>3
<1>5. f[k - 1] = g[k - 1]
  BY <1>1, <1>4
<1> QED
  BY <1>2, <1>3, <1>5 DEF Doubles

(* Shl doubles with every shift. *)
LEMMA ShlStep == Shl(0) = 1 /\ \A n \in Nat : Shl(n + 1) = 2 * Shl(n)
<1>1. Shl(0) = 1
  <2>1. 0 \in Nat /\ 0 \in 0..0
    BY SMT
  <2> QED
    BY <2>1, ShlBy DEF Doubles
<1>2. ASSUME NEW n \in Nat, NEW m \in Nat, m = n + 1 PROVE Shl(m) = 2 * Shl(n)
  <2>0. n <= m
    BY SMT, <1>2
  <2>1. m \in 0..m /\ m # 0 /\ m - 1 = n /\ n \in 0..n
    BY SMT, <1>2
  <2>2. PICK f : Doubles(f, n) /\ Shl(n) = f[n]
    BY ShlBy
  <2>3. PICK g : Doubles(g, m) /\ Shl(m) = g[m]
    BY ShlBy
  <2>4. f[n] = g[n]
    <3>1. \A i \in 0..n : f[i] = g[i]
      BY SMT, <2>0, <2>2, <2>3, DoublingUnique
    <3> QED
      BY <2>1, <3>1
  <2>5. g[m] = 2 * g[m - 1]
    <3>1. \A i \in 0..m : g[i] = IF i = 0 THEN 1 ELSE 2 * g[i - 1]
      BY <2>3 DEF Doubles
    <3> QED
      BY <2>1, <3>1
  <2> QED
    BY <2>1, <2>2, <2>3, <2>4, <2>5
<1> QED
  BY SMT, <1>1, <1>2

(* It is a number greater than the shift. *)
LEMMA ShlNat == \A n \in Nat : Shl(n) \in Nat /\ n < Shl(n)
<1> DEFINE Bad == {n \in Nat : ~(Shl(n) \in Nat /\ n < Shl(n))}
<1> SUFFICES ASSUME Bad # {} PROVE FALSE
  OBVIOUS
<1>0. Bad \in SUBSET Nat
  BY SMT
<1>1. PICK k \in Bad : \A x \in Bad : k <= x
  BY <1>0, LeastNat
<1>2. k # 0
  BY SMT, <1>1, ShlStep
<1>3. k - 1 \in Nat /\ ~(k <= k - 1) /\ k - 1 + 1 = k
  BY SMT, <1>1, <1>2
<1>4. Shl(k - 1) \in Nat /\ k - 1 < Shl(k - 1)
  BY <1>1, <1>3
<1>5. Shl(k) = 2 * Shl(k - 1)
  BY <1>3, ShlStep
<1>6. k \in Nat /\ ~(Shl(k) \in Nat /\ k < Shl(k))
  BY <1>1
<1> QED
  BY SMT, <1>2, <1>4, <1>5, <1>6

(* It grows with the shift. *)
LEMMA ShlGrows ==
  ASSUME NEW a \in Nat, NEW b \in Nat, a <= b
  PROVE  Shl(a) <= Shl(b)
<1> DEFINE Bad == {n \in Nat : a <= n /\ ~(Shl(a) <= Shl(n))}
<1> SUFFICES ASSUME Bad # {} PROVE FALSE
  OBVIOUS
<1>0. Bad \in SUBSET Nat
  BY SMT
<1>1. PICK k \in Bad : \A x \in Bad : k <= x
  BY <1>0, LeastNat
<1>2. k # a
  BY SMT, <1>1, ShlNat
<1>3. k - 1 \in Nat /\ ~(k <= k - 1) /\ k - 1 + 1 = k /\ a <= k - 1
  BY SMT, <1>1, <1>2
<1>4. Shl(a) <= Shl(k - 1)
  BY <1>1, <1>3
<1>5. Shl(k) = 2 * Shl(k - 1) /\ Shl(k - 1) \in Nat /\ Shl(a) \in Nat
  BY <1>3, ShlStep, ShlNat
<1> QED
  BY SMT, <1>1, <1>4, <1>5

-----------------------------------------------------------------------------

(* What the operators on classes need to know of the constants. *)
LEMMA BatchSize == kBatchSize \in Nat /\ kBatchSize >= 2
<1>1. Shl(kMinSlabClassShift) \in Nat /\ kMinSlabClassShift < Shl(kMinSlabClassShift)
      /\ kMinSlabClassShift \in Nat
  BY ShlNat, SlabAssumption
<1> QED
  BY SMT, <1>1 DEF kBatchSize, Header

(* An object has room for a batch. *)
LEMMA SlabSize ==
  ASSUME NEW s \in Shifts
  PROVE  /\ s \in Nat /\ get_slab_size(s) \in Nat /\ kBatchSize <= get_slab_size(s)
         /\ get_slab_size(s) = Shl(s) + 1 /\ Shl(s) \in Nat
<1>1. s \in Nat /\ kMinSlabClassShift \in Nat /\ kMinSlabClassShift <= s
  BY SMT, SlabAssumption DEF Shifts
<1>2. Shl(s) \in Nat /\ Shl(kMinSlabClassShift) <= Shl(s)
      /\ Shl(kMinSlabClassShift) \in Nat
  BY <1>1, ShlNat, ShlGrows
<1> QED
  BY SMT, <1>1, <1>2 DEF get_slab_size, kBatchSize, Header

(* A size has a class, in which it fits. *)
LEMMA SlabShift ==
  ASSUME NEW size \in Nat
  PROVE  LET s == get_slab_shift(size)
         IN  s \in Nat /\ kMinSlabClassShift <= s /\ size <= Shl(s)
<1> DEFINE S == {s \in kMinSlabClassShift..(kMinSlabClassShift + size) : size <= Shl(s)}
<1>1. kMinSlabClassShift \in Nat
  BY SMT, SlabAssumption
<1>2. kMinSlabClassShift + size \in S
  <2>1. kMinSlabClassShift + size \in Nat
    BY SMT, <1>1
  <2>2. /\ Shl(kMinSlabClassShift + size) \in Nat
        /\ kMinSlabClassShift + size < Shl(kMinSlabClassShift + size)
    BY <2>1, ShlNat
  <2> QED
    BY SMT, <1>1, <2>2
<1>3. S \in SUBSET Nat /\ S \in SUBSET Int
  BY SMT, <1>1
<1>4. PICK m \in S : \A x \in S : m <= x
  BY <1>2, <1>3, LeastNat
<1>5. get_slab_shift(size) = m
  BY <1>3, <1>4, MinIs DEF get_slab_shift
<1> QED
  BY SMT, <1>1, <1>4, <1>5

-----------------------------------------------------------------------------
(* A free list as a stack.  Its n batches are full but for the last one,    *)
(* which is filled up to slot t; a[i][j] is the object in slot j of batch i *)
(* and the batch itself in slot 0.                                          *)

Slots == 0..(kBatchSize - 1)
Grids == [Nat -> [Slots -> Nat]]

Cell(n, t, i, j) == i \in 1..n /\ j \in Slots /\ (i < n \/ j <= t)

Addrs(n, t, a) == {x \in Nat : \E i \in 1..n, j \in Slots : Cell(n, t, i, j) /\ x = a[i][j]}

(* The word in slot j of batch i: the batch below, an object, or nothing. *)
Content(n, t, a, i, j) ==
    IF j = 0 THEN IF i = 1 THEN NULL ELSE a[i - 1][0]
    ELSE IF Cell(n, t, i, j) THEN a[i][j] ELSE NULL

Filled(m, n, t, a) ==
    \A i \in 1..n, j \in Slots : m[a[i][0] + j] = Content(n, t, a, i, j)

Distinct(n, t, a) ==
    /\ \A i \in 1..n, j \in Slots : Cell(n, t, i, j) => a[i][j] # NULL
    /\ \A i1, i2 \in 1..n, j1, j2 \in Slots :
          Cell(n, t, i1, j1) /\ Cell(n, t, i2, j2) /\ a[i1][j1] = a[i2][j2]
             => i1 = i2 /\ j1 = j2

(* The list l and the words of the batches in m say just that. *)
Stack(m, l, n, t, a) ==
    /\ n = 0 => t = kBatchSize - 1
    /\ l = [head |-> IF n = 0 THEN NULL ELSE a[n][0],
            size |-> n * kBatchSize + t + 1 - kBatchSize]
    /\ Filled(m, n, t, a)
    /\ Distinct(n, t, a)

(* Objects with room for a batch each. *)
Spaced(X) ==
    /\ X \subseteq Heap
    /\ \A x \in X : x + kBatchSize - 1 \in Heap
    /\ \A x, y \in X : x # y => x + kBatchSize <= y \/ y + kBatchSize <= x

Mems == [Words -> 0..Data]

(* The memory is the same in the batches' room of X, and only changes there. *)
SameIn(m1, m2, X) == \A x \in X, j \in Slots : m1[x + j] = m2[x + j]

SameOut(m1, m2, X) ==
    \A w \in Words : (\A x \in X : w \notin x..(x + kBatchSize - 1)) => m1[w] = m2[w]

(* Addresses of the heap are words, values that a word can hold, and not null. *)
LEMMA HeapWords == Heap \subseteq Words /\ Heap \subseteq 0..Data /\ NULL \in 0..Data
                   /\ NULL \notin Heap /\ Heap \subseteq Nat
<1>1. MaxLibc * LibcSize \in Nat /\ HeapSize \in Nat
  BY SMT, SlabAssumption
<1> QED
  BY SMT, <1>1 DEF Heap, Words, Data, NULL

(* The slots of a batch are numbered from 0 to kBatchSize - 1. *)
LEMMA SlotNumbers == /\ 0 \in Slots /\ Slots \subseteq Nat /\ kBatchSize - 1 \in Slots
                     /\ kBatchSize - 1 # 0 /\ \A j \in Slots : j < kBatchSize
BY SMT, BatchSize DEF Slots

(* Batches are entries. *)
LEMMA BatchCells ==
  ASSUME NEW n \in Nat, NEW t \in Slots, NEW a \in Grids
  PROVE  /\ \A i \in 1..n : Cell(n, t, i, 0) /\ a[i][0] \in Addrs(n, t, a)
         /\ \A i \in 1..n, j \in Slots : a[i][j] \in Nat
<1>1. ASSUME NEW i \in 1..n, NEW j \in Slots PROVE i \in Nat /\ a[i][j] \in Nat
  BY SMT DEF Grids
<1>2. ASSUME NEW i \in 1..n PROVE Cell(n, t, i, 0)
  <2>1. i < n \/ 0 <= t
    BY SMT, SlotNumbers
  <2> QED
    BY <2>1, SlotNumbers DEF Cell
<1> QED
  BY <1>1, <1>2, SlotNumbers DEF Addrs

(* A stack is one as long as the cells of its objects are the same. *)
LEMMA StackFrame ==
  ASSUME NEW m1, NEW m2, NEW l, NEW n \in Nat, NEW t \in Slots, NEW a \in Grids,
         Stack(m1, l, n, t, a), SameIn(m1, m2, Addrs(n, t, a))
  PROVE  Stack(m2, l, n, t, a)
BY BatchCells DEF Stack, Filled, SameIn


(* The room of an object is in the heap ... *)
LEMMA InRoom ==
  ASSUME NEW X, Spaced(X), NEW x \in X, NEW j \in Slots
  PROVE  /\ x \in Nat /\ x # NULL /\ x \in Heap
         /\ x + j \in Heap /\ x + j \in Words /\ x + j \in x..(x + kBatchSize - 1)
<1>1. x \in Heap /\ x + kBatchSize - 1 \in Heap
  BY DEF Spaced
<1>2. x \in Nat /\ x # NULL /\ x + j \in Heap /\ x + j \in x..(x + kBatchSize - 1)
  BY SMT, <1>1, BatchSize, SlabAssumption DEF Slots, Heap, NULL
<1> QED
  BY <1>1, <1>2, HeapWords

(* ... and apart from the others'. *)
LEMMA Apart ==
  ASSUME NEW X, Spaced(X), NEW x \in X, NEW y \in X, NEW j \in Slots, NEW k \in Slots,
         x + j = y + k
  PROVE  x = y /\ j = k
<1>1. x \in Nat /\ y \in Nat /\ j \in Nat /\ k \in Nat /\ j < kBatchSize /\ k < kBatchSize
  BY InRoom, SlotNumbers
<1>2. x # y => x + kBatchSize <= y \/ y + kBatchSize <= x
  BY DEF Spaced
<1> QED
  BY SMT, <1>1, <1>2, BatchSize

(* The cells with one slot less, and with a batch less. *)
LEMMA FewerCells ==
  ASSUME NEW n \in Nat, n # 0, NEW t \in Slots
  PROVE  /\ t # 0 => /\ t - 1 \in Slots
                     /\ \A i \in 1..n, j \in Slots :
                          Cell(n, t - 1, i, j) <=> Cell(n, t, i, j) /\ ~(i = n /\ j = t)
         /\ t = 0 => /\ n - 1 \in Nat /\ \A i \in 1..(n - 1) : i \in 1..n
                     /\ \A i \in 1..n, j \in Slots :
                          Cell(n - 1, kBatchSize - 1, i, j)
                             <=> Cell(n, t, i, j) /\ ~(i = n /\ j = t)
         /\ Cell(n, t, n, t) /\ n \in 1..n
BY SMT, BatchSize DEF Cell, Slots

(* Fewer cells have distinct objects too. *)
LEMMA FewerDistinct ==
  ASSUME NEW n1 \in Nat, NEW t1, NEW n2 \in Nat, NEW t2, NEW a, Distinct(n1, t1, a),
         \A i \in 1..n2 : i \in 1..n1,
         \A i \in 1..n2, j \in Slots : Cell(n2, t2, i, j) => Cell(n1, t1, i, j)
  PROVE  Distinct(n2, t2, a)
BY DEF Distinct

(* pop of a batch that has pointers returns the last one. *)
LEMMA PopSlot ==
  ASSUME NEW m \in Mems, NEW l, NEW n \in Nat, n # 0, NEW t \in Slots, t # 0,
         NEW a \in Grids, Stack(m, l, n, t, a), Spaced(Addrs(n, t, a))
  PROVE  LET r == pop(m, l)
         IN  /\ r.ptr = a[n][t]
             /\ r.mem = [m EXCEPT ![a[n][0] + t] = NULL]
             /\ r.list = [head |-> l.head, size |-> l.size - 1]
             /\ Stack(r.mem, r.list, n, t - 1, a)
<1> DEFINE h == a[n][0]
           m2 == [m EXCEPT ![h + t] = NULL]
           full == {i \in 1..(kBatchSize - 1) : m[l.head + i] # NULL}
<1>1. /\ l = [head |-> h, size |-> n * kBatchSize + t + 1 - kBatchSize]
      /\ Filled(m, n, t, a) /\ Distinct(n, t, a)
  BY DEF Stack
<1>2. n \in 1..n /\ h \in Addrs(n, t, a) /\ Cell(n, t, n, t) /\ t - 1 \in Slots
  BY BatchCells, FewerCells
<1> HIDE DEF h
<1>3. ASSUME NEW i \in 1..(kBatchSize - 1)
      PROVE  /\ m[h + i] = IF i <= t THEN a[n][i] ELSE NULL
             /\ i <= t => a[n][i] # NULL
  <2>1. i \in Slots /\ i # 0 /\ ~(n < n)
    BY SMT, BatchSize DEF Slots
  <2>2. Cell(n, t, n, i) <=> i <= t
    BY <1>2, <2>1 DEF Cell
  <2>3. m[h + i] = IF Cell(n, t, n, i) THEN a[n][i] ELSE NULL
    BY <1>1, <1>2, <2>1 DEF Filled, Content, h
  <2>4. Cell(n, t, n, i) => a[n][i] # NULL
    BY <1>1, <1>2, <2>1 DEF Distinct
  <2> QED
    BY <2>2, <2>3, <2>4
<1>4. l.head = h /\ l.size = n * kBatchSize + t + 1 - kBatchSize
  BY SMT, <1>1
<1>5. full \subseteq Int /\ t \in full /\ (\A i \in full : t >= i) /\ t \in 1..(kBatchSize - 1)
  <2>1. t \in 1..(kBatchSize - 1) /\ t <= t
    BY SMT, BatchSize DEF Slots
  <2>2. t \in full
    BY <1>3, <1>4, <2>1
  <2>3. ASSUME NEW i \in full PROVE t >= i
    <3>1. i \in 1..(kBatchSize - 1) /\ i <= t
      BY <1>3, <1>4
    <3> QED
      BY SMT, <2>1, <3>1, BatchSize
  <2> QED
    BY SMT, <2>1, <2>2, <2>3
<1>6. Max(full) = t /\ full # {}
  BY <1>5, MaxIs
<1>7. m[h + t] = a[n][t]
  <2>1. t <= t
    BY SMT, <1>5
  <2> QED
    BY <1>3, <1>5, <2>1
<1>8. pop(m, l) = [mem |-> m2, list |-> [l EXCEPT !.size = @ - 1], ptr |-> a[n][t]]
  BY <1>4, <1>6, <1>7 DEF pop
<1>9. [l EXCEPT !.size = @ - 1]
         = [head |-> h, size |-> n * kBatchSize + (t - 1) + 1 - kBatchSize]
  BY SMT, <1>1, BatchSize, SlotNumbers
<1>10. Filled(m2, n, t - 1, a)
  <2> SUFFICES ASSUME NEW i \in 1..n, NEW j \in Slots
               PROVE  m2[a[i][0] + j] = Content(n, t - 1, a, i, j)
    BY DEF Filled
  <2>1. a[i][0] \in Addrs(n, t, a) /\ Cell(n, t, i, 0) /\ Cell(n, t, n, 0)
    BY <1>2, BatchCells
  <2>2. m[a[i][0] + j] = Content(n, t, a, i, j)
    BY <1>1 DEF Filled
  <2>3. a[i][0] + j \in DOMAIN m
    BY <2>1, InRoom DEF Mems
  <2>4. CASE i = n /\ j = t
    <3>1. m2[a[i][0] + j] = NULL
      BY <2>3, <2>4 DEF h
    <3>2. ~Cell(n, t - 1, i, j)
      BY <2>4, FewerCells
    <3> QED
      BY <2>4, <3>1, <3>2 DEF Content
  <2>5. CASE ~(i = n /\ j = t)
    <3>1. a[i][0] + j # h + t
      <4>1. a[i][0] = h => i = n
        BY <1>1, <1>2, <2>1, SlotNumbers DEF Distinct, h
      <4>2. ASSUME a[i][0] + j = h + t PROVE a[i][0] = h /\ j = t
        BY SMT, <1>2, <2>1, <4>2, Apart
      <4> QED
        BY <2>5, <4>1, <4>2
    <3>2. m2[a[i][0] + j] = m[a[i][0] + j]
      BY <2>3, <3>1
    <3>3. Cell(n, t - 1, i, j) <=> Cell(n, t, i, j)
      BY <2>5, FewerCells
    <3> QED
      BY <2>2, <3>2, <3>3 DEF Content
  <2> QED
    BY <2>4, <2>5
<1>11. Distinct(n, t - 1, a)
  <2>1. \A i \in 1..n, j \in Slots : Cell(n, t - 1, i, j) => Cell(n, t, i, j)
    BY FewerCells
  <2> QED
    BY <1>1, <2>1, FewerDistinct
<1>12. [l EXCEPT !.size = @ - 1] = [head |-> l.head, size |-> l.size - 1]
  BY SMT, <1>1
<1>13. Stack(m2, [l EXCEPT !.size = @ - 1], n, t - 1, a)
  BY <1>9, <1>10, <1>11 DEF Stack, h
<1> QED
  BY SMT, <1>8, <1>12, <1>13 DEF h

(* pop of a batch without pointers returns the batch. *)
LEMMA PopBatch ==
  ASSUME NEW m \in Mems, NEW l, NEW n \in Nat, n # 0,
         NEW a \in Grids, Stack(m, l, n, 0, a), Spaced(Addrs(n, 0, a))
  PROVE  LET r == pop(m, l)
         IN  /\ r.ptr = a[n][0]
             /\ r.mem = m
             /\ r.list.size = l.size - 1
             /\ Stack(m, r.list, n - 1, kBatchSize - 1, a)
<1> DEFINE h == a[n][0]
           full == {i \in 1..(kBatchSize - 1) : m[l.head + i] # NULL}
<1>0. 0 \in Slots /\ 0 = 0
  BY SlotNumbers
<1>1. /\ l = [head |-> h, size |-> n * kBatchSize + 0 + 1 - kBatchSize]
      /\ Filled(m, n, 0, a) /\ Distinct(n, 0, a)
  BY DEF Stack
<1>2. n \in 1..n /\ h \in Addrs(n, 0, a) /\ h \in Nat
  BY <1>0, BatchCells, FewerCells
<1> HIDE DEF h
<1>3. ASSUME NEW i \in 1..(kBatchSize - 1) PROVE m[h + i] = NULL
  <2>1. i \in Slots /\ i # 0 /\ ~(n < n) /\ ~(i <= 0)
    BY SMT, BatchSize DEF Slots
  <2>2. ~Cell(n, 0, n, i)
    BY <2>1 DEF Cell
  <2> QED
    BY <1>1, <1>2, <2>1, <2>2 DEF Filled, Content, h
<1>4. l.head = h /\ l.size = n * kBatchSize + 1 - kBatchSize
  BY SMT, <1>1, BatchSize
<1>5. full = {}
  BY <1>3, <1>4
<1>6. m[h] = IF n = 1 THEN NULL ELSE a[n - 1][0]
  <2>1. h + 0 = h
    BY SMT, <1>2
  <2>2. m[h + 0] = Content(n, 0, a, n, 0)
    BY <1>0, <1>1, <1>2 DEF Filled, h
  <2>3. Content(n, 0, a, n, 0) = IF n = 1 THEN NULL ELSE a[n - 1][0]
    BY DEF Content
  <2> QED
    BY SMT, <2>1, <2>2, <2>3
<1>7. pop(m, l) = [mem |-> m, list |-> [head |-> m[h], size |-> l.size - 1], ptr |-> h]
  BY <1>4, <1>5 DEF pop
<1>8. [head |-> m[h], size |-> l.size - 1]
         = [head |-> IF n - 1 = 0 THEN NULL ELSE a[n - 1][0],
            size |-> (n - 1) * kBatchSize + (kBatchSize - 1) + 1 - kBatchSize]
  <2>1. n - 1 = 0 <=> n = 1
    BY SMT
  <2>2. n * kBatchSize + 1 - kBatchSize - 1
          = (n - 1) * kBatchSize + (kBatchSize - 1) + 1 - kBatchSize
    BY SMT, BatchSize
  <2> QED
    BY SMT, <1>4, <1>6, <2>1, <2>2, BatchSize
<1>9. /\ n - 1 \in Nat /\ \A i \in 1..(n - 1) : i \in 1..n /\ i # n
      /\ \A i \in 1..n, j \in Slots :
            Cell(n - 1, kBatchSize - 1, i, j) <=> Cell(n, 0, i, j) /\ ~(i = n /\ j = 0)
  <2>1. \A i \in 1..(n - 1) : i # n
    BY SMT
  <2> QED
    BY <1>0, <2>1, FewerCells
<1>10. Filled(m, n - 1, kBatchSize - 1, a)
  <2> SUFFICES ASSUME NEW i \in 1..(n - 1), NEW j \in Slots
               PROVE  m[a[i][0] + j] = Content(n - 1, kBatchSize - 1, a, i, j)
    BY DEF Filled
  <2>1. i \in 1..n /\ (Cell(n - 1, kBatchSize - 1, i, j) <=> Cell(n, 0, i, j))
    BY <1>9
  <2>2. m[a[i][0] + j] = Content(n, 0, a, i, j)
    BY <1>1, <2>1 DEF Filled
  <2> QED
    BY <2>1, <2>2 DEF Content
<1>11. Distinct(n - 1, kBatchSize - 1, a)
  <2>1. \A i \in 1..(n - 1), j \in Slots :
           Cell(n - 1, kBatchSize - 1, i, j) => Cell(n, 0, i, j)
    BY <1>9
  <2> QED
    BY <1>1, <1>9, <2>1, FewerDistinct
<1>12. Stack(m, [head |-> m[h], size |-> l.size - 1], n - 1, kBatchSize - 1, a)
  BY <1>8, <1>10, <1>11 DEF Stack
<1> QED
  BY SMT, <1>7, <1>12 DEF h

(* One more object in a grid. *)
Put(a, n, t, p) == [a EXCEPT ![n][t] = p]

IsPut(b, a, n, t, p) ==
    /\ b \in Grids /\ b[n][t] = p
    /\ \A i \in Nat, j \in Slots : ~(i = n /\ j = t) => b[i][j] = a[i][j]

(* The grid with p put in is as IsPut says. *)
LEMMA PutIs ==
  ASSUME NEW a \in Grids, NEW n \in Nat, NEW t \in Slots, NEW p \in Nat
  PROVE  IsPut(Put(a, n, t, p), a, n, t, p)
BY SMT DEF Grids, Put, IsPut

(* The cells with <<n2, t2>> on top. *)
OneMore(n1, t1, n2, t2) ==
    /\ n2 \in 1..n2 /\ \A i \in 1..n1 : i \in 1..n2
    /\ \A i \in 1..n2, j \in Slots :
          Cell(n2, t2, i, j) <=> Cell(n1, t1, i, j) \/ (i = n2 /\ j = t2)
    /\ ~Cell(n1, t1, n2, t2)

(* The cell after the last one is the next slot, or slot 0 of a new batch. *)
LEMMA MoreCells ==
  ASSUME NEW n \in Nat, NEW t \in Slots
  PROVE  /\ t # kBatchSize - 1 /\ n # 0 => t + 1 \in Slots /\ OneMore(n, t, n, t + 1)
         /\ t = kBatchSize - 1 => n + 1 \in Nat /\ OneMore(n, t, n + 1, 0)
BY SMT, BatchSize DEF Cell, Slots, OneMore

(* A new object in a new cell. *)
LEMMA MoreAddrs ==
  ASSUME NEW n1 \in Nat, NEW t1 \in Slots, NEW n2 \in Nat, NEW t2 \in Slots,
         NEW a \in Grids, NEW p \in Nat, p # NULL, OneMore(n1, t1, n2, t2)
  PROVE  LET a2 == Put(a, n2, t2, p)
         IN  /\ Addrs(n2, t2, a2) = Addrs(n1, t1, a) \cup {p}
             /\ p \notin Addrs(n1, t1, a) /\ Distinct(n1, t1, a) => Distinct(n2, t2, a2)
<1> DEFINE a2 == Put(a, n2, t2, p)
<1>0. IsPut(a2, a, n2, t2, p)
  BY PutIs
<1> HIDE DEF a2
<1>1. /\ a2[n2][t2] = p
      /\ \A i \in Nat, j \in Slots : ~(i = n2 /\ j = t2) => a2[i][j] = a[i][j]
  BY <1>0 DEF IsPut
<1>2. \A i \in 1..n2, j \in Slots : Cell(n1, t1, i, j) => a2[i][j] = a[i][j]
  <2>1. \A i \in 1..n2 : i \in Nat
    BY SMT
  <2> QED
    BY <1>1, <2>1 DEF OneMore
<1>3. a2[n2][t2] = p /\ Cell(n2, t2, n2, t2)
  BY <1>1 DEF OneMore
<1>4. ASSUME NEW x \in Addrs(n2, t2, a2) PROVE x \in Addrs(n1, t1, a) \cup {p}
  <2>1. PICK i \in 1..n2, j \in Slots : Cell(n2, t2, i, j) /\ x = a2[i][j] /\ x \in Nat
    BY DEF Addrs
  <2>2. CASE Cell(n1, t1, i, j)
    BY <1>2, <2>1, <2>2 DEF Addrs, Cell
  <2>3. CASE i = n2 /\ j = t2
    BY <1>3, <2>1, <2>3
  <2> QED
    BY <2>1, <2>2, <2>3 DEF OneMore
<1>5. ASSUME NEW x \in Addrs(n1, t1, a) PROVE x \in Addrs(n2, t2, a2)
  <2>1. PICK i \in 1..n1, j \in Slots : Cell(n1, t1, i, j) /\ x = a[i][j] /\ x \in Nat
    BY DEF Addrs
  <2> QED
    BY <1>2, <2>1 DEF Addrs, OneMore
<1>6. p \in Addrs(n2, t2, a2)
  BY <1>3 DEF Addrs, OneMore
<1>7. ASSUME p \notin Addrs(n1, t1, a), Distinct(n1, t1, a) PROVE Distinct(n2, t2, a2)
  <2>1. ASSUME NEW i \in 1..n2, NEW j \in Slots, Cell(n2, t2, i, j) PROVE a2[i][j] # NULL
    <3>1. Cell(n1, t1, i, j) => i \in 1..n1 /\ a2[i][j] = a[i][j]
      BY <1>2 DEF Cell
    <3>2. Cell(n1, t1, i, j) => a[i][j] # NULL
      BY <1>7, <3>1 DEF Distinct
    <3> QED
      BY <1>3, <2>1, <3>1, <3>2 DEF OneMore
  <2>2. ASSUME NEW i \in 1..n2, NEW j \in Slots, Cell(n1, t1, i, j)
        PROVE  a2[i][j] # p /\ a2[i][j] = a[i][j] /\ i \in 1..n1
    <3>1. i \in 1..n1 /\ a2[i][j] = a[i][j] /\ a[i][j] \in Nat
      BY <1>2, <2>2, BatchCells DEF Cell
    <3> QED
      BY <1>7, <2>2, <3>1 DEF Addrs
  <2>3. ASSUME NEW i \in 1..n2, NEW k \in 1..n2, NEW j \in Slots, NEW u \in Slots,
               Cell(n2, t2, i, j), Cell(n2, t2, k, u), a2[i][j] = a2[k][u]
        PROVE  i = k /\ j = u
    <3>1. CASE Cell(n1, t1, i, j) /\ Cell(n1, t1, k, u)
      BY SMT, <1>7, <2>2, <2>3, <3>1 DEF Distinct
    <3>2. CASE ~Cell(n1, t1, i, j)
      BY SMT, <1>3, <2>2, <2>3, <3>2 DEF OneMore
    <3>3. CASE ~Cell(n1, t1, k, u)
      BY SMT, <1>3, <2>2, <2>3, <3>3 DEF OneMore
    <3> QED
      BY <3>1, <3>2, <3>3
  <2> QED
    BY <2>1, <2>3 DEF Distinct
<1> QED
  BY <1>4, <1>5, <1>6, <1>7 DEF a2

(* push into a batch that has a free slot. *)
LEMMA PushSlot ==
  ASSUME NEW m \in Mems, NEW l, NEW n \in Nat, NEW t \in Slots, t # kBatchSize - 1,
         NEW a \in Grids, Stack(m, l, n, t, a), NEW p \in Nat, p # NULL,
         p \notin Addrs(n, t, a), Spaced(Addrs(n, t, a))
  PROVE  LET r == push(m, l, p)
         IN  /\ n # 0
             /\ r.mem = [m EXCEPT ![a[n][0] + (t + 1)] = p]
             /\ r.list = [head |-> l.head, size |-> l.size + 1]
             /\ Stack(r.mem, r.list, n, t + 1, Put(a, n, t + 1, p))
<1> DEFINE h == a[n][0]
           u == t + 1
           b == Put(a, n, u, p)
           m2 == [m EXCEPT ![h + u] = p]
           slots == {i \in 1..(kBatchSize - 1) : m[l.head + i] = NULL}
<1>1. n # 0 /\ n \in 1..n
  <2>1. n # 0
    BY DEF Stack
  <2> QED
    BY SMT, <2>1
<1>2. /\ l = [head |-> h, size |-> n * kBatchSize + t + 1 - kBatchSize]
      /\ Filled(m, n, t, a) /\ Distinct(n, t, a)
  BY <1>1 DEF Stack
<1>3. h \in Addrs(n, t, a) /\ h \in Nat /\ Cell(n, t, n, 0) /\ a[n][0] # NULL
  BY <1>1, <1>2, BatchCells, SlotNumbers DEF Distinct
<1>4. u \in Slots /\ u \in Nat /\ u # 0 /\ u \in 1..(kBatchSize - 1) /\ OneMore(n, t, n, u)
  <2>1. u \in Nat /\ u # 0 /\ u \in 1..(kBatchSize - 1)
    BY SMT, BatchSize DEF Slots
  <2> QED
    BY <1>1, <2>1, MoreCells
<1>5. ASSUME NEW i \in 1..(kBatchSize - 1) PROVE m[h + i] = NULL <=> u <= i
  <2>1. i \in Slots /\ i # 0 /\ ~(n < n) /\ (i <= t <=> ~(u <= i))
    BY SMT, BatchSize DEF Slots
  <2>2. Cell(n, t, n, i) <=> i <= t
    BY <1>1, <2>1 DEF Cell
  <2>3. m[h + i] = IF Cell(n, t, n, i) THEN a[n][i] ELSE NULL
    BY <1>1, <1>2, <2>1 DEF Filled, Content
  <2>4. Cell(n, t, n, i) => a[n][i] # NULL
    BY <1>1, <1>2, <2>1 DEF Distinct
  <2> QED
    BY <2>1, <2>2, <2>3, <2>4
<1>6. l.head = h /\ l.size = n * kBatchSize + t + 1 - kBatchSize
  BY SMT, <1>2
<1> HIDE DEF h, u
<1>7. slots \subseteq Int /\ u \in slots /\ \A i \in slots : u <= i
  <2>1. u <= u
    BY SMT, <1>4
  <2>2. slots \subseteq 1..(kBatchSize - 1) /\ u \in slots /\ \A i \in slots : u <= i
    BY <1>4, <1>5, <1>6, <2>1
  <2> QED
    BY SMT, <2>2
<1>8. Min(slots) = u /\ slots # {} /\ l.head # NULL
  BY <1>3, <1>6, <1>7, MinIs DEF h
<1>9. push(m, l, p) = [mem |-> m2, list |-> [l EXCEPT !.size = @ + 1]]
  BY <1>6, <1>8 DEF push
<1>10. /\ [l EXCEPT !.size = @ + 1] = [head |-> l.head, size |-> l.size + 1]
       /\ [l EXCEPT !.size = @ + 1]
            = [head |-> h, size |-> n * kBatchSize + u + 1 - kBatchSize]
  BY SMT, <1>2, BatchSize, SlotNumbers DEF u
<1>p. IsPut(b, a, n, u, p)
  BY <1>4, PutIs
<1> HIDE DEF b
<1>11. /\ b \in Grids /\ b[n][u] = p
       /\ \A i \in Nat, j \in Slots : ~(i = n /\ j = u) => b[i][j] = a[i][j]
  BY <1>p DEF IsPut
<1>12. \A i \in 1..n : b[i][0] = a[i][0] /\ b[i - 1][0] = a[i - 1][0]
  <2>1. \A i \in 1..n : i \in Nat /\ i - 1 \in Nat
    BY SMT
  <2> QED
    BY <1>4, <1>11, <2>1, SlotNumbers
<1>13. Filled(m2, n, u, b)
  <2> SUFFICES ASSUME NEW i \in 1..n, NEW j \in Slots
               PROVE  m2[a[i][0] + j] = Content(n, u, b, i, j)
    BY <1>12 DEF Filled
  <2>1. a[i][0] \in Addrs(n, t, a) /\ Cell(n, t, i, 0) /\ i \in Nat
    <3>1. i \in Nat
      BY SMT
    <3> QED
      BY <3>1, BatchCells
  <2>2. m[a[i][0] + j] = Content(n, t, a, i, j)
    BY <1>2 DEF Filled
  <2>3. a[i][0] + j \in DOMAIN m
    BY <2>1, InRoom DEF Mems
  <2>4. CASE i = n /\ j = u
    <3>1. m2[a[i][0] + j] = p
      BY <2>3, <2>4 DEF h
    <3>2. Cell(n, u, i, j)
      BY <1>4, <2>4 DEF OneMore
    <3> QED
      BY <1>4, <1>11, <2>4, <3>1, <3>2 DEF Content
  <2>5. CASE ~(i = n /\ j = u)
    <3>1. a[i][0] + j # h + u
      <4>1. a[i][0] = h => i = n
        BY <1>1, <1>2, <1>3, <2>1, SlotNumbers DEF Distinct, h
      <4>2. ASSUME a[i][0] + j = h + u PROVE a[i][0] = h /\ j = u
        BY SMT, <1>3, <1>4, <2>1, <4>2, Apart DEF h
      <4> QED
        BY <2>5, <4>1, <4>2
    <3>2. m2[a[i][0] + j] = m[a[i][0] + j]
      BY <2>3, <3>1
    <3>3. Cell(n, u, i, j) <=> Cell(n, t, i, j)
      BY <1>4, <2>5 DEF OneMore
    <3>4. b[i][j] = a[i][j]
      BY <1>11, <2>1, <2>5
    <3>5. b[i - 1][0] = a[i - 1][0]
      BY <1>12
    <3> QED
      BY <2>2, <3>2, <3>3, <3>4, <3>5 DEF Content
  <2> QED
    BY <2>4, <2>5
<1>14. Distinct(n, u, b)
  BY <1>2, <1>4, MoreAddrs DEF b
<1>15. b[n][0] = h
  BY <1>1, <1>12 DEF h
<1>16. Stack(m2, [l EXCEPT !.size = @ + 1], n, u, b)
  BY <1>1, <1>10, <1>13, <1>14, <1>15 DEF Stack
<1> QED
  BY SMT, <1>1, <1>9, <1>10, <1>16 DEF h, u, b

(* push in front of a list of full batches, or of none. *)
LEMMA PushBatch ==
  ASSUME NEW m \in Mems, NEW l, NEW n \in Nat, NEW t \in Slots, t = kBatchSize - 1,
         NEW a \in Grids, Stack(m, l, n, t, a), NEW p \in Nat, p # NULL,
         p \notin Addrs(n, t, a), Spaced(Addrs(n, t, a) \cup {p}),
         NEW k \in Nat, k = n + 1
  PROVE  LET r == push(m, l, p)
         IN  /\ r.mem = [w \in Words |-> IF w = p THEN l.head
                                         ELSE IF w - p \in 1..(kBatchSize - 1) THEN NULL
                                         ELSE m[w]]
             /\ r.list = [head |-> p, size |-> l.size + 1]
             /\ Stack(r.mem, r.list, k, 0, Put(a, k, 0, p))
<1> DEFINE X == Addrs(n, t, a) \cup {p}
           b == Put(a, k, 0, p)
           m2 == [w \in Words |-> IF w = p THEN l.head
                                  ELSE IF w - p \in 1..(kBatchSize - 1) THEN NULL
                                  ELSE m[w]]
           slots == {i \in 1..(kBatchSize - 1) : m[l.head + i] = NULL}
<1>1. /\ l = [head |-> IF n = 0 THEN NULL ELSE a[n][0],
              size |-> n * kBatchSize + t + 1 - kBatchSize]
      /\ Filled(m, n, t, a) /\ Distinct(n, t, a)
  BY DEF Stack
<1>2. l.head = (IF n = 0 THEN NULL ELSE a[n][0]) /\ l.size = n * kBatchSize
  BY SMT, <1>1, BatchSize
<1>3. /\ k \in 1..k /\ k # 0 /\ k - 1 = n /\ (k = 1 <=> n = 0)
      /\ \A i \in 1..k : i # k => i \in 1..n
      /\ \A i \in 1..n : i \in 1..k /\ i # k /\ i \in Nat /\ i - 1 \in Nat /\ i - 1 # k
  BY SMT
<1>4. OneMore(n, t, k, 0) /\ 0 \in Slots
  BY MoreCells, SlotNumbers
<1>5. ~(l.head # NULL /\ slots # {})
  <2> SUFFICES ASSUME n # 0, NEW i \in 1..(kBatchSize - 1) PROVE m[a[n][0] + i] # NULL
    BY <1>2
  <2>1. n \in 1..n /\ i \in Slots /\ i # 0 /\ i <= t
    BY SMT, BatchSize DEF Slots
  <2>2. Cell(n, t, n, i)
    BY <2>1 DEF Cell
  <2>3. m[a[n][0] + i] = a[n][i]
    BY <1>1, <2>1, <2>2 DEF Filled, Content
  <2> QED
    BY <1>1, <2>1, <2>2, <2>3 DEF Distinct
<1>6. push(m, l, p) = [mem |-> m2, list |-> [head |-> p, size |-> l.size + 1]]
  BY <1>5 DEF push
<1>7. IsPut(b, a, k, 0, p)
  BY <1>4, PutIs
<1>14. Distinct(k, 0, b)
  BY <1>1, <1>4, MoreAddrs
<1> HIDE DEF b, X
<1>8. /\ b[k][0] = p
      /\ \A i \in Nat, j \in Slots : i # k => b[i][j] = a[i][j]
  BY <1>7 DEF IsPut
<1>9. Spaced(X) /\ p \in X /\ \A x \in Addrs(n, t, a) : x \in X /\ x # p
  BY DEF X
<1>10. ASSUME NEW j \in Slots PROVE m2[p + j] = Content(k, 0, b, k, j)
  <2>1. p + j \in Words
    BY <1>9, InRoom
  <2>2. CASE j = 0
    <3>1. p + j = p
      BY SMT, <2>2
    <3>2. m2[p + j] = l.head
      BY <2>1, <3>1
    <3>3. Content(k, 0, b, k, j) = IF n = 0 THEN NULL ELSE b[n][0]
      BY <1>3, <2>2 DEF Content
    <3>4. n # 0 => b[n][0] = a[n][0]
      <4>1. n # k
        BY SMT
      <4> QED
        BY <1>4, <1>8, <4>1
    <3> QED
      BY <1>2, <3>2, <3>3, <3>4
  <2>3. CASE j # 0
    <3>1. p + j # p /\ (p + j) - p = j /\ j \in 1..(kBatchSize - 1) /\ ~(j <= 0) /\ ~(k < k)
      BY SMT, <2>3, BatchSize DEF Slots
    <3>2. m2[p + j] = NULL
      BY SMT, <2>1, <3>1
    <3>3. ~Cell(k, 0, k, j)
      BY <3>1 DEF Cell
    <3> QED
      BY <2>3, <3>2, <3>3 DEF Content
  <2> QED
    BY <2>2, <2>3
<1>11. ASSUME NEW i \in 1..n, NEW j \in Slots PROVE m2[b[i][0] + j] = Content(k, 0, b, i, j)
  <2>1. /\ a[i][0] \in Addrs(n, t, a) /\ b[i][0] = a[i][0] /\ b[i - 1][0] = a[i - 1][0]
        /\ b[i][j] = a[i][j]
    BY <1>3, <1>4, <1>8, BatchCells
  <2>2. m[a[i][0] + j] = Content(n, t, a, i, j)
    BY <1>1 DEF Filled
  <2>3. a[i][0] + j \in Words /\ a[i][0] \in X /\ a[i][0] # p
    BY <1>9, <2>1, InRoom
  <2>4. ASSUME NEW v \in Slots PROVE a[i][0] + j # p + v
    BY SMT, <1>9, <2>3, Apart
  <2>5. a[i][0] + j # p /\ (a[i][0] + j) - p \notin 1..(kBatchSize - 1)
    <3>1. a[i][0] \in Nat /\ j \in Nat
      BY <1>9, <2>3, InRoom, SlotNumbers
    <3>2. a[i][0] + j # p + 0 /\ \A v \in 1..(kBatchSize - 1) : a[i][0] + j # p + v
      BY SMT, <2>4, BatchSize DEF Slots
    <3>3. a[i][0] + j # p
      BY SMT, <3>2
    <3>4. ASSUME NEW v \in 1..(kBatchSize - 1), (a[i][0] + j) - p = v PROVE FALSE
      <4>1. a[i][0] + j = p + v
        BY SMT, <3>1, <3>4, BatchSize
      <4> QED
        BY <3>2, <4>1
    <3> QED
      BY <3>3, <3>4
  <2>6. m2[a[i][0] + j] = m[a[i][0] + j]
    <3>1. ASSUME NEW w \in Words, w # p, w - p \notin 1..(kBatchSize - 1) PROVE m2[w] = m[w]
      BY <3>1
    <3> HIDE DEF m2
    <3> QED
      BY <2>3, <2>5, <3>1
  <2>7. Cell(k, 0, i, j) <=> Cell(n, t, i, j)
    BY <1>3, <1>4 DEF OneMore
  <2> QED
    BY <2>1, <2>2, <2>6, <2>7 DEF Content
<1>12. Filled(m2, k, 0, b)
  BY <1>3, <1>8, <1>10, <1>11 DEF Filled
<1>13. [head |-> p, size |-> l.size + 1]
         = [head |-> IF k = 0 THEN NULL ELSE b[k][0],
            size |-> k * kBatchSize + 0 + 1 - kBatchSize]
  <2>1. n * kBatchSize + 1 = k * kBatchSize + 0 + 1 - kBatchSize
    BY SMT, BatchSize
  <2> QED
    BY <1>2, <1>3, <1>8, <2>1
<1>15. Stack(m2, [head |-> p, size |-> l.size + 1], k, 0, b)
  BY <1>3, <1>12, <1>13, <1>14 DEF Stack
<1> QED
  BY SMT, <1>6, <1>15 DEF b

-----------------------------------------------------------------------------
(* The list l in the memory m has the objects X. *)

IsList(m, l, X) ==
    /\ \E n \in Nat, t \in Slots, a \in Grids : Stack(m, l, n, t, a) /\ Addrs(n, t, a) = X
    /\ IsFiniteSet(X) /\ Cardinality(X) = l.size

(* A write into an object's room leaves the rest alone. *)
LEMMA WriteInRoom ==
  ASSUME NEW X, Spaced(X), NEW m \in Mems, NEW x \in X, NEW j \in Slots, NEW v \in 0..Data
  PROVE  /\ [m EXCEPT ![x + j] = v] \in Mems
         /\ SameOut(m, [m EXCEPT ![x + j] = v], X)
<1>1. x + j \in Words /\ x + j \in x..(x + kBatchSize - 1)
  BY InRoom
<1>2. [m EXCEPT ![x + j] = v] \in Mems
  BY <1>1 DEF Mems
<1>3. ASSUME NEW w \in Words, \A y \in X : w \notin y..(y + kBatchSize - 1)
      PROVE  m[w] = [m EXCEPT ![x + j] = v][w]
  <2>1. w # x + j /\ w \in DOMAIN m
    BY <1>1, <1>3 DEF Mems
  <2> QED
    BY <2>1
<1> QED
  BY <1>2, <1>3 DEF SameOut

(* What changes only in the room of some objects is as it was in the others'. *)
LEMMA OutIsIn ==
  ASSUME NEW X, NEW Y, NEW Z, Spaced(Z), X \subseteq Z, Y \subseteq Z, X \cap Y = {},
         NEW m1, NEW m2, SameOut(m1, m2, X)
  PROVE  SameIn(m1, m2, Y)
<1> SUFFICES ASSUME NEW y \in Y, NEW j \in Slots PROVE m1[y + j] = m2[y + j]
  BY DEF SameIn
<1>1. y \in Z /\ y + j \in Words /\ y \in Nat /\ y + kBatchSize - 1 \in Nat
  BY InRoom, HeapWords DEF Spaced
<1>2. ASSUME NEW x \in X, y + j \in x..(x + kBatchSize - 1) PROVE FALSE
  <2>1. x \in Z /\ x # y /\ x \in Nat /\ j \in Nat /\ j < kBatchSize
    BY InRoom, SlotNumbers
  <2>2. x + kBatchSize <= y \/ y + kBatchSize <= x
    BY <1>1, <2>1 DEF Spaced
  <2> QED
    BY SMT, <1>1, <1>2, <2>1, <2>2, BatchSize
<1> QED
  BY <1>1, <1>2 DEF SameOut

(* A list stays as it is if its objects' memory does. *)
LEMMA ListFrame ==
  ASSUME NEW m1, NEW m2, NEW l, NEW X, IsList(m1, l, X), SameIn(m1, m2, X)
  PROVE  IsList(m2, l, X)
BY StackFrame DEF IsList

(* The empty list has no objects. *)
LEMMA EmptyIsList == ASSUME NEW m PROVE IsList(m, EmptyList, {})
<1> DEFINE t == kBatchSize - 1
           a == [i \in Nat |-> [j \in Slots |-> 0]]
<1>1. 0 \in Nat /\ t \in Slots /\ a \in Grids
  BY SMT, SlotNumbers DEF Grids
<1>2. 1..0 = {}
  BY SMT
<1>3. Addrs(0, t, a) = {}
  BY <1>2 DEF Addrs
<1>4. EmptyList = [head |-> IF 0 = 0 THEN NULL ELSE a[0][0],
                   size |-> 0 * kBatchSize + t + 1 - kBatchSize]
  BY SMT, BatchSize DEF EmptyList
<1>5. Filled(m, 0, t, a) /\ Distinct(0, t, a)
  BY <1>2 DEF Filled, Distinct
<1>6. Stack(m, EmptyList, 0, t, a)
  BY <1>4, <1>5 DEF Stack
<1>7. IsFiniteSet({}) /\ Cardinality({}) = EmptyList.size
  BY SMT, FS_EmptySet DEF EmptyList
<1> HIDE DEF t, a
<1> QED
  BY <1>1, <1>3, <1>6, <1>7 DEF IsList

(* The size says how many there are. *)
LEMMA ListSize ==
  ASSUME NEW m, NEW l, NEW X, IsList(m, l, X)
  PROVE  /\ l.size \in Nat /\ (l.size = 0 <=> X = {}) /\ IsFiniteSet(X)
         /\ Cardinality(X) = l.size
         /\ \A n \in Nat, t \in Slots, a \in Grids : Stack(m, l, n, t, a) => (n = 0 <=> X = {})
<1>1. l.size \in Nat /\ (l.size = 0 <=> X = {})
  BY FS_CardinalityType, FS_EmptySet DEF IsList
<1>2. ASSUME NEW n \in Nat, NEW t \in Slots, NEW a \in Grids, Stack(m, l, n, t, a)
      PROVE  n = 0 <=> l.size = 0
  <2>1. l.size = n * kBatchSize + t + 1 - kBatchSize /\ (n = 0 => t = kBatchSize - 1)
    BY SMT, <1>2 DEF Stack
  <2>2. n # 0 => (n - 1) * kBatchSize \in Nat /\ n * kBatchSize = (n - 1) * kBatchSize + kBatchSize
    BY SMT, BatchSize
  <2> QED
    BY SMT, <2>1, <2>2, BatchSize, SlotNumbers
<1> QED
  BY <1>1, <1>2 DEF IsList

-----------------------------------------------------------------------------

(* The entries without the one on top. *)
LEMMA FewerAddrs ==
  ASSUME NEW n1 \in Nat, NEW t1 \in Slots, NEW n2 \in Nat, NEW t2 \in Slots,
         NEW a \in Grids, Distinct(n1, t1, a), OneMore(n2, t2, n1, t1)
  PROVE  /\ a[n1][t1] \in Addrs(n1, t1, a)
         /\ Addrs(n2, t2, a) = Addrs(n1, t1, a) \ {a[n1][t1]}
<1>1. n1 \in 1..n1 /\ Cell(n1, t1, n1, t1) /\ ~Cell(n2, t2, n1, t1)
  BY DEF OneMore
<1>2. a[n1][t1] \in Addrs(n1, t1, a)
  BY <1>1, BatchCells DEF Addrs
<1>3. ASSUME NEW x \in Addrs(n2, t2, a) PROVE x \in Addrs(n1, t1, a) /\ x # a[n1][t1]
  <2>1. PICK i \in 1..n2, j \in Slots : Cell(n2, t2, i, j) /\ x = a[i][j] /\ x \in Nat
    BY DEF Addrs
  <2>2. i \in 1..n1 /\ Cell(n1, t1, i, j)
    BY <2>1 DEF OneMore
  <2>3. x # a[n1][t1]
    BY <1>1, <2>1, <2>2 DEF Distinct
  <2> QED
    BY <2>1, <2>2, <2>3 DEF Addrs
<1>4. ASSUME NEW x \in Addrs(n1, t1, a), x # a[n1][t1] PROVE x \in Addrs(n2, t2, a)
  <2>1. PICK i \in 1..n1, j \in Slots : Cell(n1, t1, i, j) /\ x = a[i][j] /\ x \in Nat
    BY DEF Addrs
  <2>2. Cell(n2, t2, i, j)
    BY <1>4, <2>1 DEF OneMore
  <2> QED
    BY <2>1, <2>2 DEF Addrs, Cell
<1> QED
  BY <1>2, <1>3, <1>4

(* pop takes one object off the list. *)
LEMMA PopSet ==
  ASSUME NEW m \in Mems, NEW l, NEW X, IsList(m, l, X), Spaced(X), l.size # 0
  PROVE  LET r == pop(m, l)
         IN  /\ r.ptr \in X /\ r.mem \in Mems
             /\ IsList(r.mem, r.list, X \ {r.ptr})
             /\ SameOut(m, r.mem, X)
             /\ r.list.size = l.size - 1
<1> DEFINE r == pop(m, l)
<1>1. PICK n \in Nat, t \in Slots, a \in Grids : Stack(m, l, n, t, a) /\ Addrs(n, t, a) = X
  BY DEF IsList
<1>2. n # 0 /\ IsFiniteSet(X) /\ Cardinality(X) = l.size /\ l.size \in Nat
  BY <1>1, ListSize
<1>3. Distinct(n, t, a)
  BY <1>1 DEF Stack
<1>4. /\ r.ptr \in X /\ r.mem \in Mems /\ SameOut(m, r.mem, X) /\ r.list.size = l.size - 1
      /\ \E n2 \in Nat, t2 \in Slots :
            Stack(r.mem, r.list, n2, t2, a) /\ Addrs(n2, t2, a) = X \ {r.ptr}
  <2>1. CASE t = 0
    <3>1. n - 1 \in Nat /\ n - 1 + 1 = n
      BY SMT, <1>2
    <3>2. OneMore(n - 1, kBatchSize - 1, n, t) /\ kBatchSize - 1 \in Slots
      BY <2>1, <3>1, MoreCells, SlotNumbers
    <3>3. a[n][t] \in X /\ Addrs(n - 1, kBatchSize - 1, a) = X \ {a[n][t]}
      BY SMT, <1>1, <1>3, <3>1, <3>2, FewerAddrs
    <3>4. /\ r.ptr = a[n][0] /\ r.mem = m /\ r.list.size = l.size - 1
          /\ Stack(m, r.list, n - 1, kBatchSize - 1, a)
      <4>1. Stack(m, l, n, 0, a) /\ Spaced(Addrs(n, 0, a))
        BY <1>1, <2>1
      <4> QED
        BY SMT, <1>2, <4>1, PopBatch
    <3> HIDE DEF r
    <3> QED
      BY <2>1, <3>1, <3>2, <3>3, <3>4 DEF SameOut
  <2>2. CASE t # 0
    <3>1. t - 1 \in Slots /\ t - 1 + 1 = t /\ t - 1 # kBatchSize - 1
      BY SMT, <2>2, BatchSize DEF Slots
    <3>2. OneMore(n, t - 1, n, t)
      BY <1>2, <3>1, MoreCells
    <3>3. a[n][t] \in X /\ Addrs(n, t - 1, a) = X \ {a[n][t]}
      BY SMT, <1>1, <1>3, <3>1, <3>2, FewerAddrs
    <3>4. /\ r.ptr = a[n][t] /\ r.mem = [m EXCEPT ![a[n][0] + t] = NULL]
          /\ r.list = [head |-> l.head, size |-> l.size - 1]
          /\ Stack(r.mem, r.list, n, t - 1, a)
      BY SMT, <1>1, <1>2, <2>2, PopSlot
    <3>5. a[n][0] \in X
      BY <1>1, <1>2, BatchCells, FewerCells
    <3> HIDE DEF r
    <3>6. r.mem \in Mems /\ SameOut(m, r.mem, X)
      BY SMT, <3>4, <3>5, WriteInRoom, HeapWords
    <3>7. r.list.size = l.size - 1
      BY SMT, <3>4
    <3> QED
      BY <3>1, <3>3, <3>4, <3>6, <3>7
  <2> QED
    BY <2>1, <2>2
<1> HIDE DEF r
<1>5. IsFiniteSet(X \ {r.ptr}) /\ Cardinality(X \ {r.ptr}) = r.list.size
  <2>1. /\ IsFiniteSet(X \ {r.ptr})
        /\ Cardinality(X \ {r.ptr}) = IF r.ptr \in X THEN Cardinality(X) - 1 ELSE Cardinality(X)
    BY <1>2, FS_RemoveElement
  <2> QED
    BY <1>2, <1>4, <2>1
<1> QED
  BY <1>4, <1>5 DEF IsList, r

(* push adds one object to the list. *)
LEMMA PushSet ==
  ASSUME NEW m \in Mems, NEW l, NEW X, IsList(m, l, X), NEW p, p \notin X,
         Spaced(X \cup {p})
  PROVE  LET r == push(m, l, p)
         IN  /\ r.mem \in Mems
             /\ IsList(r.mem, r.list, X \cup {p})
             /\ SameOut(m, r.mem, X \cup {p})
             /\ r.list.size = l.size + 1
<1> DEFINE r == push(m, l, p)
           Y == X \cup {p}
<1>1. PICK n \in Nat, t \in Slots, a \in Grids : Stack(m, l, n, t, a) /\ Addrs(n, t, a) = X
  BY DEF IsList
<1>2. IsFiniteSet(X) /\ Cardinality(X) = l.size /\ l.size \in Nat
  BY ListSize
<1>3. p \in Nat /\ p # NULL /\ p \in Heap /\ p \in 0..Data
  BY InRoom, SlotNumbers, HeapWords
<1>4. Spaced(X)
  BY DEF Spaced
<1>5. /\ r.mem \in Mems /\ SameOut(m, r.mem, Y) /\ r.list.size = l.size + 1
      /\ \E n2 \in Nat, t2 \in Slots, a2 \in Grids :
            Stack(r.mem, r.list, n2, t2, a2) /\ Addrs(n2, t2, a2) = Y
  <2>1. CASE t # kBatchSize - 1
    <3>1. /\ n # 0
          /\ r.mem = [m EXCEPT ![a[n][0] + (t + 1)] = p]
          /\ r.list = [head |-> l.head, size |-> l.size + 1]
          /\ Stack(r.mem, r.list, n, t + 1, Put(a, n, t + 1, p))
      BY <1>1, <1>3, <1>4, <2>1, PushSlot
    <3>2. OneMore(n, t, n, t + 1) /\ t + 1 \in Slots
      BY <2>1, <3>1, MoreCells
    <3>3. Put(a, n, t + 1, p) \in Grids /\ Addrs(n, t + 1, Put(a, n, t + 1, p)) = Y
      <4>1. Put(a, n, t + 1, p) \in Grids
        BY <1>3, <3>2, PutIs DEF IsPut
      <4>2. Addrs(n, t + 1, Put(a, n, t + 1, p)) = Addrs(n, t, a) \cup {p}
        BY SMT, <1>3, <3>2, MoreAddrs
      <4> QED
        BY <1>1, <4>1, <4>2
    <3>4. a[n][0] \in Y
      BY <1>1, <3>1, BatchCells, FewerCells
    <3> HIDE DEF r
    <3>5. r.mem \in Mems /\ SameOut(m, r.mem, Y)
      <4> HIDE DEF Y
      <4>1. Spaced(Y)
        BY DEF Y
      <4> QED
        BY SMT, <1>3, <3>1, <3>2, <3>4, <4>1, WriteInRoom
    <3>6. r.list.size = l.size + 1
      BY SMT, <3>1
    <3> QED
      BY <3>1, <3>2, <3>3, <3>5, <3>6
  <2>2. CASE t = kBatchSize - 1
    <3> DEFINE k == n + 1
    <3>1. k \in Nat
      BY SMT
    <3>2. /\ r.mem = [w \in Words |-> IF w = p THEN l.head
                                      ELSE IF w - p \in 1..(kBatchSize - 1) THEN NULL
                                      ELSE m[w]]
          /\ r.list = [head |-> p, size |-> l.size + 1]
          /\ Stack(r.mem, r.list, k, 0, Put(a, k, 0, p))
      BY <1>1, <1>3, <2>2, <3>1, PushBatch
    <3>3. OneMore(n, t, k, 0) /\ 0 \in Slots
      BY <2>2, MoreCells, SlotNumbers
    <3> HIDE DEF k, r
    <3>4. Put(a, k, 0, p) \in Grids /\ Addrs(k, 0, Put(a, k, 0, p)) = Y
      <4>1. Put(a, k, 0, p) \in Grids
        BY <1>3, <3>1, <3>3, PutIs DEF IsPut
      <4>2. Addrs(k, 0, Put(a, k, 0, p)) = Addrs(n, t, a) \cup {p}
        BY SMT, <1>3, <3>1, <3>3, MoreAddrs
      <4> QED
        BY <1>1, <4>1, <4>2
    <3>5. l.head \in 0..Data
      <4>1. l.head = IF n = 0 THEN NULL ELSE a[n][0]
        BY SMT, <1>1 DEF Stack
      <4>2. n # 0 => a[n][0] \in X
        BY <1>1, BatchCells, FewerCells
      <4> QED
        BY <4>1, <4>2, HeapWords DEF Spaced
    <3>6. r.mem \in Mems
      <4>1. \A w \in Words : m[w] \in 0..Data
        BY DEF Mems
      <4> QED
        BY <3>2, <3>5, <4>1, HeapWords DEF Mems
    <3>7. ASSUME NEW w \in Words, w \notin p..(p + kBatchSize - 1) PROVE m[w] = r.mem[w]
      <4>1. w # p /\ w - p \notin 1..(kBatchSize - 1)
        <5>1. w \in Nat
          BY SMT DEF Words
        <5> QED
          BY SMT, <1>3, <3>7, <5>1, BatchSize
      <4> QED
        BY <3>2, <4>1
    <3>8. SameOut(m, r.mem, Y)
      BY <3>7 DEF SameOut
    <3>9. r.list.size = l.size + 1
      BY SMT, <3>2
    <3> QED
      BY <3>1, <3>2, <3>3, <3>4, <3>6, <3>8, <3>9
  <2> QED
    BY <2>1, <2>2
<1> HIDE DEF r
<1>6. IsFiniteSet(Y) /\ Cardinality(Y) = r.list.size
  BY <1>2, <1>5, FS_AddElement
<1> QED
  BY <1>5, <1>6 DEF IsList, r

-----------------------------------------------------------------------------
(* The objects that Entries finds on a list. *)

Links(b, l) ==
    b = [i \in 1..l.size |-> IF i = 1 THEN l.head
                             ELSE IF b[i - 1] = NULL THEN NULL ELSE mem[b[i - 1]]]

(* The batches from the last one on. *)
Batches(l, n, a) == [i \in 1..l.size |-> IF i <= n THEN a[(n + 1) - i][0] ELSE NULL]

(* The batches of a stack are linked as Chain follows them. *)
LEMMA BatchesLink ==
  ASSUME NEW l, NEW n \in Nat, NEW t \in Slots, NEW a \in Grids, Stack(mem, l, n, t, a),
         l.size \in Nat, n = 0 <=> l.size = 0
  PROVE  Links(Batches(l, n, a), l)
<1> DEFINE b == Batches(l, n, a)
<1> SUFFICES ASSUME NEW i \in 1..l.size
             PROVE  b[i] = IF i = 1 THEN l.head
                           ELSE IF b[i - 1] = NULL THEN NULL ELSE mem[b[i - 1]]
  BY DEF Links, Batches
<1>0. b[i] = IF i <= n THEN a[(n + 1) - i][0] ELSE NULL
  BY DEF Batches
<1>1. /\ l = [head |-> IF n = 0 THEN NULL ELSE a[n][0],
              size |-> n * kBatchSize + t + 1 - kBatchSize]
      /\ Filled(mem, n, t, a) /\ Distinct(n, t, a)
  BY DEF Stack
<1>2. CASE i = 1
  <2>1. n # 0 /\ i <= n /\ (n + 1) - i = n
    BY SMT, <1>2
  <2>2. l.head = a[n][0]
    BY SMT, <1>1, <2>1
  <2> QED
    BY <1>0, <1>2, <2>1, <2>2
<1>3. CASE i # 1 /\ i - 1 <= n
  <2>1. PICK k \in Nat : k = (n + 1) - (i - 1)
    BY SMT, <1>3
  <2>2. k \in 1..n /\ i - 1 \in 1..l.size /\ (k = 1 <=> ~(i <= n)) /\ (n + 1) - i = k - 1
    BY SMT, <1>3, <2>1
  <2>3. b[i - 1] = a[k][0]
    BY <1>3, <2>1, <2>2 DEF Batches
  <2>4. a[k][0] # NULL
    BY <1>1, <2>2, BatchCells, SlotNumbers DEF Distinct
  <2>5. mem[a[k][0]] = Content(n, t, a, k, 0)
    <3>1. a[k][0] + 0 = a[k][0]
      <4>1. a[k][0] \in Nat
        BY <2>2, BatchCells, SlotNumbers
      <4> QED
        BY SMT, <4>1
    <3>2. mem[a[k][0] + 0] = Content(n, t, a, k, 0)
      BY <1>1, <2>2, SlotNumbers DEF Filled
    <3> QED
      BY <3>1, <3>2
  <2>6. Content(n, t, a, k, 0) = IF k = 1 THEN NULL ELSE a[k - 1][0]
    BY DEF Content
  <2> QED
    BY <1>0, <1>3, <2>2, <2>3, <2>4, <2>5, <2>6
<1>4. CASE i # 1 /\ ~(i - 1 <= n)
  <2>1. ~(i <= n) /\ i - 1 \in 1..l.size
    BY SMT, <1>4
  <2>2. b[i - 1] = NULL
    BY <1>4, <2>1 DEF Batches
  <2> QED
    BY <1>0, <1>4, <2>1, <2>2
<1> QED
  BY <1>2, <1>3, <1>4

(* Chain is the only function that follows the links. *)
LEMMA ChainIs ==
  ASSUME NEW l, l.size \in Nat, NEW b, Links(b, l)
  PROVE  Chain(l) = b
<1> DEFINE d == Chain(l)
<1>1. Links(d, l)
  BY DEF Chain, Links
<1> HIDE DEF d
<1> DEFINE Bad == {i \in 1..l.size : d[i] # b[i]}
<1>2. Bad = {}
  <2> SUFFICES ASSUME Bad # {} PROVE FALSE
    OBVIOUS
  <2>1. Bad \in SUBSET Nat
    BY SMT
  <2>2. PICK k \in Bad : \A x \in Bad : k <= x
    BY <2>1, LeastNat
  <2>3. k \in 1..l.size /\ d[k] # b[k]
    BY <2>2
  <2>4. k # 1
    BY <1>1, <2>3 DEF Links
  <2>5. k - 1 \in 1..l.size /\ ~(k <= k - 1)
    BY SMT, <2>3, <2>4
  <2>6. d[k - 1] = b[k - 1]
    BY <2>2, <2>5
  <2>7. d[k] = IF d[k - 1] = NULL THEN NULL ELSE mem[d[k - 1]]
    BY <1>1, <2>3, <2>4 DEF Links
  <2>8. b[k] = IF b[k - 1] = NULL THEN NULL ELSE mem[b[k - 1]]
    BY <2>3, <2>4 DEF Links
  <2> QED
    BY <2>3, <2>6, <2>7, <2>8
<1>3. \A i \in 1..l.size : d[i] = b[i]
  BY <1>2
<1>4. d = [i \in 1..l.size |-> d[i]] /\ b = [i \in 1..l.size |-> b[i]]
  BY <1>1 DEF Links
<1> QED
  BY <1>3, <1>4 DEF d

(* Every object of a list is one entry, and there are no others. *)
LEMMA EntriesOfList ==
  ASSUME NEW l, NEW X, IsList(mem, l, X)
  PROVE  /\ \A e \in Entries(l) : e[3] \in X
         /\ \A x \in X : \E e \in Entries(l) : e[3] = x
         /\ \A e, f \in Entries(l) : e[3] = f[3] => e = f
<1>1. PICK n \in Nat, t \in Slots, a \in Grids : Stack(mem, l, n, t, a) /\ Addrs(n, t, a) = X
  BY DEF IsList
<1>2. l.size \in Nat /\ (n = 0 <=> l.size = 0)
  BY <1>1, ListSize
<1>3. n <= l.size
  <2>1. l.size = n * kBatchSize + t + 1 - kBatchSize
    BY SMT, <1>1 DEF Stack
  <2>2. n # 0 => n * kBatchSize = (n - 1) * kBatchSize + kBatchSize
                 /\ n - 1 <= (n - 1) * kBatchSize /\ (n - 1) * kBatchSize \in Nat
    BY SMT, BatchSize
  <2> QED
    BY SMT, <1>2, <2>1, <2>2, BatchSize, SlotNumbers
<1>4. Filled(mem, n, t, a) /\ Distinct(n, t, a)
  BY <1>1 DEF Stack
<1> DEFINE b == Chain(l)
           at(i, j) == IF j = 0 THEN b[i] ELSE mem[b[i] + j]
           P == {p \in (1..l.size) \X Slots : b[p[1]] # NULL /\ at(p[1], p[2]) # NULL}
<1>5. b = Batches(l, n, a)
  BY <1>1, <1>2, BatchesLink, ChainIs
<1>6. Entries(l) = {<<e[1], e[2], at(e[1], e[2])>> : e \in P}
  BY DEF Entries, Slots
<1> HIDE DEF b
<1>7. ASSUME NEW i \in 1..l.size, NEW j \in Slots
      PROVE  /\ b[i] # NULL /\ at(i, j) # NULL <=> i <= n /\ Cell(n, t, (n + 1) - i, j)
             /\ i <= n /\ Cell(n, t, (n + 1) - i, j) => at(i, j) = a[(n + 1) - i][j]
  <2>1. b[i] = IF i <= n THEN a[(n + 1) - i][0] ELSE NULL
    BY <1>5 DEF Batches
  <2>2. CASE i <= n
    <3>1. PICK k \in 1..n : k = (n + 1) - i
      BY SMT, <2>2
    <3>2. b[i] = a[k][0] /\ a[k][0] # NULL /\ Cell(n, t, k, 0)
      BY ZenonT(30), <1>4, <2>1, <2>2, <3>1, BatchCells, SlotNumbers DEF Distinct
    <3>3. j # 0 => mem[a[k][0] + j] = IF Cell(n, t, k, j) THEN a[k][j] ELSE NULL
      BY <1>4 DEF Filled, Content
    <3>4. Cell(n, t, k, j) => a[k][j] # NULL
      BY <1>4 DEF Distinct
    <3> QED
      BY <2>2, <3>1, <3>2, <3>3, <3>4
  <2> QED
    BY <2>1, <2>2
<1> HIDE DEF at
<1>8. ASSUME NEW e \in Entries(l)
      PROVE  \E i \in 1..n, k \in 1..n, j \in Slots :
                k = (n + 1) - i /\ Cell(n, t, k, j) /\ e = <<i, j, a[k][j]>>
  <2>1. PICK p \in P : e = <<p[1], p[2], at(p[1], p[2])>>
    BY <1>6
  <2>2. PICK i \in 1..l.size, j \in Slots : p[1] = i /\ p[2] = j
    BY SMT, <2>1
  <2>3. b[i] # NULL /\ at(i, j) # NULL
    BY <2>1, <2>2
  <2>4. i <= n /\ Cell(n, t, (n + 1) - i, j) /\ at(i, j) = a[(n + 1) - i][j]
    BY <1>7, <2>3
  <2>5. i \in 1..n /\ (n + 1) - i \in 1..n
    BY SMT, <2>4
  <2> QED
    BY <2>1, <2>2, <2>4, <2>5
<1>9. ASSUME NEW e \in Entries(l) PROVE e[3] \in X
  <2>1. PICK k \in 1..n, j \in Slots : Cell(n, t, k, j) /\ e[3] = a[k][j]
    BY SMT, <1>8
  <2>2. a[k][j] \in Nat
    BY BatchCells
  <2>3. a[k][j] \in Addrs(n, t, a)
    BY <2>1, <2>2 DEF Addrs
  <2> QED
    BY <1>1, <2>1, <2>3
<1>10. ASSUME NEW x \in X PROVE \E e \in Entries(l) : e[3] = x
  <2>1. PICK k \in 1..n, j \in Slots : Cell(n, t, k, j) /\ x = a[k][j]
    BY <1>1 DEF Addrs
  <2>2. PICK i \in 1..l.size : i <= n /\ k = (n + 1) - i
    <3>1. (n + 1) - k \in 1..l.size /\ (n + 1) - k <= n /\ k = (n + 1) - ((n + 1) - k)
      BY SMT, <1>2, <1>3
    <3> QED
      BY <3>1
  <2>3. b[i] # NULL /\ at(i, j) # NULL /\ at(i, j) = x
    BY <1>7, <2>1, <2>2
  <2>4. <<i, j>> \in (1..l.size) \X Slots /\ <<i, j>>[1] = i /\ <<i, j>>[2] = j
    BY SMT
  <2>5. <<i, j>> \in P
    BY <2>3, <2>4
  <2>6. <<i, j, at(i, j)>> \in Entries(l)
    BY <1>6, <2>4, <2>5
  <2>7. <<i, j, at(i, j)>>[3] = at(i, j)
    BY SMT
  <2> QED
    BY <2>3, <2>6, <2>7
<1>11. ASSUME NEW e \in Entries(l), NEW f \in Entries(l), e[3] = f[3] PROVE e = f
  <2>1. PICK i1 \in 1..n, k1 \in 1..n, j1 \in Slots :
           k1 = (n + 1) - i1 /\ Cell(n, t, k1, j1) /\ e = <<i1, j1, a[k1][j1]>>
    BY <1>8
  <2>2. PICK i2 \in 1..n, k2 \in 1..n, j2 \in Slots :
           k2 = (n + 1) - i2 /\ Cell(n, t, k2, j2) /\ f = <<i2, j2, a[k2][j2]>>
    BY <1>8
  <2>3. a[k1][j1] = a[k2][j2]
    BY SMT, <1>11, <2>1, <2>2
  <2>4. k1 = k2 /\ j1 = j2
    BY <1>4, <2>1, <2>2, <2>3 DEF Distinct
  <2>5. i1 = i2
    BY SMT, <2>1, <2>2, <2>4
  <2> QED
    BY <2>1, <2>2, <2>4, <2>5
<1> QED
  BY <1>9, <1>10, <1>11

-----------------------------------------------------------------------------
(* The heap as a tiling.  Its objects A have the classes sh; an object is on *)
(* the list of the owner at says, or it is out: the program's.               *)

Out == CHOOSE x : x \notin Owners

Lists == [head : Heap \cup {NULL}, size : Nat]

Heaps == [mem : Mems, cur : 1..(HeapSize + 1), lists : [Owners -> [Shifts -> Lists]]]

End(sh, a) == a + get_slab_size(sh[a])

Tiles(top, A, sh) ==
    /\ A \subseteq Heap /\ sh \in [Heap -> Nat] /\ top \in 1..(HeapSize + 1)
    /\ \A a \in A : sh[a] \in Shifts /\ End(sh, a) <= top
    /\ \A a, b \in A : a # b => End(sh, a) <= b \/ End(sh, b) <= a
    /\ \A w \in 1..(top - 1) : \E a \in A : a <= w /\ w < End(sh, a)

On(A, sh, at, o, s) == {a \in A : sh[a] = s /\ at[a] = o}

Outs(A, at) == {a \in A : at[a] = Out}

Good(h, A, sh, at) ==
    /\ h \in Heaps
    /\ Tiles(h.cur, A, sh)
    /\ at \in [Heap -> Owners \cup {Out}]
    /\ \A o \in Owners, s \in Shifts : IsList(h.mem, h.lists[o][s], On(A, sh, at, o, s))

(* The objects R, and what is not the heap's, are as they were. *)
Kept(m1, m2, sh, R) ==
    /\ \A a \in R, w \in Words : a <= w /\ w < End(sh, a) => m1[w] = m2[w]
    /\ \A w \in Words : w \notin Heap => m1[w] = m2[w]

(* Out is no owner. *)
LEMMA OutIsNew == Out \notin Owners
BY NoSetContainsEverything DEF Out

(* Objects are apart, with room for a batch each. *)
LEMMA TilesSpaced ==
  ASSUME NEW top, NEW A, NEW sh, Tiles(top, A, sh)
  PROVE  /\ Spaced(A)
         /\ \A a \in A : /\ a \in Nat /\ a \in Heap /\ sh[a] \in Shifts /\ End(sh, a) \in Nat
                         /\ End(sh, a) = a + (Shl(sh[a]) + 1) /\ Shl(sh[a]) \in Nat
                         /\ a + kBatchSize <= End(sh, a) /\ End(sh, a) <= top
<1>1. ASSUME NEW a \in A
      PROVE  /\ a \in Nat /\ a \in Heap /\ sh[a] \in Shifts /\ End(sh, a) \in Nat
             /\ End(sh, a) = a + (Shl(sh[a]) + 1) /\ Shl(sh[a]) \in Nat
             /\ a + kBatchSize <= End(sh, a) /\ End(sh, a) <= top
  <2>1. a \in Heap /\ a \in Nat /\ sh[a] \in Shifts /\ End(sh, a) <= top
    BY HeapWords DEF Tiles
  <2>2. /\ get_slab_size(sh[a]) \in Nat /\ kBatchSize <= get_slab_size(sh[a])
        /\ get_slab_size(sh[a]) = Shl(sh[a]) + 1 /\ Shl(sh[a]) \in Nat
    BY <2>1, SlabSize
  <2> QED
    BY SMT, <2>1, <2>2, BatchSize DEF End
<1>2. top \in 1..(HeapSize + 1) /\ HeapSize \in Nat
  BY SlabAssumption DEF Tiles
<1>3. ASSUME NEW a \in A PROVE a + kBatchSize - 1 \in Heap
  BY SMT, <1>1, <1>2, BatchSize DEF Heap
<1>4. ASSUME NEW a \in A, NEW b \in A, a # b PROVE a + kBatchSize <= b \/ b + kBatchSize <= a
  <2>1. End(sh, a) <= b \/ End(sh, b) <= a
    BY <1>4 DEF Tiles
  <2> QED
    BY SMT, <1>1, <2>1, BatchSize
<1> QED
  BY <1>1, <1>3, <1>4 DEF Spaced, Tiles

(* Objects that do not overlap are still apart when there are fewer. *)
LEMMA SubsetSpaced == ASSUME NEW A, Spaced(A), NEW X \in SUBSET A PROVE Spaced(X)
BY DEF Spaced

(* What is written in the room of some objects is outside the others. *)
LEMMA OutKept ==
  ASSUME NEW top, NEW A, NEW sh, Tiles(top, A, sh), NEW Y \in SUBSET A, NEW R \in SUBSET A,
         Y \cap R = {}, NEW m1, NEW m2, SameOut(m1, m2, Y)
  PROVE  Kept(m1, m2, sh, R)
<1>1. ASSUME NEW w \in Words, NEW y \in Y, w \in y..(y + kBatchSize - 1)
      PROVE  y <= w /\ w < End(sh, y) /\ w \in Nat /\ y \in Nat /\ End(sh, y) \in Nat /\ w \in Heap
  <2>1. w \in Nat
    BY SMT DEF Words
  <2>2. y \in Nat /\ End(sh, y) \in Nat /\ y + kBatchSize <= End(sh, y) /\ y \in Heap
        /\ y + kBatchSize - 1 \in Heap
    BY TilesSpaced DEF Spaced
  <2>3. w \in Heap
    BY SMT, <1>1, <2>1, <2>2, BatchSize, SlabAssumption DEF Heap
  <2> QED
    BY SMT, <1>1, <2>1, <2>2, <2>3, BatchSize
<1>2. ASSUME NEW w \in Words, w \notin Heap PROVE m1[w] = m2[w]
  BY <1>1, <1>2 DEF SameOut
<1>3. ASSUME NEW w \in Words, NEW a \in R, a <= w, w < End(sh, a) PROVE m1[w] = m2[w]
  <2>1. ASSUME NEW y \in Y, w \in y..(y + kBatchSize - 1) PROVE FALSE
    <3>1. a # y /\ a \in A /\ y \in A
      OBVIOUS
    <3>2. End(sh, a) <= y \/ End(sh, y) <= a
      BY <3>1 DEF Tiles
    <3>3. y <= w /\ w < End(sh, y) /\ w \in Nat /\ y \in Nat /\ End(sh, y) \in Nat
      BY <1>1, <2>1
    <3>4. a \in Nat /\ End(sh, a) \in Nat
      BY TilesSpaced
    <3> QED
      BY SMT, <1>3, <3>2, <3>3, <3>4
  <2> QED
    BY <2>1 DEF SameOut
<1> QED
  BY <1>2, <1>3 DEF Kept

(* A list of the heap has a head in the heap, or none, and a size. *)
LEMMA ListType ==
  ASSUME NEW m, NEW l, NEW X, IsList(m, l, X), Spaced(X)
  PROVE  l \in Lists
<1>1. PICK n \in Nat, t \in Slots, a \in Grids : Stack(m, l, n, t, a) /\ Addrs(n, t, a) = X
  BY DEF IsList
<1>2. l.size \in Nat
  BY ListSize
<1>3. l = [head |-> IF n = 0 THEN NULL ELSE a[n][0],
           size |-> n * kBatchSize + t + 1 - kBatchSize]
  BY <1>1 DEF Stack
<1>4. n # 0 => a[n][0] \in Heap
  BY <1>1, BatchCells, FewerCells DEF Spaced
<1> QED
  BY SMT, <1>2, <1>3, <1>4 DEF Lists

(* A heap with another memory and another list. *)
Relist(h, m, o, s, l) == [h EXCEPT !.mem = m, !.lists[o][s] = l]

IsRelist(g, h, m, o, s, l) ==
    /\ g \in Heaps /\ g.mem = m /\ g.cur = h.cur /\ g.lists[o][s] = l
    /\ \A p \in Owners, u \in Shifts : ~(p = o /\ u = s) => g.lists[p][u] = h.lists[p][u]

(* The heap with one list replaced is as IsRelist says. *)
LEMMA RelistIs ==
  ASSUME NEW h \in Heaps, NEW m \in Mems, NEW o \in Owners, NEW s \in Shifts, NEW l \in Lists
  PROVE  IsRelist(Relist(h, m, o, s, l), h, m, o, s, l)
BY DEF Heaps, Relist, IsRelist

(* One object p comes to the list of o or leaves it. *)
LEMMA OneList ==
  ASSUME NEW h, NEW A, NEW sh, NEW at, Good(h, A, sh, at),
         NEW o \in Owners, NEW s \in Shifts, NEW p \in A, sh[p] = s,
         NEW q, {at[p], q} = {o, Out},
         NEW m \in Mems, NEW l, IsList(m, l, On(A, sh, [at EXCEPT ![p] = q], o, s)),
         SameOut(h.mem, m, On(A, sh, at, o, s) \cup {p})
  PROVE  /\ Good(Relist(h, m, o, s, l), A, sh, [at EXCEPT ![p] = q])
         /\ IsRelist(Relist(h, m, o, s, l), h, m, o, s, l)
         /\ Kept(h.mem, m, sh, Outs(A, at) \ {p})
<1> DEFINE at2 == [at EXCEPT ![p] = q]
           g == Relist(h, m, o, s, l)
           Y == On(A, sh, at, o, s) \cup {p}
<1>1. /\ h \in Heaps /\ Tiles(h.cur, A, sh) /\ at \in [Heap -> Owners \cup {Out}]
      /\ A \subseteq Heap /\ Out # o
  BY OutIsNew DEF Good, Tiles
<1>2. /\ at2 \in [Heap -> Owners \cup {Out}] /\ at2[p] = q
      /\ \A a \in A : a # p => at2[a] = at[a]
  <2>1. p \in Heap /\ q \in Owners \cup {Out} /\ \A a \in A : a \in Heap
    BY <1>1
  <2> QED
    BY SMT, <1>1, <2>1
<1>3. Spaced(A) /\ \A u \in Shifts, x \in Owners : On(A, sh, at2, x, u) \subseteq A
  BY <1>1, TilesSpaced DEF On
<1> HIDE DEF at2
<1>4. l \in Lists
  <2>1. Spaced(On(A, sh, at2, o, s))
    BY <1>3, SubsetSpaced
  <2> QED
    BY <2>1, ListType DEF at2
<1>r. IsRelist(g, h, m, o, s, l)
  BY <1>1, <1>4, RelistIs
<1> HIDE DEF g
<1>5. /\ g \in Heaps /\ g.mem = m /\ g.cur = h.cur /\ g.lists[o][s] = l
      /\ \A x \in Owners, u \in Shifts :
            ~(x = o /\ u = s) => g.lists[x][u] = h.lists[x][u]
  BY <1>r DEF IsRelist
<1>6. ASSUME NEW x \in Owners, NEW u \in Shifts
      PROVE  IsList(g.mem, g.lists[x][u], On(A, sh, at2, x, u))
  <2>1. CASE x = o /\ u = s
    BY <1>5, <2>1 DEF at2
  <2>2. CASE ~(x = o /\ u = s)
    <3>1. p \notin On(A, sh, at, x, u) /\ p \notin On(A, sh, at2, x, u)
      <4>1. x # o => at[p] # x /\ at2[p] # x
        BY <1>2, OutIsNew
      <4> QED
        BY <2>2, <4>1 DEF On
    <3>2. \A a \in A : a \in On(A, sh, at2, x, u) <=> a \in On(A, sh, at, x, u)
      BY <1>2, <3>1 DEF On
    <3>3. On(A, sh, at2, x, u) = On(A, sh, at, x, u)
      BY <3>2 DEF On
    <3>4. On(A, sh, at, x, u) \cap Y = {}
      BY <2>2, <3>1 DEF On
    <3>5. IsList(h.mem, h.lists[x][u], On(A, sh, at, x, u))
      BY DEF Good
    <3>6. SameIn(h.mem, m, On(A, sh, at, x, u))
      <4>1. On(A, sh, at, x, u) \subseteq A /\ Y \subseteq A
        BY DEF On
      <4> HIDE DEF Y
      <4>2. SameOut(h.mem, m, Y)
        BY DEF Y
      <4> QED
        BY <1>3, <3>4, <4>1, <4>2, OutIsIn
    <3> QED
      BY <1>5, <2>2, <3>3, <3>5, <3>6, ListFrame
  <2> QED
    BY <2>1, <2>2
<1>7. Kept(h.mem, m, sh, Outs(A, at) \ {p})
  <2>1. Y \in SUBSET A /\ Outs(A, at) \ {p} \in SUBSET A /\ Y \cap (Outs(A, at) \ {p}) = {}
    BY <1>1 DEF On, Outs
  <2>2. SameOut(h.mem, m, Y)
    OBVIOUS
  <2> HIDE DEF Y
  <2> QED
    BY <1>1, <2>1, <2>2, OutKept
<1> QED
  BY <1>1, <1>2, <1>r, <1>5, <1>6, <1>7 DEF Good, at2, g

(* The head of a list goes out: g is the heap then, and b says where they are. *)
Popped(h, A, sh, at, o, s, r, g, b) ==
    /\ r.ptr \in A /\ sh[r.ptr] = s /\ at[r.ptr] = o
    /\ Good(g, A, sh, b) /\ IsRelist(g, h, r.mem, o, s, r.list)
    /\ Outs(A, b) = Outs(A, at) \cup {r.ptr}
    /\ Kept(h.mem, r.mem, sh, Outs(A, at))
    /\ r.list.size = h.lists[o][s].size - 1

(* A pop from a list of the heap leaves a tiling: the object is out. *)
LEMMA PopKeeps ==
  ASSUME NEW h, NEW A, NEW sh, NEW at, Good(h, A, sh, at),
         NEW o \in Owners, NEW s \in Shifts, h.lists[o][s].size # 0,
         NEW r, r = pop(h.mem, h.lists[o][s])
  PROVE  Popped(h, A, sh, at, o, s, r, Relist(h, r.mem, o, s, r.list),
                [at EXCEPT ![r.ptr] = Out])
<1> DEFINE X == On(A, sh, at, o, s)
           p == r.ptr
           at2 == [at EXCEPT ![p] = Out]
<1>1. /\ h \in Heaps /\ Tiles(h.cur, A, sh) /\ at \in [Heap -> Owners \cup {Out}]
      /\ IsList(h.mem, h.lists[o][s], X) /\ A \subseteq Heap
  BY DEF Good, Tiles
<1>2. h.mem \in Mems
  BY SMT, <1>1 DEF Heaps
<1>3. Spaced(X) /\ X \subseteq A
  BY <1>1, TilesSpaced, SubsetSpaced DEF On
<1> HIDE DEF X
<1>4. /\ p \in X /\ r.mem \in Mems /\ IsList(r.mem, r.list, X \ {p})
      /\ SameOut(h.mem, r.mem, X) /\ r.list.size = h.lists[o][s].size - 1
  <2> HIDE DEF p
  <2> QED
    BY <1>1, <1>2, <1>3, PopSet DEF p
<1>5. p \in A /\ sh[p] = s /\ at[p] = o
  BY <1>4 DEF X, On
<1> HIDE DEF p
<1>6. at2[p] = Out /\ \A a \in A : a # p => at2[a] = at[a]
  <2>1. \A a \in A : a \in Heap
    BY <1>1
  <2> QED
    BY <1>1, <1>5, <2>1
<1> HIDE DEF at2
<1>7. On(A, sh, at2, o, s) = X \ {p}
  <2>1. ASSUME NEW a \in A PROVE a \in On(A, sh, at2, o, s) <=> a \in X /\ a # p
    BY <1>6, OutIsNew DEF X, On
  <2>2. On(A, sh, at2, o, s) \subseteq A /\ X \subseteq A
    BY <1>3 DEF On
  <2> QED
    BY <2>1, <2>2
<1>8. X \cup {p} = X /\ {at[p], Out} = {o, Out}
  BY <1>4, <1>5
<1>9. /\ Good(Relist(h, r.mem, o, s, r.list), A, sh, at2)
      /\ IsRelist(Relist(h, r.mem, o, s, r.list), h, r.mem, o, s, r.list)
      /\ Kept(h.mem, r.mem, sh, Outs(A, at) \ {p})
  <2>1. IsList(r.mem, r.list, On(A, sh, [at EXCEPT ![p] = Out], o, s))
    BY <1>4, <1>7 DEF at2
  <2>2. SameOut(h.mem, r.mem, On(A, sh, at, o, s) \cup {p})
    BY <1>4, <1>8 DEF X
  <2> QED
    BY <1>4, <1>5, <1>8, <2>1, <2>2, OneList DEF at2
<1>10. Outs(A, at) \ {p} = Outs(A, at)
  BY <1>5, OutIsNew DEF Outs
<1>11. Outs(A, at2) = Outs(A, at) \cup {p}
  <2>1. ASSUME NEW a \in A PROVE a \in Outs(A, at2) <=> a \in Outs(A, at) \/ a = p
    BY <1>6 DEF Outs
  <2>2. Outs(A, at2) \subseteq A /\ Outs(A, at) \subseteq A
    BY DEF Outs
  <2> QED
    BY <1>5, <2>1, <2>2
<1> QED
  BY <1>4, <1>5, <1>9, <1>10, <1>11 DEF at2, p, Popped

(* What is out goes on a list. *)
Pushed(h, A, sh, at, o, s, p, r, g, b) ==
    /\ Good(g, A, sh, b) /\ IsRelist(g, h, r.mem, o, s, r.list)
    /\ Outs(A, b) = Outs(A, at) \ {p}
    /\ Kept(h.mem, r.mem, sh, Outs(A, at) \ {p})
    /\ r.list.size = h.lists[o][s].size + 1

(* A push of an object that is out leaves a tiling: it is on the list. *)
LEMMA PushKeeps ==
  ASSUME NEW h, NEW A, NEW sh, NEW at, Good(h, A, sh, at),
         NEW o \in Owners, NEW s \in Shifts, NEW p \in A, sh[p] = s, at[p] = Out,
         NEW r, r = push(h.mem, h.lists[o][s], p)
  PROVE  Pushed(h, A, sh, at, o, s, p, r, Relist(h, r.mem, o, s, r.list),
                [at EXCEPT ![p] = o])
<1> DEFINE X == On(A, sh, at, o, s)
           at2 == [at EXCEPT ![p] = o]
<1>1. /\ h \in Heaps /\ Tiles(h.cur, A, sh) /\ at \in [Heap -> Owners \cup {Out}]
      /\ IsList(h.mem, h.lists[o][s], X) /\ A \subseteq Heap
  BY DEF Good, Tiles
<1>2. h.mem \in Mems
  BY SMT, <1>1 DEF Heaps
<1>3. p \notin X /\ X \cup {p} \subseteq A
  BY OutIsNew DEF On
<1>4. Spaced(X \cup {p})
  <2>1. Spaced(A)
    BY <1>1, TilesSpaced
  <2> QED
    BY <1>3, <2>1, SubsetSpaced
<1> HIDE DEF X
<1>5. /\ r.mem \in Mems /\ IsList(r.mem, r.list, X \cup {p})
      /\ SameOut(h.mem, r.mem, X \cup {p}) /\ r.list.size = h.lists[o][s].size + 1
  BY SMT, <1>1, <1>2, <1>3, <1>4, PushSet
<1>6. at2[p] = o /\ \A a \in A : a # p => at2[a] = at[a]
  <2>1. \A a \in A : a \in Heap
    BY <1>1
  <2> QED
    BY <1>1, <2>1
<1> HIDE DEF at2
<1>7. On(A, sh, at2, o, s) = X \cup {p}
  <2>1. ASSUME NEW a \in A PROVE a \in On(A, sh, at2, o, s) <=> a \in X \/ a = p
    BY <1>6 DEF X, On
  <2>2. On(A, sh, at2, o, s) \subseteq A /\ X \subseteq A
    BY <1>3 DEF On
  <2> QED
    BY <2>1, <2>2
<1>8. {at[p], o} = {o, Out}
  OBVIOUS
<1>9. /\ Good(Relist(h, r.mem, o, s, r.list), A, sh, at2)
      /\ IsRelist(Relist(h, r.mem, o, s, r.list), h, r.mem, o, s, r.list)
      /\ Kept(h.mem, r.mem, sh, Outs(A, at) \ {p})
  <2>1. IsList(r.mem, r.list, On(A, sh, [at EXCEPT ![p] = o], o, s))
    BY <1>5, <1>7 DEF at2
  <2>2. SameOut(h.mem, r.mem, On(A, sh, at, o, s) \cup {p})
    BY <1>5 DEF X
  <2> QED
    BY <1>5, <1>8, <2>1, <2>2, OneList DEF at2
<1>10. Outs(A, at2) = Outs(A, at) \ {p}
  <2>1. ASSUME NEW a \in A PROVE a \in Outs(A, at2) <=> a \in Outs(A, at) /\ a # p
    BY <1>6, OutIsNew DEF Outs
  <2>2. Outs(A, at2) \subseteq A /\ Outs(A, at) \subseteq A
    BY DEF Outs
  <2> QED
    BY <2>1, <2>2
<1> QED
  BY <1>5, <1>9, <1>10 DEF at2, Pushed

-----------------------------------------------------------------------------
(* The rounds of the slow path and of the loop that halves a list. *)

(* From a heap with the memory m, in which the objects R of the classes sh   *)
(* are out, the heap h is reached: they still are, and are as they were.     *)
Same(cl, sh, R) == \A a \in R : cl[a] = sh[a]

Reach(m, sh, R, h) ==
    \E A, cl, at : /\ Good(h, A, cl, at) /\ Outs(A, at) = R
                   /\ Same(cl, sh, R) /\ Kept(m, h.mem, sh, R)

(* What two steps keep, one after the other, is kept. *)
LEMMA KeptAgain ==
  ASSUME NEW m1, NEW m2, NEW m3, NEW sh, NEW cl, NEW R, Same(cl, sh, R),
         Kept(m1, m2, sh, R), Kept(m2, m3, cl, R)
  PROVE  Kept(m1, m3, sh, R)
<1>1. \A a \in R : End(cl, a) = End(sh, a)
  BY DEF End, Same
<1> QED
  BY <1>1 DEF Kept

(* An object off the break. *)
LEMMA Grown ==
  ASSUME NEW h, NEW A, NEW sh, NEW at, Good(h, A, sh, at), NEW s \in Shifts,
         h.cur + get_slab_size(s) <= HeapSize + 1,
         NEW p, p = h.cur
  PROVE  /\ Good([h EXCEPT !.cur = @ + get_slab_size(s)], A \cup {p},
                 [sh EXCEPT ![p] = s], [at EXCEPT ![p] = Out])
         /\ p \notin A /\ p \in Heap
<1> DEFINE B == A \cup {p}
           cl == [sh EXCEPT ![p] = s]
           at2 == [at EXCEPT ![p] = Out]
           g == [h EXCEPT !.cur = @ + get_slab_size(s)]
           top == p + get_slab_size(s)
<1>1. /\ h \in Heaps /\ Tiles(p, A, sh) /\ at \in [Heap -> Owners \cup {Out}]
      /\ A \subseteq Heap /\ sh \in [Heap -> Nat] /\ p \in 1..(HeapSize + 1)
  BY DEF Good, Tiles
<1>2. s \in Nat /\ get_slab_size(s) \in Nat /\ kBatchSize <= get_slab_size(s)
  BY SlabSize
<1>3. p \in Heap /\ top \in 1..(HeapSize + 1) /\ p \in Nat /\ p < top /\ top \in Nat
  BY SMTT(30), <1>1, <1>2, BatchSize, SlabAssumption DEF Heap
<1>4. ASSUME NEW a \in A PROVE a < p /\ End(sh, a) <= p /\ a \in Nat /\ a # p /\ End(sh, a) \in Nat
  <2>1. a \in Nat /\ End(sh, a) \in Nat /\ a + kBatchSize <= End(sh, a) /\ End(sh, a) <= p
    BY <1>1, TilesSpaced
  <2> QED
    BY SMT, <1>3, <2>1, BatchSize
<1>5. g \in Heaps /\ g.mem = h.mem /\ g.cur = top /\ g.lists = h.lists
  BY SMT, <1>1, <1>3 DEF Heaps
<1>6. /\ cl \in [Heap -> Nat] /\ cl[p] = s /\ at2 \in [Heap -> Owners \cup {Out}]
      /\ at2[p] = Out
      /\ \A a \in A : cl[a] = sh[a] /\ at2[a] = at[a]
  <2>1. \A a \in A : a # p /\ a \in Heap
    BY <1>1, <1>4
  <2> QED
    BY SMT, <1>1, <1>2, <1>3, <2>1
<1> HIDE DEF g, cl, at2, top
<1>7. End(cl, p) = top /\ \A a \in A : End(cl, a) = End(sh, a)
  BY <1>6 DEF End, top
<1>8. Tiles(top, B, cl)
  <2>1. ASSUME NEW a \in B PROVE cl[a] \in Shifts /\ End(cl, a) <= top /\ a \in Heap
    <3>1. CASE a = p
      <4>1. top <= top
        BY SMT, <1>3
      <4> QED
        BY <1>3, <1>6, <1>7, <3>1, <4>1
    <3>2. CASE a \in A
      <4>1. End(sh, a) <= top
        BY SMT, <1>3, <1>4, <3>2
      <4> QED
        BY <1>1, <1>6, <1>7, <3>2, <4>1 DEF Tiles
    <3> QED
      BY <3>1, <3>2
  <2>2. ASSUME NEW a \in B, NEW b \in B, a # b PROVE End(cl, a) <= b \/ End(cl, b) <= a
    BY <1>1, <1>4, <1>7, <2>2 DEF Tiles
  <2>3. ASSUME NEW w \in 1..(top - 1) PROVE \E a \in B : a <= w /\ w < End(cl, a)
    <3>1. CASE w \in 1..(p - 1)
      <4>1. PICK a \in A : a <= w /\ w < End(sh, a)
        BY <1>1, <3>1 DEF Tiles
      <4> QED
        BY <1>7, <4>1
    <3>2. CASE ~(w \in 1..(p - 1))
      <4>1. p <= w /\ w < top
        BY SMT, <1>3, <3>2
      <4> QED
        BY <1>7, <4>1
    <3> QED
      BY <3>1, <3>2
  <2> QED
    BY <1>3, <1>6, <2>1, <2>2, <2>3 DEF Tiles
<1>9. ASSUME NEW o \in Owners, NEW u \in Shifts
      PROVE  IsList(g.mem, g.lists[o][u], On(B, cl, at2, o, u))
  <2>1. ASSUME NEW a PROVE a \in On(B, cl, at2, o, u) <=> a \in On(A, sh, at, o, u)
    BY <1>6, OutIsNew DEF On
  <2>2. On(B, cl, at2, o, u) = On(A, sh, at, o, u)
    BY <2>1
  <2>3. IsList(h.mem, h.lists[o][u], On(A, sh, at, o, u))
    BY DEF Good
  <2> QED
    BY <1>5, <2>2, <2>3
<1> QED
  BY <1>3, <1>4, <1>5, <1>6, <1>8, <1>9 DEF Good, g, cl, at2

(* The lists but those of the class s that belong to P are the same. *)
Others(g, h, P, s) ==
    \A o \in Owners, u \in Shifts : ~(o \in P /\ u = s) => g.lists[o][u] = h.lists[o][u]

Moved(m, sh, R, h, from, to, s, k) ==
    /\ Reach(m, sh, R, k) /\ Others(k, h, {from, to}, s)
    /\ k.lists[from][s].size = h.lists[from][s].size - 1
    /\ k.lists[to][s].size = h.lists[to][s].size + 1

(* A move from list to list keeps what is out, and changes the sizes by one. *)
LEMMA MoveKeeps ==
  ASSUME NEW m, NEW sh, NEW R, NEW h, Reach(m, sh, R, h),
         NEW from \in Owners, NEW to \in Owners, from # to, NEW s \in Shifts,
         h.lists[from][s].size # 0,
         NEW k, k = Move(h, from, to, s)
  PROVE  Moved(m, sh, R, h, from, to, s, k)
<1>1. PICK A, cl, at : /\ Good(h, A, cl, at) /\ Outs(A, at) = R
                       /\ Same(cl, sh, R) /\ Kept(m, h.mem, sh, R)
  BY DEF Reach
<1>o. PICK out : out = pop(h.mem, h.lists[from][s])
  OBVIOUS
<1>p. PICK p : p = out.ptr
  OBVIOUS
<1>g. PICK g : g = Relist(h, out.mem, from, s, out.list)
  OBVIOUS
<1>i. PICK in : in = push(g.mem, g.lists[to][s], p)
  OBVIOUS
<1>b. PICK b : b = [at EXCEPT ![p] = Out]
  OBVIOUS
<1>2. /\ p \in A /\ cl[p] = s /\ at[p] = from
      /\ Good(g, A, cl, b) /\ IsRelist(g, h, out.mem, from, s, out.list)
      /\ Outs(A, b) = R \cup {p}
      /\ Kept(h.mem, out.mem, cl, R)
      /\ out.list.size = h.lists[from][s].size - 1
  <2>1. Popped(h, A, cl, at, from, s, out, g, b)
    BY <1>1, <1>o, <1>p, <1>g, <1>b, PopKeeps
  <2> QED
    BY <1>1, <1>p, <2>1 DEF Popped
<1>3. p \notin R /\ (R \cup {p}) \ {p} = R
  BY <1>1, <1>2, OutIsNew DEF Outs
<1>4. b[p] = Out
  BY <1>2 DEF Outs
<1>5. /\ Good(Relist(g, in.mem, to, s, in.list), A, cl, [b EXCEPT ![p] = to])
      /\ IsRelist(Relist(g, in.mem, to, s, in.list), g, in.mem, to, s, in.list)
      /\ Outs(A, [b EXCEPT ![p] = to]) = R
      /\ Kept(g.mem, in.mem, cl, R)
      /\ in.list.size = g.lists[to][s].size + 1
  <2>1. Pushed(g, A, cl, b, to, s, p, in, Relist(g, in.mem, to, s, in.list),
               [b EXCEPT ![p] = to])
    BY <1>2, <1>4, <1>i, PushKeeps
  <2> QED
    BY <1>2, <1>3, <2>1 DEF Pushed
<1>6. k = Relist(g, in.mem, to, s, in.list)
  <2>1. h \in Heaps /\ in = push(out.mem, h.lists[to][s], out.ptr)
    BY <1>1, <1>2, <1>p, <1>i DEF Good, IsRelist
  <2>2. k = [h EXCEPT !.mem = in.mem, !.lists[from][s] = out.list, !.lists[to][s] = in.list]
    BY <1>o, <2>1 DEF Move
  <2> QED
    BY <1>g, <2>1, <2>2 DEF Relist, Heaps
<1>7. /\ g.mem = out.mem /\ g.lists[from][s] = out.list
      /\ \A o \in Owners, u \in Shifts : ~(o = from /\ u = s) => g.lists[o][u] = h.lists[o][u]
  BY <1>2 DEF IsRelist
<1>8. /\ k.mem = in.mem /\ k.lists[to][s] = in.list
      /\ \A o \in Owners, u \in Shifts : ~(o = to /\ u = s) => k.lists[o][u] = g.lists[o][u]
  BY <1>5, <1>6 DEF IsRelist
<1>9. Kept(m, k.mem, sh, R)
  <2>1. Kept(m, out.mem, sh, R)
    BY <1>1, <1>2, KeptAgain
  <2> QED
    BY <1>1, <1>5, <1>7, <1>8, <2>1, KeptAgain
<1>10. Reach(m, sh, R, k)
  BY <1>1, <1>5, <1>6, <1>9 DEF Reach
<1>11. Others(k, h, {from, to}, s)
  BY <1>7, <1>8 DEF Others
<1>12. k.lists[from][s] = out.list /\ g.lists[to][s] = h.lists[to][s]
  BY <1>7, <1>8
<1> QED
  BY <1>2, <1>5, <1>8, <1>10, <1>11, <1>12 DEF Moved

(* Carve takes the class's size off the rest of the heap and pushes it. *)
LEMMA CarveIs ==
  ASSUME NEW h \in Heaps, NEW c \in Owners, NEW s \in Shifts,
         h.cur + get_slab_size(s) <= HeapSize + 1,
         NEW g, g = [h EXCEPT !.cur = @ + get_slab_size(s)],
         NEW in, in = push(g.mem, g.lists[c][s], h.cur)
  PROVE  Carve(h, c, s) = Relist(g, in.mem, c, s, in.list) /\ g.mem = h.mem /\ g.lists = h.lists
<1>1. g.mem = h.mem /\ g.lists = h.lists
  BY SMT DEF Heaps
<1>2. Carve(h, c, s)
        = [h EXCEPT !.mem = in.mem, !.lists[c][s] = in.list, !.cur = @ + get_slab_size(s)]
  BY <1>1 DEF Carve
<1> QED
  BY <1>1, <1>2 DEF Relist, Heaps

Carved(m, sh, R, h, c, s, k) ==
    /\ Reach(m, sh, R, k) /\ Others(k, h, {c}, s)
    /\ k.lists[c][s].size = h.lists[c][s].size + 1

(* A carved object is a new tile, on the list of the core. *)
LEMMA CarveKeeps ==
  ASSUME NEW m, NEW sh, NEW R, NEW h, Reach(m, sh, R, h),
         NEW c \in Owners, NEW s \in Shifts, h.cur + get_slab_size(s) <= HeapSize + 1,
         NEW k, k = Carve(h, c, s)
  PROVE  Carved(m, sh, R, h, c, s, k)
<1>1. PICK A, cl, at : /\ Good(h, A, cl, at) /\ Outs(A, at) = R
                       /\ Same(cl, sh, R) /\ Kept(m, h.mem, sh, R)
  BY DEF Reach
<1>p. PICK p : p = h.cur
  OBVIOUS
<1>g. PICK g : g = [h EXCEPT !.cur = @ + get_slab_size(s)]
  OBVIOUS
<1>i. PICK in : in = push(g.mem, g.lists[c][s], p)
  OBVIOUS
<1>B. PICK B : B = A \cup {p}
  OBVIOUS
<1>d. PICK cd : cd = [cl EXCEPT ![p] = s]
  OBVIOUS
<1>b. PICK b : b = [at EXCEPT ![p] = Out]
  OBVIOUS
<1>0. h \in Heaps /\ A \subseteq Heap /\ cl \in [Heap -> Nat] /\ at \in [Heap -> Owners \cup {Out}]
  BY <1>1 DEF Good, Tiles
<1>2. Good(g, B, cd, b) /\ p \notin A /\ p \in Heap
  BY <1>1, <1>p, <1>g, <1>B, <1>d, <1>b, Grown
<1>3. /\ cd[p] = s /\ b[p] = Out /\ p \in B
      /\ \A a \in A : cd[a] = cl[a] /\ b[a] = at[a]
  <2>1. \A a \in A : a # p /\ a \in Heap
    BY <1>0, <1>2
  <2> QED
    BY <1>0, <1>2, <1>B, <1>d, <1>b, <2>1
<1>4. Outs(B, b) \ {p} = R /\ R \subseteq A
  BY <1>1, <1>2, <1>3, <1>B DEF Outs
<1>5. /\ Good(Relist(g, in.mem, c, s, in.list), B, cd, [b EXCEPT ![p] = c])
      /\ IsRelist(Relist(g, in.mem, c, s, in.list), g, in.mem, c, s, in.list)
      /\ Outs(B, [b EXCEPT ![p] = c]) = R
      /\ Kept(g.mem, in.mem, cd, R)
      /\ in.list.size = g.lists[c][s].size + 1
  <2>1. Pushed(g, B, cd, b, c, s, p, in, Relist(g, in.mem, c, s, in.list),
               [b EXCEPT ![p] = c])
    BY <1>2, <1>3, <1>i, PushKeeps
  <2> QED
    BY <1>4, <2>1 DEF Pushed
<1>6. k = Relist(g, in.mem, c, s, in.list) /\ g.mem = h.mem /\ g.lists = h.lists
  BY SMT, <1>0, <1>g, <1>i, <1>p, CarveIs
<1>7. /\ k.mem = in.mem /\ k.lists[c][s] = in.list
      /\ \A o \in Owners, u \in Shifts : ~(o = c /\ u = s) => k.lists[o][u] = g.lists[o][u]
  BY <1>5, <1>6 DEF IsRelist
<1>8. Same(cd, sh, R)
  BY <1>1, <1>3, <1>4 DEF Same
<1>9. Kept(m, k.mem, sh, R)
  BY <1>1, <1>5, <1>6, <1>7, <1>8, KeptAgain
<1>10. Reach(m, sh, R, k)
  BY <1>5, <1>6, <1>8, <1>9 DEF Reach
<1>11. Others(k, h, {c}, s)
  BY <1>6, <1>7 DEF Others
<1> QED
  BY <1>5, <1>6, <1>7, <1>10, <1>11 DEF Carved

(* The bounds of the lists. *)
LEMMA MaxEntries ==
  ASSUME NEW s \in Shifts
  PROVE  /\ get_max_num_cache_entries(s) \in Nat
         /\ Wanted(s) \in Nat /\ Wanted(s) # 0 /\ get_max_num_cache_entries(s) <= Wanted(s)
         /\ Wanted(s) - 1 <= get_max_num_cache_entries(s)
<1> DEFINE a == kMaxCacheEntries
           b == kMaxCacheSizeBytes \div Shl(s)
           e == get_max_num_cache_entries(s)
<1>1. a \in Nat /\ b \in Nat
  <2>1. Shl(s) \in Nat /\ s < Shl(s) /\ s \in Nat
    BY SlabSize, ShlNat
  <2> QED
    BY SMT, <2>1, SlabAssumption
<1> HIDE DEF a, b
<1>2. e \in Nat
  <2>1. e = Min({a, b})
    BY DEF get_max_num_cache_entries, a, b
  <2>2. CASE a <= b
    <3>1. {a, b} \in SUBSET Int /\ \A x \in {a, b} : a <= x
      BY SMT, <1>1, <2>2
    <3> QED
      BY <1>1, <2>1, <3>1, MinIs
  <2>3. CASE ~(a <= b)
    <3>1. {a, b} \in SUBSET Int /\ \A x \in {a, b} : b <= x
      BY SMT, <1>1, <2>3
    <3> QED
      BY <1>1, <2>1, <3>1, MinIs
  <2> QED
    BY <2>2, <2>3
<1> HIDE DEF e
<1>3. Wanted(s) = Max({1, e})
  BY DEF Wanted, e
<1>4. CASE e = 0
  <2>1. {1, e} \in SUBSET Int /\ \A x \in {1, e} : 1 >= x
    BY SMT, <1>4
  <2>2. Wanted(s) = 1
    BY <1>3, <2>1, MaxIs
  <2> QED
    BY SMT, <1>4, <2>2 DEF e
<1>5. CASE e # 0
  <2>1. {1, e} \in SUBSET Int /\ \A x \in {1, e} : e >= x
    BY SMT, <1>2, <1>5
  <2>2. Wanted(s) = e
    BY <1>3, <2>1, MaxIs
  <2> QED
    BY SMT, <1>2, <1>5, <2>2 DEF e
<1> QED
  BY <1>4, <1>5

Bounded(h, c, s, n) ==
    /\ h.lists[c][s].size <= n
    /\ \A o \in Cores, u \in Shifts :
          ~(o = c /\ u = s) => h.lists[o][u].size <= get_max_num_cache_entries(u)

(* A heap in the middle of an operation of the core c on the class s. *)
Going(m, sh, R, c, s, n, h) == Reach(m, sh, R, h) /\ Bounded(h, c, s, n)

(* A heap that is reached has the types of a heap. *)
LEMMA ReachHeap ==
  ASSUME NEW m, NEW sh, NEW R, NEW h, Reach(m, sh, R, h)
  PROVE  /\ h \in Heaps /\ h.mem \in Mems /\ h.cur \in Nat
         /\ \A o \in Owners, s \in Shifts : h.lists[o][s].size \in Nat
<1>1. h \in Heaps
  BY DEF Reach, Good
<1>2. \A o \in Owners, s \in Shifts : h.lists[o][s] \in Lists
  BY SMT, <1>1 DEF Heaps
<1> QED
  BY SMT, <1>1, <1>2, SlabAssumption DEF Heaps, Lists

(* The slabs and the cores own lists. *)
LEMMA CoresOwn == Global \in Owners /\ \A c \in Cores : c \in Owners /\ c # Global
BY SlabAssumption DEF Owners

(* A round of the slow path keeps what is out and stays within the wanted size. *)
LEMMA FillKeeps ==
  ASSUME NEW m, NEW sh, NEW R, NEW h, NEW c \in Cores, NEW s \in Shifts,
         Going(m, sh, R, c, s, Wanted(s), h)
  PROVE  Going(m, sh, R, c, s, Wanted(s), FillOne(h, c, s))
<1> DEFINE z == h.lists[c][s].size
<1>1. Reach(m, sh, R, h) /\ Bounded(h, c, s, Wanted(s))
  BY DEF Going
<1>2. /\ c \in Owners /\ Global \in Owners /\ c # Global
      /\ z \in Nat /\ h.lists[Global][s].size \in Nat /\ Wanted(s) \in Nat
  BY <1>1, CoresOwn, ReachHeap, MaxEntries
<1>3. ASSUME NEW k, Reach(m, sh, R, k), k.lists[c][s].size = z + 1, ~(z >= Wanted(s)),
             \A o \in Cores, u \in Shifts : ~(o = c /\ u = s) => k.lists[o][u] = h.lists[o][u]
      PROVE  Going(m, sh, R, c, s, Wanted(s), k)
  <2>1. z + 1 <= Wanted(s)
    BY SMT, <1>2, <1>3
  <2>2. Bounded(k, c, s, Wanted(s))
    BY <1>1, <1>3, <2>1 DEF Bounded
  <2> QED
    BY <1>3, <2>2 DEF Going
<1>4. CASE z >= Wanted(s)
  BY <1>4 DEF FillOne
<1>5. CASE ~(z >= Wanted(s)) /\ h.lists[Global][s].size > 0
  <2>1. PICK k : k = Move(h, Global, c, s)
    OBVIOUS
  <2>2. FillOne(h, c, s) = k
    BY <1>5, <2>1 DEF FillOne
  <2>3. h.lists[Global][s].size # 0
    BY SMT, <1>2, <1>5
  <2>m. Moved(m, sh, R, h, Global, c, s, k)
    BY <1>1, <1>2, <2>1, <2>3, MoveKeeps
  <2>4. Reach(m, sh, R, k) /\ Others(k, h, {Global, c}, s) /\ k.lists[c][s].size = z + 1
    BY <2>m DEF Moved
  <2>5. \A o \in Cores, u \in Shifts : ~(o = c /\ u = s) => k.lists[o][u] = h.lists[o][u]
    BY <2>4, CoresOwn DEF Others
  <2> QED
    BY <1>3, <1>5, <2>2, <2>4, <2>5
<1>6. CASE /\ ~(z >= Wanted(s)) /\ ~(h.lists[Global][s].size > 0)
           /\ h.cur + get_slab_size(s) <= HeapSize + 1
  <2>1. PICK k : k = Carve(h, c, s)
    OBVIOUS
  <2>2. FillOne(h, c, s) = k
    BY <1>6, <2>1 DEF FillOne
  <2>m. Carved(m, sh, R, h, c, s, k)
    BY <1>1, <1>2, <1>6, <2>1, CarveKeeps
  <2>4. Reach(m, sh, R, k) /\ Others(k, h, {c}, s) /\ k.lists[c][s].size = z + 1
    BY <2>m DEF Carved
  <2>5. \A o \in Cores, u \in Shifts : ~(o = c /\ u = s) => k.lists[o][u] = h.lists[o][u]
    BY <2>4, CoresOwn DEF Others
  <2> QED
    BY <1>3, <1>6, <2>2, <2>4, <2>5
<1>7. CASE /\ ~(z >= Wanted(s)) /\ ~(h.lists[Global][s].size > 0)
           /\ ~(h.cur + get_slab_size(s) <= HeapSize + 1)
  BY <1>7 DEF FillOne
<1> QED
  BY <1>4, <1>5, <1>6, <1>7

(* A round of the loop that halves a list keeps what is out. *)
LEMMA SpillKeeps ==
  ASSUME NEW m, NEW sh, NEW R, NEW h, NEW c \in Cores, NEW s \in Shifts,
         Going(m, sh, R, c, s, get_max_num_cache_entries(s) + 1, h)
  PROVE  Going(m, sh, R, c, s, get_max_num_cache_entries(s), SpillOne(h, c, s))
<1> DEFINE z == h.lists[c][s].size
           e == get_max_num_cache_entries(s)
<1>1. Reach(m, sh, R, h) /\ Bounded(h, c, s, e + 1)
  BY DEF Going
<1>2. c \in Owners /\ Global \in Owners /\ c # Global /\ z \in Nat /\ e \in Nat
  BY <1>1, CoresOwn, ReachHeap, MaxEntries
<1>3. z <= e + 1
  BY <1>1 DEF Bounded
<1>4. CASE z > e \div 2
  <2>1. PICK k : k = Move(h, c, Global, s)
    OBVIOUS
  <2>2. SpillOne(h, c, s) = k
    BY <1>4, <2>1 DEF SpillOne
  <2>3. z # 0
    BY SMT, <1>2, <1>4
  <2>m. Moved(m, sh, R, h, c, Global, s, k)
    BY <1>1, <1>2, <2>1, <2>3, MoveKeeps
  <2>4. Reach(m, sh, R, k) /\ Others(k, h, {c, Global}, s) /\ k.lists[c][s].size = z - 1
    BY <2>m DEF Moved
  <2>5. \A o \in Cores, u \in Shifts : ~(o = c /\ u = s) => k.lists[o][u] = h.lists[o][u]
    BY <2>4, CoresOwn DEF Others
  <2>6. z - 1 <= e
    BY SMT, <1>2, <1>3
  <2>7. Bounded(k, c, s, e)
    BY <1>1, <2>4, <2>5, <2>6 DEF Bounded
  <2> QED
    BY <2>2, <2>4, <2>7 DEF Going
<1>5. CASE ~(z > e \div 2)
  <2>1. SpillOne(h, c, s) = h
    BY <1>5 DEF SpillOne
  <2>2. z <= e
    BY SMT, <1>2, <1>5
  <2>3. Bounded(h, c, s, e)
    BY <1>1, <2>2 DEF Bounded
  <2> QED
    BY <1>1, <2>1, <2>3 DEF Going
<1> QED
  BY <1>4, <1>5

(* Both loops repeat a round. *)
Round(fill, h, c, s) == IF fill THEN FillOne(h, c, s) ELSE SpillOne(h, c, s)

Rounds(f, fill, h, c, s, n) ==
    f = [i \in 0..n |-> IF i = 0 THEN h ELSE Round(fill, f[i - 1], c, s)]

(* There is a function that does n rounds one after the other. *)
LEMMA RoundsExist ==
  ASSUME NEW fill, NEW h, NEW c, NEW s, NEW n \in Nat
  PROVE  \E f : Rounds(f, fill, h, c, s, n)
<1> DEFINE Bad == {k \in Nat : ~\E f : Rounds(f, fill, h, c, s, k)}
<1> SUFFICES ASSUME Bad # {} PROVE FALSE
  OBVIOUS
<1>1. PICK k \in Bad : \A x \in Bad : k <= x
  BY LeastNat, Bad \in SUBSET Nat
<1>2. CASE k = 0
  <2> DEFINE g == [i \in 0..0 |-> h]
  <2>1. \A i \in 0..0 : i = 0
    BY SMT
  <2>2. g = [i \in 0..0 |-> IF i = 0 THEN h ELSE Round(fill, g[i - 1], c, s)]
    BY <2>1
  <2> QED
    BY <1>1, <1>2, <2>2 DEF Rounds
<1>3. CASE k # 0
  <2>1. k - 1 \in Nat /\ ~(k <= k - 1) /\ k \in Nat
    BY SMT, <1>3
  <2>2. PICK f : f = [i \in 0..(k - 1) |-> IF i = 0 THEN h ELSE Round(fill, f[i - 1], c, s)]
    BY <1>1, <2>1 DEF Rounds
  <2> DEFINE g == [i \in 0..k |-> IF i = k THEN Round(fill, f[k - 1], c, s) ELSE f[i]]
  <2>3. g = [i \in 0..k |-> IF i = 0 THEN h ELSE Round(fill, g[i - 1], c, s)]
    <3> SUFFICES ASSUME NEW i \in 0..k
                 PROVE  g[i] = IF i = 0 THEN h ELSE Round(fill, g[i - 1], c, s)
      OBVIOUS
    <3>1. CASE i = k
      <4>1. k - 1 \in 0..k /\ k - 1 # k
        BY SMT, <2>1
      <4> QED
        BY <1>3, <3>1, <4>1
    <3>2. CASE i # k
      <4>1. i \in 0..(k - 1) /\ (i # 0 => i - 1 \in 0..k /\ i - 1 # k)
        BY SMT, <2>1, <3>2
      <4>2. f[i] = IF i = 0 THEN h ELSE Round(fill, f[i - 1], c, s)
        BY <2>2, <4>1
      <4> QED
        BY <3>2, <4>1, <4>2
    <3> QED
      BY <3>1, <3>2
  <2> QED
    BY <1>1, <2>3 DEF Rounds
<1> QED
  BY <1>2, <1>3

(* The whole slow path keeps what is out and stays within the wanted size. *)
LEMMA RefillKeeps ==
  ASSUME NEW m, NEW sh, NEW R, NEW h, NEW c \in Cores, NEW s \in Shifts,
         Going(m, sh, R, c, s, Wanted(s), h)
  PROVE  Going(m, sh, R, c, s, Wanted(s), Refill(h, c, s))
<1> DEFINE n == Wanted(s)
<1>0. n \in Nat
  BY MaxEntries
<1> HIDE DEF n
<1>1. \E f : f = [i \in 0..n |-> IF i = 0 THEN h ELSE FillOne(f[i - 1], c, s)]
  <2>1. PICK f : Rounds(f, TRUE, h, c, s, n)
    BY <1>0, RoundsExist
  <2>2. f = [i \in 0..n |-> IF i = 0 THEN h ELSE FillOne(f[i - 1], c, s)]
    BY <2>1 DEF Rounds, Round
  <2> QED
    BY <2>2
<1>2. PICK f : /\ f = [i \in 0..n |-> IF i = 0 THEN h ELSE FillOne(f[i - 1], c, s)]
               /\ Refill(h, c, s) = f[n]
  BY <1>1 DEF Refill, n
<1> DEFINE Bad == {i \in 0..n : ~Going(m, sh, R, c, s, n, f[i])}
<1>3. Bad = {}
  <2> SUFFICES ASSUME Bad # {} PROVE FALSE
    OBVIOUS
  <2>1. Bad \in SUBSET Nat
    BY SMT, <1>0
  <2>2. PICK k \in Bad : \A x \in Bad : k <= x
    BY <2>1, LeastNat
  <2>3. k \in 0..n /\ ~Going(m, sh, R, c, s, n, f[k])
    BY <2>2
  <2>4. k # 0
    BY <1>2, <2>3 DEF n
  <2>5. k - 1 \in 0..n /\ ~(k <= k - 1)
    BY SMT, <1>0, <2>3, <2>4
  <2>6. Going(m, sh, R, c, s, n, f[k - 1])
    BY <2>2, <2>5
  <2>7. f[k] = FillOne(f[k - 1], c, s)
    BY <1>2, <2>3, <2>4
  <2> QED
    BY <2>3, <2>6, <2>7, FillKeeps DEF n
<1>4. n \in 0..n
  BY SMT, <1>0
<1> QED
  BY <1>2, <1>3, <1>4 DEF n

(* The loop that halves a list that is one too long leaves it in bounds. *)
LEMMA SpillAll ==
  ASSUME NEW m, NEW sh, NEW R, NEW h, NEW c \in Cores, NEW s \in Shifts,
         Going(m, sh, R, c, s, get_max_num_cache_entries(s) + 1, h), h.lists[c][s].size # 0
  PROVE  Going(m, sh, R, c, s, get_max_num_cache_entries(s), Spill(h, c, s))
<1> DEFINE n == h.lists[c][s].size
           e == get_max_num_cache_entries(s)
<1>0. n \in Nat /\ e \in Nat
  BY ReachHeap, CoresOwn, MaxEntries DEF Going
<1> HIDE DEF n, e
<1>1. \E f : f = [i \in 0..n |-> IF i = 0 THEN h ELSE SpillOne(f[i - 1], c, s)]
  <2>1. PICK f : Rounds(f, FALSE, h, c, s, n)
    BY <1>0, RoundsExist
  <2>2. f = [i \in 0..n |-> IF i = 0 THEN h ELSE SpillOne(f[i - 1], c, s)]
    BY <2>1 DEF Rounds, Round
  <2> QED
    BY <2>2
<1>2. PICK f : /\ f = [i \in 0..n |-> IF i = 0 THEN h ELSE SpillOne(f[i - 1], c, s)]
               /\ Spill(h, c, s) = f[n]
  BY <1>1 DEF Spill, n
<1>3. ASSUME NEW i \in 0..n, i # 0, Going(m, sh, R, c, s, e + 1, f[i - 1])
      PROVE  Going(m, sh, R, c, s, e, f[i])
  <2>1. f[i] = SpillOne(f[i - 1], c, s)
    BY <1>2, <1>3
  <2> QED
    BY <1>3, <2>1, SpillKeeps DEF e
<1>4. ASSUME NEW k, Going(m, sh, R, c, s, e, k) PROVE Going(m, sh, R, c, s, e + 1, k)
  <2>1. k.lists[c][s].size <= e /\ k.lists[c][s].size \in Nat
    BY <1>4, ReachHeap, CoresOwn DEF Going, Bounded
  <2>2. k.lists[c][s].size <= e + 1
    BY SMT, <1>0, <2>1
  <2> QED
    BY <1>4, <2>2 DEF Going, Bounded
<1> DEFINE Bad == {i \in 0..n : ~Going(m, sh, R, c, s, e + 1, f[i])}
<1>5. Bad = {}
  <2> SUFFICES ASSUME Bad # {} PROVE FALSE
    OBVIOUS
  <2>1. Bad \in SUBSET Nat
    BY SMT, <1>0
  <2>2. PICK k \in Bad : \A x \in Bad : k <= x
    BY <2>1, LeastNat
  <2>3. k \in 0..n /\ ~Going(m, sh, R, c, s, e + 1, f[k])
    BY <2>2
  <2>4. k # 0
    BY <1>2, <2>3 DEF e
  <2>5. k - 1 \in 0..n /\ ~(k <= k - 1)
    BY SMT, <1>0, <2>3, <2>4
  <2>6. Going(m, sh, R, c, s, e + 1, f[k - 1])
    BY <2>2, <2>5
  <2> QED
    BY <1>3, <1>4, <2>3, <2>4, <2>6
<1>6. n \in 0..n /\ n # 0 /\ n - 1 \in 0..n
  BY SMT, <1>0 DEF n
<1> QED
  BY <1>2, <1>3, <1>5, <1>6 DEF e

-----------------------------------------------------------------------------
(* allocate and free. *)

(* A heap between operations: as in Reach, and the lists are in bounds. *)
Sound(m, sh, R, h) ==
    /\ Reach(m, sh, R, h)
    /\ \A o \in Cores, u \in Shifts : h.lists[o][u].size <= get_max_num_cache_entries(u)

(* A sound heap is one in which every list is in bounds, that of c and s too. *)
LEMMA SoundGoing ==
  ASSUME NEW m, NEW sh, NEW R, NEW h, NEW c \in Cores, NEW s \in Shifts
  PROVE  Sound(m, sh, R, h) <=> Going(m, sh, R, c, s, get_max_num_cache_entries(s), h)
BY DEF Sound, Going, Bounded

(* A write to objects that are out, or beyond the heap, leaves the lists. *)
LEMMA GoodWrite ==
  ASSUME NEW h, NEW A, NEW sh, NEW at, Good(h, A, sh, at), NEW m2 \in Mems,
         \A w \in Words : \/ m2[w] = h.mem[w] \/ w \notin Heap
                          \/ \E x \in Outs(A, at) : x <= w /\ w < End(sh, x)
  PROVE  Good([h EXCEPT !.mem = m2], A, sh, at)
<1> DEFINE g == [h EXCEPT !.mem = m2]
<1>1. /\ h \in Heaps /\ Tiles(h.cur, A, sh) /\ at \in [Heap -> Owners \cup {Out}]
  BY DEF Good
<1>2. g \in Heaps /\ g.mem = m2 /\ g.cur = h.cur /\ g.lists = h.lists
  BY SMT, <1>1 DEF Heaps
<1> HIDE DEF g
<1>3. ASSUME NEW o \in Owners, NEW s \in Shifts
      PROVE  IsList(m2, h.lists[o][s], On(A, sh, at, o, s))
  <2>1. IsList(h.mem, h.lists[o][s], On(A, sh, at, o, s))
    BY DEF Good
  <2>2. ASSUME NEW y \in On(A, sh, at, o, s), NEW j \in Slots PROVE h.mem[y + j] = m2[y + j]
    <3>1. y \in A /\ at[y] # Out
      BY OutIsNew DEF On
    <3>2. /\ y \in Nat /\ y + j \in Words /\ y + j \in Heap /\ y + kBatchSize <= End(sh, y)
          /\ End(sh, y) \in Nat /\ j \in Nat /\ j < kBatchSize
      BY <1>1, <3>1, TilesSpaced, InRoom, SlotNumbers
    <3>3. ASSUME NEW x \in Outs(A, at), x <= y + j, y + j < End(sh, x) PROVE FALSE
      <4>1. x \in A /\ x # y
        BY <3>1 DEF Outs
      <4>2. x \in Nat /\ End(sh, x) \in Nat
        BY <1>1, <4>1, TilesSpaced
      <4>3. End(sh, x) <= y \/ End(sh, y) <= x
        BY <1>1, <3>1, <4>1 DEF Tiles
      <4> QED
        BY SMT, <3>2, <3>3, <4>2, <4>3, BatchSize
    <3> QED
      BY <3>2, <3>3
  <2> QED
    BY <2>1, <2>2, ListFrame DEF SameIn
<1> QED
  BY <1>1, <1>2, <1>3 DEF Good, g

(* The objects that are out. *)
LEMMA ReachOuts ==
  ASSUME NEW m, NEW sh, NEW R, NEW h, Reach(m, sh, R, h)
  PROVE  /\ \A x \in R : /\ x \in Nat /\ x \in Heap /\ sh[x] \in Shifts
                         /\ End(sh, x) \in Nat /\ End(sh, x) = x + (Shl(sh[x]) + 1)
                         /\ Shl(sh[x]) \in Nat /\ End(sh, x) <= h.cur
         /\ \A x, y \in R : x # y => End(sh, x) <= y \/ End(sh, y) <= x
         /\ h.cur \in 1..(HeapSize + 1)
<1>1. PICK A, cl, at : Good(h, A, cl, at) /\ Outs(A, at) = R /\ Same(cl, sh, R)
  BY DEF Reach
<1>2. Tiles(h.cur, A, cl) /\ R \subseteq A /\ \A x \in R : cl[x] = sh[x] /\ End(cl, x) = End(sh, x)
  BY <1>1 DEF Good, Outs, Same, End
<1>3. ASSUME NEW x \in R
      PROVE  /\ x \in Nat /\ x \in Heap /\ sh[x] \in Shifts
             /\ End(sh, x) \in Nat /\ End(sh, x) = x + (Shl(sh[x]) + 1)
             /\ Shl(sh[x]) \in Nat /\ End(sh, x) <= h.cur
  <2>1. /\ x \in Nat /\ x \in Heap /\ cl[x] \in Shifts /\ End(cl, x) \in Nat
        /\ End(cl, x) = x + (Shl(cl[x]) + 1) /\ Shl(cl[x]) \in Nat /\ End(cl, x) <= h.cur
    <3>1. x \in A /\ Tiles(h.cur, A, cl)
      BY <1>2
    <3> QED
      BY SMT, <3>1, TilesSpaced
  <2> QED
    BY <1>2, <2>1
<1>4. \A x, y \in R : x # y => End(sh, x) <= y \/ End(sh, y) <= x
  <2>1. \A x, y \in R : x # y => End(cl, x) <= y \/ End(cl, y) <= x
    BY <1>2 DEF Tiles
  <2> QED
    BY <1>2, <2>1
<1> QED
  BY <1>2, <1>3, <1>4 DEF Tiles

(* Writes to objects of the program's, seen from outside. *)
LEMMA SoundWrite ==
  ASSUME NEW m, NEW sh, NEW R, NEW h, Sound(m, sh, R, h), NEW m2 \in Mems,
         \A w \in Words : \/ m2[w] = h.mem[w] \/ w \notin Heap
                          \/ \E x \in R : x <= w /\ w < End(sh, x)
  PROVE  Sound(m2, sh, R, [h EXCEPT !.mem = m2])
<1>1. PICK A, cl, at : Good(h, A, cl, at) /\ Outs(A, at) = R /\ Same(cl, sh, R)
  BY DEF Sound, Reach
<1>2. \A x \in R : End(cl, x) = End(sh, x)
  BY <1>1 DEF Same, End
<1>3. Good([h EXCEPT !.mem = m2], A, cl, at)
  <2>1. \A w \in Words : \/ m2[w] = h.mem[w] \/ w \notin Heap
                         \/ \E x \in Outs(A, at) : x <= w /\ w < End(cl, x)
    BY <1>1, <1>2
  <2> QED
    BY <1>1, <2>1, GoodWrite
<1>4. [h EXCEPT !.mem = m2].mem = m2 /\ [h EXCEPT !.mem = m2].lists = h.lists
  <2>1. h \in Heaps
    BY <1>1 DEF Good
  <2> QED
    BY SMT, <2>1 DEF Heaps
<1>5. Kept(m2, [h EXCEPT !.mem = m2].mem, sh, R)
  BY <1>4 DEF Kept
<1>6. Reach(m2, sh, R, [h EXCEPT !.mem = m2])
  BY <1>1, <1>3, <1>5 DEF Reach
<1> QED
  BY <1>4, <1>6 DEF Sound

(* An object back: the list of the core takes it. *)
LEMMA FreeKeeps ==
  ASSUME NEW m, NEW sh, NEW R, NEW h, Sound(m, sh, R, h), NEW x \in R, NEW c \in Cores,
         NEW k, k = free_to_cache_list(h, x, sh[x], c)
  PROVE  Sound(h.mem, sh, R \ {x}, k)
<1> DEFINE s == sh[x]
           e == get_max_num_cache_entries(s)
<1>1. PICK A, cl, at : Good(h, A, cl, at) /\ Outs(A, at) = R /\ Same(cl, sh, R)
  BY DEF Sound, Reach
<1>2. x \in A /\ at[x] = Out /\ cl[x] = s
  BY <1>1 DEF Outs, Same
<1>3. s \in Shifts
  BY ReachOuts DEF Sound
<1> HIDE DEF s
<1>4. c \in Owners /\ e \in Nat
  BY <1>3, MaxEntries, CoresOwn
<1>i. PICK in : in = push(h.mem, h.lists[c][s], x)
  OBVIOUS
<1>g. PICK g : g = Relist(h, in.mem, c, s, in.list)
  OBVIOUS
<1>b. PICK b : b = [at EXCEPT ![x] = c]
  OBVIOUS
<1>5. Pushed(h, A, cl, at, c, s, x, in, g, b)
  BY <1>1, <1>2, <1>3, <1>4, <1>i, <1>g, <1>b, PushKeeps
<1>6. /\ Good(g, A, cl, b) /\ Outs(A, b) = R \ {x} /\ Kept(h.mem, g.mem, cl, R \ {x})
      /\ g.lists[c][s] = in.list /\ in.list.size = h.lists[c][s].size + 1
      /\ \A o \in Owners, u \in Shifts : ~(o = c /\ u = s) => g.lists[o][u] = h.lists[o][u]
  BY <1>1, <1>5 DEF Pushed, IsRelist
<1>7. Kept(h.mem, g.mem, sh, R \ {x}) /\ Same(cl, sh, R \ {x})
  BY <1>1, <1>6 DEF Kept, Same, End
<1>8. Reach(h.mem, sh, R \ {x}, g)
  BY <1>6, <1>7 DEF Reach
<1>9. /\ h.lists[c][s].size \in Nat /\ h.lists[c][s].size <= e
  BY <1>3, <1>4, ReachHeap DEF Sound
<1>10. in.list.size \in Nat /\ in.list.size # 0 /\ in.list.size <= e + 1
  BY SMT, <1>4, <1>6, <1>9
<1>11. Going(h.mem, sh, R \ {x}, c, s, e + 1, g)
  BY <1>6, <1>8, <1>10, CoresOwn DEF Going, Bounded, Sound
<1>12. k = IF in.list.size > e THEN Spill(g, c, s) ELSE g
  <2>1. k = free_to_cache_list(h, x, s, c)
    BY DEF s
  <2>2. free_to_cache_list(h, x, s, c)
          = LET j == push(h.mem, h.lists[c][s], x)
                f == Relist(h, j.mem, c, s, j.list)
            IN  IF j.list.size > get_max_num_cache_entries(s) THEN Spill(f, c, s) ELSE f
    BY DEF free_to_cache_list, Relist
  <2> QED
    BY <1>i, <1>g, <2>1, <2>2
<1>13. CASE in.list.size > e
  <2>1. Going(h.mem, sh, R \ {x}, c, s, e, k)
    <3>1. g.lists[c][s].size # 0
      BY <1>6, <1>10
    <3>2. Going(h.mem, sh, R \ {x}, c, s, e, Spill(g, c, s))
      BY <1>3, <1>11, <3>1, SpillAll
    <3> QED
      BY <1>12, <1>13, <3>2
  <2> QED
    BY <1>3, <2>1, SoundGoing
<1>14. CASE ~(in.list.size > e)
  <2>1. in.list.size <= e
    BY SMT, <1>4, <1>10, <1>14
  <2>2. Going(h.mem, sh, R \ {x}, c, s, e, g)
    BY <1>6, <1>11, <2>1 DEF Going, Bounded
  <2> QED
    BY <1>3, <1>12, <1>14, <2>2, SoundGoing
<1> QED
  BY <1>13, <1>14

(* What allocate returns: nothing, or an object x that was not out. *)
Granted(h, sh, R, size, a, x, cl) ==
    /\ a.ptr = x + 1 /\ x \notin R /\ size # 0 /\ cl[x] = get_slab_shift(size)
    /\ Sound(a.heap.mem, cl, R \cup {x}, a.heap)
    /\ Same(cl, sh, R) /\ Kept(h.mem, a.heap.mem, sh, R)
    /\ a.heap.mem[x] = size

Allocated(h, sh, R, size, a) ==
    \/ a.ptr = NULL /\ Sound(h.mem, sh, R, a.heap)
    \/ \E x \in Heap : \E cl : Granted(h, sh, R, size, a, x, cl)

(* A sound heap is one since itself. *)
LEMMA SoundSelf ==
  ASSUME NEW m, NEW sh, NEW R, NEW h, Sound(m, sh, R, h)
  PROVE  Sound(h.mem, sh, R, h)
BY DEF Sound, Reach, Kept

(* The head of the core's list becomes the program's. *)
LEMMA GrantKeeps ==
  ASSUME NEW h, NEW sh, NEW R, NEW g, NEW c \in Cores, NEW s \in Shifts, NEW size \in Nat,
         size # 0, s = get_slab_shift(size),
         Going(h.mem, sh, R, c, s, Wanted(s), g), g.lists[c][s].size # 0,
         NEW out, out = pop(g.mem, g.lists[c][s]),
         NEW a, a = [heap |-> [g EXCEPT !.mem = [out.mem EXCEPT ![out.ptr] = size],
                                        !.lists[c][s] = out.list],
                     ptr |-> out.ptr + Header]
  PROVE  \E x \in Heap : \E cl : Granted(h, sh, R, size, a, x, cl)
<1>1. PICK A, cl, at : /\ Good(g, A, cl, at) /\ Outs(A, at) = R
                       /\ Same(cl, sh, R) /\ Kept(h.mem, g.mem, sh, R)
  BY DEF Going, Reach
<1>x. PICK x : x = out.ptr
  OBVIOUS
<1>k. PICK k : k = Relist(g, out.mem, c, s, out.list)
  OBVIOUS
<1>b. PICK b : b = [at EXCEPT ![x] = Out]
  OBVIOUS
<1>m. PICK m2 : m2 = [out.mem EXCEPT ![x] = size]
  OBVIOUS
<1>f. PICK f : f = [k EXCEPT !.mem = m2]
  OBVIOUS
<1>2. Popped(g, A, cl, at, c, s, out, k, b)
  BY <1>1, <1>x, <1>k, <1>b, CoresOwn, PopKeeps
<1>3. /\ x \in A /\ cl[x] = s /\ at[x] = c
      /\ Good(k, A, cl, b) /\ Outs(A, b) = R \cup {x}
      /\ Kept(g.mem, out.mem, cl, R) /\ out.list.size = g.lists[c][s].size - 1
      /\ k \in Heaps /\ k.mem = out.mem /\ k.lists[c][s] = out.list /\ k.cur = g.cur
      /\ \A o \in Owners, u \in Shifts : ~(o = c /\ u = s) => k.lists[o][u] = g.lists[o][u]
  BY <1>1, <1>2, <1>x DEF Popped, IsRelist
<1>4. x \notin R
  BY <1>1, <1>3, CoresOwn, OutIsNew DEF Outs
<1>5. Tiles(k.cur, A, cl) /\ k.mem \in Mems /\ k.cur \in 1..(HeapSize + 1)
  <2>1. Tiles(k.cur, A, cl)
    BY <1>3 DEF Good
  <2> QED
    BY SMT, <1>3, <2>1 DEF Heaps
<1>6. /\ x \in Nat /\ x \in Heap /\ End(cl, x) = x + (Shl(s) + 1) /\ Shl(s) \in Nat
      /\ End(cl, x) <= k.cur
  <2>1. \A y \in A : /\ y \in Nat /\ y \in Heap /\ End(cl, y) = y + (Shl(cl[y]) + 1)
                     /\ Shl(cl[y]) \in Nat /\ End(cl, y) <= k.cur
    BY SMT, <1>5, TilesSpaced
  <2> QED
    BY <1>3, <2>1
<1>7. size <= Shl(s)
  BY SlabShift
<1>8. x <= x /\ x < End(cl, x) /\ size \in 0..Data
  <2>1. MaxLibc * LibcSize \in Nat /\ HeapSize \in Nat
    BY SMT, SlabAssumption
  <2> QED
    BY SMTT(30), <1>5, <1>6, <1>7, <2>1 DEF Data
<1>9. m2 \in Mems /\ m2[x] = size /\ \A w \in Words : w # x => m2[w] = out.mem[w]
  <2>1. x \in Words
    BY <1>6, HeapWords
  <2> QED
    BY <1>3, <1>5, <1>8, <1>m, <2>1 DEF Mems
<1>10. Good(f, A, cl, b)
  <2>1. \A w \in Words : \/ m2[w] = k.mem[w] \/ w \notin Heap
                         \/ \E y \in Outs(A, b) : y <= w /\ w < End(cl, y)
    BY <1>3, <1>8, <1>9
  <2> QED
    BY <1>3, <1>9, <1>f, <2>1, GoodWrite
<1>11. f.mem = m2 /\ f.lists = k.lists
  BY SMT, <1>3, <1>f DEF Heaps
<1>12. a.heap = f /\ a.ptr = x + 1
  <2>0. g \in Heaps
    BY <1>1 DEF Good
  <2>1. f = [g EXCEPT !.mem = m2, !.lists[c][s] = out.list]
    BY <1>f, <1>k, <2>0 DEF Relist, Heaps
  <2>2. a.heap = [g EXCEPT !.mem = m2, !.lists[c][s] = out.list] /\ a.ptr = x + Header
    BY <1>m, <1>x
  <2> QED
    BY <2>1, <2>2 DEF Header
<1>13. Kept(h.mem, m2, sh, R)
  <2>1. Kept(h.mem, out.mem, sh, R)
    BY <1>1, <1>3, KeptAgain
  <2>2. ASSUME NEW y \in R, NEW w \in Words, y <= w, w < End(sh, y) PROVE w # x
    <3>1. y \in A /\ y # x /\ End(cl, y) = End(sh, y)
      BY <1>1, <1>4 DEF Outs, Same, End
    <3>2. y \in Nat /\ End(cl, y) \in Nat /\ End(cl, x) \in Nat
      BY <1>3, <1>5, <3>1, TilesSpaced
    <3>3. End(cl, y) <= x \/ End(cl, x) <= y
      BY <1>3, <1>5, <3>1 DEF Tiles
    <3> QED
      BY SMTT(30), <1>6, <1>8, <2>2, <3>1, <3>2, <3>3
  <2> QED
    BY <1>6, <1>9, <2>1, <2>2 DEF Kept
<1>14. Sound(m2, cl, R \cup {x}, f)
  <2>1. Reach(m2, cl, R \cup {x}, f)
    BY <1>3, <1>10, <1>11 DEF Reach, Same, Kept
  <2>2. out.list.size <= get_max_num_cache_entries(s)
    <3>1. g.lists[c][s].size <= Wanted(s) /\ g.lists[c][s].size \in Nat
      BY CoresOwn, ReachHeap DEF Going, Bounded
    <3>2. /\ Wanted(s) \in Nat /\ Wanted(s) - 1 <= get_max_num_cache_entries(s)
          /\ get_max_num_cache_entries(s) \in Nat
      BY MaxEntries
    <3> QED
      BY SMT, <1>3, <3>1, <3>2
  <2>3. Bounded(f, c, s, get_max_num_cache_entries(s))
    <3>1. ASSUME NEW o \in Cores, NEW u \in Shifts, ~(o = c /\ u = s)
          PROVE  f.lists[o][u].size <= get_max_num_cache_entries(u)
      <4>1. g.lists[o][u].size <= get_max_num_cache_entries(u)
        BY <3>1 DEF Going, Bounded
      <4>2. f.lists[o][u] = g.lists[o][u]
        BY <1>3, <1>11, <3>1, CoresOwn
      <4> QED
        BY <4>1, <4>2
    <3>2. f.lists[c][s].size <= get_max_num_cache_entries(s)
      BY <1>3, <1>11, <2>2
    <3> QED
      BY <3>1, <3>2 DEF Bounded
  <2> QED
    BY <2>1, <2>3, SoundGoing DEF Going
<1> QED
  BY <1>1, <1>3, <1>4, <1>6, <1>9, <1>11, <1>12, <1>13, <1>14 DEF Granted

(* allocate returns null and keeps what is out, or an object that was not out. *)
LEMMA AllocateKeeps ==
  ASSUME NEW m, NEW sh, NEW R, NEW h, Sound(m, sh, R, h), NEW size \in Nat, NEW c \in Cores,
         NEW a, a = allocate(h, size, c)
  PROVE  Allocated(h, sh, R, size, a)
<1> DEFINE s == get_slab_shift(size)
<1>g. PICK g : g = IF h.lists[c][s].size > 0 THEN h ELSE Refill(h, c, s)
  OBVIOUS
<1>o. PICK out : out = pop(g.mem, g.lists[c][s])
  OBVIOUS
<1>1. a = IF size = 0 \/ s > kMaxSlabClassShift THEN [heap |-> h, ptr |-> NULL]
          ELSE IF g.lists[c][s].size = 0 THEN [heap |-> g, ptr |-> NULL]
          ELSE [heap |-> [g EXCEPT !.mem = [out.mem EXCEPT ![out.ptr] = size],
                                   !.lists[c][s] = out.list],
                ptr |-> out.ptr + Header]
  BY <1>g, <1>o DEF allocate
<1>2. Sound(h.mem, sh, R, h)
  BY SoundSelf
<1>3. CASE size = 0 \/ s > kMaxSlabClassShift
  <2>1. a = [heap |-> h, ptr |-> NULL]
    BY <1>1, <1>3
  <2>2. a.heap = h /\ a.ptr = NULL
    BY SMT, <2>1
  <2> QED
    BY <1>2, <2>2 DEF Allocated
<1>4. CASE ~(size = 0 \/ s > kMaxSlabClassShift)
  <2>1. s \in Shifts
    <3>1. s \in Nat /\ kMinSlabClassShift <= s
      BY SlabShift
    <3> QED
      BY SMT, <1>4, <3>1, SlabAssumption DEF Shifts
  <2>2. Going(h.mem, sh, R, c, s, Wanted(s), h)
    <3>1. Going(h.mem, sh, R, c, s, get_max_num_cache_entries(s), h)
      BY <1>2, <2>1, SoundGoing
    <3>2. h.lists[c][s].size \in Nat /\ h.lists[c][s].size <= get_max_num_cache_entries(s)
      BY <2>1, <3>1, CoresOwn, ReachHeap DEF Going, Bounded
    <3>3. h.lists[c][s].size <= Wanted(s)
      <4>1. Wanted(s) \in Nat /\ get_max_num_cache_entries(s) \in Nat
            /\ get_max_num_cache_entries(s) <= Wanted(s)
        BY <2>1, MaxEntries
      <4> QED
        BY SMT, <3>2, <4>1
    <3> QED
      BY <3>1, <3>3 DEF Going, Bounded
  <2>3. Going(h.mem, sh, R, c, s, Wanted(s), g)
    BY <1>g, <2>1, <2>2, RefillKeeps
  <2>4. CASE g.lists[c][s].size = 0
    <3>1. a = [heap |-> g, ptr |-> NULL]
      BY <1>1, <1>4, <2>4
    <3>2. a.heap = g /\ a.ptr = NULL
      BY SMT, <3>1
    <3>3. Going(h.mem, sh, R, c, s, get_max_num_cache_entries(s), g)
      <4>1. get_max_num_cache_entries(s) \in Nat
        BY <2>1, MaxEntries
      <4>2. 0 <= get_max_num_cache_entries(s)
        BY SMT, <4>1
      <4> QED
        BY <2>3, <2>4, <4>2 DEF Going, Bounded
    <3> QED
      BY <2>1, <3>2, <3>3, SoundGoing DEF Allocated
  <2>5. CASE g.lists[c][s].size # 0
    <3>1. a = [heap |-> [g EXCEPT !.mem = [out.mem EXCEPT ![out.ptr] = size],
                                  !.lists[c][s] = out.list],
               ptr |-> out.ptr + Header]
      BY <1>1, <1>4, <2>5
    <3>2. \E x \in Heap : \E cl : Granted(h, sh, R, size, a, x, cl)
      <4>1. size # 0
        BY <1>4
      <4> QED
        BY <1>o, <2>1, <2>3, <2>5, <3>1, <4>1, GrantKeeps
    <3> QED
      BY <3>2 DEF Allocated
  <2> QED
    BY <2>4, <2>5
<1> QED
  BY <1>3, <1>4

-----------------------------------------------------------------------------
(* What the program holds. *)

(* The object with the base b is out, or is a block of the C library's. *)
Place(L, R, b) == IF b \in Heap THEN b - 1 \in R ELSE b \in L

(* The words from the base on that it may use, and all the object's words. *)
Space(m, b) == IF b \in Heap THEN m[b - 1] ELSE LibcSize

In(sh, b, w) == IF b \in Heap THEN b - 1 <= w /\ w < End(sh, b - 1)
                ELSE b <= w /\ w < b + LibcSize

HeldOK(m, L, sh, R, o) ==
    /\ o \in [base : Nat, ptr : Nat, data : Nat] /\ Place(L, R, o.base)
    /\ o.base \in Heap => /\ m[o.base - 1] # 0
                          /\ sh[o.base - 1] = get_slab_shift(m[o.base - 1])
    /\ o.base <= o.ptr /\ o.ptr + o.data <= o.base + Space(m, o.base)
    /\ \A w \in Words : o.ptr <= w /\ w < o.ptr + o.data => m[w] = Data
    /\ o.ptr # o.base => m[o.ptr - 1] = o.base

(* The blocks of the C library are apart, behind the heap and before Data. *)
LEMMA LibcFacts ==
  /\ \A b \in LibcBlocks : /\ b \in Nat /\ b > HeapSize /\ b + LibcSize <= Data /\ b \notin Heap
                           /\ b \in 0..Data
  /\ \A b, d \in LibcBlocks : b # d => b + LibcSize <= d \/ d + LibcSize <= b
  /\ LibcSize \in Nat /\ LibcSize # 0 /\ HeapSize \in Nat /\ Data \in Nat /\ Data > HeapSize
  /\ Words = 1..(Data - 1) /\ Heap = 1..HeapSize
<1>1. LibcSize \in Nat /\ LibcSize # 0 /\ HeapSize \in Nat /\ MaxLibc \in Nat
  BY SMT, SlabAssumption
<1>2. MaxLibc * LibcSize \in Nat
  BY SMT, <1>1
<1>3. Data \in Nat /\ Data > HeapSize /\ Words = 1..(Data - 1) /\ Heap = 1..HeapSize
  BY SMT, <1>1, <1>2 DEF Data, Words, Heap
<1>4. ASSUME NEW b \in LibcBlocks
      PROVE  /\ b \in Nat /\ b > HeapSize /\ b + LibcSize <= Data /\ b \notin Heap
             /\ b \in 0..Data
  <2>1. PICK i \in 0..(MaxLibc - 1) : b = HeapSize + 1 + LibcSize * i
    BY SMT DEF LibcBlocks
  <2>2. LibcSize * i \in Nat /\ LibcSize * i + LibcSize <= MaxLibc * LibcSize
    BY SMT, <1>1
  <2> QED
    BY SMT, <1>1, <1>2, <1>3, <2>1, <2>2 DEF Data
<1>5. ASSUME NEW b \in LibcBlocks, NEW d \in LibcBlocks, b # d
      PROVE  b + LibcSize <= d \/ d + LibcSize <= b
  <2>1. PICK i \in 0..(MaxLibc - 1) : b = HeapSize + 1 + LibcSize * i
    BY SMT DEF LibcBlocks
  <2>2. PICK j \in 0..(MaxLibc - 1) : d = HeapSize + 1 + LibcSize * j
    BY SMT DEF LibcBlocks
  <2>3. LibcSize * i \in Nat /\ LibcSize * j \in Nat
    BY SMT, <1>1
  <2>4. i < j => LibcSize * i + LibcSize <= LibcSize * j
    BY SMT, <1>1
  <2>5. j < i => LibcSize * j + LibcSize <= LibcSize * i
    BY SMT, <1>1
  <2>6. i < j \/ j < i
    BY SMT, <1>5, <2>1, <2>2
  <2> QED
    BY SMTT(30), <1>1, <2>1, <2>2, <2>3, <2>4, <2>5, <2>6
<1> QED
  BY <1>1, <1>3, <1>4, <1>5

(* Where an object is. *)
Placed(sh, R, h, b) ==
    /\ b - 1 \in R /\ b - 1 \in Nat /\ b - 1 \in Words /\ b - 1 \in Heap
    /\ Shl(sh[b - 1]) \in Nat /\ End(sh, b - 1) = b + Shl(sh[b - 1])
    /\ b + Shl(sh[b - 1]) <= h.cur /\ h.cur \in 1..(HeapSize + 1)
    /\ sh[b - 1] \in Shifts

(* A base is one of an object that is out, or of a block of the C library. *)
LEMMA Places ==
  ASSUME NEW m, NEW sh, NEW R, NEW h, Reach(m, sh, R, h), NEW L \in SUBSET LibcBlocks,
         NEW b \in Nat, Place(L, R, b)
  PROVE  /\ b \in Heap => Placed(sh, R, h, b)
         /\ b \notin Heap => b \in LibcBlocks /\ b \in L
         /\ b # 0 /\ b \in 0..Data
         /\ \A w \in Nat : In(sh, b, w) => w \in Words /\ (w \in Heap <=> b \in Heap)
<1>1. CASE b \in Heap
  <2>1. b - 1 \in R
    BY <1>1 DEF Place
  <2>2. PICK x \in R : x = b - 1
    BY <2>1
  <2>3. /\ x \in Nat /\ x \in Heap /\ sh[x] \in Shifts /\ End(sh, x) = x + (Shl(sh[x]) + 1)
        /\ Shl(sh[x]) \in Nat /\ End(sh, x) <= h.cur /\ h.cur \in 1..(HeapSize + 1)
    BY SMT, ReachOuts
  <2>4. /\ x \in Words /\ End(sh, x) = b + Shl(sh[x]) /\ b # 0 /\ b \in 0..Data
    BY SMTT(30), <1>1, <2>2, <2>3, LibcFacts
  <2>5. ASSUME NEW w \in Nat, In(sh, b, w) PROVE w \in Words /\ w \in Heap
    <3>1. x <= w /\ w < End(sh, x)
      BY <1>1, <2>2, <2>5 DEF In
    <3> QED
      BY SMT, <2>3, <3>1, LibcFacts
  <2>6. Placed(sh, R, h, b)
    BY SMT, <2>1, <2>2, <2>3, <2>4 DEF Placed
  <2> QED
    BY <1>1, <2>4, <2>5, <2>6
<1>2. CASE b \notin Heap
  <2>1. b \in L /\ b \in LibcBlocks
    BY <1>2 DEF Place
  <2>2. b \in Nat /\ b > HeapSize /\ b + LibcSize <= Data /\ b \in 0..Data /\ b # 0
    BY SMT, <2>1, LibcFacts
  <2>3. ASSUME NEW w \in Nat, In(sh, b, w) PROVE w \in Words /\ w \notin Heap
    <3>1. b <= w /\ w < b + LibcSize
      BY <1>2, <2>3 DEF In
    <3> QED
      BY SMT, <2>2, <3>1, LibcFacts
  <2> QED
    BY <1>2, <2>1, <2>2, <2>3
<1> QED
  BY <1>1, <1>2

(* Two objects have no word in common. *)
LEMMA InApart ==
  ASSUME NEW m, NEW sh, NEW R, NEW h, Reach(m, sh, R, h), NEW L \in SUBSET LibcBlocks,
         NEW b \in Nat, Place(L, R, b), NEW d \in Nat, Place(L, R, d), b # d,
         NEW w \in Nat, In(sh, b, w)
  PROVE  ~In(sh, d, w)
<1> SUFFICES ASSUME In(sh, d, w) PROVE FALSE
  OBVIOUS
<1>1. CASE b \in Heap /\ d \in Heap
  <2>1. PICK x \in R : x = b - 1
    BY <1>1 DEF Place
  <2>2. PICK y \in R : y = d - 1
    BY <1>1 DEF Place
  <2>3. x <= w /\ w < End(sh, x) /\ y <= w /\ w < End(sh, y)
    BY <1>1, <2>1, <2>2 DEF In
  <2>4. x # y
    BY SMT, <2>1, <2>2
  <2>5. /\ x \in Nat /\ y \in Nat /\ End(sh, x) \in Nat /\ End(sh, y) \in Nat
        /\ (End(sh, x) <= y \/ End(sh, y) <= x)
    BY ZenonT(30), <2>4, ReachOuts
  <2> QED
    BY SMT, <2>3, <2>5
<1>2. CASE b \in Heap /\ d \notin Heap
  BY <1>2, Places
<1>3. CASE b \notin Heap /\ d \in Heap
  BY <1>3, Places
<1>4. CASE b \notin Heap /\ d \notin Heap
  <2>1. b <= w /\ w < b + LibcSize /\ d <= w /\ w < d + LibcSize
    BY <1>4 DEF In
  <2>2. b \in LibcBlocks /\ d \in LibcBlocks
    BY <1>4 DEF Place
  <2>3. b + LibcSize <= d \/ d + LibcSize <= b
    BY <2>2, LibcFacts
  <2> QED
    BY SMT, <2>1, <2>3, LibcFacts
<1> QED
  BY <1>1, <1>2, <1>3, <1>4

(* The words that HeldOK speaks of are the object's. *)
LEMMA SpaceIn ==
  ASSUME NEW m, NEW sh, NEW R, NEW h, Reach(m, sh, R, h), NEW L \in SUBSET LibcBlocks,
         NEW b \in Nat, Place(L, R, b), NEW m1 \in Mems,
         b \in Heap => sh[b - 1] = get_slab_shift(m1[b - 1])
  PROVE  /\ Space(m1, b) \in Nat
         /\ \A w \in Nat : b <= w /\ w < b + Space(m1, b) => In(sh, b, w) /\ w \in Words
         /\ b \in Heap => In(sh, b, b - 1) /\ b - 1 \in Nat /\ b - 1 \in Words
<1>1. CASE b \in Heap
  <2>0. Placed(sh, R, h, b)
    BY <1>1, Places
  <2>1. /\ b - 1 \in Nat /\ b - 1 \in Words /\ Shl(sh[b - 1]) \in Nat
        /\ End(sh, b - 1) = b + Shl(sh[b - 1])
    BY <2>0 DEF Placed
  <2>2. m1[b - 1] \in Nat
    <3>1. m1[b - 1] \in 0..Data
      BY <2>1 DEF Mems
    <3> QED
      BY SMT, <3>1
  <2>3. m1[b - 1] <= Shl(sh[b - 1])
    BY <1>1, <2>2, SlabShift
  <2>4. Space(m1, b) = m1[b - 1]
    BY <1>1 DEF Space
  <2>5. ASSUME NEW w \in Nat, b <= w, w < b + m1[b - 1] PROVE b - 1 <= w /\ w < End(sh, b - 1)
    BY SMTT(30), <2>1, <2>2, <2>3, <2>5
  <2>6. b - 1 <= b - 1 /\ b - 1 < End(sh, b - 1)
    BY SMT, <2>1
  <2> QED
    BY <1>1, <2>1, <2>2, <2>4, <2>5, <2>6, Places DEF In
<1>2. CASE b \notin Heap
  <2>1. Space(m1, b) = LibcSize
    BY <1>2 DEF Space
  <2> QED
    BY <1>2, <2>1, LibcFacts, Places DEF In
<1> QED
  BY <1>1, <1>2

(* An object is held as before if none of its words changes. *)
SameRoom(m2, m1, sh, b) == \A w \in Words : In(sh, b, w) => m2[w] = m1[w]

SameClass(cl, sh, b) == b \in Heap => cl[b - 1] = sh[b - 1]

(* An object that is held stays intact while its room, place and class do. *)
LEMMA HeldFrame ==
  ASSUME NEW m, NEW sh, NEW R, NEW h, Reach(m, sh, R, h), NEW L \in SUBSET LibcBlocks,
         NEW m1 \in Mems, NEW o, HeldOK(m1, L, sh, R, o),
         NEW m2, SameRoom(m2, m1, sh, o.base),
         NEW L2, NEW R2, Place(L2, R2, o.base),
         NEW cl, SameClass(cl, sh, o.base)
  PROVE  HeldOK(m2, L2, cl, R2, o)
<1>1. /\ o.base \in Nat /\ o.ptr \in Nat /\ o.data \in Nat
  <2>1. o \in [base : Nat, ptr : Nat, data : Nat]
    BY DEF HeldOK
  <2> QED
    BY SMT, <2>1
<1>2. /\ Place(L, R, o.base) /\ o.base <= o.ptr
      /\ o.base \in Heap => sh[o.base - 1] = get_slab_shift(m1[o.base - 1])
      /\ o.ptr + o.data <= o.base + Space(m1, o.base)
  BY DEF HeldOK
<1>3. /\ Space(m1, o.base) \in Nat
      /\ \A w \in Nat : o.base <= w /\ w < o.base + Space(m1, o.base)
                          => In(sh, o.base, w) /\ w \in Words
      /\ o.base \in Heap => In(sh, o.base, o.base - 1) /\ o.base - 1 \in Words
  BY <1>1, <1>2, SpaceIn
<1>4. o.base \in Heap => m2[o.base - 1] = m1[o.base - 1]
  BY <1>3 DEF SameRoom
<1>5. Space(m2, o.base) = Space(m1, o.base)
  BY <1>4 DEF Space
<1>6. ASSUME NEW w \in Words, o.ptr <= w, w < o.ptr + o.data PROVE m2[w] = Data
  <2>1. w \in Nat /\ o.base <= w /\ w < o.base + Space(m1, o.base)
    BY SMTT(30), <1>1, <1>2, <1>3, <1>6, LibcFacts
  <2>2. m1[w] = Data
    BY <1>6 DEF HeldOK
  <2> QED
    BY ZenonT(30), <1>3, <2>1, <2>2 DEF SameRoom
<1>7. ASSUME o.ptr # o.base PROVE m2[o.ptr - 1] = o.base
  <2>1. o.ptr - 1 \in Nat /\ o.base <= o.ptr - 1 /\ o.ptr - 1 < o.base + Space(m1, o.base)
    BY SMTT(30), <1>1, <1>2, <1>3, <1>7
  <2>2. m1[o.ptr - 1] = o.base
    BY <1>7 DEF HeldOK
  <2> QED
    BY <1>3, <2>1, <2>2 DEF SameRoom
<1>8. o.base \in Heap => /\ m2[o.base - 1] # 0
                         /\ cl[o.base - 1] = get_slab_shift(m2[o.base - 1])
  BY <1>2, <1>4 DEF HeldOK, SameClass
<1>9. o.ptr + o.data <= o.base + Space(m2, o.base)
  BY <1>2, <1>5
<1>10. o \in [base : Nat, ptr : Nat, data : Nat] /\ o.base <= o.ptr
  BY DEF HeldOK
<1> QED
  BY <1>6, <1>7, <1>8, <1>9, <1>10 DEF HeldOK

(* The same, when the allocator keeps the objects R2. *)
LEMMA HeldKept ==
  ASSUME NEW m, NEW sh, NEW R, NEW h, Reach(m, sh, R, h), NEW L \in SUBSET LibcBlocks,
         NEW m1 \in Mems, NEW o, HeldOK(m1, L, sh, R, o),
         NEW m2, NEW R2, Kept(m1, m2, sh, R2), NEW cl, Same(cl, sh, R2),
         o.base \in Heap => o.base - 1 \in R2, NEW R3, R2 \subseteq R3
  PROVE  HeldOK(m2, L, cl, R3, o)
<1>1. Place(L, R, o.base) /\ o.base \in Nat
  <2>1. o \in [base : Nat, ptr : Nat, data : Nat] /\ Place(L, R, o.base)
    BY DEF HeldOK
  <2> QED
    BY SMT, <2>1
<1>2. Place(L, R3, o.base)
  BY <1>1 DEF Place
<1>3. SameClass(cl, sh, o.base)
  BY DEF Same, SameClass
<1>4. ASSUME NEW w \in Words, In(sh, o.base, w) PROVE m2[w] = m1[w]
  <2>1. w \in Nat
    BY SMT, LibcFacts
  <2>2. CASE o.base \in Heap
    <3>1. PICK x \in R2 : x = o.base - 1
      BY <2>2
    <3>2. x <= w /\ w < End(sh, x)
      BY <1>4, <2>2, <3>1 DEF In
    <3> QED
      BY <3>2 DEF Kept
  <2>3. CASE o.base \notin Heap
    <3>1. w \notin Heap
      BY <1>1, <1>4, <2>1, <2>3, Places
    <3> QED
      BY <3>1 DEF Kept
  <2> QED
    BY <2>2, <2>3
<1>5. SameRoom(m2, m1, sh, o.base)
  BY <1>4 DEF SameRoom
<1> QED
  BY <1>2, <1>3, <1>5, HeldFrame

(* What the program writes into an object it is given makes it held. *)
Handed(m1, m2, L, sh, R, o) ==
    /\ m2 \in Mems /\ HeldOK(m2, L, sh, R, o)
    /\ \A w \in Words : m2[w] = m1[w] \/ In(sh, o.base, w)
    /\ o.base \in Heap => m2[o.base - 1] = m1[o.base - 1]

(* An object that is written from p is intact, and the write is in its room. *)
LEMMA HandedOver ==
  ASSUME NEW m, NEW sh, NEW R, NEW h, Reach(m, sh, R, h), NEW L \in SUBSET LibcBlocks,
         NEW m1 \in Mems, NEW b \in Nat, Place(L, R, b),
         b \in Heap => m1[b - 1] # 0 /\ sh[b - 1] = get_slab_shift(m1[b - 1]),
         NEW p \in Nat, NEW n \in Nat, b <= p, p + n <= b + Space(m1, b),
         NEW m2, m2 = Written(Based(m1, p, b), p, n)
  PROVE  Handed(m1, m2, L, sh, R, Held(b, p, n))
<1>1. /\ Space(m1, b) \in Nat
      /\ \A w \in Nat : b <= w /\ w < b + Space(m1, b) => In(sh, b, w) /\ w \in Words
      /\ b \in Heap => In(sh, b, b - 1) /\ b - 1 \in Words /\ b - 1 \in Nat
  BY SpaceIn
<1>2. b # 0 /\ b \in 0..Data
  BY Places
<1>3. PICK k : k = Based(m1, p, b)
  OBVIOUS
<1>4. /\ k \in Mems
      /\ \A w \in Words : k[w] = m1[w] \/ (p # b /\ w = p - 1)
      /\ p # b => k[p - 1] = b /\ p - 1 \in Words
  <2>1. CASE p = b
    BY <1>3, <2>1 DEF Based
  <2>2. CASE p # b
    <3>1. p - 1 \in Nat /\ b <= p - 1 /\ p - 1 < b + Space(m1, b)
      BY SMT, <1>1, <2>2
    <3>2. p - 1 \in Words
      BY <1>1, <3>1
    <3>3. k = [m1 EXCEPT ![p - 1] = b]
      BY <1>3, <2>2 DEF Based
    <3> QED
      BY SMTT(30), <1>2, <2>2, <3>2, <3>3 DEF Mems
  <2> QED
    BY <2>1, <2>2
<1>5. m2 = [w \in Words |-> IF w \in p..(p + n - 1) THEN Data ELSE k[w]]
  BY <1>3 DEF Written
<1>6. m2 \in Mems
  <2>1. Data \in 0..Data
    BY SMT, LibcFacts
  <2>2. \A w \in Words : k[w] \in 0..Data
    BY <1>4 DEF Mems
  <2>3. \A w \in Words : (IF w \in p..(p + n - 1) THEN Data ELSE k[w]) \in 0..Data
    BY <2>1, <2>2
  <2> QED
    BY <1>5, <2>3 DEF Mems
<1>7. \A w \in Words : /\ p <= w /\ w < p + n => m2[w] = Data
                       /\ ~(p <= w /\ w < p + n) => m2[w] = k[w]
  BY SMT, <1>5, LibcFacts
<1>8. ASSUME NEW w \in Words PROVE m2[w] = m1[w] \/ (b <= w /\ w < b + Space(m1, b))
  <2>1. w \in Nat
    BY SMT, LibcFacts
  <2>2. CASE p <= w /\ w < p + n
    BY SMTT(30), <1>1, <2>1, <2>2
  <2>3. CASE ~(p <= w /\ w < p + n) /\ p # b /\ w = p - 1
    BY SMT, <1>1, <2>1, <2>3
  <2> QED
    BY <1>4, <1>7, <2>2, <2>3
<1>9. ASSUME NEW w \in Words PROVE m2[w] = m1[w] \/ In(sh, b, w)
  <2>1. w \in Nat
    BY SMT, LibcFacts
  <2> QED
    BY <1>1, <1>8, <2>1
<1>10. b \in Heap => m2[b - 1] = m1[b - 1]
  <2>1. ~(b <= b - 1)
    BY SMT
  <2> QED
    BY <1>1, <1>8, <2>1
<1>11. p # b => m2[p - 1] = b
  <2>1. ~(p <= p - 1)
    BY SMT
  <2> QED
    BY <1>4, <1>7, <2>1
<1>12. Space(m2, b) = Space(m1, b)
  BY <1>10 DEF Space
<1>13. PICK o : o = Held(b, p, n)
  OBVIOUS
<1>14. /\ o.base = b /\ o.ptr = p /\ o.data = n
       /\ o \in [base : Nat, ptr : Nat, data : Nat]
  BY SMT, <1>13 DEF Held
<1>15. HeldOK(m2, L, sh, R, o)
  <2>1. o.base \in Heap => /\ m2[o.base - 1] # 0
                           /\ sh[o.base - 1] = get_slab_shift(m2[o.base - 1])
    BY <1>10, <1>14
  <2>2. o.base <= o.ptr /\ o.ptr + o.data <= o.base + Space(m2, o.base)
    BY <1>12, <1>14
  <2>3. \A w \in Words : o.ptr <= w /\ w < o.ptr + o.data => m2[w] = Data
    BY <1>7, <1>14
  <2>4. o.ptr # o.base => m2[o.ptr - 1] = o.base
    BY <1>11, <1>14
  <2>5. Place(L, R, o.base)
    BY <1>14
  <2> QED
    BY <1>14, <2>1, <2>2, <2>3, <2>4, <2>5 DEF HeldOK
<1>16. Handed(m1, m2, L, sh, R, o)
  BY <1>6, <1>9, <1>10, <1>14, <1>15 DEF Handed
<1> QED
  BY <1>13, <1>16

-----------------------------------------------------------------------------
(* The program: the objects L that it holds, F of them written to the end, *)
(* and the moves M it is in.                                               *)

Users(L, M) == L \cup {a[1] : a \in M} \cup {a[2] : a \in M}

(* No two of them have a base in common. *)
Roles(L, M) ==
    /\ \A o, p \in L : o.base = p.base => o = p
    /\ \A a \in M, o \in L : a[1].base # o.base /\ a[2].base # o.base
    /\ \A a, b \in M : /\ a[1].base # b[2].base
                       /\ a[1].base = b[1].base \/ a[2].base = b[2].base => a = b

Full(m, o) == o.base \in Heap /\ o.ptr = o.base => o.data = m[o.base - 1]

Plain(o) == o.base \in Heap /\ o.ptr = o.base

Moving(m, a) == Plain(a[1]) /\ Plain(a[2]) /\ a[3] = m[a[2].base - 1]

ProgOK(m, F, L, M, lib, sh, R) ==
    /\ m \in Mems /\ lib \in SUBSET LibcBlocks
    /\ \A o \in Users(L, M) : HeldOK(m, lib, sh, R, o)
    /\ Roles(L, M)
    /\ F \subseteq L /\ \A o \in F : Full(m, o)
    /\ \A a \in M : Moving(m, a)

(* The base, the pointer and the length of an object that is held are numbers. *)
LEMMA HeldBase ==
  ASSUME NEW m, NEW lib, NEW sh, NEW R, NEW o, HeldOK(m, lib, sh, R, o)
  PROVE  o.base \in Nat /\ o.ptr \in Nat /\ o.data \in Nat /\ Place(lib, R, o.base)
<1>1. o \in [base : Nat, ptr : Nat, data : Nat] /\ Place(lib, R, o.base)
  BY DEF HeldOK
<1> QED
  BY SMT, <1>1

(* The program's objects are all right in another memory that keeps each of them. *)
LEMMA ProgFrame ==
  ASSUME NEW m, NEW F, NEW L, NEW M, NEW lib, NEW sh, NEW R, ProgOK(m, F, L, M, lib, sh, R),
         NEW m2 \in Mems, NEW lib2 \in SUBSET LibcBlocks, NEW cl, NEW R2,
         \A o \in Users(L, M) : /\ HeldOK(m2, lib2, cl, R2, o)
                                /\ o.base \in Heap => m2[o.base - 1] = m[o.base - 1]
  PROVE  ProgOK(m2, F, L, M, lib2, cl, R2)
<1>1. \A o \in F : Full(m2, o)
  BY DEF ProgOK, Full, Users
<1>2. ASSUME NEW a \in M PROVE Moving(m2, a)
  <2>1. Moving(m, a) /\ a[2] \in Users(L, M)
    BY DEF ProgOK, Users
  <2> QED
    BY <2>1 DEF Moving, Plain
<1> QED
  BY <1>1, <1>2 DEF ProgOK

(* The allocator has worked. *)
LEMMA ProgKept ==
  ASSUME NEW mm, NEW h, NEW m, NEW F, NEW L, NEW M, NEW lib, NEW sh, NEW R,
         Reach(mm, sh, R, h), ProgOK(m, F, L, M, lib, sh, R),
         NEW m2 \in Mems, NEW R2, Kept(m, m2, sh, R2), NEW cl, Same(cl, sh, R2),
         \A o \in Users(L, M) : o.base \in Heap => o.base - 1 \in R2, NEW R3, R2 \subseteq R3
  PROVE  ProgOK(m2, F, L, M, lib, cl, R3)
<1>1. m \in Mems /\ lib \in SUBSET LibcBlocks
  BY DEF ProgOK
<1>2. ASSUME NEW o \in Users(L, M)
      PROVE  /\ HeldOK(m2, lib, cl, R3, o)
             /\ o.base \in Heap => m2[o.base - 1] = m[o.base - 1]
  <2>1. HeldOK(m, lib, sh, R, o)
    BY DEF ProgOK
  <2>2. HeldOK(m2, lib, cl, R3, o)
    BY <1>1, <2>1, HeldKept
  <2>3. ASSUME o.base \in Heap PROVE m2[o.base - 1] = m[o.base - 1]
    <3>1. PICK x \in R2 : x = o.base - 1
      BY <2>3
    <3>2. o.base \in Nat /\ Place(lib, R, o.base)
      BY <2>1, HeldBase
    <3>3. Placed(sh, R, h, o.base)
      BY <1>1, <2>3, <3>2, Places
    <3>4. /\ x \in Nat /\ Shl(sh[x]) \in Nat /\ x \in Words
          /\ End(sh, x) = o.base + Shl(sh[x])
      BY <3>1, <3>3 DEF Placed
    <3>5. x <= x /\ x < End(sh, x)
      BY SMT, <3>1, <3>2, <3>4
    <3> QED
      BY <3>1, <3>4, <3>5 DEF Kept
  <2> QED
    BY <2>2, <2>3
<1> QED
  BY <1>1, <1>2, ProgFrame

(* The program is given an object and writes it. *)
Fresh(L, M, o) == \A p \in Users(L, M) : p.base # o.base

Fills(F2, F, m2, o) == F2 \subseteq F \cup {o} /\ (o \in F2 => Full(m2, o))

(* The program's objects are all right with the one handed over to it. *)
LEMMA ProgAdd ==
  ASSUME NEW mm, NEW h, NEW m, NEW F, NEW L, NEW M, NEW lib, NEW sh, NEW R,
         Reach(mm, sh, R, h), ProgOK(m, F, L, M, lib, sh, R),
         NEW lib2 \in SUBSET LibcBlocks, lib \subseteq lib2,
         NEW m2, NEW o, Handed(m, m2, lib2, sh, R, o),
         Fresh(L, M, o), NEW F2, Fills(F2, F, m2, o)
  PROVE  ProgOK(m2, F2, L \cup {o}, M, lib2, sh, R)
<1>1. m \in Mems /\ lib \in SUBSET LibcBlocks
  BY DEF ProgOK
<1>2. /\ m2 \in Mems /\ HeldOK(m2, lib2, sh, R, o)
      /\ \A w \in Words : m2[w] = m[w] \/ In(sh, o.base, w)
  BY DEF Handed
<1>3. o.base \in Nat /\ Place(lib2, R, o.base)
  BY <1>2, HeldBase
<1>4. ASSUME NEW p \in Users(L, M)
      PROVE  /\ HeldOK(m2, lib2, sh, R, p)
             /\ p.base \in Heap => m2[p.base - 1] = m[p.base - 1]
  <2>1. HeldOK(m, lib, sh, R, p) /\ p.base # o.base
    BY DEF ProgOK, Fresh
  <2>2. p.base \in Nat /\ Place(lib, R, p.base)
    BY <2>1, HeldBase
  <2>3. Place(lib2, R, p.base)
    BY <2>2 DEF Place
  <2>4. ASSUME NEW w \in Words, In(sh, p.base, w) PROVE m2[w] = m[w]
    <3>1. w \in Nat
      BY SMT, LibcFacts
    <3>2. ~In(sh, o.base, w)
      BY <1>3, <2>1, <2>2, <2>3, <2>4, <3>1, InApart
    <3> QED
      BY <1>2, <3>2
  <2>5. HeldOK(m2, lib2, sh, R, p)
    <3>1. SameRoom(m2, m, sh, p.base)
      BY <2>4 DEF SameRoom
    <3>2. SameClass(sh, sh, p.base)
      BY DEF SameClass
    <3>3. HeldOK(m, lib, sh, R, p) /\ m \in Mems /\ lib \in SUBSET LibcBlocks
      BY <1>1, <2>1
    <3> QED
      BY <2>3, <3>1, <3>2, <3>3, HeldFrame
  <2>6. p.base \in Heap => sh[p.base - 1] = get_slab_shift(m[p.base - 1])
    BY <2>1 DEF HeldOK
  <2>7. p.base \in Heap => In(sh, p.base, p.base - 1) /\ p.base - 1 \in Words
    BY <1>1, <2>2, <2>6, SpaceIn
  <2> QED
    BY <2>4, <2>5, <2>7
<1>5. ProgOK(m2, F, L, M, lib2, sh, R)
  BY <1>2, <1>4, ProgFrame
<1>6. Users(L \cup {o}, M) = Users(L, M) \cup {o}
  BY DEF Users
<1>7. \A p \in Users(L \cup {o}, M) : HeldOK(m2, lib2, sh, R, p)
  BY <1>2, <1>4, <1>6
<1>8. Roles(L \cup {o}, M)
  <2>1. Roles(L, M)
    BY DEF ProgOK
  <2>2. \A p \in L : p.base # o.base
    BY DEF Users, Fresh
  <2>3. \A a \in M : a[1].base # o.base /\ a[2].base # o.base
    BY DEF Users, Fresh
  <2>4. \A p, q \in L \cup {o} : p.base = q.base => p = q
    BY <2>1, <2>2 DEF Roles
  <2>5. \A a \in M, p \in L \cup {o} : a[1].base # p.base /\ a[2].base # p.base
    BY <2>1, <2>3 DEF Roles
  <2> QED
    BY <2>1, <2>4, <2>5 DEF Roles
<1>9. F2 \subseteq L \cup {o} /\ \A p \in F2 : Full(m2, p)
  BY <1>5 DEF ProgOK, Fills
<1> QED
  BY <1>2, <1>5, <1>7, <1>8, <1>9 DEF ProgOK

(* The program gives an object up. *)
LEMMA ProgDrop ==
  ASSUME NEW m, NEW F, NEW L, NEW M, NEW lib, NEW sh, NEW R, ProgOK(m, F, L, M, lib, sh, R),
         NEW o, NEW F2, F2 \subseteq F, o \notin F2
  PROVE  /\ ProgOK(m, F2, L \ {o}, M, lib, sh, R)
         /\ o \in L => \A p \in Users(L \ {o}, M) : p.base # o.base
<1>1. Users(L \ {o}, M) \subseteq Users(L, M)
  BY DEF Users
<1>2. Roles(L, M)
  BY DEF ProgOK
<1>3. Roles(L \ {o}, M)
  BY <1>2 DEF Roles
<1>4. ASSUME o \in L, NEW p \in Users(L \ {o}, M) PROVE p.base # o.base
  BY <1>2, <1>4 DEF Users, Roles
<1>5. F2 \subseteq L \ {o} /\ \A p \in F2 : Full(m, p)
  BY DEF ProgOK
<1> QED
  BY <1>1, <1>3, <1>4, <1>5 DEF ProgOK

(* A move begins. *)
LEMMA ProgPair ==
  ASSUME NEW m, NEW F, NEW L, NEW M, NEW lib, NEW sh, NEW R, ProgOK(m, F, L, M, lib, sh, R),
         NEW o \in L, NEW p \in L, o # p, Plain(o), Plain(p), NEW F2, F2 \subseteq F,
         o \notin F2, p \notin F2, NEW a, a[1] = o, a[2] = p, a[3] = m[p.base - 1]
  PROVE  ProgOK(m, F2, L \ {o, p}, M \cup {a}, lib, sh, R)
<1>1. Users(L \ {o, p}, M \cup {a}) \subseteq Users(L, M)
  BY DEF Users
<1>2. Roles(L, M)
  BY DEF ProgOK
<1>3. Roles(L \ {o, p}, M \cup {a})
  <2>1. o.base # p.base
    BY <1>2 DEF Roles
  <2>2. \A q \in L \ {o, p} : q.base # o.base /\ q.base # p.base
    BY <1>2 DEF Roles
  <2>3. \A b \in M : /\ b[1].base # o.base /\ b[1].base # p.base
                     /\ b[2].base # o.base /\ b[2].base # p.base
    BY <1>2 DEF Roles
  <2>4. \A q, r \in L \ {o, p} : q.base = r.base => q = r
    BY <1>2 DEF Roles
  <2>5. \A b \in M \cup {a}, q \in L \ {o, p} : b[1].base # q.base /\ b[2].base # q.base
    BY <1>2, <2>2 DEF Roles
  <2>6. \A b, d \in M \cup {a} : /\ b[1].base # d[2].base
                                 /\ b[1].base = d[1].base \/ b[2].base = d[2].base => b = d
    BY <1>2, <2>1, <2>3 DEF Roles
  <2> QED
    BY <2>4, <2>5, <2>6 DEF Roles
<1>4. F2 \subseteq L \ {o, p} /\ \A q \in F2 : Full(m, q)
  BY DEF ProgOK
<1>5. \A b \in M \cup {a} : Moving(m, b)
  BY DEF ProgOK, Moving
<1> QED
  BY <1>1, <1>3, <1>4, <1>5 DEF ProgOK

(* A move is over: both its objects are the program's. *)
LEMMA ProgSettle ==
  ASSUME NEW m, NEW F, NEW L, NEW M, NEW lib, NEW sh, NEW R, ProgOK(m, F, L, M, lib, sh, R),
         NEW a \in M
  PROVE  ProgOK(m, F, L \cup {a[1], a[2]}, M \ {a}, lib, sh, R)
<1>1. Users(L \cup {a[1], a[2]}, M \ {a}) \subseteq Users(L, M)
  BY DEF Users
<1>2. Roles(L, M)
  BY DEF ProgOK
<1>3. Roles(L \cup {a[1], a[2]}, M \ {a})
  <2>1. a[1].base # a[2].base
    BY <1>2 DEF Roles
  <2>2. \A q \in L : q.base # a[1].base /\ q.base # a[2].base
    BY <1>2 DEF Roles
  <2>3. \A b \in M \ {a} : /\ b[1].base # a[1].base /\ b[1].base # a[2].base
                           /\ b[2].base # a[1].base /\ b[2].base # a[2].base
    BY <1>2 DEF Roles
  <2>4. \A q, r \in L \cup {a[1], a[2]} : q.base = r.base => q = r
    BY <1>2, <2>1, <2>2 DEF Roles
  <2>5. \A b \in M \ {a}, q \in L \cup {a[1], a[2]} : b[1].base # q.base /\ b[2].base # q.base
    BY <1>2, <2>3 DEF Roles
  <2>6. \A b, d \in M \ {a} : /\ b[1].base # d[2].base
                              /\ b[1].base = d[1].base \/ b[2].base = d[2].base => b = d
    BY <1>2 DEF Roles
  <2> QED
    BY <2>4, <2>5, <2>6 DEF Roles
<1>4. F \subseteq L \cup {a[1], a[2]} /\ \A q \in F : Full(m, q)
  BY DEF ProgOK
<1>5. \A b \in M \ {a} : Moving(m, b)
  BY DEF ProgOK
<1> QED
  BY <1>1, <1>3, <1>4, <1>5 DEF ProgOK

(* What the allocator has taken back or not given, the program keeps. *)
LEMMA SoundFacts ==
  ASSUME NEW m, NEW sh, NEW R, NEW h, Sound(m, sh, R, h)
  PROVE  Reach(m, sh, R, h) /\ Kept(m, h.mem, sh, R) /\ h \in Heaps /\ h.mem \in Mems
<1>1. Reach(m, sh, R, h) /\ Kept(m, h.mem, sh, R)
  BY DEF Sound, Reach
<1> QED
  BY <1>1, ReachHeap

IsOut(m, sh, R, x) == x \in R /\ sh[x] = get_slab_shift(m[x])

(* An object of the heap that the program holds is out. *)
LEMMA UserOut ==
  ASSUME NEW m, NEW F, NEW L, NEW M, NEW lib, NEW sh, NEW R, ProgOK(m, F, L, M, lib, sh, R),
         NEW o \in Users(L, M), o.base \in Heap
  PROVE  IsOut(m, sh, R, o.base - 1)
<1>1. HeldOK(m, lib, sh, R, o)
  BY DEF ProgOK
<1> QED
  BY <1>1 DEF HeldOK, Place, IsOut

(* An object of a size has a word after its header. *)
LEMMA NextBase ==
  ASSUME NEW x \in Nat, NEW e, NEW z \in Nat, NEW top \in 1..(HeapSize + 1),
         e = x + (z + 1), e <= top, x \in Heap, NEW size \in Nat, size # 0, size <= z,
         NEW b, b = x + 1
  PROVE  x \in Nat /\ b \in Nat /\ b - 1 = x /\ b \in Heap /\ x \in Words
BY SMT, LibcFacts

(* An allocation that fails keeps what the program holds. *)
LEMMA NoneKeeps ==
  ASSUME NEW h, NEW sh, NEW R, NEW k, Sound(h.mem, sh, R, h), Sound(h.mem, sh, R, k),
         NEW F, NEW L, NEW M, NEW lib, ProgOK(h.mem, F, L, M, lib, sh, R)
  PROVE  Sound(k.mem, sh, R, k) /\ ProgOK(k.mem, F, L, M, lib, sh, R)
<1>1. Sound(k.mem, sh, R, k)
  BY SoundSelf
<1>2. /\ Reach(h.mem, sh, R, h) /\ Kept(h.mem, k.mem, sh, R) /\ k.mem \in Mems
  BY SoundFacts
<1>3. Same(sh, sh, R) /\ R \subseteq R
  BY DEF Same
<1>4. \A o \in Users(L, M) : o.base \in Heap => o.base - 1 \in R
  BY UserOut DEF IsOut
<1>5. ProgOK(k.mem, F, L, M, lib, sh, R)
  BY <1>2, <1>3, <1>4, ProgKept
<1> QED
  BY <1>1, <1>5

(* The program takes an object and writes it. *)
Given(k, F2, L, M, lib, cl, R, x, o, size) ==
    /\ Sound(k.mem, cl, R \cup {x}, k)
    /\ ProgOK(k.mem, F2, L \cup {o}, M, lib, cl, R \cup {x})
    /\ k \in Heaps /\ k.mem[x] = size /\ x + 1 \in Heap /\ x \in Nat
    /\ \A u \in Users(L, M) : u.base # x + 1

Writes(a, x, p, n, size, o, m2, k) ==
    /\ p \in Nat /\ n \in Nat /\ x + 1 <= p /\ p + n <= (x + 1) + size
    /\ o = Held(x + 1, p, n)
    /\ m2 = Written(Based(a.heap.mem, p, x + 1), p, n)
    /\ k = [a.heap EXCEPT !.mem = m2]

Marks(F2, F, o, p, n, x, size) ==
    F2 \subseteq F \cup {o} /\ (o \in F2 /\ p = x + 1 => n = size)

(* An allocation and the writes of its caller keep what the program holds. *)
LEMMA GiveKeeps ==
  ASSUME NEW h, NEW sh, NEW R, Sound(h.mem, sh, R, h),
         NEW F, NEW L, NEW M, NEW lib, ProgOK(h.mem, F, L, M, lib, sh, R),
         NEW size \in Nat, NEW a, NEW x \in Heap, NEW cl, Granted(h, sh, R, size, a, x, cl),
         NEW p, NEW n, NEW o, NEW m2, NEW k, Writes(a, x, p, n, size, o, m2, k),
         NEW F2, Marks(F2, F, o, p, n, x, size)
  PROVE  Given(k, F2, L, M, lib, cl, R, x, o, size)
<1>0. /\ p \in Nat /\ n \in Nat /\ x + 1 <= p /\ p + n <= (x + 1) + size
      /\ o = Held(x + 1, p, n)
      /\ m2 = Written(Based(a.heap.mem, p, x + 1), p, n)
      /\ k = [a.heap EXCEPT !.mem = m2]
  BY DEF Writes
<1>1. PICK g : g = a.heap
  OBVIOUS
<1>2. /\ x \notin R /\ size # 0 /\ cl[x] = get_slab_shift(size)
      /\ Sound(g.mem, cl, R \cup {x}, g)
      /\ Same(cl, sh, R) /\ Kept(h.mem, g.mem, sh, R) /\ g.mem[x] = size
  BY <1>1 DEF Granted
<1>3. /\ Reach(h.mem, sh, R, h) /\ Reach(g.mem, cl, R \cup {x}, g)
      /\ g \in Heaps /\ g.mem \in Mems
  BY <1>2, SoundFacts
<1>4. PICK b : b = x + 1
  OBVIOUS
<1>5. /\ x \in Nat /\ b \in Nat /\ b - 1 = x /\ b \in Heap /\ x \in Words
  <2>1. x \in R \cup {x}
    OBVIOUS
  <2>2. /\ x \in Nat /\ End(cl, x) = x + (Shl(cl[x]) + 1) /\ Shl(cl[x]) \in Nat
        /\ End(cl, x) <= g.cur /\ g.cur \in 1..(HeapSize + 1)
    BY SMT, <1>3, <2>1, ReachOuts
  <2>3. size <= Shl(cl[x])
    BY <1>2, SlabShift
  <2>5. size # 0
    BY <1>2
  <2> QED
    BY <1>4, <2>2, <2>3, <2>5, NextBase
<1>6. lib \in SUBSET LibcBlocks
  BY DEF ProgOK
<1>7. \A u \in Users(L, M) : u.base \in Heap => u.base - 1 \in R
  BY UserOut DEF IsOut
<1>8. ProgOK(g.mem, F, L, M, lib, cl, R \cup {x})
  <2>1. R \subseteq R \cup {x}
    OBVIOUS
  <2> QED
    BY <1>2, <1>3, <1>7, <2>1, ProgKept
<1>9. Place(lib, R \cup {x}, b)
  BY <1>5 DEF Place
<1>10. Space(g.mem, b) = size
  BY <1>2, <1>5 DEF Space
<1>11. b \in Heap => g.mem[b - 1] # 0 /\ cl[b - 1] = get_slab_shift(g.mem[b - 1])
  BY <1>2, <1>5
<1>12. m2 = Written(Based(g.mem, p, b), p, n)
  BY <1>0, <1>1, <1>4
<1>13. b <= p /\ p + n <= b + Space(g.mem, b)
  BY <1>0, <1>4, <1>10
<1>14. Handed(g.mem, m2, lib, cl, R \cup {x}, Held(b, p, n))
  BY <1>3, <1>5, <1>6, <1>9, <1>11, <1>12, <1>13, <1>0, HandedOver
<1>15. Handed(g.mem, m2, lib, cl, R \cup {x}, o) /\ o.base = b /\ o.ptr = p /\ o.data = n
  <2>1. o = Held(b, p, n)
    BY <1>0, <1>4
  <2> QED
    BY SMT, <1>14, <2>1 DEF Held
<1>16. /\ m2 \in Mems /\ m2[x] = size
       /\ \A w \in Words : m2[w] = g.mem[w] \/ In(cl, b, w)
  BY <1>2, <1>5, <1>15 DEF Handed
<1>17. Fresh(L, M, o)
  BY <1>2, <1>5, <1>7, <1>15 DEF Fresh
<1>18. Fills(F2, F, m2, o)
  BY <1>4, <1>5, <1>15, <1>16 DEF Full, Fills, Marks
<1>19. ProgOK(m2, F2, L \cup {o}, M, lib, cl, R \cup {x})
  <2>1. lib \subseteq lib
    OBVIOUS
  <2> QED
    BY <1>3, <1>6, <1>8, <1>15, <1>17, <1>18, <2>1, ProgAdd
<1>20. \A w \in Words : \/ m2[w] = g.mem[w] \/ w \notin Heap
                        \/ \E y \in R \cup {x} : y <= w /\ w < End(cl, y)
  BY <1>5, <1>16 DEF In
<1>21. Sound(m2, cl, R \cup {x}, [g EXCEPT !.mem = m2])
  BY <1>2, <1>16, <1>20, SoundWrite
<1>22. Sound(m2, cl, R \cup {x}, k)
  BY <1>0, <1>1, <1>21
<1>23. k.mem = m2
  BY SMTT(30), <1>0, <1>1, <1>3 DEF Heaps
<1>24. k \in Heaps
  BY <1>22, SoundFacts
<1>25. k.mem[x] = size /\ x + 1 \in Heap /\ \A u \in Users(L, M) : u.base # x + 1
  BY <1>4, <1>5, <1>15, <1>16, <1>17, <1>23 DEF Fresh
<1>26. /\ Sound(k.mem, cl, R \cup {x}, k)
       /\ ProgOK(k.mem, F2, L \cup {o}, M, lib, cl, R \cup {x})
  BY <1>19, <1>22, <1>23
<1> QED
  BY <1>5, <1>24, <1>25, <1>26 DEF Given

(* The program gives an object back. *)
Frees(h, o, x, c, k) ==
    /\ x = o.base - 1 /\ o.base \in Heap
    /\ k = free_to_cache_list(h, x, get_slab_shift(h.mem[x]), c)

Taken(h, k, F2, L, M, lib, sh, R, x, o) ==
    /\ Sound(k.mem, sh, R \ {x}, k)
    /\ ProgOK(k.mem, F2, L \ {o}, M, lib, sh, R \ {x})
    /\ Kept(h.mem, k.mem, sh, R \ {x})

(* A free keeps what the program still holds. *)
LEMMA TakeKeeps ==
  ASSUME NEW h, NEW sh, NEW R, Sound(h.mem, sh, R, h),
         NEW F, NEW L, NEW M, NEW lib, ProgOK(h.mem, F, L, M, lib, sh, R),
         NEW o \in L, NEW F2, F2 \subseteq F, o \notin F2, NEW c \in Cores,
         NEW x, NEW k, Frees(h, o, x, c, k)
  PROVE  Taken(h, k, F2, L, M, lib, sh, R, x, o)
<1>0. /\ x = o.base - 1 /\ o.base \in Heap
      /\ k = free_to_cache_list(h, x, get_slab_shift(h.mem[x]), c)
  BY DEF Frees
<1>1. o \in Users(L, M)
  BY DEF Users
<1>2. x \in R /\ sh[x] = get_slab_shift(h.mem[x])
  <2>1. IsOut(h.mem, sh, R, x)
    BY <1>0, <1>1, UserOut
  <2> QED
    BY <2>1 DEF IsOut
<1>3. k = free_to_cache_list(h, x, sh[x], c)
  BY <1>0, <1>2
<1>4. Sound(h.mem, sh, R \ {x}, k)
  BY <1>2, <1>3, FreeKeeps
<1>5. Sound(k.mem, sh, R \ {x}, k)
  BY <1>4, SoundSelf
<1>6. Reach(h.mem, sh, R, h) /\ Kept(h.mem, k.mem, sh, R \ {x}) /\ k.mem \in Mems
  BY <1>4, SoundFacts
<1>7. /\ ProgOK(h.mem, F2, L \ {o}, M, lib, sh, R)
      /\ \A p \in Users(L \ {o}, M) : p.base # o.base
  BY ProgDrop
<1>8. ASSUME NEW p \in Users(L \ {o}, M), p.base \in Heap PROVE p.base - 1 \in R \ {x}
  <2>1. p.base - 1 \in R
    BY <1>7, <1>8, UserOut DEF IsOut
  <2>2. p.base \in Nat /\ o.base \in Nat
    BY SMTT(30), <1>0, <1>8, LibcFacts
  <2>3. p.base # o.base
    BY <1>7
  <2>4. p.base - 1 # x
    BY SMTT(30), <1>0, <2>2, <2>3
  <2> QED
    BY <2>1, <2>4
<1>9. Same(sh, sh, R \ {x}) /\ R \ {x} \subseteq R \ {x}
  BY DEF Same
<1>10. ProgOK(k.mem, F2, L \ {o}, M, lib, sh, R \ {x})
  BY <1>6, <1>7, <1>8, <1>9, ProgKept
<1> QED
  BY <1>5, <1>6, <1>10 DEF Taken

=============================================================================
