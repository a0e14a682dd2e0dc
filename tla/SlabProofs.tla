----------------------------- MODULE SlabProofs -----------------------------
(***************************************************************************)
(* The allocator's heap is tiled, what the program holds is intact and no  *)
(* BUG_ON fires, for every heap, set of cores and range of classes: from   *)
(* an inductive invariant that says which objects are out and what they    *)
(* have to do with what the program holds.                                 *)
(***************************************************************************)
EXTENDS SlabHeapProofs

(* The leaves are Zenon's, but for those that name another prover. *)
USE Zenon

-----------------------------------------------------------------------------
(* The inductive invariant. *)

Covered(L, M, R) == \A x \in R : \E o \in Users(L, M) : o.base \in Heap /\ o.base = x + 1

All(rt, h, L, M, lib, b, sh, R) ==
    /\ rt \in {"booting", "running", "ended"} /\ b = FALSE
    /\ Sound(h.mem, sh, R, h) /\ ProgOK(h.mem, L, L, M, lib, sh, R)
    /\ rt = "booting" => R = {}
    /\ M # {} => rt = "running"
    /\ rt = "running" => Covered(L, M, R)

(***************************************************************************)
(* There are classes for the words of the heap and a set of objects that   *)
(* are out such that the lists and these tile the heap, every object the   *)
(* program holds is one of them, or the C library's, and is intact; and    *)
(* while the runtime runs all that are out are held.                       *)
(***************************************************************************)
IInv == \E sh, R : All(runtime, H, live, moving, libc, bug, sh, R)

(* The heap of the state, as a record. *)
LEMMA HIs == H.mem = mem /\ H.cur = cur /\ H.lists = lists
BY SMT DEF H

(* SetHeap makes k the heap of the next state. *)
LEMMA SetHeapIs == ASSUME NEW k \in Heaps, SetHeap(k) PROVE H' = k
BY SMT DEF SetHeap, H, Heaps

(* An aligned pointer lies at most Alignment behind, and after the saved base. *)
LEMMA AlignUpIs ==
  ASSUME NEW p \in Nat
  PROVE  AlignUp(p) \in Nat /\ p + 1 <= AlignUp(p) /\ AlignUp(p) <= p + Alignment
<1>1. Alignment \in Nat /\ Alignment # 0
  BY SMT, SlabAssumption
<1>2. p + Header + Alignment - 1 = p + Alignment /\ p + Alignment \in Nat
  BY SMT, <1>1 DEF Header
<1>3. PICK q : q = (p + Alignment) \div Alignment
  OBVIOUS
<1>4. q \in Nat /\ q * Alignment <= p + Alignment /\ p + Alignment < (q + 1) * Alignment
  BY SMT, <1>1, <1>2, <1>3
<1>5. (q + 1) * Alignment = q * Alignment + Alignment /\ q * Alignment \in Nat
  BY SMT, <1>1, <1>4
<1>6. AlignUp(p) = q * Alignment
  BY <1>2, <1>3 DEF AlignUp
<1> QED
  BY SMT, <1>1, <1>4, <1>5, <1>6

(* The invariant holds initially: an empty heap, and nothing held. *)
LEMMA InitInv == Init => IInv
<1> SUFFICES ASSUME Init PROVE IInv
  BY SMT
<1> DEFINE sh == [a \in Heap |-> 0]
           at == [a \in Heap |-> Out]
<1>1. mem \in Mems /\ cur \in 1..(HeapSize + 1) /\ cur = 1
  BY SMT, SlabAssumption, LibcFacts DEF Init, Mems
<1>2. lists \in [Owners -> [Shifts -> Lists]]
  BY SMT DEF Init, Lists, EmptyList
<1>3. H \in Heaps
  BY SMT, <1>1, <1>2 DEF H, Heaps
<1>4. Tiles(H.cur, {}, sh)
  <2>1. sh \in [Heap -> Nat]
    BY SMT
  <2>2. 1..(cur - 1) = {}
    BY SMT, <1>1
  <2> HIDE DEF sh
  <2> QED
    BY <1>1, <2>1, <2>2, HIs DEF Tiles
<1>5. at \in [Heap -> Owners \cup {Out}]
  BY SMT
<1> HIDE DEF sh, at
<1>6. ASSUME NEW o \in Owners, NEW s \in Shifts
      PROVE  IsList(H.mem, H.lists[o][s], On({}, sh, at, o, s))
  <2>1. H.lists[o][s] = EmptyList
    BY SMT, HIs DEF Init
  <2>2. On({}, sh, at, o, s) = {}
    BY DEF On
  <2> QED
    BY <2>1, <2>2, EmptyIsList
<1>7. Good(H, {}, sh, at)
  BY <1>3, <1>4, <1>5, <1>6 DEF Good
<1>8. Outs({}, at) = {}
  BY DEF Outs
<1>9. Same(sh, sh, {}) /\ Kept(H.mem, H.mem, sh, {})
  BY DEF Same, Kept
<1>10. Reach(H.mem, sh, {}, H)
  BY <1>7, <1>8, <1>9 DEF Reach
<1>11. ASSUME NEW o \in Cores, NEW s \in Shifts
       PROVE  H.lists[o][s].size <= get_max_num_cache_entries(s)
  <2>1. H.lists[o][s] = EmptyList
    BY SMT, HIs, CoresOwn DEF Init
  <2>2. get_max_num_cache_entries(s) \in Nat
    BY MaxEntries
  <2> QED
    BY SMT, <2>1, <2>2 DEF EmptyList
<1>12. Sound(H.mem, sh, {}, H)
  BY <1>10, <1>11 DEF Sound
<1>13. ProgOK(H.mem, live, live, moving, libc, sh, {})
  <2>1. live = {} /\ moving = {} /\ libc = {}
    BY DEF Init
  <2>2. Users({}, {}) = {}
    BY DEF Users
  <2>3. Roles({}, {})
    BY DEF Roles
  <2> QED
    BY <1>1, <2>1, <2>2, <2>3, HIs DEF ProgOK
<1>14. All(runtime, H, live, moving, libc, bug, sh, {})
  BY <1>12, <1>13 DEF All, Init
<1> QED
  BY <1>14 DEF IInv

(* Starting and ending the runtime keep it. *)
LEMMA StartInv == IInv /\ (Start \/ TearDown \/ UNCHANGED vars) => IInv'
<1> SUFFICES ASSUME IInv, Start \/ TearDown \/ UNCHANGED vars PROVE IInv'
  BY SMT
<1>1. PICK sh, R : All(runtime, H, live, moving, libc, bug, sh, R)
  BY DEF IInv
<1>2. H' = H /\ live' = live /\ moving' = moving /\ libc' = libc /\ bug' = bug
  BY DEF Start, TearDown, vars, heapVars, H
<1>3. CASE Start
  <2>1. R = {} /\ runtime' = "running"
    BY <1>1, <1>3 DEF All, Start
  <2>2. Covered(live, moving, R)
    BY <2>1 DEF Covered
  <2>3. "running" # "booting" /\ "running" \in {"booting", "running", "ended"}
    BY SMT
  <2>4. All("running", H, live, moving, libc, bug, sh, R)
    BY <1>1, <2>2, <2>3 DEF All
  <2>5. All(runtime', H', live', moving', libc', bug', sh, R)
    BY <1>2, <2>1, <2>4
  <2> QED
    BY <2>5 DEF IInv
<1>4. CASE TearDown
  <2>1. moving = {} /\ runtime' = "ended"
    BY <1>4 DEF TearDown
  <2>2. "ended" # "booting" /\ "ended" # "running" /\ "ended" \in {"booting", "running", "ended"}
    BY SMT
  <2>3. All("ended", H, live, moving, libc, bug, sh, R)
    BY <1>1, <2>1, <2>2 DEF All
  <2>4. All(runtime', H', live', moving', libc', bug', sh, R)
    BY <1>2, <2>1, <2>3
  <2> QED
    BY <2>4 DEF IInv
<1>5. CASE UNCHANGED vars
  <2>1. runtime' = runtime
    BY <1>5 DEF vars
  <2>2. All(runtime', H', live', moving', libc', bug', sh, R)
    BY <1>1, <1>2, <2>1
  <2> QED
    BY <2>2 DEF IInv
<1> QED
  BY <1>3, <1>4, <1>5

(* The runtime's heap after one of its operations. *)
LEMMA NextAll ==
  ASSUME NEW k \in Heaps, SetHeap(k), UNCHANGED <<runtime, libc, bug>>, NEW sh, NEW R,
         All(runtime, k, live', moving', libc, bug, sh, R)
  PROVE  IInv'
<1>1. H' = k
  BY SetHeapIs
<1>2. runtime' = runtime /\ libc' = libc /\ bug' = bug
  OBVIOUS
<1>3. All(runtime', H', live', moving', libc', bug', sh, R)
  BY <1>1, <1>2
<1> QED
  BY <1>3 DEF IInv

(* Without memory nothing changes but the lists. *)
LEMMA NoneAll ==
  ASSUME NEW h, NEW sh, NEW R, NEW k, Sound(h.mem, sh, R, k),
         NEW rt, NEW L, NEW M, NEW lib, NEW b, All(rt, h, L, M, lib, b, sh, R)
  PROVE  All(rt, k, L, M, lib, b, sh, R)
<1>1. Sound(h.mem, sh, R, h) /\ ProgOK(h.mem, L, L, M, lib, sh, R)
  BY DEF All
<1>2. Sound(k.mem, sh, R, k) /\ ProgOK(k.mem, L, L, M, lib, sh, R)
  BY <1>1, NoneKeeps
<1> QED
  BY <1>2 DEF All

(* What is out is still held with one more object that is out and held. *)
LEMMA CoveredMore ==
  ASSUME NEW L, NEW M, NEW R, Covered(L, M, R), NEW o, NEW x,
         o.base \in Heap, o.base = x + 1
  PROVE  Covered(L \cup {o}, M, R \cup {x})
BY DEF Covered, Users

(* The program gets memory from the runtime's heap. *)
LEMMA GiveAll ==
  ASSUME NEW h, NEW sh, NEW R, NEW L, NEW M, NEW lib, NEW b,
         All("running", h, L, M, lib, b, sh, R),
         NEW size \in Nat, NEW a, NEW x \in Heap, NEW cl, Granted(h, sh, R, size, a, x, cl),
         NEW p, NEW n, NEW o, NEW m2, NEW k, Writes(a, x, p, n, size, o, m2, k),
         p = x + 1 => n = size
  PROVE  /\ All("running", k, L \cup {o}, M, lib, b, cl, R \cup {x})
         /\ k \in Heaps
<1>3. PICK F2 : F2 = L \cup {o}
  OBVIOUS
<1>4. Sound(h.mem, sh, R, h) /\ ProgOK(h.mem, L, L, M, lib, sh, R)
  BY DEF All
<1>6. Marks(F2, L, o, p, n, x, size)
  BY <1>3 DEF Marks
<1>5. Given(k, F2, L, M, lib, cl, R, x, o, size)
  BY <1>4, <1>6, GiveKeeps
<1>7. /\ Sound(k.mem, cl, R \cup {x}, k)
      /\ ProgOK(k.mem, F2, L \cup {o}, M, lib, cl, R \cup {x})
  BY <1>5 DEF Given
<1>8. o.base = x + 1 /\ o.base \in Heap
  <2>1. o = Held(x + 1, p, n) /\ x + 1 \in Heap
    BY <1>5 DEF Writes, Given
  <2>2. o.base = x + 1
    BY SMT, <2>1 DEF Held
  <2> QED
    BY <2>1, <2>2
<1>9. Covered(L, M, R)
  BY DEF All
<1>10. Covered(L \cup {o}, M, R \cup {x})
  BY <1>8, <1>9, CoveredMore
<1>11. ProgOK(k.mem, L \cup {o}, L \cup {o}, M, lib, cl, R \cup {x})
  BY <1>3, <1>7
<1>12. "running" # "booting"
  BY SMT
<1>13. All("running", k, L \cup {o}, M, lib, b, cl, R \cup {x})
  BY <1>7, <1>10, <1>11, <1>12 DEF All
<1>14. k \in Heaps
  BY <1>7, SoundFacts
<1> QED
  BY <1>13, <1>14

(* A call that the C library serves, out of the runtime, keeps it. *)
LEMMA LibcInv ==
  ASSUME NEW size \in Nat, NEW aligned \in BOOLEAN, IInv, runtime # "running",
         real_malloc(size, aligned),
         IF aligned THEN size + Alignment <= LibcSize ELSE size <= LibcSize
  PROVE  IInv'
<1>1. PICK sh, R : All(runtime, H, live, moving, libc, bug, sh, R)
  BY DEF IInv
<1>2. PICK b \in LibcBlocks \ libc :
         LET p == IF aligned THEN AlignUp(b) ELSE b
         IN  /\ libc' = libc \cup {b}
             /\ mem' = Written(Based(mem, p, b), p, size)
             /\ live' = live \cup {Held(b, p, size)}
             /\ UNCHANGED <<runtime, cur, lists, moving, bug>>
  BY DEF real_malloc
<1>3. PICK p : p = IF aligned THEN AlignUp(b) ELSE b
  OBVIOUS
<1>4. PICK o : o = Held(b, p, size)
  OBVIOUS
<1>5. /\ libc' = libc \cup {b} /\ mem' = Written(Based(mem, p, b), p, size)
      /\ live' = live \cup {o}
      /\ runtime' = runtime /\ cur' = cur /\ lists' = lists /\ moving' = moving /\ bug' = bug
  BY <1>2, <1>3, <1>4
<1>6. /\ b \in Nat /\ b \notin Heap /\ LibcSize \in Nat
  BY <1>2, LibcFacts
<1>7. p \in Nat /\ b <= p /\ p + size <= b + LibcSize
  <2>1. CASE aligned
    <3>1. p = AlignUp(b) /\ size + Alignment <= LibcSize
      BY <1>3, <2>1
    <3>2. AlignUp(b) \in Nat /\ b + 1 <= AlignUp(b) /\ AlignUp(b) <= b + Alignment
      BY <1>6, AlignUpIs
    <3> QED
      BY SMTT(30), <1>6, <3>1, <3>2, SlabAssumption
  <2>2. CASE ~aligned
    <3>1. p = b /\ size <= LibcSize
      BY <1>3, <2>2
    <3> QED
      BY SMT, <1>6, <3>1
  <2> QED
    BY <2>1, <2>2
<1>8. Sound(mem, sh, R, H) /\ ProgOK(mem, live, live, moving, libc, sh, R)
  BY <1>1, HIs DEF All
<1>9. Reach(mem, sh, R, H) /\ mem \in Mems /\ H \in Heaps
  BY <1>8, SoundFacts, HIs
<1>10. libc \in SUBSET LibcBlocks /\ libc' \in SUBSET LibcBlocks /\ libc \subseteq libc'
  BY <1>2, <1>5, <1>8 DEF ProgOK
<1>11. Place(libc', R, b)
  BY <1>5, <1>6 DEF Place
<1>12. p + size <= b + Space(mem, b)
  BY <1>6, <1>7 DEF Space
<1>13. b \in Heap => mem[b - 1] # 0 /\ sh[b - 1] = get_slab_shift(mem[b - 1])
  BY <1>6
<1>14. Handed(mem, mem', libc', sh, R, Held(b, p, size))
  BY <1>5, <1>6, <1>7, <1>9, <1>10, <1>11, <1>12, <1>13, HandedOver
<1>15. Handed(mem, mem', libc', sh, R, o) /\ o.base = b
  BY SMT, <1>4, <1>14 DEF Held
<1>16. Fresh(live, moving, o)
  <2>1. ASSUME NEW u \in Users(live, moving), u.base = b PROVE FALSE
    <3>1. HeldOK(mem, libc, sh, R, u)
      BY <1>8 DEF ProgOK
    <3>2. Place(libc, R, b)
      BY <2>1, <3>1 DEF HeldOK
    <3> QED
      BY <1>2, <1>6, <3>2 DEF Place
  <2> QED
    BY <1>15, <2>1 DEF Fresh
<1>17. Fills(live', live, mem', o)
  BY <1>5, <1>6, <1>15 DEF Fills, Full
<1>18. ProgOK(mem', live', live \cup {o}, moving, libc', sh, R)
  BY <1>8, <1>9, <1>10, <1>15, <1>16, <1>17, ProgAdd
<1>19. ProgOK(mem', live', live', moving', libc', sh, R)
  BY <1>5, <1>18
<1>20. mem' \in Mems /\ \A w \in Words : mem'[w] = mem[w] \/ In(sh, b, w)
  BY <1>15 DEF Handed
<1>21. ASSUME NEW w \in Words PROVE mem'[w] = H.mem[w] \/ w \notin Heap
  <2>1. w \in Nat
    BY SMT, LibcFacts
  <2>2. In(sh, b, w) => w \notin Heap
    BY <1>6, <1>9, <1>10, <1>11, <2>1, Places
  <2> QED
    BY <1>20, <2>2, HIs
<1>22. Sound(mem', sh, R, [H EXCEPT !.mem = mem'])
  BY <1>8, <1>20, <1>21, SoundWrite
<1>23. H' = [H EXCEPT !.mem = mem']
  BY SMT, <1>5 DEF H
<1>24. H'.mem = mem'
  BY SMT DEF H
<1>25. Sound(H'.mem, sh, R, H')
  BY <1>22, <1>23, <1>24
<1>26. All(runtime', H', live', moving', libc', bug', sh, R)
  BY <1>1, <1>5, <1>19, <1>24, <1>25 DEF All
<1> QED
  BY <1>26 DEF IInv

(* An object has room for its header: its base is not null. *)
LEMMA NotNull == \A x \in Heap : x + 1 # NULL /\ x \in Nat /\ x + 1 \in Nat
BY SMT, LibcFacts DEF NULL

(* operator new keeps it. *)
LEMMA NewInv ==
  ASSUME NEW size \in Sizes, NEW c \in Cores, IInv, New(size, c)
  PROVE  IInv'
<1>1. size \in Nat /\ size <= LibcSize
  BY SMT, SlabAssumption
<1>2. CASE runtime # "running"
  <2>1. real_malloc(size, FALSE)
    BY <1>2 DEF New
  <2>2. IF FALSE THEN size + Alignment <= LibcSize ELSE size <= LibcSize
    BY <1>1
  <2>3. FALSE \in BOOLEAN
    OBVIOUS
  <2> QED
    BY <1>1, <1>2, <2>1, <2>2, <2>3, LibcInv
<1>3. CASE runtime = "running"
  <2>1. PICK sh, R : All(runtime, H, live, moving, libc, bug, sh, R)
    BY DEF IInv
  <2>2. PICK a : a = allocate(H, size, c)
    OBVIOUS
  <2>3. /\ SetHeap(IF a.ptr = NULL THEN a.heap
                   ELSE [a.heap EXCEPT !.mem = Written(a.heap.mem, a.ptr, size)])
        /\ live' = live \cup IF a.ptr = NULL THEN {} ELSE {Held(a.ptr, a.ptr, size)}
        /\ UNCHANGED <<runtime, moving, libc, bug>>
    BY SMT, <1>3, <2>2 DEF New
  <2>4. Sound(H.mem, sh, R, H)
    BY <2>1 DEF All
  <2>5. Allocated(H, sh, R, size, a)
    BY <1>1, <2>2, <2>4, AllocateKeeps
  <2>6. CASE a.ptr = NULL /\ Sound(H.mem, sh, R, a.heap)
    <3>1. SetHeap(a.heap) /\ live' = live /\ moving' = moving /\ UNCHANGED <<runtime, libc, bug>>
      BY <2>3, <2>6
    <3>2. All(runtime, a.heap, live, moving, libc, bug, sh, R)
      BY <2>1, <2>6, NoneAll
    <3>3. All(runtime, a.heap, live', moving', libc, bug, sh, R)
      BY <3>1, <3>2
    <3>4. a.heap \in Heaps
      BY <2>6, SoundFacts
    <3> QED
      BY <3>1, <3>3, <3>4, NextAll
  <2>7. ASSUME NEW x \in Heap, NEW cl, Granted(H, sh, R, size, a, x, cl) PROVE IInv'
    <3>1. a.ptr = x + 1 /\ a.ptr # NULL /\ a.ptr \in Nat
      BY <2>7, NotNull DEF Granted
    <3>2. PICK m2 : m2 = Written(a.heap.mem, a.ptr, size)
      OBVIOUS
    <3>3. PICK k : k = [a.heap EXCEPT !.mem = m2]
      OBVIOUS
    <3>4. PICK o : o = Held(a.ptr, a.ptr, size)
      OBVIOUS
    <3>5. SetHeap(k) /\ live' = live \cup {o} /\ moving' = moving /\ UNCHANGED <<runtime, libc, bug>>
      BY <2>3, <3>1, <3>2, <3>3, <3>4
    <3>6. Based(a.heap.mem, a.ptr, x + 1) = a.heap.mem
      BY <3>1 DEF Based
    <3>7. x + 1 <= a.ptr /\ a.ptr + size <= (x + 1) + size
      BY SMT, <1>1, <3>1
    <3>8. Writes(a, x, a.ptr, size, size, o, m2, k)
      BY <1>1, <3>1, <3>2, <3>3, <3>4, <3>6, <3>7 DEF Writes
    <3>9. a.ptr = x + 1 => size = size
      OBVIOUS
    <3>10. All("running", H, live, moving, libc, bug, sh, R)
      BY <1>3, <2>1
    <3>11. All("running", k, live \cup {o}, moving, libc, bug, cl, R \cup {x}) /\ k \in Heaps
      BY <1>1, <2>7, <3>8, <3>9, <3>10, GiveAll
    <3>12. All(runtime, k, live', moving', libc, bug, cl, R \cup {x})
      BY <1>3, <3>5, <3>11
    <3> QED
      BY <3>5, <3>11, <3>12, NextAll
  <2> QED
    BY <2>5, <2>6, <2>7 DEF Allocated
<1> QED
  BY <1>2, <1>3

(* The aligned operator new keeps it. *)
LEMMA NewAlignedInv ==
  ASSUME NEW size \in AlignedSizes, NEW c \in Cores, IInv, NewAligned(size, c)
  PROVE  IInv'
<1>1. size \in Nat /\ size + Alignment <= LibcSize /\ Alignment \in Nat
  BY SMT, SlabAssumption
<1>2. CASE runtime # "running"
  <2>1. real_malloc(size, TRUE)
    BY <1>2 DEF NewAligned
  <2>2. IF TRUE THEN size + Alignment <= LibcSize ELSE size <= LibcSize
    BY <1>1
  <2>3. TRUE \in BOOLEAN
    OBVIOUS
  <2> QED
    BY <1>1, <1>2, <2>1, <2>2, <2>3, LibcInv
<1>3. CASE runtime = "running"
  <2>1. PICK sh, R : All(runtime, H, live, moving, libc, bug, sh, R)
    BY DEF IInv
  <2>2. PICK z : z = size + Header + Alignment - 1
    OBVIOUS
  <2>3. z \in Nat /\ z = size + Alignment
    BY SMT, <1>1, <2>2 DEF Header
  <2>4. PICK a : a = allocate(H, z, c)
    OBVIOUS
  <2>5. PICK p : p = AlignUp(a.ptr)
    OBVIOUS
  <2>6. /\ a.ptr # NULL
        /\ SetHeap([a.heap EXCEPT !.mem = Written(Based(a.heap.mem, p, a.ptr), p, size)])
        /\ live' = live \cup {Held(a.ptr, p, size)}
        /\ UNCHANGED <<runtime, moving, libc, bug>>
    BY SMTT(30), <1>3, <2>2, <2>4, <2>5 DEF NewAligned
  <2>7. Sound(H.mem, sh, R, H)
    BY <2>1 DEF All
  <2>8. Allocated(H, sh, R, z, a)
    BY <2>3, <2>4, <2>7, AllocateKeeps
  <2>x. PICK x \in Heap : \E cl : Granted(H, sh, R, z, a, x, cl)
    BY <2>6, <2>8 DEF Allocated
  <2>9. PICK cl : Granted(H, sh, R, z, a, x, cl)
    BY <2>x
  <2>10. a.ptr = x + 1 /\ a.ptr \in Nat
    BY <2>9, NotNull DEF Granted
  <2>11. p \in Nat /\ a.ptr + 1 <= p /\ p <= a.ptr + Alignment
    BY <2>5, <2>10, AlignUpIs
  <2>12. PICK m2 : m2 = Written(Based(a.heap.mem, p, a.ptr), p, size)
    OBVIOUS
  <2>13. PICK k : k = [a.heap EXCEPT !.mem = m2]
    OBVIOUS
  <2>14. PICK o : o = Held(a.ptr, p, size)
    OBVIOUS
  <2>15. SetHeap(k) /\ live' = live \cup {o} /\ moving' = moving /\ UNCHANGED <<runtime, libc, bug>>
    BY <2>6, <2>12, <2>13, <2>14
  <2>16. a.ptr <= p /\ p # a.ptr /\ p + size <= a.ptr + z
    BY SMTT(30), <1>1, <2>3, <2>10, <2>11
  <2>17. Writes(a, x, p, size, z, o, m2, k)
    BY <1>1, <2>10, <2>11, <2>12, <2>13, <2>14, <2>16 DEF Writes
  <2>18. p = x + 1 => size = z
    BY <2>10, <2>16
  <2>19. All("running", H, live, moving, libc, bug, sh, R)
    BY <1>3, <2>1
  <2>20. All("running", k, live \cup {o}, moving, libc, bug, cl, R \cup {x}) /\ k \in Heaps
    BY <2>3, <2>9, <2>17, <2>18, <2>19, GiveAll
  <2>21. All(runtime, k, live', moving', libc, bug, cl, R \cup {x})
    BY <1>3, <2>15, <2>20
  <2> QED
    BY <2>15, <2>20, <2>21, NextAll
<1> QED
  BY <1>2, <1>3

(* What a held object's base is, and that free accepts it. *)
FreeOK(h, o) ==
    /\ (IF o.ptr = o.base THEN o.ptr ELSE h.mem[o.ptr - 1]) = o.base
    /\ o.base \in Heap => /\ o.base \in 1..(h.cur - 1)
                          /\ get_slab_shift(h.mem[o.base - 1]) \in Shifts

(* Every object that the program holds may be freed. *)
LEMMA HeldFree ==
  ASSUME NEW h, NEW sh, NEW R, Sound(h.mem, sh, R, h),
         NEW F, NEW L, NEW M, NEW lib, ProgOK(h.mem, F, L, M, lib, sh, R), NEW o \in L
  PROVE  FreeOK(h, o)
<1>1. HeldOK(h.mem, lib, sh, R, o) /\ lib \in SUBSET LibcBlocks
  BY DEF ProgOK, Users
<1>2. (IF o.ptr = o.base THEN o.ptr ELSE h.mem[o.ptr - 1]) = o.base
  BY <1>1 DEF HeldOK
<1>3. ASSUME o.base \in Heap
      PROVE  o.base \in 1..(h.cur - 1) /\ get_slab_shift(h.mem[o.base - 1]) \in Shifts
  <2>1. o.base \in Nat /\ Place(lib, R, o.base)
    BY <1>1, HeldBase
  <2>2. Reach(h.mem, sh, R, h) /\ h.mem \in Mems
    BY SoundFacts
  <2>3. Placed(sh, R, h, o.base)
    BY <1>1, <1>3, <2>1, <2>2, Places
  <2>4. PICK x : x = o.base - 1
    OBVIOUS
  <2>5. /\ x \in Words /\ Shl(sh[x]) \in Nat /\ o.base + Shl(sh[x]) <= h.cur
        /\ h.cur \in 1..(HeapSize + 1) /\ sh[x] \in Shifts
    BY <2>3, <2>4 DEF Placed
  <2>6. h.mem[x] # 0 /\ sh[x] = get_slab_shift(h.mem[x])
    BY <1>1, <1>3, <2>4 DEF HeldOK
  <2>7. h.mem[x] \in Nat
    <3>1. h.mem[x] \in 0..Data
      BY <2>2, <2>5 DEF Mems
    <3> QED
      BY SMT, <3>1
  <2>8. h.mem[x] <= Shl(sh[x])
    BY <2>6, <2>7, SlabShift
  <2>9. o.base \in 1..(h.cur - 1)
    <3>1. o.base >= 1 /\ HeapSize \in Nat
      BY SMT, <1>3, LibcFacts
    <3> QED
      BY SMTT(30), <2>1, <2>5, <2>6, <2>7, <2>8, <3>1
  <2> QED
    BY <2>4, <2>5, <2>6, <2>9
<1> QED
  BY <1>2, <1>3 DEF FreeOK

(* operator delete keeps it. *)
LEMMA DeleteInv ==
  ASSUME NEW o \in live, NEW c \in Cores, IInv, Delete(o, c)
  PROVE  IInv'
<1>1. PICK sh, R : All(runtime, H, live, moving, libc, bug, sh, R)
  BY DEF IInv
<1>2. Sound(H.mem, sh, R, H) /\ ProgOK(H.mem, live, live, moving, libc, sh, R)
  BY <1>1 DEF All
<1>3. PICK b : b = o.base
  OBVIOUS
<1>14. FreeOK(H, o)
  BY <1>2, HeldFree
<1>4. (IF o.ptr = o.base THEN o.ptr ELSE mem[o.ptr - 1]) = b
  BY <1>3, <1>14, HIs DEF FreeOK
<1>5. /\ live' = live \ {o} /\ runtime' = runtime /\ moving' = moving
      /\ IF b \notin Heap
         THEN libc' = libc \ {b} /\ UNCHANGED <<heapVars, bug>>
         ELSE /\ libc' = libc
              /\ IF runtime = "running" THEN free(b, c)
                 ELSE UNCHANGED <<heapVars, bug>>
  BY <1>4 DEF Delete, if_own
<1>6. PICK F2 : F2 = live \ {o}
  OBVIOUS
<1>7. F2 \subseteq live /\ o \notin F2
  BY <1>6
<1>8. /\ ProgOK(H.mem, F2, live \ {o}, moving, libc, sh, R)
      /\ \A p \in Users(live \ {o}, moving) : p.base # b
  BY <1>2, <1>3, <1>7, ProgDrop
<1>9. ProgOK(H.mem, live', live', moving', libc, sh, R)
  BY <1>5, <1>6, <1>8
<1>10. CASE b \notin Heap
  <2>1. libc' = libc \ {b} /\ mem' = mem /\ cur' = cur /\ lists' = lists /\ bug' = bug
    BY <1>5, <1>10 DEF heapVars
  <2>2. H' = H
    BY <2>1 DEF H
  <2>3. ASSUME NEW p \in Users(live', moving')
        PROVE  HeldOK(H.mem, libc', sh, R, p)
    <3>1. HeldOK(H.mem, libc, sh, R, p) /\ p.base # b
      BY <1>5, <1>8, <1>9 DEF ProgOK
    <3>2. Place(libc', R, p.base)
      BY <2>1, <3>1 DEF HeldOK, Place
    <3> QED
      BY <3>1, <3>2 DEF HeldOK
  <2>4. ProgOK(H.mem, live', live', moving', libc', sh, R)
    BY <1>9, <2>1, <2>3 DEF ProgOK
  <2>5. runtime = "running" => Covered(live', moving', R)
    <3>1. runtime = "running" => Covered(live, moving, R)
      BY <1>1 DEF All
    <3> QED
      BY <1>3, <1>5, <1>10, <3>1 DEF Covered, Users
  <2>6. All(runtime', H', live', moving', libc', bug', sh, R)
    BY <1>1, <1>2, <1>5, <2>1, <2>2, <2>4, <2>5 DEF All
  <2> QED
    BY <2>6 DEF IInv
<1>11. CASE b \in Heap /\ runtime # "running"
  <2>1. libc' = libc /\ mem' = mem /\ cur' = cur /\ lists' = lists /\ bug' = bug
    BY <1>5, <1>11 DEF heapVars
  <2>2. H' = H
    BY <2>1 DEF H
  <2>3. All(runtime', H', live', moving', libc', bug', sh, R)
    BY <1>1, <1>2, <1>5, <1>9, <1>11, <2>1, <2>2 DEF All
  <2> QED
    BY <2>3 DEF IInv
<1>12. CASE b \in Heap /\ runtime = "running"
  <2>1. PICK x : x = b - 1
    OBVIOUS
  <2>2. PICK k : k = free_to_cache_list(H, x, get_slab_shift(H.mem[x]), c)
    OBVIOUS
  <2>3. b \in 1..(H.cur - 1) /\ get_slab_shift(H.mem[b - 1]) \in Shifts
    BY <1>3, <1>12, <1>14 DEF FreeOK
  <2>4. SetHeap(k) /\ bug' = bug /\ libc' = libc
    <3>1. free(b, c) /\ libc' = libc
      BY <1>5, <1>12
    <3>2. /\ b - Header = x /\ H.mem[b - Header] = mem[b - Header]
          /\ b \in 1..(cur - 1) /\ get_slab_shift(mem[b - Header]) \in Shifts
      BY <2>1, <2>3, HIs DEF Header
    <3> QED
      BY <2>2, <3>1, <3>2, HIs DEF free
  <2>12. Frees(H, o, x, c, k)
    BY <1>3, <1>12, <2>1, <2>2 DEF Frees
  <2>13. Taken(H, k, F2, live, moving, libc, sh, R, x, o)
    BY <1>2, <1>7, <2>12, TakeKeeps
  <2>5. /\ Sound(k.mem, sh, R \ {x}, k)
        /\ ProgOK(k.mem, F2, live \ {o}, moving, libc, sh, R \ {x})
    BY <2>13 DEF Taken
  <2>6. ProgOK(k.mem, live', live', moving', libc, sh, R \ {x})
    BY <1>5, <1>6, <2>5
  <2>7. Covered(live', moving', R \ {x})
    <3>1. Covered(live, moving, R)
      BY <1>1, <1>12 DEF All
    <3>2. ASSUME NEW y \in R \ {x}
          PROVE  \E u \in Users(live', moving') : u.base \in Heap /\ u.base = y + 1
      <4>1. PICK u \in Users(live, moving) : u.base \in Heap /\ u.base = y + 1
        BY <3>1 DEF Covered
      <4>2. y \in Nat
        <5>1. Reach(H.mem, sh, R, H)
          BY <1>2, SoundFacts
        <5> QED
          BY SMT, <5>1, ReachOuts
      <4>3. u.base - 1 = y
        BY SMT, <4>1, <4>2
      <4>4. u # o
        BY <1>3, <2>1, <3>2, <4>3
      <4>5. u \in Users(live', moving')
        BY <1>5, <4>4 DEF Users
      <4> QED
        BY <4>1, <4>5
    <3> QED
      BY <3>2 DEF Covered
  <2>8. k \in Heaps
    BY <2>5, SoundFacts
  <2>9. "running" # "booting"
    BY SMT
  <2>10. All(runtime, k, live', moving', libc, bug, sh, R \ {x})
    BY <1>1, <1>12, <2>5, <2>6, <2>7, <2>9 DEF All
  <2>11. UNCHANGED <<runtime, libc, bug>>
    BY <1>5, <2>4
  <2> QED
    BY <2>4, <2>8, <2>10, <2>11, NextAll
<1> QED
  BY <1>10, <1>11, <1>12

(* A copy of words that hold the program's data is a write of such. *)
LEMMA CopiedIs ==
  ASSUME NEW m, NEW old \in Nat, NEW new \in Nat, NEW n \in Nat,
         \A w \in Nat : old <= w /\ w < old + n => m[w] = Data
  PROVE  Copied(m, old, new, n) = Written(m, new, n)
<1>1. ASSUME NEW w \in Words
      PROVE  (IF w - new \in 0..(n - 1) THEN m[old + w - new] ELSE m[w])
               = (IF w \in new..(new + n - 1) THEN Data ELSE m[w])
  <2>1. w \in Nat
    BY SMT, LibcFacts
  <2>2. w - new \in 0..(n - 1) <=> w \in new..(new + n - 1)
    BY SMT, <2>1
  <2>3. w - new \in 0..(n - 1) => m[old + w - new] = Data
    <3>1. w - new \in 0..(n - 1) => /\ old + w - new \in Nat /\ old <= old + w - new
                                    /\ old + w - new < old + n
      BY SMT, <2>1
    <3> QED
      BY <3>1
  <2> QED
    BY <2>2, <2>3
<1> QED
  BY <1>1 DEF Copied, Written

(* What may be copied of an object, as the allocator leaves it. *)
Copies(a, o, n, size) ==
    /\ n \in Nat /\ n <= size /\ o.ptr \in Nat
    /\ \A w \in Nat : o.ptr <= w /\ w < o.ptr + n => a.heap.mem[w] = Data

(* The words that realloc copies are the old object's, and end up in the new one. *)
LEMMA CopyIs ==
  ASSUME NEW h, NEW sh, NEW R, Sound(h.mem, sh, R, h),
         NEW F, NEW L, NEW M, NEW lib, ProgOK(h.mem, F, L, M, lib, sh, R),
         NEW size \in Nat, NEW a, NEW x \in Heap, NEW cl, Granted(h, sh, R, size, a, x, cl),
         NEW o \in F, Plain(o), NEW n, n = Min({h.mem[o.base - 1], size})
  PROVE  Copies(a, o, n, size)
<1>1. PICK g : g = a.heap
  OBVIOUS
<1>2. /\ Sound(g.mem, cl, R \cup {x}, g) /\ Same(cl, sh, R) /\ Kept(h.mem, g.mem, sh, R)
  BY <1>1 DEF Granted
<1>3. /\ Reach(h.mem, sh, R, h) /\ h.mem \in Mems
      /\ Reach(g.mem, cl, R \cup {x}, g) /\ g.mem \in Mems
  BY <1>2, SoundFacts
<1>4. o \in Users(L, M) /\ HeldOK(h.mem, lib, sh, R, o) /\ lib \in SUBSET LibcBlocks
  BY DEF ProgOK, Users
<1>5. o.base \in Heap /\ o.ptr = o.base /\ o.data = h.mem[o.base - 1]
  BY DEF ProgOK, Full, Plain
<1>6. o.base - 1 \in R /\ R \subseteq R \cup {x}
  BY <1>4, <1>5, UserOut DEF IsOut
<1>7. HeldOK(g.mem, lib, cl, R \cup {x}, o)
  BY <1>2, <1>3, <1>4, <1>6, HeldKept
<1>8. /\ o.base \in Nat /\ o.ptr \in Nat /\ o.data \in Nat /\ Place(lib, R \cup {x}, o.base)
  BY <1>7, HeldBase
<1>9. n \in Nat /\ n <= size /\ n <= o.data
  <2>1. n = Min({o.data, size})
    BY <1>5
  <2>2. PICK S : S = {o.data, size}
    OBVIOUS
  <2>3. S \in SUBSET Int
    BY SMTT(30), <1>8, <2>2
  <2>4. CASE o.data <= size
    <3>1. o.data \in S /\ \A y \in S : o.data <= y
      BY SMTT(30), <1>8, <2>2, <2>4
    <3>2. n = o.data
      BY <2>1, <2>2, <2>3, <3>1, MinIs
    <3> QED
      BY SMTT(30), <1>8, <2>4, <3>2
  <2>5. CASE ~(o.data <= size)
    <3>1. size \in S /\ \A y \in S : size <= y
      BY SMTT(30), <1>8, <2>2, <2>5
    <3>2. n = size
      BY <2>1, <2>2, <2>3, <3>1, MinIs
    <3> QED
      BY SMTT(30), <1>8, <2>5, <3>2
  <2> QED
    BY <2>4, <2>5
<1>10. ASSUME NEW w \in Nat, o.ptr <= w, w < o.ptr + n PROVE g.mem[w] = Data
  <2>1. w < o.ptr + o.data
    BY SMTT(30), <1>8, <1>9, <1>10
  <2>2. /\ o.base <= o.ptr /\ o.ptr + o.data <= o.base + Space(g.mem, o.base)
        /\ o.base \in Heap => cl[o.base - 1] = get_slab_shift(g.mem[o.base - 1])
    BY <1>7 DEF HeldOK
  <2>3. /\ Space(g.mem, o.base) \in Nat
        /\ \A v \in Nat : o.base <= v /\ v < o.base + Space(g.mem, o.base) => v \in Words
    BY <1>3, <1>4, <1>8, <2>2, SpaceIn
  <2>4. o.base <= w /\ w < o.base + Space(g.mem, o.base)
    BY SMTT(30), <1>8, <1>10, <2>1, <2>2, <2>3
  <2>5. w \in Words
    BY <2>3, <2>4
  <2> QED
    BY <1>7, <1>10, <2>1, <2>5 DEF HeldOK
<1> QED
  BY <1>1, <1>8, <1>9, <1>10 DEF Copies

(* realloc keeps it up to its free of the old object. *)
LEMMA ReallocInv ==
  ASSUME NEW o \in live, NEW size \in Sizes, NEW c \in Cores, IInv, Realloc(o, size, c)
  PROVE  IInv'
<1>1. size \in Nat
  BY SMT, SlabAssumption
<1>2. PICK sh, R : All(runtime, H, live, moving, libc, bug, sh, R)
  BY DEF IInv
<1>3. PICK a : a = allocate(H, size, c)
  OBVIOUS
<1>4. PICK n : n = Min({H.mem[o.base - 1], size})
  OBVIOUS
<1>5. /\ runtime = "running" /\ Plain(o)
      /\ IF a.ptr = NULL
         THEN SetHeap(a.heap) /\ UNCHANGED <<live, moving>>
         ELSE /\ SetHeap([a.heap EXCEPT !.mem = Copied(a.heap.mem, o.ptr, a.ptr, n)])
              /\ live' = live \ {o}
              /\ moving' = moving \cup {<<o, Held(a.ptr, a.ptr, n), size>>}
      /\ UNCHANGED <<runtime, libc, bug>>
  <2>1. n = Min({mem[o.base - Header], size})
    BY <1>4, HIs DEF Header
  <2> QED
    BY SMTT(30), <1>3, <2>1 DEF Realloc, Plain, if_own
<1>6. Sound(H.mem, sh, R, H) /\ ProgOK(H.mem, live, live, moving, libc, sh, R)
  BY <1>2 DEF All
<1>7. Allocated(H, sh, R, size, a)
  BY <1>1, <1>3, <1>6, AllocateKeeps
<1>8. CASE a.ptr = NULL /\ Sound(H.mem, sh, R, a.heap)
  <2>1. SetHeap(a.heap) /\ live' = live /\ moving' = moving /\ UNCHANGED <<runtime, libc, bug>>
    BY <1>5, <1>8
  <2>2. All(runtime, a.heap, live, moving, libc, bug, sh, R)
    BY <1>2, <1>8, NoneAll
  <2>3. All(runtime, a.heap, live', moving', libc, bug, sh, R)
    BY <2>1, <2>2
  <2>4. a.heap \in Heaps
    BY <1>8, SoundFacts
  <2> QED
    BY <2>1, <2>3, <2>4, NextAll
<1>9. ASSUME NEW x \in Heap, NEW cl, Granted(H, sh, R, size, a, x, cl) PROVE IInv'
  <2>1. a.ptr = x + 1 /\ a.ptr # NULL /\ a.ptr \in Nat /\ x \in Nat
    BY <1>9, NotNull DEF Granted
  <2>2. /\ n \in Nat /\ n <= size /\ o.ptr \in Nat
        /\ \A w \in Nat : o.ptr <= w /\ w < o.ptr + n => a.heap.mem[w] = Data
    <3>1. Plain(o)
      BY <1>5
    <3>2. Copies(a, o, n, size)
      BY <1>1, <1>4, <1>6, <1>9, <3>1, CopyIs
    <3> QED
      BY <3>2 DEF Copies
  <2>3. PICK m2 : m2 = Copied(a.heap.mem, o.ptr, a.ptr, n)
    OBVIOUS
  <2>4. PICK k : k = [a.heap EXCEPT !.mem = m2]
    OBVIOUS
  <2>5. PICK new : new = Held(a.ptr, a.ptr, n)
    OBVIOUS
  <2>6. PICK mv : mv = <<o, new, size>>
    OBVIOUS
  <2>7. /\ SetHeap(k) /\ live' = live \ {o} /\ moving' = moving \cup {mv}
        /\ UNCHANGED <<runtime, libc, bug>>
    BY <1>5, <2>1, <2>3, <2>4, <2>5, <2>6
  <2>8. m2 = Written(Based(a.heap.mem, a.ptr, x + 1), a.ptr, n)
    <3>1. Based(a.heap.mem, a.ptr, x + 1) = a.heap.mem
      BY <2>1 DEF Based
    <3>2. Copied(a.heap.mem, o.ptr, a.ptr, n) = Written(a.heap.mem, a.ptr, n)
      BY <2>1, <2>2, CopiedIs
    <3> QED
      BY <2>3, <3>1, <3>2
  <2>9. x + 1 <= a.ptr /\ a.ptr + n <= (x + 1) + size
    BY SMT, <1>1, <2>1, <2>2
  <2>10. Writes(a, x, a.ptr, n, size, new, m2, k)
    BY <2>1, <2>2, <2>4, <2>5, <2>8, <2>9 DEF Writes
  <2>11. PICK F2 : F2 = live \ {o, new}
    OBVIOUS
  <2>12. Marks(F2, live, new, a.ptr, n, x, size)
    BY <2>11 DEF Marks
  <2>13. Given(k, F2, live, moving, libc, cl, R, x, new, size)
    BY <1>1, <1>6, <1>9, <2>10, <2>12, GiveKeeps
  <2>14. /\ Sound(k.mem, cl, R \cup {x}, k) /\ k \in Heaps
         /\ ProgOK(k.mem, F2, live \cup {new}, moving, libc, cl, R \cup {x})
         /\ k.mem[x] = size /\ x + 1 \in Heap
         /\ \A u \in Users(live, moving) : u.base # x + 1
    BY <2>13 DEF Given
  <2>15. new.base = x + 1 /\ new.ptr = x + 1 /\ new.base - 1 = x
    BY SMTT(30), <2>1, <2>5 DEF Held
  <2>16. new \notin live /\ o # new
    BY <2>14, <2>15 DEF Users
  <2>17. mv[1] = o /\ mv[2] = new /\ mv[3] = k.mem[new.base - 1]
    BY SMTT(30), <2>6, <2>14, <2>15
  <2>18. Plain(new) /\ o \in live \cup {new} /\ new \in live \cup {new}
    BY <2>14, <2>15 DEF Plain
  <2>19. F2 \subseteq F2 /\ o \notin F2 /\ new \notin F2
    BY <2>11
  <2>20. ProgOK(k.mem, F2, (live \cup {new}) \ {o, new}, moving \cup {mv}, libc, cl, R \cup {x})
    BY <1>5, <2>14, <2>16, <2>17, <2>18, <2>19, ProgPair
  <2>21. live' = F2 /\ live' = (live \cup {new}) \ {o, new}
    BY <2>7, <2>11, <2>16
  <2>22. ProgOK(k.mem, live', live', moving', libc, cl, R \cup {x})
    BY <2>7, <2>20, <2>21
  <2>23. Covered(live', moving', R \cup {x})
    <3>1. Covered(live, moving, R)
      BY <1>2, <1>5 DEF All
    <3>2. \A u \in Users(live, moving) : u \in Users(live', moving')
      BY <2>7, <2>17 DEF Users
    <3>3. new \in Users(live', moving')
      BY <2>7, <2>17 DEF Users
    <3> QED
      BY <2>14, <2>15, <3>1, <3>2, <3>3 DEF Covered
  <2>24. "running" # "booting"
    BY SMT
  <2>25. All(runtime, k, live', moving', libc, bug, cl, R \cup {x})
    BY <1>2, <1>5, <2>14, <2>22, <2>23, <2>24 DEF All
  <2> QED
    BY <2>7, <2>14, <2>25, NextAll
<1> QED
  BY <1>7, <1>8, <1>9 DEF Allocated

(* And the free at its end keeps it. *)
LEMMA ReallocEndInv ==
  ASSUME NEW mv \in moving, NEW c \in Cores, IInv, ReallocEnd(mv, c)
  PROVE  IInv'
<1>1. PICK sh, R : All(runtime, H, live, moving, libc, bug, sh, R)
  BY DEF IInv
<1>2. runtime = "running" /\ "running" # "booting"
  <2>1. runtime = "running"
    BY <1>1 DEF All
  <2> QED
    BY SMT, <2>1
<1>3. Sound(H.mem, sh, R, H) /\ ProgOK(H.mem, live, live, moving, libc, sh, R)
  BY <1>1 DEF All
<1>4. PICK old, new : old = mv[1] /\ new = mv[2]
  OBVIOUS
<1>5. /\ old.base \in Heap /\ old.ptr = old.base /\ new.base \in Heap /\ new.ptr = new.base
      /\ mv[3] = H.mem[new.base - 1]
  BY <1>3, <1>4 DEF ProgOK, Moving, Plain
<1>6. PICK L : L = live \cup {old, new}
  OBVIOUS
<1>7. PICK M : M = moving \ {mv}
  OBVIOUS
<1>8. ProgOK(H.mem, live, L, M, libc, sh, R)
  BY <1>3, <1>4, <1>6, <1>7, ProgSettle
<1>9. old \notin live /\ new \notin live /\ old # new
  BY <1>3, <1>4 DEF ProgOK, Roles
<1>10. PICK x : x = old.base - 1
  OBVIOUS
<1>11. PICK h : h = free_to_cache_list(H, x, get_slab_shift(H.mem[x]), c)
  OBVIOUS
<1>12. PICK m2 : m2 = Written(h.mem, new.ptr, mv[3])
  OBVIOUS
<1>13. PICK k : k = [h EXCEPT !.mem = m2]
  OBVIOUS
<1>14. PICK o : o = [new EXCEPT !.data = mv[3]]
  OBVIOUS
<1>15. old \in L /\ new \in L
  BY <1>6
<1>16. Frees(H, old, x, c, h)
  BY <1>5, <1>10, <1>11 DEF Frees
<1>17. Taken(H, h, live, L, M, libc, sh, R, x, old)
  <2>1. live \subseteq live
    OBVIOUS
  <2> QED
    BY <1>3, <1>8, <1>9, <1>15, <1>16, <2>1, TakeKeeps
<1>18. /\ Sound(h.mem, sh, R \ {x}, h) /\ ProgOK(h.mem, live, L \ {old}, M, libc, sh, R \ {x})
       /\ Kept(H.mem, h.mem, sh, R \ {x})
  BY <1>17 DEF Taken
<1>19. PICK Q : Q = R \ {x}
  OBVIOUS
<1>20. /\ Sound(h.mem, sh, Q, h) /\ ProgOK(h.mem, live, L \ {old}, M, libc, sh, Q)
       /\ Kept(H.mem, h.mem, sh, Q)
  BY <1>18, <1>19
<1>21. /\ Reach(h.mem, sh, Q, h) /\ h \in Heaps /\ h.mem \in Mems
       /\ libc \in SUBSET LibcBlocks /\ libc \subseteq libc
  BY <1>20, SoundFacts DEF ProgOK
<1>22. new \in L \ {old} /\ new \in Users(L \ {old}, M)
  BY <1>9, <1>15 DEF Users
<1>23. HeldOK(h.mem, libc, sh, Q, new)
  BY <1>20, <1>22 DEF ProgOK
<1>24. /\ new.base \in Nat /\ Place(libc, Q, new.base)
       /\ new \in [base : Nat, ptr : Nat, data : Nat]
  BY <1>23, HeldBase DEF HeldOK
<1>25. Placed(sh, Q, h, new.base)
  BY <1>5, <1>21, <1>24, Places
<1>26. PICK b : b = new.base
  OBVIOUS
<1>27. PICK y : y = b - 1
  OBVIOUS
<1>28. /\ y \in Q /\ y \in Nat /\ y \in Words /\ Shl(sh[y]) \in Nat
       /\ End(sh, y) = b + Shl(sh[y])
  BY <1>25, <1>26, <1>27 DEF Placed
<1>29. h.mem[y] = mv[3]
  <2>1. y <= y /\ y < End(sh, y)
    BY SMTT(30), <1>24, <1>26, <1>27, <1>28
  <2>2. H.mem[y] = h.mem[y]
    BY <1>20, <1>28, <2>1 DEF Kept
  <2> QED
    BY <1>5, <1>26, <1>27, <2>2
<1>30. mv[3] \in Nat
  <2>1. mv[3] \in 0..Data
    BY <1>21, <1>28, <1>29 DEF Mems
  <2> QED
    BY SMT, <2>1
<1>31. o = Held(b, b, mv[3]) /\ o.base = b /\ o.ptr = b /\ o.data = mv[3]
  BY SMTT(30), <1>5, <1>14, <1>24, <1>26 DEF Held
<1>32. b \in Nat /\ b \in Heap /\ Place(libc, Q, b)
  BY <1>5, <1>24, <1>26
<1>33. b \in Heap => h.mem[b - 1] # 0 /\ sh[b - 1] = get_slab_shift(h.mem[b - 1])
  BY <1>23, <1>26 DEF HeldOK
<1>34. b <= b /\ b + mv[3] <= b + Space(h.mem, b)
  <2>1. Space(h.mem, b) = mv[3]
    BY <1>27, <1>29, <1>32 DEF Space
  <2> QED
    BY SMTT(30), <1>30, <1>32, <2>1
<1>35. m2 = Written(Based(h.mem, b, b), b, mv[3])
  <2>1. Based(h.mem, b, b) = h.mem
    BY DEF Based
  <2> QED
    BY <1>5, <1>12, <1>26, <2>1
<1>36. Handed(h.mem, m2, libc, sh, Q, Held(b, b, mv[3]))
  BY <1>21, <1>30, <1>32, <1>33, <1>34, <1>35, HandedOver
<1>37. Handed(h.mem, m2, libc, sh, Q, o)
  BY <1>31, <1>36
<1>38. /\ m2 \in Mems /\ m2[y] = mv[3]
       /\ \A w \in Words : m2[w] = h.mem[w] \/ In(sh, b, w)
  BY <1>27, <1>29, <1>31, <1>32, <1>37 DEF Handed
<1>39. /\ ProgOK(h.mem, live, (L \ {old}) \ {new}, M, libc, sh, Q)
       /\ \A u \in Users((L \ {old}) \ {new}, M) : u.base # new.base
  <2>1. live \subseteq live
    OBVIOUS
  <2> QED
    BY <1>9, <1>20, <1>22, <2>1, ProgDrop
<1>40. (L \ {old}) \ {new} = live
  BY <1>6, <1>9
<1>41. ProgOK(h.mem, live, live, M, libc, sh, Q) /\ Fresh(live, M, o)
  BY <1>26, <1>31, <1>39, <1>40 DEF Fresh
<1>42. Fills(live \cup {o}, live, m2, o)
  BY <1>27, <1>31, <1>38 DEF Fills, Full
<1>43. ProgOK(m2, live \cup {o}, live \cup {o}, M, libc, sh, Q)
  BY <1>21, <1>37, <1>41, <1>42, ProgAdd
<1>44. \A w \in Words : \/ m2[w] = h.mem[w] \/ w \notin Heap
                        \/ \E z \in Q : z <= w /\ w < End(sh, z)
  BY <1>27, <1>28, <1>32, <1>38 DEF In
<1>45. Sound(m2, sh, Q, [h EXCEPT !.mem = m2])
  BY <1>20, <1>38, <1>44, SoundWrite
<1>46. k.mem = m2
  BY SMTT(30), <1>13, <1>21 DEF Heaps
<1>47. Sound(k.mem, sh, Q, k)
  BY <1>13, <1>45, <1>46
<1>48. /\ SetHeap(k) /\ moving' = M /\ live' = live \cup {o}
       /\ UNCHANGED <<runtime, libc, bug>>
  <2>1. old.base - Header = x /\ mem = H.mem
    BY <1>10, HIs DEF Header
  <2>2. o.ptr = new.ptr /\ o.data = mv[3]
    BY <1>5, <1>26, <1>31
  <2>3. k = [h EXCEPT !.mem = Written(h.mem, o.ptr, o.data)]
    BY <1>12, <1>13, <2>2
  <2>4. h = free_to_cache_list(H, old.base - Header, get_slab_shift(mem[old.base - Header]), c)
    BY <1>11, <2>1
  <2> QED
    BY SMTT(30), <1>4, <1>7, <1>14, <2>3, <2>4 DEF ReallocEnd
<1>49. ProgOK(k.mem, live', live', moving', libc, sh, Q)
  BY <1>43, <1>46, <1>48
<1>50. Covered(live', moving', Q)
  <2>1. Covered(live, moving, R)
    BY <1>1, <1>2 DEF All
  <2>2. ASSUME NEW z \in Q
        PROVE  \E u \in Users(live', moving') : u.base \in Heap /\ u.base = z + 1
    <3>1. PICK u \in Users(live, moving) : u.base \in Heap /\ u.base = z + 1
      BY <1>19, <2>1 DEF Covered
    <3>2. z \in Nat
      BY SMTT(30), <1>21, ReachOuts
    <3>3. u.base - 1 = z /\ z # x
      <4>1. z # x
        BY <1>19
      <4> QED
        BY SMTT(30), <3>1, <3>2, <4>1
    <3>4. u # old
      BY <1>10, <3>3
    <3>5. CASE u = new
      <4>1. o \in Users(live', moving') /\ o.base = u.base
        BY <1>26, <1>31, <1>48, <3>5 DEF Users
      <4> QED
        BY <3>1, <4>1
    <3>6. CASE u # new
      <4>1. u \in Users(live', moving')
        BY <1>4, <1>7, <1>48, <3>4, <3>6 DEF Users
      <4> QED
        BY <3>1, <4>1
    <3> QED
      BY <3>5, <3>6
  <2> QED
    BY <2>2 DEF Covered
<1>51. All(runtime, k, live', moving', libc, bug, sh, Q)
  BY <1>1, <1>2, <1>47, <1>49, <1>50 DEF All
<1>52. k \in Heaps
  BY <1>47, SoundFacts
<1> QED
  BY <1>48, <1>51, <1>52, NextAll

(* Every step keeps it. *)
LEMMA NextInv == IInv /\ [Next]_vars => IInv'
<1> SUFFICES ASSUME IInv, [Next]_vars PROVE IInv'
  BY SMT
<1>1. CASE Start \/ TearDown \/ UNCHANGED vars
  BY <1>1, StartInv
<1>2. ASSUME NEW c \in Cores, NEW size \in Sizes, New(size, c) PROVE IInv'
  BY <1>2, NewInv
<1>3. ASSUME NEW c \in Cores, NEW size \in AlignedSizes, NewAligned(size, c) PROVE IInv'
  BY <1>3, NewAlignedInv
<1>4. ASSUME NEW c \in Cores, NEW o \in live, Delete(o, c) PROVE IInv'
  BY <1>4, DeleteInv
<1>5. ASSUME NEW c \in Cores, NEW o \in live, NEW size \in Sizes, Realloc(o, size, c) PROVE IInv'
  BY <1>5, ReallocInv
<1>6. ASSUME NEW c \in Cores, NEW mv \in moving, ReallocEnd(mv, c) PROVE IInv'
  BY <1>6, ReallocEndInv
<1> QED
  BY <1>1, <1>2, <1>3, <1>4, <1>5, <1>6 DEF Next

-----------------------------------------------------------------------------
(* What the invariant says of the properties. *)

(* Objects that are held are intact. *)
LEMMA InvHeld == IInv => HeldIntact
<1> SUFFICES ASSUME IInv PROVE HeldIntact
  BY SMT
<1>1. PICK sh, R : All(runtime, H, live, moving, libc, bug, sh, R)
  BY DEF IInv
<1>2. Sound(mem, sh, R, H) /\ ProgOK(mem, live, live, moving, libc, sh, R)
  BY <1>1, HIs DEF All
<1>3. Reach(mem, sh, R, H) /\ mem \in Mems /\ libc \in SUBSET LibcBlocks
  BY <1>2, SoundFacts, HIs DEF ProgOK
<1>4. ASSUME NEW o \in InUse
      PROVE  /\ \A w \in o.ptr..(o.ptr + o.data - 1) : mem[w] = Data
             /\ if_own(o.base) => mem[o.base - Header] # Data
             /\ o.ptr # o.base => mem[o.ptr - 1] = o.base
  <2>1. HeldOK(mem, libc, sh, R, o)
    BY <1>2 DEF ProgOK, InUse, Users
  <2>2. o.base \in Nat /\ o.ptr \in Nat /\ o.data \in Nat /\ Place(libc, R, o.base)
    BY <2>1, HeldBase
  <2>3. /\ o.base <= o.ptr /\ o.ptr + o.data <= o.base + Space(mem, o.base)
        /\ o.base \in Heap => sh[o.base - 1] = get_slab_shift(mem[o.base - 1])
    BY <2>1 DEF HeldOK
  <2>4. /\ Space(mem, o.base) \in Nat
        /\ \A v \in Nat : o.base <= v /\ v < o.base + Space(mem, o.base) => v \in Words
    BY <1>3, <2>2, <2>3, SpaceIn
  <2>5. ASSUME NEW w \in o.ptr..(o.ptr + o.data - 1) PROVE mem[w] = Data
    <3>1. /\ w \in Nat /\ o.base <= w /\ w < o.base + Space(mem, o.base)
          /\ o.ptr <= w /\ w < o.ptr + o.data
      BY SMTT(30), <2>2, <2>3, <2>4, <2>5
    <3> QED
      BY <2>1, <2>4, <3>1 DEF HeldOK
  <2>6. ASSUME o.base \in Heap PROVE mem[o.base - 1] # Data
    <3>1. Placed(sh, R, H, o.base)
      BY <1>3, <2>2, <2>6, Places
    <3>2. PICK x : x = o.base - 1
      OBVIOUS
    <3>3. /\ x \in Words /\ Shl(sh[x]) \in Nat /\ o.base + Shl(sh[x]) <= H.cur
          /\ H.cur \in 1..(HeapSize + 1)
      BY <3>1, <3>2 DEF Placed
    <3>4. mem[x] \in 0..Data
      BY <1>3, <3>3 DEF Mems
    <3>5. mem[x] \in Nat
      BY SMT, <3>4
    <3>6. mem[x] <= Shl(sh[x])
      BY <2>3, <2>6, <3>2, <3>5, SlabShift
    <3>7. o.base >= 1 /\ HeapSize \in Nat /\ Data \in Nat /\ Data > HeapSize
      BY SMT, <2>6, LibcFacts
    <3>8. mem[x] # Data
      BY SMTT(30), <2>2, <3>3, <3>5, <3>6, <3>7
    <3> QED
      BY <3>2, <3>8
  <2>7. o.ptr # o.base => mem[o.ptr - 1] = o.base
    BY <2>1 DEF HeldOK
  <2> QED
    BY <2>5, <2>6, <2>7 DEF if_own, Header
<1> QED
  BY <1>4 DEF HeldIntact

(* No BUG_ON has fired. *)
LEMMA InvNoBug == IInv => NoBugOn
BY DEF IInv, All, NoBugOn

(* The variables have their types. *)
LEMMA InvType == IInv => TypeOK
<1> SUFFICES ASSUME IInv PROVE TypeOK
  BY SMT
<1>1. PICK sh, R : All(runtime, H, live, moving, libc, bug, sh, R)
  BY DEF IInv
<1>2. PICK A, cl, at : Good(H, A, cl, at)
  BY <1>1 DEF All, Sound, Reach
<1>3. H \in Heaps /\ A \subseteq Heap
  BY <1>2 DEF Good, Tiles
<1>4. /\ mem \in [Words -> 0..Data] /\ cur \in 1..(HeapSize + 1)
      /\ lists \in [Owners -> [Shifts -> Lists]]
  BY SMT, <1>3 DEF Heaps, Mems, H
<1>5. ASSUME NEW o \in Owners, NEW s \in Shifts
      PROVE  lists[o][s] \in [head : Heap \cup {NULL},
                              size : 0..(IF o = Global THEN HeapSize
                                         ELSE get_max_num_cache_entries(s))]
  <2>1. lists[o][s] \in [head : Heap \cup {NULL}, size : Nat]
    BY SMT, <1>4 DEF Lists
  <2>2. CASE o = Global
    <3>1. PICK X : X = On(A, cl, at, o, s)
      OBVIOUS
    <3>2. IsList(mem, lists[o][s], X)
      BY <1>2, <3>1, HIs DEF Good
    <3>3. Cardinality(X) = lists[o][s].size
      BY <3>2 DEF IsList
    <3>4. X \subseteq 1..HeapSize /\ HeapSize \in Nat
      BY <1>3, <3>1, LibcFacts DEF On
    <3>5. 1 \in Int /\ HeapSize \in Int /\ HeapSize - 1 + 1 = HeapSize
      BY SMT, <3>4
    <3>6. IsFiniteSet(1..HeapSize) /\ Cardinality(1..HeapSize) = HeapSize
      BY SMTT(30), <3>4, <3>5, FS_Interval
    <3>7. Cardinality(X) <= HeapSize
      BY <3>4, <3>6, FS_Subset
    <3> QED
      BY SMTT(30), <2>1, <2>2, <3>3, <3>4, <3>7
  <2>3. CASE o # Global
    <3>1. o \in Cores
      BY <2>3 DEF Owners
    <3>2. H.lists[o][s].size <= get_max_num_cache_entries(s)
      BY <1>1, <3>1 DEF All, Sound
    <3>3. get_max_num_cache_entries(s) \in Nat
      BY MaxEntries
    <3> QED
      BY SMT, <2>1, <2>3, <3>2, <3>3, HIs
  <2> QED
    BY <2>2, <2>3
<1>6. runtime \in {"booting", "running", "ended"} /\ bug \in BOOLEAN
  BY <1>1 DEF All
<1>7. libc \subseteq LibcBlocks
  BY <1>1 DEF All, ProgOK
<1> QED
  BY <1>4, <1>5, <1>6, <1>7 DEF TypeOK

(* The objects of HeapTiled are those of the tiling, each of them once. *)
Entry(o, s, e) == [at |-> <<o, e[1], e[2]>>, shift |-> s, addr |-> e[3]]

HeldObject(u) == [at |-> <<Global, u.ptr, -1>>, shift |-> get_slab_shift(mem[u.base - Header]),
                  addr |-> u.base - Header]

IsEntry(y, o, s) == \E e \in Entries(lists[o][s]) : y = Entry(o, s, e)

IsHeldObject(y) == \E u \in Users(live, moving) : u.base \in Heap /\ y = HeldObject(u)

(* An object of HeapTiled is an entry of a list, or held. *)
LEMMA ObjectsAre ==
  /\ \A y \in Objects : (\E o \in Owners, s \in Shifts : IsEntry(y, o, s)) \/ IsHeldObject(y)
  /\ \A o \in Owners, s \in Shifts : \A e \in Entries(lists[o][s]) : Entry(o, s, e) \in Objects
  /\ \A u \in Users(live, moving) : u.base \in Heap => HeldObject(u) \in Objects
<1> DEFINE S(o, s) == {Entry(o, s, e) : e \in Entries(lists[o][s])}
           Q == {HeldObject(u) : u \in {x \in InUse : if_own(x.base)}}
<1>1. Objects = (UNION {S(o, s) : o \in Owners, s \in Shifts}) \cup Q
  BY SMT DEF Objects, Entry, HeldObject
<1>2. \A y : y \in Q <=> IsHeldObject(y)
  BY DEF IsHeldObject, InUse, Users, if_own
<1>3. \A o, s, y : y \in S(o, s) <=> IsEntry(y, o, s)
  BY DEF IsEntry
<1> HIDE DEF S, Q
<1>4. \A y \in Objects : (\E o \in Owners, s \in Shifts : IsEntry(y, o, s)) \/ IsHeldObject(y)
  BY SMTT(30), <1>1, <1>2, <1>3
<1>5. ASSUME NEW o \in Owners, NEW s \in Shifts, NEW e \in Entries(lists[o][s])
      PROVE  Entry(o, s, e) \in Objects
  <2>1. Entry(o, s, e) \in S(o, s)
    BY <1>3 DEF IsEntry
  <2> QED
    BY SMT, <1>1, <2>1
<1>6. ASSUME NEW u \in Users(live, moving), u.base \in Heap PROVE HeldObject(u) \in Objects
  <2>1. HeldObject(u) \in Q
    BY <1>2, <1>6 DEF IsHeldObject
  <2> QED
    BY SMT, <1>1, <2>1
<1> QED
  BY <1>4, <1>5, <1>6

(* An object at a, on a list or held. *)
EntryAt(y, A, cl, at, o, s) ==
    y.addr \in A /\ y.shift = cl[y.addr] /\ cl[y.addr] = s /\ at[y.addr] = o

(* An entry of a list is a tile with the list's class and owner. *)
LEMMA EntryIs ==
  ASSUME NEW A, NEW cl, NEW at, Good(H, A, cl, at), NEW o \in Owners, NEW s \in Shifts,
         NEW y, IsEntry(y, o, s)
  PROVE  EntryAt(y, A, cl, at, o, s)
<1>1. PICK e \in Entries(lists[o][s]) : y = Entry(o, s, e)
  BY DEF IsEntry
<1>2. IsList(mem, lists[o][s], On(A, cl, at, o, s))
  BY HIs DEF Good
<1>3. e[3] \in On(A, cl, at, o, s)
  BY <1>2, EntriesOfList
<1>4. e[3] \in A /\ cl[e[3]] = s /\ at[e[3]] = o
  BY <1>3 DEF On
<1>5. y.addr = e[3] /\ y.shift = s
  BY SMT, <1>1 DEF Entry
<1> QED
  BY <1>4, <1>5 DEF EntryAt

(* An object that is held is a tile that is out. *)
LEMMA HeldObjectIs ==
  ASSUME NEW A, NEW cl, NEW at, NEW sh, NEW R, Outs(A, at) = R, Same(cl, sh, R),
         ProgOK(mem, live, live, moving, libc, sh, R),
         NEW u \in Users(live, moving), u.base \in Heap, NEW y, y = HeldObject(u)
  PROVE  y.addr = u.base - 1 /\ y.addr \in A /\ y.shift = cl[y.addr] /\ at[y.addr] = Out
<1>1. IsOut(mem, sh, R, u.base - 1)
  BY UserOut
<1>2. PICK x : x = u.base - 1
  OBVIOUS
<1>3. x \in R /\ sh[x] = get_slab_shift(mem[x])
  BY <1>1, <1>2 DEF IsOut
<1>4. x \in A /\ at[x] = Out /\ cl[x] = get_slab_shift(mem[x])
  BY <1>3 DEF Outs, Same
<1>5. y.addr = x /\ y.shift = get_slab_shift(mem[x])
  <2>1. y = [at |-> <<Global, u.ptr, -1>>, shift |-> get_slab_shift(mem[x]), addr |-> x]
    BY <1>2 DEF HeldObject, Header
  <2> QED
    BY SMT, <2>1
<1> QED
  BY <1>2, <1>4, <1>5

(* Objects with headers at the same address have the same base. *)
LEMMA SameBase == \A a, b \in Nat : a - 1 = b - 1 => a = b
BY SMT

(* A base is held once. *)
LEMMA OneUser ==
  ASSUME NEW L, NEW M, Roles(L, M), NEW u \in Users(L, M), NEW v \in Users(L, M), u.base = v.base
  PROVE  u = v
<1>1. u \in L \/ (\E a \in M : u = a[1]) \/ (\E a \in M : u = a[2])
  BY DEF Users
<1>2. v \in L \/ (\E a \in M : v = a[1]) \/ (\E a \in M : v = a[2])
  BY DEF Users
<1>3. CASE u \in L
  BY <1>2, <1>3 DEF Roles
<1>4. ASSUME NEW a \in M, u = a[1] PROVE u = v
  BY <1>2, <1>4 DEF Roles
<1>5. ASSUME NEW a \in M, u = a[2] PROVE u = v
  BY <1>2, <1>5 DEF Roles
<1> QED
  BY <1>1, <1>3, <1>4, <1>5

Tiled(A, cl, at) ==
    /\ \A y \in Objects : y.addr \in A /\ y.shift = cl[y.addr]
    /\ \A y, z \in Objects : y.addr = z.addr => y = z
    /\ \A a \in A : \E y \in Objects : y.addr = a

(* Every tile is an entry or held, exactly once. *)
LEMMA ObjectsTile ==
  ASSUME NEW A, NEW cl, NEW at, Good(H, A, cl, at), NEW sh, NEW R, Outs(A, at) = R,
         Same(cl, sh, R), ProgOK(mem, live, live, moving, libc, sh, R), Covered(live, moving, R)
  PROVE  Tiled(A, cl, at)
<1>1. ASSUME NEW y \in Objects PROVE y.addr \in A /\ y.shift = cl[y.addr]
  <2>1. ASSUME NEW o \in Owners, NEW s \in Shifts, IsEntry(y, o, s)
        PROVE  y.addr \in A /\ y.shift = cl[y.addr]
    <3>1. EntryAt(y, A, cl, at, o, s)
      BY <2>1, EntryIs
    <3> QED
      BY <3>1 DEF EntryAt
  <2>2. ASSUME IsHeldObject(y) PROVE y.addr \in A /\ y.shift = cl[y.addr]
    <3>1. PICK u \in Users(live, moving) : u.base \in Heap /\ y = HeldObject(u)
      BY <2>2 DEF IsHeldObject
    <3> QED
      BY SMT, <3>1, HeldObjectIs
  <2> QED
    BY <2>1, <2>2, ObjectsAre
<1>2. ASSUME NEW y \in Objects, NEW z \in Objects, y.addr = z.addr PROVE y = z
  <2>1. ASSUME NEW o \in Owners, NEW s \in Shifts, IsEntry(y, o, s),
               NEW p \in Owners, NEW r \in Shifts, IsEntry(z, p, r)
        PROVE  y = z
    <3>1. EntryAt(y, A, cl, at, o, s)
      BY <2>1, EntryIs
    <3>2. EntryAt(z, A, cl, at, p, r)
      BY <2>1, EntryIs
    <3>3. s = r /\ o = p
      BY <1>2, <3>1, <3>2 DEF EntryAt
    <3>4. PICK e \in Entries(lists[o][s]) : y = Entry(o, s, e)
      BY <2>1 DEF IsEntry
    <3>5. PICK f \in Entries(lists[o][s]) : z = Entry(o, s, f)
      BY <2>1, <3>3 DEF IsEntry
    <3>6. y.addr = e[3] /\ z.addr = f[3]
      BY SMTT(30), <3>4, <3>5 DEF Entry
    <3>7. IsList(mem, lists[o][s], On(A, cl, at, o, s))
      BY HIs DEF Good
    <3>8. e = f
      BY <1>2, <3>6, <3>7, EntriesOfList
    <3> QED
      BY <3>4, <3>5, <3>8
  <2>2. ASSUME NEW o \in Owners, NEW s \in Shifts, IsEntry(y, o, s), IsHeldObject(z)
        PROVE  FALSE
    <3>1. EntryAt(y, A, cl, at, o, s)
      BY <2>2, EntryIs
    <3>2. PICK u \in Users(live, moving) : u.base \in Heap /\ z = HeldObject(u)
      BY <2>2 DEF IsHeldObject
    <3>3. at[z.addr] = Out
      BY SMTT(30), <3>2, HeldObjectIs
    <3> QED
      BY <1>2, <3>1, <3>3, OutIsNew DEF EntryAt
  <2>3. ASSUME NEW o \in Owners, NEW s \in Shifts, IsEntry(z, o, s), IsHeldObject(y)
        PROVE  FALSE
    <3>1. EntryAt(z, A, cl, at, o, s)
      BY <2>3, EntryIs
    <3>2. PICK u \in Users(live, moving) : u.base \in Heap /\ y = HeldObject(u)
      BY <2>3 DEF IsHeldObject
    <3>3. at[y.addr] = Out
      BY SMTT(30), <3>2, HeldObjectIs
    <3> QED
      BY <1>2, <3>1, <3>3, OutIsNew DEF EntryAt
  <2>4. ASSUME IsHeldObject(y), IsHeldObject(z) PROVE y = z
    <3>1. PICK u \in Users(live, moving) : u.base \in Heap /\ y = HeldObject(u)
      BY <2>4 DEF IsHeldObject
    <3>2. PICK v \in Users(live, moving) : v.base \in Heap /\ z = HeldObject(v)
      BY <2>4 DEF IsHeldObject
    <3>3. y.addr = u.base - 1
      BY SMTT(30), <3>1, HeldObjectIs
    <3>4. z.addr = v.base - 1
      BY SMTT(30), <3>2, HeldObjectIs
    <3>5. u.base = v.base
      <4>1. u.base \in Nat /\ v.base \in Nat
        BY SMTT(30), <3>1, <3>2, LibcFacts
      <4>2. u.base - 1 = v.base - 1
        BY <1>2, <3>3, <3>4
      <4> QED
        BY <4>1, <4>2, SameBase
    <3>6. u = v
      <4>1. Roles(live, moving)
        BY DEF ProgOK
      <4> QED
        BY <3>5, <4>1, OneUser
    <3> QED
      BY <3>1, <3>2, <3>6
  <2> QED
    BY <2>1, <2>2, <2>3, <2>4, ObjectsAre
<1>3. ASSUME NEW a \in A PROVE \E y \in Objects : y.addr = a
  <2>1. at[a] \in Owners \/ at[a] = Out
    BY DEF Good, Tiles
  <2>2. CASE at[a] \in Owners
    <3>1. cl[a] \in Shifts
      BY DEF Good, Tiles
    <3>2. PICK o \in Owners, s \in Shifts : o = at[a] /\ s = cl[a]
      BY <2>2, <3>1
    <3>3. IsList(mem, lists[o][s], On(A, cl, at, o, s)) /\ a \in On(A, cl, at, o, s)
      BY <3>2, HIs DEF Good, On
    <3>4. PICK e \in Entries(lists[o][s]) : e[3] = a
      BY <3>3, EntriesOfList
    <3>5. Entry(o, s, e).addr = a
      BY SMT, <3>4 DEF Entry
    <3> QED
      BY <3>5, ObjectsAre
  <2>3. CASE at[a] = Out
    <3>1. a \in R
      BY <2>3 DEF Outs
    <3>2. PICK u \in Users(live, moving) : u.base \in Heap /\ u.base = a + 1
      BY <3>1 DEF Covered
    <3>3. a \in Nat
      <4>1. a \in Heap
        BY DEF Good, Tiles
      <4> QED
        BY SMTT(30), <4>1, LibcFacts
    <3>4. PICK y : y = HeldObject(u)
      OBVIOUS
    <3>5. y.addr = u.base - 1
      BY SMTT(30), <3>2, <3>4, HeldObjectIs
    <3>6. y.addr = a
      BY SMTT(30), <3>2, <3>3, <3>5
    <3> QED
      BY <3>2, <3>4, <3>6, ObjectsAre
  <2> QED
    BY <2>1, <2>2, <2>3
<1> QED
  BY <1>1, <1>2, <1>3 DEF Tiled

(* The lists and what is held tile the heap. *)
LEMMA InvTiled == IInv => HeapTiled
<1> SUFFICES ASSUME IInv PROVE HeapTiled
  BY SMT
<1>1. PICK sh, R : All(runtime, H, live, moving, libc, bug, sh, R)
  BY DEF IInv
<1>2. PICK A, cl, at : Good(H, A, cl, at) /\ Outs(A, at) = R /\ Same(cl, sh, R)
  BY <1>1 DEF All, Sound, Reach
<1>3. ASSUME runtime = "running", NEW w \in 1..(cur - 1)
      PROVE  \E x \in Objects : {y \in Objects : w \in Extent(y)} = {x}
  <2>1. Tiled(A, cl, at)
    <3>1. ProgOK(mem, live, live, moving, libc, sh, R) /\ Covered(live, moving, R)
      BY <1>1, <1>3, HIs DEF All
    <3> QED
      BY <1>2, <3>1, ObjectsTile
  <2>2. Tiles(cur, A, cl)
    BY <1>2, HIs DEF Good
  <2>3. PICK a \in A : a <= w /\ w < End(cl, a)
    BY <1>3, <2>2 DEF Tiles
  <2>4. w \in Nat /\ \A b \in A : b \in Nat /\ End(cl, b) \in Nat
    <3>1. w \in Nat
      <4>1. cur \in 1..(HeapSize + 1) /\ HeapSize \in Nat
        BY <2>2, LibcFacts DEF Tiles
      <4> QED
        BY SMTT(30), <1>3, <4>1
    <3> QED
      BY <2>2, <3>1, TilesSpaced
  <2>5. ASSUME NEW y \in Objects PROVE w \in Extent(y) <=> y.addr = a
    <3>1. y.addr \in A /\ y.shift = cl[y.addr]
      BY <2>1 DEF Tiled
    <3>2. PICK b \in A : b = y.addr
      BY <3>1
    <3>3. Extent(y) = b..(End(cl, b) - 1)
      <4>1. Extent(y) = b..(b + get_slab_size(cl[b]) - 1)
        BY <3>1, <3>2 DEF Extent
      <4>2. cl[b] \in Shifts
        BY <2>2 DEF Tiles
      <4>3. get_slab_size(cl[b]) \in Nat
        BY <4>2, SlabSize
      <4>4. b \in Nat /\ End(cl, b) = b + get_slab_size(cl[b])
        BY <2>4 DEF End
      <4>5. b + get_slab_size(cl[b]) - 1 = End(cl, b) - 1
        BY SMTT(30), <4>3, <4>4
      <4> QED
        BY <4>1, <4>5
    <3>4. b \in Nat /\ End(cl, b) \in Nat /\ a \in Nat /\ End(cl, a) \in Nat
      BY <2>4
    <3>5. a # b => End(cl, a) <= b \/ End(cl, b) <= a
      BY <2>2 DEF Tiles
    <3>6. w \in Extent(y) <=> b <= w /\ w < End(cl, b)
      BY SMTT(30), <2>4, <3>3, <3>4
    <3>7. (b <= w /\ w < End(cl, b)) <=> b = a
      BY SMTT(30), <2>3, <2>4, <3>4, <3>5
    <3> QED
      BY <3>2, <3>6, <3>7
  <2>6. PICK x \in Objects : x.addr = a
    BY <2>1 DEF Tiled
  <2>7. \A y \in Objects : w \in Extent(y) <=> y = x
    BY <2>1, <2>5, <2>6 DEF Tiled
  <2>8. {y \in Objects : w \in Extent(y)} = {x}
    BY <2>7
  <2> QED
    BY <2>8
<1> QED
  BY <1>3, InvType DEF HeapTiled

-----------------------------------------------------------------------------

(* The invariant holds of every behaviour of the allocator and its callers. *)
LEMMA SlabInvariant == Spec => []IInv
BY InitInv, NextInv, PTL DEF Spec

(***************************************************************************)
(* For every heap, set of cores, range of classes and bounds of the lists, *)
(* and for programs that hold any number of objects: while the runtime     *)
(* runs, the objects on the lists of SlabAllocator and those handed out    *)
(* tile the heap up to the break, each word being in exactly one of them,  *)
(* and the lists of the cores are never longer than                        *)
(* get_max_num_cache_entries.                                              *)
(***************************************************************************)
THEOREM SlabTilesHeap == Spec => []HeapTiled
BY SlabInvariant, InvTiled, PTL

(***************************************************************************)
(* What allocate handed out stays the program's until it is freed: free,   *)
(* the refilling and the halving of the lists, whose nodes are written     *)
(* into free objects, change no word of it, and reallocate copies what it  *)
(* must.                                                                   *)
(***************************************************************************)
THEOREM SlabKeepsHeld == Spec => []HeldIntact
BY SlabInvariant, InvHeld, PTL

(***************************************************************************)
(* No BUG_ON of free fires: every pointer that __delete passes to it is    *)
(* below the break and has a class in its header, also when the program    *)
(* got some of its memory from the C library before the runtime started.   *)
(***************************************************************************)
THEOREM SlabNoBug == Spec => []NoBugOn
BY SlabInvariant, InvNoBug, PTL

=============================================================================
