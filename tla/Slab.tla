-------------------------------- MODULE Slab --------------------------------
(***************************************************************************)
(* The memory allocator: malloc, new, realloc and their inverses on a slab *)
(* heap (mem_hook.cc, SlabAllocator).                                      *)
(*                                                                         *)
(* Memory is modelled word by word, because the free lists live in it: a   *)
(* free object is an entry of a batch or is itself a batch of pointers to  *)
(* other free objects, and the word before an allocated one says its size. *)
(* An object is carved off the break once and then moves between the list  *)
(* of a core, the global list of its class, and the program.               *)
(*                                                                         *)
(* allocate and free run with preemption disabled on a core whose list no  *)
(* other core touches, and have one critical section on what is shared: so *)
(* each is one step.  Any thread may free on any core.  Left out: core_id, *)
(* which only the transfer cache reads (kEnableTransferCache is false),    *)
(* and classes of 2 GB and above, where 1 << slab_shift leaves an int.     *)
(***************************************************************************)
EXTENDS Integers, FiniteSetsExt, TLC

CONSTANTS
    Cores,                  \* kMaxNumCores of them
    Global,                 \* stands for the lists all cores share
    HeapSize,               \* words of the slab's memory
    kMinSlabClassShift, kMaxSlabClassShift,
    kMaxCacheSizeBytes,     \* in words here
    kMaxCacheEntries,
    Sizes,                  \* sizes the program asks for
    AlignedSizes, Alignment,\* those it asks for with an alignment
    MaxLive,                \* bound: objects the program has at a time
    MaxLibc, LibcSize       \* blocks of the C library, and their words

ASSUME SlabAssumption ==
    /\ Global \notin Cores
    /\ HeapSize \in Nat /\ kMinSlabClassShift \in Nat /\ kMaxSlabClassShift \in Nat
    /\ kMaxCacheSizeBytes \in Nat /\ kMaxCacheEntries \in Nat
    /\ Alignment \in Nat \ {0} /\ MaxLibc \in Nat /\ LibcSize \in Nat \ {0}
    /\ Sizes \subseteq 0..LibcSize
    /\ AlignedSizes \subseteq Nat
    /\ \A size \in AlignedSizes : size + Alignment <= LibcSize

(* 1 << shift *)
Shl(shift) ==
    LET two[i \in 0..shift] == IF i = 0 THEN 1 ELSE 2 * two[i - 1]
    IN  two[shift]

Header == 1             \* sizeof(PtrHeader) and sizeof(size_t), in words
kBatchSize == Shl(kMinSlabClassShift) + Header
NULL == 0
Shifts == kMinSlabClassShift..kMaxSlabClassShift
Owners == Cores \cup {Global}
Heap == 1..HeapSize
LibcBlocks == {HeapSize + 1 + LibcSize * i : i \in 0..(MaxLibc - 1)}
Words == 1..(HeapSize + MaxLibc * LibcSize)
Data == HeapSize + MaxLibc * LibcSize + 1   \* what the program writes

VARIABLES
    runtime,    \* "booting", "running", "ended"
    mem,        \* the words of the heap and of the C library's blocks
    cur,        \* cur_: the break
    lists,      \* cache_lists_[core][shift] and, of Global, slab_lists_[shift]
    live,       \* what the program holds: see Held
    moving,     \* pairs of an old and a new object in reallocate
    libc,       \* blocks the C library has handed out
    bug         \* a BUG_ON has fired

heapVars == <<mem, cur, lists>>
vars == <<runtime, heapVars, live, moving, libc, bug>>

(* base: what __new returned; ptr: what the program got; data: how many   *)
(* words of it hold the program's data.                                   *)
Held(base, ptr, data) == [base |-> base, ptr |-> ptr, data |-> data]

EmptyList == [head |-> NULL, size |-> 0]

Init ==
    /\ runtime = "booting"
    /\ mem = [w \in Words |-> 0]
    /\ cur = 1
    /\ lists = [o \in Owners |-> [s \in Shifts |-> EmptyList]]
    /\ live = {} /\ moving = {} /\ libc = {}
    /\ bug = FALSE

-----------------------------------------------------------------------------
(* FreePtrsList, as operations on a memory and a list. *)

(* Mutant of pop: a batch that is used up is not returned itself. *)
popSkipsBatch(m, l) ==
    LET full == {i \in 1..(kBatchSize - 1) : m[l.head + i] # NULL}
        i == Max(full)
    IN  IF full # {}
        THEN [mem |-> [m EXCEPT ![l.head + i] = NULL],
              list |-> [l EXCEPT !.size = @ - 1],
              ptr |-> m[l.head + i]]
        ELSE [mem |-> m,
              list |-> [head |-> NULL, size |-> l.size - 1],
              ptr |-> l.head]

(* The last pointer of the batch, or the batch itself. *)
pop(m, l) ==
    LET full == {i \in 1..(kBatchSize - 1) : m[l.head + i] # NULL}
        i == Max(full)
    IN  IF full # {}
        THEN [mem |-> [m EXCEPT ![l.head + i] = NULL],
              list |-> [l EXCEPT !.size = @ - 1],
              ptr |-> m[l.head + i]]
        ELSE [mem |-> m,
              list |-> [head |-> m[l.head], size |-> l.size - 1],
              ptr |-> l.head]

(* The first free slot of the batch, or a new batch in front of it. *)
push(m, l, p) ==
    LET slots == {i \in 1..(kBatchSize - 1) : m[l.head + i] = NULL}
    IN  IF l.head # NULL /\ slots # {}
        THEN [mem |-> [m EXCEPT ![l.head + Min(slots)] = p],
              list |-> [l EXCEPT !.size = @ + 1]]
        ELSE [mem |-> [w \in Words |-> IF w = p THEN l.head
                                       ELSE IF w - p \in 1..(kBatchSize - 1) THEN NULL
                                       ELSE m[w]],
              list |-> [head |-> p, size |-> l.size + 1]]

(* The class of a size: the least one whose power of two it fits in. *)
get_slab_shift(size) ==
    Min({s \in kMinSlabClassShift..(kMinSlabClassShift + size) : size <= Shl(s)})

get_slab_size(shift) == Shl(shift) + Header

get_max_num_cache_entries(shift) ==
    Min({kMaxCacheEntries, kMaxCacheSizeBytes \div Shl(shift)})

-----------------------------------------------------------------------------
(* SlabAllocator, as functions of the heap's record h. *)

H == [mem |-> mem, cur |-> cur, lists |-> lists]

(* One object from a list to another of its class. *)
Move(h, from, to, s) ==
    LET out == pop(h.mem, h.lists[from][s])
        in == push(out.mem, h.lists[to][s], out.ptr)
    IN  [h EXCEPT !.mem = in.mem, !.lists[from][s] = out.list, !.lists[to][s] = in.list]

(* One object off the break. *)
Carve(h, c, s) ==
    LET in == push(h.mem, h.lists[c][s], h.cur)
    IN  [h EXCEPT !.mem = in.mem, !.lists[c][s] = in.list, !.cur = @ + get_slab_size(s)]

(* The entries that an empty list is filled up to. *)
Wanted(s) == Max({1, get_max_num_cache_entries(s)})

(* One round of the loops of the slow path: an object of the global list,   *)
(* once that is empty one off the break, and none if it does not fit.       *)
FillOne(h, c, s) ==
    IF h.lists[c][s].size >= Wanted(s) THEN h
    ELSE IF h.lists[Global][s].size > 0 THEN Move(h, Global, c, s)
    ELSE IF h.cur + get_slab_size(s) <= HeapSize + 1 THEN Carve(h, c, s)
    ELSE h

(* The slow path of allocate, on an empty list of the core. *)
Refill(h, c, s) ==
    LET g[i \in 0..Wanted(s)] == IF i = 0 THEN h ELSE FillOne(g[i - 1], c, s)
    IN  g[Wanted(s)]

(* allocate: the heap afterwards and the pointer. *)
allocate(h, size, c) ==
    LET s == get_slab_shift(size)
        g == IF h.lists[c][s].size > 0 THEN h ELSE Refill(h, c, s)
        out == pop(g.mem, g.lists[c][s])
    IN  IF size = 0 \/ s > kMaxSlabClassShift THEN [heap |-> h, ptr |-> NULL]
        ELSE IF g.lists[c][s].size = 0 THEN [heap |-> g, ptr |-> NULL]
        ELSE [heap |-> [g EXCEPT !.mem = [out.mem EXCEPT ![out.ptr] = size],
                                 !.lists[c][s] = out.list],
              ptr |-> out.ptr + Header]

(* One round of the loop that halves a list. *)
SpillOne(h, c, s) ==
    IF h.lists[c][s].size > get_max_num_cache_entries(s) \div 2
    THEN Move(h, c, Global, s) ELSE h

Spill(h, c, s) ==
    LET n == h.lists[c][s].size
        g[i \in 0..n] == IF i = 0 THEN h ELSE SpillOne(g[i - 1], c, s)
    IN  g[n]

(* The list of the core, and half of it to the global list if it is full. *)
free_to_cache_list(h, hdr, s, c) ==
    LET in == push(h.mem, h.lists[c][s], hdr)
        g == [h EXCEPT !.mem = in.mem, !.lists[c][s] = in.list]
    IN  IF in.list.size > get_max_num_cache_entries(s) THEN Spill(g, c, s) ELSE g

SetHeap(h) == mem' = h.mem /\ cur' = h.cur /\ lists' = h.lists

(* Whose pointer it is. *)
if_own(p) == p \in Heap

(* free: the pointer is below the break and its header names a class. *)
free(p, c) ==
    IF p \in 1..(cur - 1) /\ get_slab_shift(mem[p - Header]) \in Shifts
    THEN /\ SetHeap(free_to_cache_list(H, p - Header, get_slab_shift(mem[p - Header]), c))
         /\ UNCHANGED bug
    ELSE bug' = TRUE /\ UNCHANGED heapVars

-----------------------------------------------------------------------------
(* The hooks, and the program that calls them. *)

(* The program writes the words it was given. *)
Written(m, p, n) == [w \in Words |-> IF w \in p..(p + n - 1) THEN Data ELSE m[w]]

(* What the program holds, including both sides of a move. *)
InUse == live \cup {mv[1] : mv \in moving} \cup {mv[2] : mv \in moving}

(* The first aligned address that leaves a word for the base before it. *)
AlignUp(p) == ((p + Header + Alignment - 1) \div Alignment) * Alignment

(* An aligned pointer has its base in the word before it. *)
Based(m, p, base) == IF p = base THEN m ELSE [m EXCEPT ![p - 1] = base]

(* real_malloc: a block of the C library, for a plain or an aligned pointer. *)
real_malloc(size, aligned) ==
    \E b \in LibcBlocks \ libc :
        LET p == IF aligned THEN AlignUp(b) ELSE b
        IN  /\ libc' = libc \cup {b}
            /\ mem' = Written(Based(mem, p, b), p, size)
            /\ live' = live \cup {Held(b, p, size)}
            /\ UNCHANGED <<runtime, cur, lists, moving, bug>>

(* operator new and malloc; a null pointer leaves the program as it was or, *)
(* from operator new, ends it.                                              *)
New(size, c) ==
    /\ Cardinality(InUse) < MaxLive
    /\ IF runtime = "running"
       THEN LET a == allocate(H, size, c)
            IN  /\ SetHeap(IF a.ptr = NULL THEN a.heap
                           ELSE [a.heap EXCEPT !.mem = Written(@, a.ptr, size)])
                /\ live' = live \cup IF a.ptr = NULL THEN {} ELSE {Held(a.ptr, a.ptr, size)}
                /\ UNCHANGED <<runtime, moving, libc, bug>>
       ELSE real_malloc(size, FALSE)

(* operator new with an alignment: the base is kept before the pointer.     *)
(* Running out of memory ends the program here.                             *)
NewAligned(size, c) ==
    /\ Cardinality(InUse) < MaxLive
    /\ IF runtime = "running"
       THEN LET a == allocate(H, size + Header + Alignment - 1, c)
                p == AlignUp(a.ptr)
            IN  /\ a.ptr # NULL
                /\ SetHeap([a.heap EXCEPT !.mem = Written(Based(@, p, a.ptr), p, size)])
                /\ live' = live \cup {Held(a.ptr, p, size)}
                /\ UNCHANGED <<runtime, moving, libc, bug>>
       ELSE real_malloc(size, TRUE)

(* Mutant of Delete: asks the runtime, not the pointer. *)
DeleteByPhase(o, c) ==
    LET base == IF o.ptr = o.base THEN o.ptr ELSE mem[o.ptr - 1]
    IN  /\ live' = live \ {o}
        /\ IF runtime = "running"
           THEN free(base, c) /\ UNCHANGED libc
           ELSE libc' = libc \ {base} /\ UNCHANGED <<heapVars, bug>>
        /\ UNCHANGED <<runtime, moving>>

(* operator delete and free, the aligned one by the base it kept.  What the *)
(* runtime's heap had at its end is not freed any more.                     *)
Delete(o, c) ==
    LET base == IF o.ptr = o.base THEN o.ptr ELSE mem[o.ptr - 1]
    IN  /\ live' = live \ {o}
        /\ IF ~if_own(base)
           THEN libc' = libc \ {base} /\ UNCHANGED <<heapVars, bug>>
           ELSE /\ UNCHANGED libc
                /\ IF runtime = "running" THEN free(base, c)
                   ELSE UNCHANGED <<heapVars, bug>>
        /\ UNCHANGED <<runtime, moving>>

(* Copies from the old to the new object what fits in both. *)
Copied(m, old, new, n) ==
    [w \in Words |-> IF w - new \in 0..(n - 1) THEN m[old + w - new] ELSE m[w]]

(* Mutant of Realloc: copies the new size in words too few. *)
ReallocShort(o, size, c) ==
    LET a == allocate(H, size, c)
        n == Min({o.data, size}) - 1
    IN  /\ runtime = "running" /\ if_own(o.base) /\ o.ptr = o.base
        /\ Cardinality(InUse) < MaxLive
        /\ a.ptr # NULL
        /\ SetHeap([a.heap EXCEPT !.mem = Copied(@, o.ptr, a.ptr, n)])
        /\ live' = live \ {o}
        /\ moving' = moving \cup {<<o, Held(a.ptr, a.ptr, n + 1), size>>}
        /\ UNCHANGED <<runtime, libc, bug>>

(* reallocate up to the copy; without memory the old object stays.  What    *)
(* the C library allocated it also resizes.                                 *)
Realloc(o, size, c) ==
    LET a == allocate(H, size, c)
        n == Min({mem[o.base - Header], size})
    IN  /\ runtime = "running" /\ if_own(o.base) /\ o.ptr = o.base
        /\ Cardinality(InUse) < MaxLive
        /\ IF a.ptr = NULL
           THEN SetHeap(a.heap) /\ UNCHANGED <<live, moving>>
           ELSE /\ SetHeap([a.heap EXCEPT !.mem = Copied(@, o.ptr, a.ptr, n)])
                /\ live' = live \ {o}
                /\ moving' = moving \cup {<<o, Held(a.ptr, a.ptr, n), size>>}
        /\ UNCHANGED <<runtime, libc, bug>>

(* Its rest, on whatever core the thread is now; the program then writes    *)
(* the words that are new.                                                  *)
ReallocEnd(mv, c) ==
    LET old == mv[1]
        h == free_to_cache_list(H, old.base - Header,
                                get_slab_shift(mem[old.base - Header]), c)
        new == [mv[2] EXCEPT !.data = mv[3]]
    IN  /\ SetHeap([h EXCEPT !.mem = Written(@, new.ptr, new.data)])
        /\ moving' = moving \ {mv}
        /\ live' = live \cup {new}
        /\ UNCHANGED <<runtime, libc, bug>>

(* The runtime is initialised, and is torn down at the end. *)
Start ==
    /\ runtime = "booting" /\ runtime' = "running"
    /\ UNCHANGED <<heapVars, live, moving, libc, bug>>

TearDown ==
    /\ runtime = "running" /\ moving = {} /\ runtime' = "ended"
    /\ UNCHANGED <<heapVars, live, moving, libc, bug>>

Next ==
    \/ Start \/ TearDown
    \/ \E c \in Cores :
          \/ \E size \in Sizes : New(size, c)
          \/ \E size \in AlignedSizes : NewAligned(size, c)
          \/ \E o \in live : \/ Delete(o, c)
                             \/ \E size \in Sizes : Realloc(o, size, c)
          \/ \E mv \in moving : ReallocEnd(mv, c)

Spec == Init /\ [][Next]_vars

(* The cores are alike. *)
Symmetry == Permutations(Cores)

-----------------------------------------------------------------------------

(* The batches of a list, following their links, and then NULLs. *)
Chain(l) ==
    LET b[i \in 1..l.size] == IF i = 1 THEN l.head
                              ELSE IF b[i - 1] = NULL THEN NULL ELSE mem[b[i - 1]]
    IN  b

(* The objects on a list, each with its slot: batches are in slot 0. *)
Entries(l) ==
    LET b == Chain(l)
        at(i, j) == IF j = 0 THEN b[i] ELSE mem[b[i] + j]
    IN  {<<e[1], e[2], at(e[1], e[2])>> :
            e \in {p \in (1..l.size) \X (0..(kBatchSize - 1)) :
                      b[p[1]] # NULL /\ at(p[1], p[2]) # NULL}}

(* Every object with its place, its class and its address. *)
Objects ==
    (UNION {{[at |-> <<o, e[1], e[2]>>, shift |-> s, addr |-> e[3]] :
                 e \in Entries(lists[o][s])} : o \in Owners, s \in Shifts})
    \cup {[at |-> <<Global, o.ptr, -1>>, shift |-> get_slab_shift(mem[o.base - Header]),
           addr |-> o.base - Header] : o \in {x \in InUse : if_own(x.base)}}

(* The words of an object. *)
Extent(x) == x.addr..(x.addr + get_slab_size(x.shift) - 1)

(* Types of the allocator's state (SlabAllocator). *)
TypeOK ==
    /\ runtime \in {"booting", "running", "ended"}
    /\ mem \in [Words -> 0..Data]
    /\ cur \in 1..(HeapSize + 1)
    /\ \A o \in Owners, s \in Shifts :
          lists[o][s] \in [head : Heap \cup {NULL},
                           size : 0..(IF o = Global THEN HeapSize
                                      ELSE get_max_num_cache_entries(s))]
    /\ libc \subseteq LibcBlocks /\ bug \in BOOLEAN

(***************************************************************************)
(* While the runtime runs, the objects tile the heap up to the break: none *)
(* overlaps another or is on two lists, none is lost, and each is on lists *)
(* of the size it was carved for, whatever cores allocate, free and        *)
(* reallocate it, and although the lists are kept inside free objects.     *)
(***************************************************************************)
HeapTiled ==
    /\ TypeOK
    /\ runtime = "running" =>
          LET all == Objects
          IN  \A w \in 1..(cur - 1) :
                 \E x \in all : {y \in all : w \in Extent(y)} = {x}

(***************************************************************************)
(* Memory belongs to its holder: the size before it and the data in it     *)
(* stay as they were, and reallocate brings over what it must, while free  *)
(* objects around it are turned into batches and back.                     *)
(***************************************************************************)
HeldIntact ==
    \A o \in InUse :
        /\ \A w \in o.ptr..(o.ptr + o.data - 1) : mem[w] = Data
        /\ if_own(o.base) => mem[o.base - Header] # Data
        /\ o.ptr # o.base => mem[o.ptr - 1] = o.base

(***************************************************************************)
(* No BUG_ON fires: every pointer goes back to the allocator it came from, *)
(* also those from before the runtime was initialised (__delete), and its  *)
(* header still names a class.                                             *)
(***************************************************************************)
NoBugOn == ~bug

=============================================================================
