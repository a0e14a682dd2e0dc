-------------------------- MODULE BlockCacheProofs --------------------------
(***************************************************************************)
(* Proofs about the block caches, for every number of volumes, threads and *)
(* cores, every capacity of a core's stack and every size of a batch.      *)
(*                                                                         *)
(* Every operation of a cache moves blocks from the end of one place to    *)
(* the end of another.  The first part shows that such moves keep every    *)
(* block in exactly one place, whatever the places are; the second that    *)
(* the operations are such moves.                                          *)
(***************************************************************************)
EXTENDS BlockCache, FiniteSetTheorems, SequenceTheorems, TLAPS

-----------------------------------------------------------------------------
(* Blocks in places *)

(* No block is in a sequence twice. *)
Distinct(s) == \A i \in 1..Len(s) : \A j \in 1..Len(s) : s[i] = s[j] => i = j

(* Each of the blocks 0..(n - 1) is in one of the places P, which hold the *)
(* sequences F, once, or in the set D.                                     *)
Once(P, F, D, n) ==
    /\ F \in [P -> Seq(0..(n - 1))] /\ D \subseteq 0..(n - 1)
    /\ \A p \in P : Distinct(F[p])
    /\ \A p \in P, q \in P : \A c : c \in Range(F[p]) /\ c \in Range(F[q]) => p = q
    /\ \A p \in P : \A c : c \in Range(F[p]) => c \notin D
    /\ \A c \in 0..(n - 1) : c \in D \/ \E p \in P : c \in Range(F[p])

(* The elements of a sequence are those at its positions. *)
LEMMA Elements ==
  ASSUME NEW S, NEW s \in Seq(S)
  PROVE  Len(s) \in Nat /\ \A c : c \in Range(s) <=> \E i \in 1..Len(s) : s[i] = c
<1>1. Len(s) \in Nat /\ DOMAIN s = 1..Len(s)
  BY Zenon, LenProperties
<1> QED
  BY Zenon, <1>1 DEF Range

(* The empty sequence holds nothing, and nothing twice. *)
LEMMA NothingTwice ==
  ASSUME NEW S
  PROVE  <<>> \in Seq(S) /\ Distinct(<<>>) /\ \A c : c \notin Range(<<>>)
<1>1. <<>> \in Seq(S) /\ Len(<<>>) = 0
  BY Zenon, EmptySeq
<1>2. 1..Len(<<>>) = {}
  BY <1>1
<1>3. Distinct(<<>>)
  BY Zenon, <1>2 DEF Distinct
<1>4. \A c : c \notin Range(<<>>)
  BY <1>1, <1>2, Elements, Zenon
<1> QED
  BY Zenon, <1>1, <1>3, <1>4

(***************************************************************************)
(* Two places may rearrange what they have: what is in them afterwards     *)
(* is what was in them before, and nothing is there twice.                 *)
(***************************************************************************)
LEMMA Rearranged ==
  ASSUME NEW P, NEW F, NEW G, NEW D, NEW n, Once(P, F, D, n),
         NEW a \in P, NEW b \in P, a # b, G \in [P -> Seq(0..(n - 1))],
         \A p \in P : p # a /\ p # b => G[p] = F[p],
         Distinct(G[a]), Distinct(G[b]),
         \A c : ~(c \in Range(G[a]) /\ c \in Range(G[b])),
         \A c : c \in Range(G[a]) \/ c \in Range(G[b])
                  <=> c \in Range(F[a]) \/ c \in Range(F[b])
  PROVE  Once(P, G, D, n)
<1>1. /\ \A p \in P : Distinct(F[p])
      /\ \A p \in P, q \in P : \A c : c \in Range(F[p]) /\ c \in Range(F[q]) => p = q
      /\ \A p \in P : \A c : c \in Range(F[p]) => c \notin D
      /\ \A c \in 0..(n - 1) : c \in D \/ \E p \in P : c \in Range(F[p])
      /\ D \subseteq 0..(n - 1)
  BY Zenon DEF Once
<1>2. \A p \in P : Distinct(G[p])
  BY Zenon, <1>1
<1>3. ASSUME NEW p \in P, NEW q \in P, NEW c, c \in Range(G[p]), c \in Range(G[q])
      PROVE  p = q
  <2>1. CASE p \in {a, b} /\ q \in {a, b}
    BY <1>3, <2>1
  <2>2. CASE p \notin {a, b} /\ q \notin {a, b}
    BY <1>1, <1>3, <2>2, Zenon
  <2>3. CASE p \in {a, b} /\ q \notin {a, b}
    <3>1. c \in Range(F[a]) \/ c \in Range(F[b])
      BY Zenon, <1>3, <2>3
    <3> QED
      BY <1>1, <1>3, <2>3, <3>1, Zenon
  <2>4. CASE p \notin {a, b} /\ q \in {a, b}
    <3>1. c \in Range(F[a]) \/ c \in Range(F[b])
      BY Zenon, <1>3, <2>4
    <3> QED
      BY <1>1, <1>3, <2>4, <3>1, Zenon
  <2> QED
    BY Zenon, <2>1, <2>2, <2>3, <2>4
<1>4. \A p \in P : \A c : c \in Range(G[p]) => c \notin D
  BY Zenon, <1>1
<1>5. \A c \in 0..(n - 1) : c \in D \/ \E p \in P : c \in Range(G[p])
  BY <1>1, Zenon
<1> QED
  BY Zenon, <1>1, <1>2, <1>3, <1>4, <1>5 DEF Once

(* The elements of a sequence that is cut at k. *)
LEMMA Cut ==
  ASSUME NEW S, NEW x \in Seq(S), NEW k \in 0..Len(x)
  PROVE  /\ SubSeq(x, 1, k) \in Seq(S) /\ Len(SubSeq(x, 1, k)) = k
         /\ \A i \in 1..k : SubSeq(x, 1, k)[i] = x[i]
<1>1. Len(x) \in Nat /\ \A i \in 1..k : x[i] \in S
  BY LenProperties, ElementOfSeq
<1>2. /\ SubSeq(x, 1, k) \in Seq(S)
      /\ Len(SubSeq(x, 1, k)) = IF 1 <= k THEN k - 1 + 1 ELSE 0
      /\ \A i \in 1..(k - 1 + 1) : SubSeq(x, 1, k)[i] = x[1 + i - 1]
  BY <1>1, SubSeqProperties
<1> QED
  BY <1>1, <1>2

(* The elements of a stack y on which x is popped down to k. *)
LEMMA Moved ==
  ASSUME NEW S, NEW x \in Seq(S), NEW y \in Seq(S), NEW k \in 0..Len(x)
  PROVE  /\ Behind(y, x, k) \in Seq(S) /\ Len(Behind(y, x, k)) = Len(y) + (Len(x) - k)
         /\ \A i \in 1..(Len(y) + (Len(x) - k)) :
               Behind(y, x, k)[i] = IF i <= Len(y) THEN y[i]
                                                   ELSE x[Len(x) + 1 - (i - Len(y))]
<1>1. Len(x) \in Nat /\ Len(y) \in Nat /\ \A i \in 1..Len(x) : x[i] \in S
  BY Zenon, LenProperties, ElementOfSeq
<1>m. PICK m : m = Len(x) - k
  BY Zenon
<1>r. PICK r : r = [i \in 1..m |-> x[Len(x) + 1 - i]]
  BY Zenon
<1>3. m \in Nat
  BY <1>1, <1>m
<1>5. \A i \in 1..m : r[i] = x[Len(x) + 1 - i] /\ r[i] \in S
  <2>1. \A i \in 1..m : Len(x) + 1 - i \in 1..Len(x)
    BY <1>1, <1>m
  <2> QED
    BY Zenon, <1>1, <1>r, <2>1
<1>6. r \in Seq(S) /\ Len(r) = m
  <2>1. r \in [1..m -> S]
    BY Zenon, <1>r, <1>5
  <2> QED
    BY <1>3, <2>1, SeqDef
<1>7. /\ y \o r \in Seq(S) /\ Len(y \o r) = Len(y) + m
      /\ \A i \in 1..(Len(y) + m) : (y \o r)[i] = IF i <= Len(y) THEN y[i] ELSE r[i - Len(y)]
  BY Zenon, <1>6, ConcatProperties
<1>8. \A i \in 1..(Len(y) + m) : i <= Len(y) \/ i - Len(y) \in 1..m
  BY <1>1, <1>3
<1>9. \A i \in 1..(Len(y) + m) :
         (y \o r)[i] = IF i <= Len(y) THEN y[i] ELSE x[Len(x) + 1 - (i - Len(y))]
  BY Zenon, <1>5, <1>7, <1>8
<1>10. Behind(y, x, k) = y \o r
  BY Zenon, <1>m, <1>r DEF Behind
<1> QED
  BY Zenon, <1>m, <1>7, <1>9, <1>10

(* The positions of a cut sequence x and of y with the rest of x behind it. *)
LEMMA Positions ==
  ASSUME NEW x, NEW y, NEW u, NEW w, NEW m \in Nat, NEW l \in Nat, NEW k \in Nat, k <= m,
         \A i \in 1..k : u[i] = x[i],
         \A i \in 1..(l + (m - k)) : w[i] = IF i <= l THEN y[i] ELSE x[m + 1 - (i - l)],
         \A i \in 1..m : \A j \in 1..m : x[i] = x[j] => i = j,
         \A i \in 1..l : \A j \in 1..l : y[i] = y[j] => i = j,
         \A i \in 1..m : \A j \in 1..l : x[i] # y[j]
  PROVE  /\ \A i \in 1..k : \E j \in 1..m : u[i] = x[j]
         /\ \A i \in 1..(l + (m - k)) : \/ \E j \in 1..m : w[i] = x[j]
                                        \/ \E j \in 1..l : w[i] = y[j]
         /\ \A i \in 1..m : \/ \E j \in 1..k : x[i] = u[j]
                            \/ \E j \in 1..(l + (m - k)) : x[i] = w[j]
         /\ \A i \in 1..l : \E j \in 1..(l + (m - k)) : y[i] = w[j]
         /\ \A i \in 1..k : \A j \in 1..k : u[i] = u[j] => i = j
         /\ \A i \in 1..k : \A j \in 1..(l + (m - k)) : u[i] # w[j]
         /\ \A i \in 1..(l + (m - k)) : \A j \in 1..(l + (m - k)) : w[i] = w[j] => i = j
<1>h. PICK h : h = l + (m - k)
  BY Zenon
<1>0. h \in Nat /\ 1..k \subseteq 1..m /\ 1..l \subseteq 1..h
  BY <1>h
<1>1. \A i \in 1..h : i > l => m + 1 - (i - l) \in 1..m /\ m + 1 - (i - l) > k
                              /\ w[i] = x[m + 1 - (i - l)]
  BY <1>h
<1>2. \A i \in 1..l : w[i] = y[i]
  BY <1>h, <1>0
<1>3. \A i \in 1..k : \E j \in 1..m : u[i] = x[j]
  BY Zenon, <1>0
<1>4. \A i \in 1..h : \/ \E j \in 1..m : w[i] = x[j]
                      \/ \E j \in 1..l : w[i] = y[j]
  <2> SUFFICES ASSUME NEW i \in 1..h
               PROVE  \/ \E j \in 1..m : w[i] = x[j]
                      \/ \E j \in 1..l : w[i] = y[j]
    BY Zenon
  <2>1. CASE i > l
    BY Zenon, <1>1, <2>1
  <2>2. CASE i <= l
    <3>1. i \in 1..l
      BY <1>0, <2>2
    <3> QED
      BY Zenon, <1>2, <3>1
  <2> QED
    BY <1>0, <2>1, <2>2
<1>5. ASSUME NEW i \in 1..m
      PROVE  \/ \E j \in 1..k : x[i] = u[j]
             \/ \E j \in 1..h : x[i] = w[j]
  <2>1. CASE i <= k
    <3>1. i \in 1..k
      BY <2>1
    <3> QED
      BY Zenon, <3>1
  <2>2. CASE i > k
    <3>1. PICK j : j = l + (m + 1 - i)
      BY Zenon
    <3>2. j \in 1..h /\ j > l /\ m + 1 - (j - l) = i
      BY <1>h, <2>2, <3>1
    <3>3. x[i] = w[j]
      BY Zenon, <1>1, <3>2
    <3> QED
      BY Zenon, <3>2, <3>3
  <2> QED
    BY <2>1, <2>2
<1>6. \A i \in 1..l : \E j \in 1..h : y[i] = w[j]
  BY Zenon, <1>0, <1>2
<1>7. \A i \in 1..k : \A j \in 1..k : u[i] = u[j] => i = j
  BY Zenon, <1>0
<1>8. ASSUME NEW i \in 1..k, NEW j \in 1..h PROVE u[i] # w[j]
  <2>1. u[i] = x[i] /\ i \in 1..m /\ i <= k
    BY <1>0
  <2>2. CASE j > l
    BY <1>1, <2>1, <2>2
  <2>3. CASE j <= l
    <3>1. j \in 1..l
      BY <1>0, <2>3
    <3> QED
      BY <1>2, <2>1, <3>1
  <2> QED
    BY <1>0, <2>2, <2>3
<1>9. ASSUME NEW i \in 1..h, NEW j \in 1..h, w[i] = w[j] PROVE i = j
  <2>1. CASE i > l /\ j > l
    <3>1. m + 1 - (i - l) = m + 1 - (j - l)
      BY <1>1, <1>9, <2>1
    <3> QED
      BY <1>0, <3>1
  <2>2. CASE ~(i > l) /\ ~(j > l)
    <3>1. i \in 1..l /\ j \in 1..l
      BY <1>0, <2>2
    <3> QED
      BY Zenon, <1>2, <1>9, <3>1
  <2>3. CASE ~(i > l) /\ j > l
    <3>1. i \in 1..l
      BY <1>0, <2>3
    <3> QED
      BY <1>1, <1>2, <1>9, <2>3, <3>1
  <2>4. CASE i > l /\ ~(j > l)
    <3>1. j \in 1..l
      BY <1>0, <2>4
    <3> QED
      BY <1>1, <1>2, <1>9, <2>4, <3>1
  <2> QED
    BY Zenon, <2>1, <2>2, <2>3, <2>4
<1> QED
  BY Zenon, <1>h, <1>3, <1>4, <1>5, <1>6, <1>7, <1>8, <1>9

(* Cut at k and put behind y, the blocks of x and y stay and are distinct. *)
LEMMA MovedOnce ==
  ASSUME NEW S, NEW x \in Seq(S), NEW y \in Seq(S), NEW k \in 0..Len(x),
         Distinct(x), Distinct(y), \A c : ~(c \in Range(x) /\ c \in Range(y))
  PROVE  /\ SubSeq(x, 1, k) \in Seq(S) /\ Behind(y, x, k) \in Seq(S)
         /\ Distinct(SubSeq(x, 1, k)) /\ Distinct(Behind(y, x, k))
         /\ \A c : ~(c \in Range(SubSeq(x, 1, k)) /\ c \in Range(Behind(y, x, k)))
         /\ \A c : c \in Range(SubSeq(x, 1, k)) \/ c \in Range(Behind(y, x, k))
                    <=> c \in Range(x) \/ c \in Range(y)
<1>x. PICK m, l : m = Len(x) /\ l = Len(y)
  BY Zenon
<1>1. m \in Nat /\ l \in Nat /\ k \in Nat /\ k <= m
  BY <1>x, LenProperties
<1>u. PICK u : u = SubSeq(x, 1, k)
  BY Zenon
<1>w. PICK w : w = Behind(y, x, k)
  BY Zenon
<1>h. PICK h : h = l + (m - k)
  BY Zenon
<1>2. u \in Seq(S) /\ Len(u) = k /\ \A i \in 1..k : u[i] = x[i]
  BY Zenon, <1>u, Cut
<1>3. /\ w \in Seq(S) /\ Len(w) = h
      /\ \A i \in 1..h : w[i] = IF i <= l THEN y[i] ELSE x[m + 1 - (i - l)]
  <2>1. /\ Behind(y, x, k) \in Seq(S) /\ Len(Behind(y, x, k)) = Len(y) + (Len(x) - k)
        /\ \A i \in 1..(Len(y) + (Len(x) - k)) :
              Behind(y, x, k)[i] = IF i <= Len(y) THEN y[i]
                                                  ELSE x[Len(x) + 1 - (i - Len(y))]
    BY Moved, ZenonT(40)
  <2> QED
    BY ONLY Zenon, <2>1, <1>x, <1>w, <1>h
<1>4. \A c : c \in Range(x) <=> \E i \in 1..m : x[i] = c
  BY Zenon, <1>x, Elements
<1>5. \A c : c \in Range(y) <=> \E i \in 1..l : y[i] = c
  BY Zenon, <1>x, Elements
<1>6. \A c : c \in Range(u) <=> \E i \in 1..k : u[i] = c
  BY <1>2, Elements
<1>7. \A c : c \in Range(w) <=> \E i \in 1..h : w[i] = c
  BY <1>3, Elements
<1>8. /\ \A i \in 1..m : \A j \in 1..m : x[i] = x[j] => i = j
      /\ \A i \in 1..l : \A j \in 1..l : y[i] = y[j] => i = j
  BY Zenon, <1>x DEF Distinct
<1>9. \A i \in 1..m : \A j \in 1..l : x[i] # y[j]
  BY <1>4, <1>5, Zenon
<1>10. /\ \A i \in 1..k : \E j \in 1..m : u[i] = x[j]
       /\ \A i \in 1..h : \/ \E j \in 1..m : w[i] = x[j]
                          \/ \E j \in 1..l : w[i] = y[j]
       /\ \A i \in 1..m : \/ \E j \in 1..k : x[i] = u[j]
                          \/ \E j \in 1..h : x[i] = w[j]
       /\ \A i \in 1..l : \E j \in 1..h : y[i] = w[j]
       /\ \A i \in 1..k : \A j \in 1..k : u[i] = u[j] => i = j
       /\ \A i \in 1..k : \A j \in 1..h : u[i] # w[j]
       /\ \A i \in 1..h : \A j \in 1..h : w[i] = w[j] => i = j
  <2>1. /\ \A i \in 1..k : u[i] = x[i]
        /\ \A i \in 1..(l + (m - k)) : w[i] = IF i <= l THEN y[i] ELSE x[m + 1 - (i - l)]
    BY Zenon, <1>2, <1>3, <1>h
  <2> QED
    BY ONLY <1>1, <1>h, <1>8, <1>9, <2>1, Positions
<1>11. Distinct(u) /\ Distinct(w)
  BY Zenon, <1>2, <1>3, <1>10 DEF Distinct
<1>12. \A c : ~(c \in Range(u) /\ c \in Range(w))
  <2>1. \A i \in 1..k : \A j \in 1..h : u[i] # w[j]
    BY Zenon, <1>10
  <2> QED
    BY ONLY Zenon, <1>6, <1>7, <2>1
<1>13. \A c : c \in Range(u) \/ c \in Range(w) <=> c \in Range(x) \/ c \in Range(y)
  BY <1>4, <1>5, <1>6, <1>7, <1>10
<1> QED
  BY Zenon, <1>u, <1>w, <1>2, <1>3, <1>11, <1>12, <1>13

(* A place gives the end of its sequence to another, last block first. *)
LEMMA TailMoves ==
  ASSUME NEW P, NEW F, NEW D, NEW n, Once(P, F, D, n),
         NEW a \in P, NEW b \in P, a # b, NEW k \in 0..Len(F[a])
  PROVE  Once(P, [F EXCEPT ![a] = SubSeq(F[a], 1, k), ![b] = Behind(F[b], F[a], k)], D, n)
<1>x. PICK x, y : x = F[a] /\ y = F[b]
  BY Zenon
<1>s. PICK S : S = 0..(n - 1)
  BY Zenon
<1>u. PICK u, w : u = SubSeq(x, 1, k) /\ w = Behind(y, x, k)
  BY Zenon
<1>1. /\ x \in Seq(S) /\ y \in Seq(S) /\ k \in 0..Len(x) /\ F \in [P -> Seq(S)]
      /\ Distinct(x) /\ Distinct(y)
  BY Zenon, <1>x, <1>s DEF Once
<1>2. \A c : ~(c \in Range(x) /\ c \in Range(y))
  BY Zenon, <1>x DEF Once
<1>3. /\ u \in Seq(S) /\ w \in Seq(S) /\ Distinct(u) /\ Distinct(w)
      /\ \A c : ~(c \in Range(u) /\ c \in Range(w))
      /\ \A c : c \in Range(u) \/ c \in Range(w) <=> c \in Range(x) \/ c \in Range(y)
  <2>1. /\ SubSeq(x, 1, k) \in Seq(S) /\ Behind(y, x, k) \in Seq(S)
        /\ Distinct(SubSeq(x, 1, k)) /\ Distinct(Behind(y, x, k))
        /\ \A c : ~(c \in Range(SubSeq(x, 1, k)) /\ c \in Range(Behind(y, x, k)))
        /\ \A c : c \in Range(SubSeq(x, 1, k)) \/ c \in Range(Behind(y, x, k))
                   <=> c \in Range(x) \/ c \in Range(y)
    BY ONLY Zenon, <1>1, <1>2, MovedOnce
  <2> QED
    BY ONLY Zenon, <1>u, <2>1
<1>g. PICK G : G = [F EXCEPT ![a] = u, ![b] = w]
  BY Zenon
<1>4. /\ G \in [P -> Seq(S)] /\ G[a] = u /\ G[b] = w
      /\ \A p \in P : p # a /\ p # b => G[p] = F[p]
  BY <1>g, <1>1, <1>3, Zenon
<1>5. Once(P, G, D, n)
  BY Zenon, <1>3, <1>4, <1>x, <1>s, Rearranged
<1> QED
  BY Zenon, <1>x, <1>u, <1>g, <1>5

(* A place gives all of its sequence to another. *)
LEMMA AllMoves ==
  ASSUME NEW P, NEW F, NEW D, NEW n, Once(P, F, D, n), NEW a \in P, NEW b \in P, a # b
  PROVE  Once(P, [F EXCEPT ![a] = <<>>, ![b] = F[b] \o F[a]], D, n)
<1>x. PICK x, y, w : x = F[a] /\ y = F[b] /\ w = y \o x
  BY Zenon
<1>s. PICK S : S = 0..(n - 1)
  BY Zenon
<1>1. /\ x \in Seq(S) /\ y \in Seq(S) /\ F \in [P -> Seq(S)]
      /\ Distinct(x) /\ Distinct(y) /\ \A c : ~(c \in Range(x) /\ c \in Range(y))
  BY Zenon, <1>x, <1>s DEF Once
<1>m. PICK m, l : m = Len(x) /\ l = Len(y)
  BY Zenon
<1>2. m \in Nat /\ l \in Nat
  BY Zenon, <1>1, <1>m, LenProperties
<1>3. /\ w \in Seq(S) /\ Len(w) = l + m
      /\ \A i \in 1..(l + m) : w[i] = IF i <= l THEN y[i] ELSE x[i - l]
  BY <1>1, <1>x, <1>m, ConcatProperties
<1>4. \A c : c \in Range(x) <=> \E i \in 1..m : x[i] = c
  BY Zenon, <1>1, <1>m, Elements
<1>5. \A c : c \in Range(y) <=> \E i \in 1..l : y[i] = c
  BY Zenon, <1>1, <1>m, Elements
<1>6. \A c : c \in Range(w) <=> \E i \in 1..(l + m) : w[i] = c
  BY <1>3, Elements
<1>7. \A i \in 1..(l + m) : \/ i \in 1..l /\ i <= l /\ w[i] = y[i]
                            \/ i - l \in 1..m /\ i > l /\ w[i] = x[i - l]
  BY <1>2, <1>3
<1>8. Distinct(w)
  <2> SUFFICES ASSUME NEW i \in 1..(l + m), NEW j \in 1..(l + m), w[i] = w[j] PROVE i = j
    BY Zenon, <1>3 DEF Distinct
  <2>1. /\ \A a1 \in 1..m : \A b1 \in 1..m : x[a1] = x[b1] => a1 = b1
        /\ \A a1 \in 1..l : \A b1 \in 1..l : y[a1] = y[b1] => a1 = b1
    BY Zenon, <1>1, <1>m DEF Distinct
  <2>2. \A a1 \in 1..m : \A b1 \in 1..l : x[a1] # y[b1]
    BY <1>1, <1>4, <1>5, Zenon
  <2>3. \/ i \in 1..l /\ j \in 1..l /\ y[i] = y[j]
        \/ i - l \in 1..m /\ j - l \in 1..m /\ x[i - l] = x[j - l]
    BY Zenon, <1>7, <2>2
  <2> QED
    BY <1>2, <2>1, <2>3
<1>9. \A c : c \in Range(w) <=> c \in Range(x) \/ c \in Range(y)
  <2>1. \A c : c \in Range(w) => c \in Range(x) \/ c \in Range(y)
    BY <1>4, <1>5, <1>6, <1>7
  <2>2. \A i \in 1..l : i \in 1..(l + m) /\ w[i] = y[i]
    BY <1>2, <1>3
  <2>3. \A i \in 1..m : l + i \in 1..(l + m) /\ w[l + i] = x[i]
    BY <1>2, <1>3
  <2> QED
    BY <1>4, <1>5, <1>6, <2>1, <2>2, <2>3
<1>10. <<>> \in Seq(S) /\ Distinct(<<>>) /\ \A c : c \notin Range(<<>>)
  BY Zenon, NothingTwice
<1>e. PICK e : e = <<>>
  BY Zenon
<1>g. PICK G : G = [F EXCEPT ![a] = e, ![b] = w]
  BY Zenon
<1>11. /\ G \in [P -> Seq(S)] /\ G[a] = e /\ G[b] = w
       /\ \A p \in P : p # a /\ p # b => G[p] = F[p]
  BY <1>e, <1>g, <1>1, <1>3, <1>10, Zenon
<1>12. Once(P, G, D, n)
  <2>1. Distinct(G[a]) /\ Distinct(G[b]) /\ \A c : c \notin Range(G[a])
    BY Zenon, <1>e, <1>8, <1>10, <1>11
  <2>2. \A c : c \in Range(G[b]) <=> c \in Range(F[a]) \/ c \in Range(F[b])
    BY Zenon, <1>x, <1>9, <1>11
  <2>3. G \in [P -> Seq(0..(n - 1))]
    BY Zenon, <1>s, <1>11
  <2> QED
    BY Zenon, <1>11, <2>1, <2>2, <2>3, Rearranged
<1> QED
  BY Zenon, <1>e, <1>x, <1>g, <1>12

(* The last block of a sequence goes behind another. *)
LEMMA LastMoves ==
  ASSUME NEW S, NEW x \in Seq(S), NEW y \in Seq(S), x # <<>>
  PROVE  /\ Len(x) - 1 \in 0..Len(x) /\ SubSeq(x, 1, Len(x) - 1) = Pop(x)
         /\ Behind(y, x, Len(x) - 1) = Append(y, Top(x))
<1>1. Len(x) \in Nat \ {0} /\ Len(y) \in Nat
  BY Zenon, EmptySeq, LenProperties
<1>0. Len(x) - 1 \in 0..Len(x)
  BY <1>1
<1>k. PICK k \in 0..Len(x) : k = Len(x) - 1
  BY <1>0, Zenon
<1>2. k \in 0..Len(x) /\ Len(x) - k = 1 /\ Len(x) \in 1..Len(x)
  BY <1>1, <1>k
<1>3. Top(x) \in S
  BY Zenon, <1>2, ElementOfSeq DEF Top
<1>4. /\ Behind(y, x, k) \in Seq(S) /\ Len(Behind(y, x, k)) = Len(y) + 1
      /\ \A i \in 1..(Len(y) + 1) :
            Behind(y, x, k)[i] = IF i <= Len(y) THEN y[i] ELSE x[Len(x) + 1 - (i - Len(y))]
  <2>1. /\ Behind(y, x, k) \in Seq(S) /\ Len(Behind(y, x, k)) = Len(y) + (Len(x) - k)
        /\ \A i \in 1..(Len(y) + (Len(x) - k)) :
              Behind(y, x, k)[i] = IF i <= Len(y) THEN y[i]
                                                  ELSE x[Len(x) + 1 - (i - Len(y))]
    BY Moved
  <2> QED
    BY <1>2, <2>1, Zenon
<1>5. /\ Append(y, Top(x)) \in Seq(S) /\ Len(Append(y, Top(x))) = Len(y) + 1
      /\ \A i \in 1..Len(y) : Append(y, Top(x))[i] = y[i]
      /\ Append(y, Top(x))[Len(y) + 1] = Top(x)
  BY <1>3, AppendProperties
<1>6. Behind(y, x, k) = Append(y, Top(x))
  <2>1. \A i \in 1..(Len(y) + 1) : i \in 1..Len(y) \/ i = Len(y) + 1
    BY <1>1
  <2>2. Len(x) + 1 - (Len(y) + 1 - Len(y)) = Len(x)
    BY <1>1
  <2>3. ASSUME NEW i \in 1..(Len(y) + 1) PROVE Behind(y, x, k)[i] = Append(y, Top(x))[i]
    <3>1. CASE i \in 1..Len(y)
      BY <1>1, <1>4, <1>5, <3>1
    <3>2. CASE i = Len(y) + 1
      <4>1. ~(i <= Len(y))
        BY <1>1, <3>2
      <4> QED
        BY <1>4, <1>5, <2>2, <3>2, <4>1 DEF Top
    <3> QED
      BY Zenon, <2>1, <3>1, <3>2
  <2> QED
    BY Zenon, <1>4, <1>5, <2>3, SeqEqual
<1> QED
  BY Zenon, <1>2, <1>6, <1>k DEF Pop

(* A place gives its last block to another. *)
LEMMA OneMoves ==
  ASSUME NEW P, NEW F, NEW D, NEW n, Once(P, F, D, n),
         NEW a \in P, NEW b \in P, a # b, F[a] # <<>>
  PROVE  Once(P, [F EXCEPT ![a] = Pop(F[a]), ![b] = Append(F[b], Top(F[a]))], D, n)
<1>k. PICK k : k = Len(F[a]) - 1
  BY Zenon
<1>1. F[a] \in Seq(0..(n - 1)) /\ F[b] \in Seq(0..(n - 1))
  BY Zenon DEF Once
<1>2. /\ k \in 0..Len(F[a]) /\ SubSeq(F[a], 1, k) = Pop(F[a])
      /\ Behind(F[b], F[a], k) = Append(F[b], Top(F[a]))
  BY Zenon, <1>k, <1>1, LastMoves
<1>3. Once(P, [F EXCEPT ![a] = SubSeq(F[a], 1, k), ![b] = Behind(F[b], F[a], k)], D, n)
  BY <1>2, TailMoves, Zenon
<1> QED
  BY <1>2, <1>3, Zenon

(* What the places Q have is deleted. *)
LEMMA AllDeleted ==
  ASSUME NEW P, NEW F, NEW D, NEW n, Once(P, F, D, n), NEW Q \in SUBSET P
  PROVE  Once(P, [p \in P |-> IF p \in Q THEN <<>> ELSE F[p]],
              D \cup UNION {Range(F[p]) : p \in Q}, n)
<1>g. PICK G : G = [p \in P |-> IF p \in Q THEN <<>> ELSE F[p]]
  BY Zenon
<1>d. PICK E : E = D \cup UNION {Range(F[p]) : p \in Q}
  BY Zenon
<1>s. PICK S : S = 0..(n - 1)
  BY Zenon
<1>0. /\ F \in [P -> Seq(S)] /\ D \subseteq S
      /\ \A p \in P : Distinct(F[p])
      /\ \A p \in P, q \in P : \A c : c \in Range(F[p]) /\ c \in Range(F[q]) => p = q
      /\ \A p \in P : \A c : c \in Range(F[p]) => c \notin D
      /\ \A c \in S : c \in D \/ \E p \in P : c \in Range(F[p])
  BY Zenon, <1>s DEF Once
<1>1. <<>> \in Seq(S) /\ Distinct(<<>>) /\ \A c : c \notin Range(<<>>)
  BY Zenon, NothingTwice
<1>2. G \in [P -> Seq(S)] /\ \A p \in P : Distinct(G[p])
  BY Zenon, <1>g, <1>0, <1>1
<1>3. \A p \in P : \A c : c \in Range(G[p]) <=> c \in Range(F[p]) /\ p \notin Q
  BY Zenon, <1>g, <1>1
<1>4. \A c : c \in E <=> c \in D \/ \E p \in Q : c \in Range(F[p])
  BY Zenon, <1>d
<1>5. \A p \in P : \A c : c \in Range(F[p]) => c \in S
  <2> SUFFICES ASSUME NEW p \in P, NEW c, c \in Range(F[p]) PROVE c \in S
    BY Zenon
  <2>1. F[p] \in Seq(S)
    BY Zenon, <1>0
  <2>2. PICK i \in 1..Len(F[p]) : F[p][i] = c
    BY Zenon, <2>1, Elements
  <2> QED
    BY Zenon, <2>1, <2>2, ElementOfSeq
<1>6. E \subseteq S
  BY Zenon, <1>0, <1>4, <1>5
<1>7. \A p \in P, q \in P : \A c : c \in Range(G[p]) /\ c \in Range(G[q]) => p = q
  BY <1>0, <1>3, Zenon
<1>8. \A p \in P : \A c : c \in Range(G[p]) => c \notin E
  BY Zenon, <1>0, <1>3, <1>4
<1>9. \A c \in S : c \in E \/ \E p \in P : c \in Range(G[p])
  BY Zenon, <1>0, <1>3, <1>4
<1>10. Once(P, G, E, n)
  BY Zenon, <1>s, <1>2, <1>6, <1>7, <1>8, <1>9 DEF Once
<1> QED
  BY Zenon, <1>g, <1>d, <1>10

(* A run of addresses. *)
LEMMA AddressesAre ==
  ASSUME NEW first \in Nat, NEW m \in Nat
  PROVE  /\ Addresses(first, m) \in Seq(first..(first + m - 1))
         /\ Len(Addresses(first, m)) = m /\ Distinct(Addresses(first, m))
         /\ \A i \in 1..m : Addresses(first, m)[i] = first + i - 1
         /\ Range(Addresses(first, m)) = first..(first + m - 1)
<1>a. PICK s : s = [i \in 1..m |-> first + i - 1]
  BY Zenon
<1>1. s \in [1..m -> first..(first + m - 1)] /\ \A i \in 1..m : s[i] = first + i - 1
  BY <1>a
<1>2. s \in Seq(first..(first + m - 1)) /\ Len(s) = m
  BY <1>1, SeqDef
<1>3. \A i \in 1..m : \A j \in 1..m : s[i] = s[j] => i = j
  BY <1>1
<1>4. \A c \in first..(first + m - 1) : c - first + 1 \in 1..m /\ s[c - first + 1] = c
  BY <1>1
<1>5. \A c : c \in Range(s) <=> c \in first..(first + m - 1)
  <2>1. \A c : c \in Range(s) <=> \E i \in 1..m : s[i] = c
    BY Zenon, <1>2, Elements
  <2>2. \A i \in 1..m : s[i] \in first..(first + m - 1)
    BY Zenon, <1>1
  <2> QED
    BY Zenon, <1>4, <2>1, <2>2
<1>6. Addresses(first, m) = s
  BY Zenon, <1>a DEF Addresses
<1>7. Range(s) = first..(first + m - 1)
  BY <1>5, Zenon
<1> QED
  BY <1>1, <1>2, <1>3, <1>6, <1>7 DEF Distinct

(* An empty place gets the next m blocks. *)
LEMMA Allocated ==
  ASSUME NEW P, NEW F, NEW D, NEW n \in Nat, NEW m \in Nat, Once(P, F, D, n),
         NEW a \in P, F[a] = <<>>
  PROVE  Once(P, [F EXCEPT ![a] = Addresses(n, m)], D, n + m)
<1>g. PICK G, u : u = Addresses(n, m) /\ G = [F EXCEPT ![a] = u]
  BY Zenon
<1>s. PICK S, T, U : S = 0..(n - 1) /\ T = 0..(n + m - 1) /\ U = n..(n + m - 1)
  BY Zenon
<1>t. S \subseteq T /\ U \subseteq T /\ T = S \cup U /\ S \cap U = {}
  BY <1>s
<1>0. /\ F \in [P -> Seq(S)] /\ D \subseteq S
      /\ \A p \in P : Distinct(F[p])
      /\ \A p \in P, q \in P : \A c : c \in Range(F[p]) /\ c \in Range(F[q]) => p = q
      /\ \A p \in P : \A c : c \in Range(F[p]) => c \notin D
      /\ \A c \in S : c \in D \/ \E p \in P : c \in Range(F[p])
  BY Zenon, <1>s DEF Once
<1>1. u \in Seq(U) /\ Distinct(u) /\ Range(u) = U
  BY Zenon, <1>g, <1>s, AddressesAre
<1>2. u \in Seq(T) /\ \A p \in P : F[p] \in Seq(T)
  BY Zenon, <1>0, <1>1, <1>t, SeqMonotonic
<1>3. /\ G \in [P -> Seq(T)] /\ G[a] = u /\ \A p \in P : p # a => G[p] = F[p]
  BY Zenon, <1>g, <1>0, <1>2
<1>4. \A p \in P : \A c : c \in Range(F[p]) => c \in S
  <2> SUFFICES ASSUME NEW p \in P, NEW c, c \in Range(F[p]) PROVE c \in S
    BY Zenon
  <2>1. F[p] \in Seq(S)
    BY Zenon, <1>0
  <2>2. PICK i \in 1..Len(F[p]) : F[p][i] = c
    BY Zenon, <2>1, Elements
  <2> QED
    BY Zenon, <2>1, <2>2, ElementOfSeq
<1>5. \A c : c \notin Range(F[a])
  BY Zenon, NothingTwice
<1>6. \A p \in P : \A c : c \in Range(G[p]) <=> IF p = a THEN c \in U ELSE c \in Range(F[p])
  BY Zenon, <1>1, <1>3
<1>7. \A p \in P : Distinct(G[p])
  BY <1>0, <1>1, <1>3, Zenon
<1>8. \A p \in P, q \in P : \A c : c \in Range(G[p]) /\ c \in Range(G[q]) => p = q
  BY <1>0, <1>4, <1>6, <1>t, Zenon
<1>9. \A p \in P : \A c : c \in Range(G[p]) => c \notin D
  BY Zenon, <1>0, <1>6, <1>t
<1>10. ASSUME NEW c \in T, c \notin D PROVE \E p \in P : c \in Range(G[p])
  <2>1. CASE c \in U
    BY Zenon, <1>6, <2>1
  <2>2. CASE c \in S
    <3>1. PICK p \in P : c \in Range(F[p])
      BY Zenon, <1>0, <1>10, <2>2
    <3>2. p # a
      BY Zenon, <1>5, <3>1
    <3> QED
      BY Zenon, <1>6, <3>1, <3>2
  <2> QED
    BY Zenon, <1>t, <2>1, <2>2
<1>11. D \subseteq T
  BY Zenon, <1>0, <1>t
<1>12. Once(P, G, D, n + m)
  BY <1>s, <1>3, <1>7, <1>8, <1>9, <1>10, <1>11 DEF Once
<1> QED
  BY Zenon, <1>g, <1>12

-----------------------------------------------------------------------------
(* The places of the blocks *)

Local(v, c) == <<"local", v, c>>
Global(v) == <<"global", v, 0>>
Link(t) == <<"link", t, 0>>
Items(t) == <<"items", t, 0>>
Held(t) == <<"held", t, 0>>

(* The blocks a reply of the controller brings to thread t. *)
Replies == [t \in Threads |-> IF link[t].type = "kAllocateBlocksReply"
                              THEN link[t].server_blks ELSE <<>>]

Layout == [p \in Places |-> Content(p)]

(* F is the layout of these stacks, replies, vectors and held blocks. *)
Laid(F, stacks, globals, replies, vectors, taken) ==
    /\ \A v \in Volumes, c \in Cores : F[Local(v, c)] = stacks[v][c]
    /\ \A v \in Volumes : F[Global(v)] = globals[v]
    /\ \A t \in Threads : F[Link(t)] = replies[t]
    /\ \A t \in Threads : F[Items(t)] = vectors[t]
    /\ \A t \in Threads : F[Held(t)] = taken[t]

(* These are the places. *)
LEMMA PlacesAre ==
  /\ \A v \in Volumes, c \in Cores : Local(v, c) \in Places
  /\ \A v \in Volumes : Global(v) \in Places
  /\ \A t \in Threads : Link(t) \in Places /\ Items(t) \in Places /\ Held(t) \in Places
  /\ \A p \in Places : \/ \E v \in Volumes, c \in Cores : p = Local(v, c)
                       \/ \E v \in Volumes : p = Global(v)
                       \/ \E t \in Threads : p = Link(t) \/ p = Items(t) \/ p = Held(t)
BY DEF Places, Local, Global, Link, Items, Held

(* And no two of them are one. *)
LEMMA PlacesDiffer ==
  /\ \A v, c, w, d : Local(v, c) = Local(w, d) => v = w /\ c = d
  /\ \A v, w : Global(v) = Global(w) => v = w
  /\ \A t, u : Link(t) = Link(u) => t = u
  /\ \A t, u : Items(t) = Items(u) => t = u
  /\ \A t, u : Held(t) = Held(u) => t = u
  /\ \A v, c, w : Local(v, c) # Global(w)
  /\ \A v, c, t : Local(v, c) # Link(t) /\ Local(v, c) # Items(t) /\ Local(v, c) # Held(t)
  /\ \A v, t : Global(v) # Link(t) /\ Global(v) # Items(t) /\ Global(v) # Held(t)
  /\ \A t, u : Link(t) # Items(u) /\ Link(t) # Held(u) /\ Items(t) # Held(u)
BY Zenon DEF Local, Global, Link, Items, Held

(* Two functions with the same layout are one. *)
LEMMA LaidOnce ==
  ASSUME NEW F, NEW G, NEW s, NEW g, NEW r, NEW i, NEW h,
         F = [p \in Places |-> F[p]], G = [p \in Places |-> G[p]],
         Laid(F, s, g, r, i, h), Laid(G, s, g, r, i, h)
  PROVE  F = G
<1>1. ASSUME NEW p \in Places PROVE F[p] = G[p]
  <2>1. CASE \E v \in Volumes, c \in Cores : p = Local(v, c)
    BY <2>1 DEF Laid
  <2>2. CASE \E v \in Volumes : p = Global(v)
    BY <2>2 DEF Laid
  <2>3. CASE \E t \in Threads : p = Link(t) \/ p = Items(t) \/ p = Held(t)
    BY <2>3 DEF Laid
  <2> QED
    BY Zenon, <2>1, <2>2, <2>3, PlacesAre
<1> QED
  BY Zenon, <1>1

(* Layout is the layout of the caches' state. *)
LEMMA LayoutIs ==
  /\ Layout = [p \in Places |-> Layout[p]]
  /\ Laid(Layout, locals, global, Replies, items, held)
<1>1. \A v \in Volumes, c \in Cores : Content(Local(v, c)) = locals[v][c]
  BY Zenon DEF Content, Local
<1>2. \A v \in Volumes : Content(Global(v)) = global[v]
  BY Zenon DEF Content, Global
<1>3. \A t \in Threads : Content(Link(t)) = Replies[t]
  BY Zenon DEF Content, Link, Replies
<1>4. \A t \in Threads : Content(Items(t)) = items[t]
  BY Zenon DEF Content, Items
<1>5. \A t \in Threads : Content(Held(t)) = held[t]
  BY Zenon DEF Content, Held
<1>6. \A p \in Places : Layout[p] = Content(p)
  BY Zenon DEF Layout
<1>7. Layout = [p \in Places |-> Layout[p]]
  BY Zenon DEF Layout
<1> QED
  BY Zenon, <1>1, <1>2, <1>3, <1>4, <1>5, <1>6, <1>7, PlacesAre DEF Laid

(* So it is after a step. *)
LEMMA LayoutAfter ==
  /\ Layout' = [p \in Places |-> Layout'[p]]
  /\ Laid(Layout', locals', global', Replies', items', held')
<1>1. (/\ Layout = [p \in Places |-> Layout[p]]
       /\ Laid(Layout, locals, global, Replies, items, held))'
  BY LayoutIs, PTL
<1>2. Layout' = [p \in Places |-> Layout'[p]]
  BY <1>1 DEF Places
<1>3. Laid(Layout', locals', global', Replies', items', held')
  BY Zenon, <1>1 DEF Laid
<1> QED
  BY Zenon, <1>2, <1>3

(* What one place gets shows in the layout, and nowhere else. *)
LEMMA LaidLocal ==
  ASSUME NEW F, NEW s, NEW g, NEW r, NEW i, NEW h, Laid(F, s, g, r, i, h),
         F = [p \in Places |-> F[p]], s = [v \in Volumes |-> [c \in Cores |-> s[v][c]]],
         NEW v \in Volumes, NEW c \in Cores, NEW x
  PROVE  Laid([F EXCEPT ![Local(v, c)] = x], [s EXCEPT ![v][c] = x], g, r, i, h)
<1>g. PICK G, z : G = [F EXCEPT ![Local(v, c)] = x] /\ z = [s EXCEPT ![v][c] = x]
  BY Zenon
<1>1. \A p \in Places : G[p] = IF p = Local(v, c) THEN x ELSE F[p]
  BY Zenon, <1>g
<1>2. \A w \in Volumes, d \in Cores : z[w][d] = IF w = v /\ d = c THEN x ELSE s[w][d]
  BY Zenon, <1>g
<1>3. ASSUME NEW w \in Volumes, NEW d \in Cores PROVE G[Local(w, d)] = z[w][d]
  <2>1. Local(w, d) \in Places /\ F[Local(w, d)] = s[w][d]
    BY PlacesAre, Zenon DEF Laid
  <2>2. Local(w, d) = Local(v, c) <=> w = v /\ d = c
    BY PlacesDiffer
  <2> QED
    BY Zenon, <1>1, <1>2, <2>1, <2>2
<1>4. /\ \A w \in Volumes : G[Global(w)] = F[Global(w)]
      /\ \A t \in Threads : G[Link(t)] = F[Link(t)]
      /\ \A t \in Threads : G[Items(t)] = F[Items(t)]
      /\ \A t \in Threads : G[Held(t)] = F[Held(t)]
  BY Zenon, <1>1, PlacesAre, PlacesDiffer
<1>5. Laid(G, z, g, r, i, h)
  BY <1>3, <1>4, Zenon DEF Laid
<1> QED
  BY Zenon, <1>g, <1>5

(* The same for a global stack, *)
LEMMA LaidGlobal ==
  ASSUME NEW F, NEW s, NEW g, NEW r, NEW i, NEW h, Laid(F, s, g, r, i, h),
         F = [p \in Places |-> F[p]], g = [v \in Volumes |-> g[v]],
         NEW v \in Volumes, NEW x
  PROVE  Laid([F EXCEPT ![Global(v)] = x], s, [g EXCEPT ![v] = x], r, i, h)
<1>g. PICK G, z : G = [F EXCEPT ![Global(v)] = x] /\ z = [g EXCEPT ![v] = x]
  BY Zenon
<1>1. \A p \in Places : G[p] = IF p = Global(v) THEN x ELSE F[p]
  BY Zenon, <1>g
<1>2. \A w \in Volumes : z[w] = IF w = v THEN x ELSE g[w]
  BY Zenon, <1>g
<1>3. \A w \in Volumes : G[Global(w)] = z[w]
  BY <1>1, <1>2, PlacesAre, PlacesDiffer DEF Laid
<1>4. /\ \A w \in Volumes, d \in Cores : G[Local(w, d)] = F[Local(w, d)]
      /\ \A t \in Threads : G[Link(t)] = F[Link(t)]
      /\ \A t \in Threads : G[Items(t)] = F[Items(t)]
      /\ \A t \in Threads : G[Held(t)] = F[Held(t)]
  BY <1>1, PlacesAre, PlacesDiffer
<1>5. Laid(G, s, z, r, i, h)
  BY <1>3, <1>4 DEF Laid
<1> QED
  BY Zenon, <1>g, <1>5

(* for the reply to a thread, *)
LEMMA LaidLink ==
  ASSUME NEW F, NEW s, NEW g, NEW r, NEW i, NEW h, Laid(F, s, g, r, i, h),
         F = [p \in Places |-> F[p]], r = [t \in Threads |-> r[t]],
         NEW t \in Threads, NEW x
  PROVE  Laid([F EXCEPT ![Link(t)] = x], s, g, [r EXCEPT ![t] = x], i, h)
<1>g. PICK G, z : G = [F EXCEPT ![Link(t)] = x] /\ z = [r EXCEPT ![t] = x]
  BY Zenon
<1>1. \A p \in Places : G[p] = IF p = Link(t) THEN x ELSE F[p]
  BY Zenon, <1>g
<1>2. \A u \in Threads : z[u] = IF u = t THEN x ELSE r[u]
  BY Zenon, <1>g
<1>3. \A u \in Threads : G[Link(u)] = z[u]
  BY <1>1, <1>2, PlacesAre, PlacesDiffer DEF Laid
<1>4. /\ \A w \in Volumes, d \in Cores : G[Local(w, d)] = F[Local(w, d)]
      /\ \A w \in Volumes : G[Global(w)] = F[Global(w)]
      /\ \A u \in Threads : G[Items(u)] = F[Items(u)]
      /\ \A u \in Threads : G[Held(u)] = F[Held(u)]
  BY <1>1, PlacesAre, PlacesDiffer
<1>5. Laid(G, s, g, z, i, h)
  BY <1>3, <1>4 DEF Laid
<1> QED
  BY Zenon, <1>g, <1>5

(* for what reserve() has got *)
LEMMA LaidItems ==
  ASSUME NEW F, NEW s, NEW g, NEW r, NEW i, NEW h, Laid(F, s, g, r, i, h),
         F = [p \in Places |-> F[p]], i = [t \in Threads |-> i[t]],
         NEW t \in Threads, NEW x
  PROVE  Laid([F EXCEPT ![Items(t)] = x], s, g, r, [i EXCEPT ![t] = x], h)
<1>g. PICK G, z : G = [F EXCEPT ![Items(t)] = x] /\ z = [i EXCEPT ![t] = x]
  BY Zenon
<1>1. \A p \in Places : G[p] = IF p = Items(t) THEN x ELSE F[p]
  BY Zenon, <1>g
<1>2. \A u \in Threads : z[u] = IF u = t THEN x ELSE i[u]
  BY Zenon, <1>g
<1>3. \A u \in Threads : G[Items(u)] = z[u]
  BY <1>1, <1>2, PlacesAre, PlacesDiffer DEF Laid
<1>4. /\ \A w \in Volumes, d \in Cores : G[Local(w, d)] = F[Local(w, d)]
      /\ \A w \in Volumes : G[Global(w)] = F[Global(w)]
      /\ \A u \in Threads : G[Link(u)] = F[Link(u)]
      /\ \A u \in Threads : G[Held(u)] = F[Held(u)]
  BY <1>1, PlacesAre, PlacesDiffer
<1>5. Laid(G, s, g, r, z, h)
  BY <1>3, <1>4 DEF Laid
<1> QED
  BY Zenon, <1>g, <1>5

(* and for what a thread has taken. *)
LEMMA LaidHeld ==
  ASSUME NEW F, NEW s, NEW g, NEW r, NEW i, NEW h, Laid(F, s, g, r, i, h),
         F = [p \in Places |-> F[p]], h = [t \in Threads |-> h[t]],
         NEW t \in Threads, NEW x
  PROVE  Laid([F EXCEPT ![Held(t)] = x], s, g, r, i, [h EXCEPT ![t] = x])
<1>g. PICK G, z : G = [F EXCEPT ![Held(t)] = x] /\ z = [h EXCEPT ![t] = x]
  BY Zenon
<1>1. \A p \in Places : G[p] = IF p = Held(t) THEN x ELSE F[p]
  BY Zenon, <1>g
<1>2. \A u \in Threads : z[u] = IF u = t THEN x ELSE h[u]
  BY Zenon, <1>g
<1>3. \A u \in Threads : G[Held(u)] = z[u]
  BY <1>1, <1>2, PlacesAre, PlacesDiffer DEF Laid
<1>4. /\ \A w \in Volumes, d \in Cores : G[Local(w, d)] = F[Local(w, d)]
      /\ \A w \in Volumes : G[Global(w)] = F[Global(w)]
      /\ \A u \in Threads : G[Link(u)] = F[Link(u)]
      /\ \A u \in Threads : G[Items(u)] = F[Items(u)]
  BY <1>1, PlacesAre, PlacesDiffer
<1>5. Laid(G, s, g, r, i, z)
  BY <1>3, <1>4 DEF Laid
<1> QED
  BY Zenon, <1>g, <1>5

-----------------------------------------------------------------------------
(* The invariant of the caches *)

(* Every block is in one place. *)
Stored == Once(Places, Layout, deleted, next_allocation)

(***************************************************************************)
(* What the variables look like; a core's stack is not over its capacity;  *)
(* a thread waits for the controller exactly while a message is on its     *)
(* link, and one that is inside get() may still take a block.              *)
(***************************************************************************)
Shape ==
    /\ next_allocation \in Nat
    /\ locals = [v \in Volumes |-> [c \in Cores |-> locals[v][c]]]
    /\ global = [v \in Volumes |-> global[v]]
    /\ link = [t \in Threads |-> link[t]]
    /\ items = [t \in Threads |-> items[t]] /\ held = [t \in Threads |-> held[t]]
    /\ pc \in [Threads -> {"idle", "slow", "reserve", "call"}]
    /\ gets \in [Threads -> 0..MaxGets] /\ live \subseteq Volumes
    /\ \A v \in Volumes, c \in Cores : Len(locals[v][c]) <= PerCoreCapacity
    /\ \A t \in Threads :
          /\ \/ link[t] \in {NoMsg, AllocateBlocksMsg(VolumeOf[t])}
             \/ \E first \in Blocks :
                   link[t] = AllocateBlocksReplyMsg(Addresses(first, AllocationBatch))
          /\ pc[t] = "call" <=> link[t] # NoMsg
          /\ pc[t] # "idle" => gets[t] < MaxGets

BlockInv == Shape /\ Stored

(* The places hold blocks that have been handed out. *)
LEMMA StoredTypes ==
  ASSUME Stored
  PROVE  /\ \A v \in Volumes, c \in Cores : locals[v][c] \in Seq(Blocks)
         /\ \A v \in Volumes : global[v] \in Seq(Blocks)
         /\ \A t \in Threads : /\ Replies[t] \in Seq(Blocks)
                               /\ items[t] \in Seq(Blocks) /\ held[t] \in Seq(Blocks)
         /\ deleted \subseteq Blocks
<1>1. Layout \in [Places -> Seq(Blocks)] /\ deleted \subseteq Blocks
  BY Zenon DEF Stored, Once, Blocks
<1> QED
  <2>1. /\ \A v \in Volumes, c \in Cores :
              Local(v, c) \in Places /\ Layout[Local(v, c)] = locals[v][c]
        /\ \A v \in Volumes : Global(v) \in Places /\ Layout[Global(v)] = global[v]
        /\ \A t \in Threads : Link(t) \in Places /\ Layout[Link(t)] = Replies[t]
        /\ \A t \in Threads : Items(t) \in Places /\ Layout[Items(t)] = items[t]
        /\ \A t \in Threads : Held(t) \in Places /\ Layout[Held(t)] = held[t]
    BY PlacesAre, LayoutIs, Zenon DEF Laid
  <2>2. \A p \in Places : Layout[p] \in Seq(Blocks)
    BY Zenon, <1>1
  <2>3. \A v \in Volumes, c \in Cores : locals[v][c] \in Seq(Blocks)
    BY Zenon, <2>1, <2>2
  <2>4. \A v \in Volumes : global[v] \in Seq(Blocks)
    BY Zenon, <2>1, <2>2
  <2>5. \A t \in Threads : /\ Replies[t] \in Seq(Blocks)
                           /\ items[t] \in Seq(Blocks) /\ held[t] \in Seq(Blocks)
    BY Zenon, <2>1, <2>2
  <2> QED
    BY Zenon, <1>1, <2>3, <2>4, <2>5

(* The invariant gives the variables their types. *)
LEMMA InvTypes == BlockInv => TypeOK
<1> SUFFICES ASSUME BlockInv PROVE TypeOK
  BY Zenon
<1>1. /\ \A v \in Volumes, c \in Cores : locals[v][c] \in Seq(Blocks)
      /\ \A v \in Volumes : global[v] \in Seq(Blocks)
      /\ \A t \in Threads : items[t] \in Seq(Blocks) /\ held[t] \in Seq(Blocks)
      /\ deleted \subseteq Blocks
  BY Zenon, StoredTypes DEF BlockInv
<1>2. /\ locals \in [Volumes -> [Cores -> Seq(Blocks)]] /\ global \in [Volumes -> Seq(Blocks)]
      /\ items \in [Threads -> Seq(Blocks)] /\ held \in [Threads -> Seq(Blocks)]
  BY <1>1 DEF BlockInv, Shape
<1> QED
  BY Zenon, <1>1, <1>2 DEF TypeOK, BlockInv, Shape

(* Stored is EachBlockOnce, with ranges instead of positions. *)
LEMMA InvOnce == BlockInv => EachBlockOnce
<1> SUFFICES ASSUME BlockInv PROVE EachBlockOnce
  BY Zenon
<1>b. PICK n : n = next_allocation
  BY Zenon
<1>0. /\ Layout \in [Places -> Seq(Blocks)] /\ deleted \subseteq Blocks
      /\ \A p \in Places : Distinct(Layout[p])
      /\ \A p \in Places, q \in Places : \A c :
            c \in Range(Layout[p]) /\ c \in Range(Layout[q]) => p = q
      /\ \A p \in Places : \A c : c \in Range(Layout[p]) => c \notin deleted
      /\ \A c \in Blocks : c \in deleted \/ \E p \in Places : c \in Range(Layout[p])
  BY Zenon DEF BlockInv, Stored, Once, Blocks
<1>1. \A p \in Places : Content(p) = Layout[p]
  BY Zenon DEF Layout
<1>2. \A p \in Places : \A c :
         c \in Range(Layout[p]) <=> \E i \in 1..Len(Layout[p]) : Layout[p][i] = c
  <2> SUFFICES ASSUME NEW p \in Places
               PROVE  \A c : c \in Range(Layout[p])
                                <=> \E i \in 1..Len(Layout[p]) : Layout[p][i] = c
    BY Zenon
  <2>1. Layout[p] \in Seq(Blocks)
    BY Zenon, <1>0
  <2> QED
    BY Zenon, <2>1, Elements
<1>3. \A p \in Places : \A c : c \in Range(Layout[p]) => c \in Blocks
  <2> SUFFICES ASSUME NEW p \in Places, NEW c, c \in Range(Layout[p]) PROVE c \in Blocks
    BY Zenon
  <2>1. Layout[p] \in Seq(Blocks)
    BY Zenon, <1>0
  <2>2. PICK i \in 1..Len(Layout[p]) : Layout[p][i] = c
    BY Zenon, <1>2
  <2> QED
    BY Zenon, <2>1, <2>2, ElementOfSeq
<1>4. deleted \cup UNION {Range(Content(p)) : p \in Places} = Blocks
  <2>1. \A c : c \in UNION {Range(Content(p)) : p \in Places}
                 <=> \E p \in Places : c \in Range(Layout[p])
    BY Zenon, <1>1
  <2> QED
    BY Zenon, <1>0, <1>3, <2>1
<1>5. ASSUME NEW p \in Places, NEW q \in Places, NEW i \in 1..Len(Content(p)),
             NEW j \in 1..Len(Content(q)), Content(p)[i] = Content(q)[j]
      PROVE  p = q /\ i = j
  <2>1. /\ Content(p) = Layout[p] /\ Content(q) = Layout[q]
    BY Zenon, <1>1
  <2>2. Layout[p][i] \in Range(Layout[p]) /\ Layout[q][j] \in Range(Layout[q])
    BY <1>2, <2>1, Zenon
  <2>3. p = q
    BY Zenon, <1>0, <1>5, <2>1, <2>2
  <2>4. Distinct(Layout[p])
    BY Zenon, <1>0
  <2> QED
    BY Zenon, <1>5, <2>1, <2>3, <2>4 DEF Distinct
<1>6. \A p \in Places : Range(Content(p)) \cap deleted = {}
  BY Zenon, <1>0, <1>1
<1> QED
  BY Zenon, <1>4, <1>5, <1>6, InvTypes DEF EachBlockOnce

(* After a step every block is in one place, if it is in a layout of the state. *)
LEMMA Relaid ==
  ASSUME NEW G, G = [p \in Places |-> G[p]],
         Laid(G, locals', global', Replies', items', held'),
         Once(Places, G, deleted', next_allocation')
  PROVE  Stored'
<1>1. Layout' = G
  BY Zenon, LayoutAfter, LaidOnce
<1> QED
  BY <1>1 DEF Stored, Places

-----------------------------------------------------------------------------
(* The operations *)

(* A core's stack is replaced by one that is not over the capacity. *)
LEMMA StackSet ==
  ASSUME NEW s, NEW v \in Volumes, NEW c \in Cores, NEW x, Len(x) <= PerCoreCapacity,
         s = [w \in Volumes |-> [d \in Cores |-> s[w][d]]],
         \A w \in Volumes, d \in Cores : Len(s[w][d]) <= PerCoreCapacity,
         NEW z, z = [s EXCEPT ![v][c] = x]
  PROVE  /\ z = [w \in Volumes |-> [d \in Cores |-> z[w][d]]]
         /\ \A w \in Volumes, d \in Cores : Len(z[w][d]) <= PerCoreCapacity
<1>1. z = [w \in Volumes |-> [d \in Cores |-> IF w = v /\ d = c THEN x ELSE s[w][d]]]
  BY Zenon
<1>2. \A w \in Volumes, d \in Cores : z[w][d] = IF w = v /\ d = c THEN x ELSE s[w][d]
  BY <1>1
<1>3. z = [w \in Volumes |-> [d \in Cores |-> z[w][d]]]
  BY <1>1, Zenon
<1>4. ASSUME NEW w \in Volumes, NEW d \in Cores PROVE Len(z[w][d]) <= PerCoreCapacity
  <2>1. Len(s[w][d]) <= PerCoreCapacity /\ z[w][d] = IF w = v /\ d = c THEN x ELSE s[w][d]
    BY Zenon, <1>2
  <2>2. z[w][d] = x \/ z[w][d] = s[w][d]
    BY Zenon, <2>1
  <2>3. Len(z[w][d]) = Len(x) \/ Len(z[w][d]) = Len(s[w][d])
    BY ONLY Zenon, <2>2
  <2> QED
    BY ONLY Zenon, <2>1, <2>3, Len(x) <= PerCoreCapacity
<1> QED
  BY <1>3, <1>4, Zenon

(* get() moves the top of a core's stack to the thread. *)
LEMMA GetKeeps ==
  ASSUME BlockInv, NEW t \in Threads, NEW c \in Cores, Get(t, c)
  PROVE  BlockInv'
<1>v. PICK v \in Volumes : v = VolumeOf[t]
  BY Zenon, BlockCacheAssumption
<1>x. PICK x, y : x = locals[v][c] /\ y = held[t]
  BY Zenon
<1>1. x \in Seq(Blocks) /\ y \in Seq(Blocks) /\ Shape /\ Stored
  BY Zenon, <1>x, StoredTypes DEF BlockInv
<1>2. /\ locals' = [locals EXCEPT ![v][c] = Pop(x)] /\ x # <<>>
      /\ held' = [held EXCEPT ![t] = Append(y, Top(x))]
      /\ gets' = [gets EXCEPT ![t] = @ + 1] /\ gets[t] < MaxGets /\ pc[t] = "idle"
      /\ UNCHANGED <<next_allocation, global, pc, link, items, live, deleted>>
  BY Zenon, <1>x, <1>v DEF Get, Take, cacheVars
<1>3. /\ Local(v, c) \in Places /\ Held(t) \in Places /\ Local(v, c) # Held(t)
      /\ Layout[Local(v, c)] = x /\ Layout[Held(t)] = y
      /\ Layout = [p \in Places |-> Layout[p]]
  BY <1>x, PlacesAre, PlacesDiffer, LayoutIs DEF Laid
<1>g. PICK G, H : /\ G = [Layout EXCEPT ![Local(v, c)] = Pop(x)]
                  /\ H = [G EXCEPT ![Held(t)] = Append(y, Top(x))]
  BY Zenon
<1>4. Once(Places, H, deleted, next_allocation)
  <2>1. Once(Places, [Layout EXCEPT ![Local(v, c)] = Pop(Layout[Local(v, c)]),
                         ![Held(t)] = Append(Layout[Held(t)], Top(Layout[Local(v, c)]))],
             deleted, next_allocation)
    BY Zenon, <1>1, <1>2, <1>3, OneMoves DEF Stored
  <2> QED
    BY Zenon, <1>3, <1>g, <2>1
<1>5. Laid(H, locals', global', Replies', items', held')
  <2>1. Replies' = Replies
    BY Zenon, <1>2 DEF Replies
  <2>2. Laid(G, locals', global, Replies, items, held)
    BY <1>1, <1>2, <1>3, <1>g, LaidLocal, LayoutIs, Zenon DEF Shape
  <2>3. G = [p \in Places |-> G[p]]
    BY <1>3, <1>g, Zenon
  <2>4. Laid(H, locals', global, Replies, items, held')
    BY <1>1, <1>2, <1>g, <2>2, <2>3, LaidHeld, ZenonT(40) DEF Shape
  <2> QED
    BY Zenon, <1>2, <2>1, <2>4
<1>6. H = [p \in Places |-> H[p]]
  BY <1>3, <1>g, Zenon
<1>7. Stored'
  BY <1>2, <1>4, <1>5, <1>6, Relaid, Zenon
<1>8. Shape'
  <2>1. Len(Pop(x)) <= PerCoreCapacity
    <3>1. Len(x) \in Nat \ {0} /\ Len(x) <= PerCoreCapacity
      BY Zenon, <1>1, <1>2, <1>x, EmptySeq DEF Shape
    <3>2. Len(x) - 1 \in 0..Len(x)
      BY <3>1
    <3>3. Len(Pop(x)) = Len(x) - 1
      BY <1>1, <3>2, Cut, Zenon DEF Pop
    <3> QED
      BY <3>1, <3>3, BlockCacheAssumption
  <2>2. gets' \in [Threads -> 0..MaxGets] /\ \A u \in Threads : pc[u] # "idle" => gets'[u] < MaxGets
    BY <1>1, <1>2, BlockCacheAssumption DEF Shape
  <2>3. /\ locals' = [w \in Volumes |-> [d \in Cores |-> locals'[w][d]]]
        /\ \A w \in Volumes, d \in Cores : Len(locals'[w][d]) <= PerCoreCapacity
    BY <1>1, <1>2, <2>1, StackSet, Zenon DEF Shape
  <2>4. held' = [u \in Threads |-> held'[u]]
    BY <1>1, <1>2, Zenon DEF Shape
  <2> QED
    BY <1>1, <1>2, <2>2, <2>3, <2>4, Zenon DEF Shape, Blocks
<1> QED
  BY Zenon, <1>7, <1>8 DEF BlockInv

(* get() finds nothing: no block moves. *)
LEMMA GetMissKeeps ==
  ASSUME BlockInv, NEW t \in Threads, NEW c \in Cores, GetMiss(t, c)
  PROVE  BlockInv'
<1>1. /\ pc' = [pc EXCEPT ![t] = "slow"] /\ pc[t] = "idle" /\ gets[t] < MaxGets
      /\ UNCHANGED <<next_allocation, locals, global, link, items, held, gets, live, deleted>>
  BY Zenon DEF GetMiss, cacheVars
<1>2. Shape'
  <2>1. /\ Shape /\ pc' \in [Threads -> {"idle", "slow", "reserve", "call"}]
        /\ \A u \in Threads : pc'[u] = IF u = t THEN "slow" ELSE pc[u]
    BY Zenon, <1>1 DEF BlockInv, Shape
  <2> QED
    BY <1>1, <2>1 DEF Shape, Blocks
<1>3. Replies' = Replies
  BY Zenon, <1>1 DEF Replies
<1>4. Stored'
  BY Zenon, <1>1, <1>3, Relaid, LayoutIs DEF BlockInv, Stored
<1> QED
  BY Zenon, <1>2, <1>4 DEF BlockInv

(* A message to or from the controller that brings no block moves none. *)
LEMMA AllocateBlocksKeeps ==
  ASSUME BlockInv, NEW t \in Threads, AllocateBlocks(t)
  PROVE  BlockInv'
<1>m. PICK m : m = AllocateBlocksMsg(VolumeOf[t])
  BY Zenon
<1>1. /\ pc' = [pc EXCEPT ![t] = "call"] /\ pc[t] = "reserve" /\ link' = [link EXCEPT ![t] = m]
      /\ UNCHANGED <<next_allocation, locals, global, items, held, gets, live, deleted>>
  BY Zenon, <1>m DEF AllocateBlocks, cacheVars
<1>2. m # NoMsg /\ m.type # "kAllocateBlocksReply" /\ NoMsg.type # "kAllocateBlocksReply"
  BY Zenon, <1>m DEF AllocateBlocksMsg, NoMsg
<1>3. link[t] = NoMsg
  BY Zenon, <1>1 DEF BlockInv, Shape
<1>4. /\ \A u \in Threads : link'[u] = IF u = t THEN m ELSE link[u]
      /\ link' = [u \in Threads |-> link'[u]]
  BY <1>1, Zenon DEF BlockInv, Shape
<1>5. Shape'
  <2>1. /\ Shape /\ pc' \in [Threads -> {"idle", "slow", "reserve", "call"}]
        /\ \A u \in Threads : pc'[u] = IF u = t THEN "call" ELSE pc[u]
    BY Zenon, <1>1 DEF BlockInv, Shape
  <2>2. \A u \in Threads :
          /\ \/ link'[u] \in {NoMsg, AllocateBlocksMsg(VolumeOf[u])}
             \/ \E first \in Blocks :
                   link'[u] = AllocateBlocksReplyMsg(Addresses(first, AllocationBatch))
          /\ pc'[u] = "call" <=> link'[u] # NoMsg
          /\ pc'[u] # "idle" => gets[u] < MaxGets
    BY Zenon, <1>1, <1>2, <1>4, <1>m, <2>1 DEF Shape
  <2> QED
    BY <1>1, <1>4, <2>1, <2>2 DEF Shape, Blocks
<1>6. Replies' = Replies
  BY Zenon, <1>2, <1>3, <1>4 DEF Replies
<1>7. Stored'
  BY Zenon, <1>1, <1>6, Relaid, LayoutIs DEF BlockInv, Stored
<1> QED
  BY Zenon, <1>5, <1>7 DEF BlockInv

(* The controller's next addresses go on the link to the thread. *)
LEMMA HandleAllocateBlocksKeeps ==
  ASSUME BlockInv, NEW t \in Threads, HandleAllocateBlocks(t)
  PROVE  BlockInv'
<1>n. PICK n, m, x, y : /\ n = next_allocation /\ m = AllocationBatch /\ x = Addresses(n, m)
                        /\ y = AllocateBlocksReplyMsg(x)
  BY Zenon
<1>1. /\ link[t].type = "kAllocateBlocks" /\ next_allocation' = n + m
      /\ link' = [link EXCEPT ![t] = y]
      /\ UNCHANGED <<locals, global, pc, items, held, gets, live, deleted>>
  BY Zenon, <1>n DEF HandleAllocateBlocks, AgentAllocates, ControllerAllocates, cacheVars
<1>2. /\ n \in Nat /\ m \in Nat \ {0} /\ Shape
      /\ y.type = "kAllocateBlocksReply" /\ y.server_blks = x /\ y # NoMsg
  BY Zenon, <1>n, BlockCacheAssumption DEF BlockInv, Shape, AllocateBlocksReplyMsg, NoMsg
<1>3. link[t] # NoMsg /\ Replies[t] = <<>>
  BY <1>1 DEF NoMsg, Replies
<1>4. /\ \A u \in Threads : link'[u] = IF u = t THEN y ELSE link[u]
      /\ link' = [u \in Threads |-> link'[u]]
  BY <1>1, <1>2, Zenon DEF Shape
<1>5. Replies' = [Replies EXCEPT ![t] = x]
  BY <1>2, <1>4, Zenon DEF Replies
<1>g. PICK G : G = [Layout EXCEPT ![Link(t)] = x]
  BY Zenon
<1>6. Layout = [p \in Places |-> Layout[p]] /\ Layout[Link(t)] = <<>> /\ Link(t) \in Places
  BY <1>3, LayoutIs, PlacesAre, Zenon DEF Laid
<1>7. Once(Places, G, deleted, n + m)
  <2>1. Once(Places, Layout, deleted, n)
    BY Zenon, <1>n DEF BlockInv, Stored
  <2>2. Once(Places, [Layout EXCEPT ![Link(t)] = Addresses(n, m)], deleted, n + m)
    BY Zenon, <1>2, <1>6, <2>1, Allocated
  <2> QED
    BY Zenon, <1>g, <1>n, <2>2
<1>8. Laid(G, locals, global, Replies', items, held) /\ G = [p \in Places |-> G[p]]
  <2>1. Replies = [u \in Threads |-> Replies[u]]
    BY Zenon DEF Replies
  <2> QED
    BY Zenon, <1>5, <1>6, <1>g, <2>1, LayoutIs, LaidLink
<1>9. Stored'
  BY Zenon, <1>1, <1>7, <1>8, Relaid
<1>10. Shape'
  <2>1. n \in Blocks' /\ Blocks \subseteq Blocks' /\ n + m \in Nat
    BY <1>1, <1>2, <1>n DEF Blocks
  <2>2. \A u \in Threads :
          /\ \/ link'[u] \in {NoMsg, AllocateBlocksMsg(VolumeOf[u])}
             \/ \E first \in Blocks' :
                   link'[u] = AllocateBlocksReplyMsg(Addresses(first, AllocationBatch))
          /\ pc[u] = "call" <=> link'[u] # NoMsg
    <3> SUFFICES ASSUME NEW u \in Threads
                 PROVE  /\ \/ link'[u] \in {NoMsg, AllocateBlocksMsg(VolumeOf[u])}
                           \/ \E first \in Blocks' :
                                 link'[u] = AllocateBlocksReplyMsg(Addresses(first, AllocationBatch))
                        /\ pc[u] = "call" <=> link'[u] # NoMsg
      BY Zenon
    <3>1. CASE u = t
      BY Zenon, <1>2, <1>3, <1>4, <1>n, <2>1, <3>1 DEF Shape
    <3>2. CASE u # t
      BY Zenon, <1>2, <1>4, <2>1, <3>2 DEF Shape
    <3> QED
      BY Zenon, <3>1, <3>2
  <2> QED
    BY <1>1, <1>2, <1>4, <2>1, <2>2 DEF Shape
<1> QED
  BY Zenon, <1>9, <1>10 DEF BlockInv

(* The addresses of the reply go to the thread's vector. *)
LEMMA HandleAllocateBlocksReplyKeeps ==
  ASSUME BlockInv, NEW t \in Threads, HandleAllocateBlocksReply(t)
  PROVE  BlockInv'
<1>x. PICK x, y, z : x = Replies[t] /\ y = items[t] /\ z = y \o x
  BY Zenon
<1>0. /\ NoMsg.type # "kAllocateBlocksReply" /\ Shape
      /\ Replies[t] = link[t].server_blks
  BY Zenon DEF NoMsg, BlockInv, HandleAllocateBlocksReply, Replies
<1>1. /\ items' = [items EXCEPT ![t] = z] /\ link' = [link EXCEPT ![t] = NoMsg]
      /\ pc' = [pc EXCEPT ![t] = "reserve"] /\ link[t].type = "kAllocateBlocksReply"
      /\ UNCHANGED <<next_allocation, locals, global, held, gets, live, deleted>>
  BY Zenon, <1>0, <1>x DEF HandleAllocateBlocksReply, cacheVars
<1>2. /\ \A u \in Threads : link'[u] = IF u = t THEN NoMsg ELSE link[u]
      /\ link' = [u \in Threads |-> link'[u]]
      /\ link[t] # NoMsg /\ pc[t] = "call"
  BY Zenon, <1>0, <1>1 DEF Shape
<1>3. Replies' = [Replies EXCEPT ![t] = <<>>]
  BY <1>0, <1>2, Zenon DEF Replies
<1>g. PICK G, H : G = [Layout EXCEPT ![Link(t)] = <<>>] /\ H = [G EXCEPT ![Items(t)] = z]
  BY Zenon
<1>4. /\ Layout = [p \in Places |-> Layout[p]] /\ Layout[Link(t)] = x /\ Layout[Items(t)] = y
      /\ Link(t) \in Places /\ Items(t) \in Places /\ Link(t) # Items(t)
  BY Zenon, <1>x, LayoutIs, PlacesAre, PlacesDiffer DEF Laid
<1>5. Once(Places, H, deleted, next_allocation)
  <2>1. Once(Places, [Layout EXCEPT ![Link(t)] = <<>>,
                                    ![Items(t)] = Layout[Items(t)] \o Layout[Link(t)]],
             deleted, next_allocation)
    BY <1>4, AllMoves, Zenon DEF BlockInv, Stored
  <2> QED
    BY <1>4, <1>g, <1>x, <2>1, Zenon
<1>6. Laid(H, locals, global, Replies', items', held)
  <2>1. Replies = [u \in Threads |-> Replies[u]]
    BY Zenon DEF Replies
  <2>2. Laid(G, locals, global, Replies', items, held)
    BY <1>3, <1>4, <1>g, <2>1, LayoutIs, LaidLink, Zenon
  <2>3. G = [p \in Places |-> G[p]]
    BY Zenon, <1>4, <1>g
  <2> QED
    BY <1>0, <1>1, <1>g, <2>2, <2>3, LaidItems, Zenon DEF Shape
<1>7. H = [p \in Places |-> H[p]]
  BY <1>4, <1>g, Zenon
<1>8. Stored'
  BY <1>1, <1>5, <1>6, <1>7, Relaid, Zenon
<1>9. Shape'
  <2>1. /\ pc' \in [Threads -> {"idle", "slow", "reserve", "call"}]
        /\ \A u \in Threads : pc'[u] = IF u = t THEN "reserve" ELSE pc[u]
    BY Zenon, <1>0, <1>1 DEF Shape
  <2>2. items' = [u \in Threads |-> items'[u]]
    BY <1>0, <1>1, Zenon DEF Shape
  <2>3. \A u \in Threads :
          /\ \/ link'[u] \in {NoMsg, AllocateBlocksMsg(VolumeOf[u])}
             \/ \E first \in Blocks :
                   link'[u] = AllocateBlocksReplyMsg(Addresses(first, AllocationBatch))
          /\ pc'[u] = "call" <=> link'[u] # NoMsg
          /\ pc'[u] # "idle" => gets[u] < MaxGets
    BY <1>0, <1>2, <2>1 DEF Shape
  <2> QED
    BY <1>0, <1>1, <1>2, <2>1, <2>2, <2>3 DEF Shape, Blocks
<1> QED
  BY Zenon, <1>8, <1>9 DEF BlockInv

(* reserve() gives its vector to the global stack. *)
LEMMA ReserveKeeps ==
  ASSUME BlockInv, NEW t \in Threads, Reserve(t)
  PROVE  BlockInv'
<1>v. PICK v \in Volumes : v = VolumeOf[t]
  BY Zenon, BlockCacheAssumption
<1>x. PICK x, y, z : x = items[t] /\ y = global[v] /\ z = y \o x
  BY Zenon
<1>0. Shape
  BY Zenon DEF BlockInv
<1>1. /\ global' = [global EXCEPT ![v] = z] /\ items' = [items EXCEPT ![t] = <<>>]
      /\ pc' = [pc EXCEPT ![t] = "slow"] /\ pc[t] = "reserve"
      /\ UNCHANGED <<next_allocation, locals, link, held, gets, live, deleted>>
  BY Zenon, <1>v, <1>x DEF Reserve, cacheVars
<1>g. PICK G, H : G = [Layout EXCEPT ![Items(t)] = <<>>] /\ H = [G EXCEPT ![Global(v)] = z]
  BY Zenon
<1>2. Replies' = Replies
  BY Zenon, <1>1 DEF Replies
<1>4. /\ Layout = [p \in Places |-> Layout[p]] /\ Layout[Items(t)] = x /\ Layout[Global(v)] = y
      /\ Items(t) \in Places /\ Global(v) \in Places /\ Items(t) # Global(v)
  BY Zenon, <1>x, LayoutIs, PlacesAre, PlacesDiffer DEF Laid
<1>5. Once(Places, H, deleted, next_allocation)
  <2>1. Once(Places, [Layout EXCEPT ![Items(t)] = <<>>,
                                    ![Global(v)] = Layout[Global(v)] \o Layout[Items(t)]],
             deleted, next_allocation)
    BY <1>4, AllMoves, Zenon DEF BlockInv, Stored
  <2> QED
    BY <1>4, <1>g, <1>x, <2>1, Zenon
<1>6. Laid(H, locals, global', Replies, items', held)
  <2>2. Laid(G, locals, global, Replies, items', held)
    BY <1>0, <1>1, <1>4, <1>g, LayoutIs, LaidItems, Zenon DEF Shape
  <2>3. G = [p \in Places |-> G[p]]
    BY Zenon, <1>4, <1>g
  <2>4. global = [w \in Volumes |-> global[w]]
    BY Zenon, <1>0 DEF Shape
  <2>5. Laid([G EXCEPT ![Global(v)] = z], locals, [global EXCEPT ![v] = z], Replies, items', held)
    BY Zenon, <2>2, <2>3, <2>4, LaidGlobal
  <2> QED
    BY Zenon, <1>1, <1>g, <2>5
<1>7. H = [p \in Places |-> H[p]]
  BY <1>4, <1>g, Zenon
<1>8. Stored'
  BY <1>1, <1>2, <1>5, <1>6, <1>7, Relaid, Zenon
<1>9. Shape'
  <2>1. /\ pc' \in [Threads -> {"idle", "slow", "reserve", "call"}]
        /\ \A u \in Threads : pc'[u] = IF u = t THEN "slow" ELSE pc[u]
    BY Zenon, <1>0, <1>1 DEF Shape
  <2>2. items' = [u \in Threads |-> items'[u]] /\ global' = [w \in Volumes |-> global'[w]]
    BY <1>0, <1>1, Zenon DEF Shape
  <2>3. \A u \in Threads : /\ pc'[u] = "call" <=> link[u] # NoMsg
                           /\ pc'[u] # "idle" => gets[u] < MaxGets
    BY Zenon, <1>0, <1>1, <2>1 DEF Shape
  <2> QED
    BY <1>0, <1>1, <2>1, <2>2, <2>3 DEF Shape, Blocks
<1> QED
  BY Zenon, <1>8, <1>9 DEF BlockInv

(* A refill does not overfill a core's stack. *)
LEMMA RoomIs ==
  ASSUME NEW n \in Nat, NEW m \in Nat, n <= PerCoreCapacity
  PROVE  /\ Room(n, m) \in Nat /\ Room(n, m) <= m /\ n + Room(n, m) <= PerCoreCapacity
         /\ m - Room(n, m) \in 0..m
BY BlockCacheAssumption DEF Room

(* The end of the global stack is moved to a core's. *)
LEMMA Refilled ==
  ASSUME BlockInv, NEW v \in Volumes, NEW c \in Cores, NEW k \in 0..Len(global[v]),
         NEW z, z = Behind(locals[v][c], global[v], k)
  PROVE  \E G : /\ G = [p \in Places |-> G[p]] /\ Once(Places, G, deleted, next_allocation)
                /\ Laid(G, [locals EXCEPT ![v][c] = z], [global EXCEPT ![v] = SubSeq(@, 1, k)],
                        Replies, items, held)
<1>x. PICK x, y, w : x = locals[v][c] /\ y = global[v] /\ w = SubSeq(y, 1, k)
  BY Zenon
<1>g. PICK G, H : G = [Layout EXCEPT ![Global(v)] = w] /\ H = [G EXCEPT ![Local(v, c)] = z]
  BY Zenon
<1>1. /\ Local(v, c) \in Places /\ Global(v) \in Places /\ Local(v, c) # Global(v)
      /\ Layout[Local(v, c)] = x /\ Layout[Global(v)] = y
      /\ Layout = [p \in Places |-> Layout[p]]
  BY <1>x, PlacesAre, PlacesDiffer, LayoutIs, Zenon DEF Laid
<1>2. Once(Places, H, deleted, next_allocation)
  <2>1. k \in 0..Len(Layout[Global(v)])
    BY Zenon, <1>1, <1>x
  <2>2. Once(Places, [Layout EXCEPT ![Global(v)] = SubSeq(Layout[Global(v)], 1, k),
                         ![Local(v, c)] = Behind(Layout[Local(v, c)], Layout[Global(v)], k)],
             deleted, next_allocation)
    BY <1>1, <2>1, TailMoves, Zenon DEF BlockInv, Stored
  <2> QED
    BY Zenon, <1>1, <1>x, <1>g, <2>2
<1>3. /\ locals = [u \in Volumes |-> [d \in Cores |-> locals[u][d]]]
      /\ global = [u \in Volumes |-> global[u]]
  BY Zenon DEF BlockInv, Shape
<1>4. G = [p \in Places |-> G[p]] /\ H = [p \in Places |-> H[p]]
  BY <1>1, <1>g, Zenon
<1>5. Laid(G, locals, [global EXCEPT ![v] = w], Replies, items, held)
  BY <1>1, <1>3, <1>g, LayoutIs, LaidGlobal, Zenon
<1>6. Laid([G EXCEPT ![Local(v, c)] = z], [locals EXCEPT ![v][c] = z],
           [global EXCEPT ![v] = w], Replies, items, held)
  BY <1>3, <1>4, <1>5, LaidLocal, Zenon
<1>7. [global EXCEPT ![v] = SubSeq(@, 1, k)] = [global EXCEPT ![v] = w]
  BY Zenon, <1>3, <1>x
<1> QED
  BY Zenon, <1>2, <1>4, <1>6, <1>7, <1>g

(* get_slow_path refills the core's stack and takes its top, if there is one. *)
LEMMA GetSlowPathKeeps ==
  ASSUME BlockInv, NEW t \in Threads, NEW c \in Cores, GetSlowPath(t, c)
  PROVE  BlockInv'
<1>v. PICK v \in Volumes : v = VolumeOf[t]
  BY Zenon, BlockCacheAssumption
<1>x. PICK x, y, h : x = locals[v][c] /\ y = global[v] /\ h = held[t]
  BY Zenon
<1>k. PICK k, z : k = Len(y) - Room(Len(x), Len(y)) /\ z = Behind(x, y, k)
  BY Zenon
<1>0. /\ x \in Seq(Blocks) /\ y \in Seq(Blocks) /\ h \in Seq(Blocks) /\ Shape
      /\ Len(x) <= PerCoreCapacity
  BY Zenon, <1>x, StoredTypes DEF BlockInv, Shape
<1>1. /\ pc[t] = "slow" /\ global' = [global EXCEPT ![v] = SubSeq(@, 1, k)]
      /\ \/ /\ z # <<>>
            /\ held' = [held EXCEPT ![t] = Append(@, Top(z))]
            /\ gets' = [gets EXCEPT ![t] = @ + 1]
            /\ locals' = [locals EXCEPT ![v][c] = Pop(z)] /\ pc' = [pc EXCEPT ![t] = "idle"]
         \/ /\ z = <<>> /\ UNCHANGED <<locals, held, gets>>
            /\ pc' = [pc EXCEPT ![t] = "reserve"]
      /\ UNCHANGED <<next_allocation, link, items, live, deleted>>
  <2>1. LET n == Room(Len(locals[v][c]), Len(global[v]))
            keep == Len(global[v]) - n
            stack == Behind(locals[v][c], global[v], keep)
        IN  /\ pc[t] = "slow"
            /\ global' = [global EXCEPT ![v] = SubSeq(@, 1, keep)]
            /\ IF stack # <<>>
               THEN /\ Take(t, Top(stack))
                    /\ locals' = [locals EXCEPT ![v][c] = Pop(stack)]
                    /\ pc' = [pc EXCEPT ![t] = "idle"]
               ELSE /\ pc' = [pc EXCEPT ![t] = "reserve"]
                    /\ UNCHANGED <<locals, held, gets>>
            /\ UNCHANGED <<next_allocation, link, items, cacheVars>>
    BY Zenon, <1>v DEF GetSlowPath
  <2>2. /\ pc[t] = "slow"
        /\ global' = [global EXCEPT ![v] = SubSeq(@, 1, k)]
        /\ IF z # <<>>
           THEN /\ Take(t, Top(z))
                /\ locals' = [locals EXCEPT ![v][c] = Pop(z)]
                /\ pc' = [pc EXCEPT ![t] = "idle"]
           ELSE /\ pc' = [pc EXCEPT ![t] = "reserve"]
                /\ UNCHANGED <<locals, held, gets>>
        /\ UNCHANGED <<next_allocation, link, items, cacheVars>>
    BY Zenon, <1>x, <1>k, <2>1
  <2> QED
    BY Zenon, <2>2 DEF Take, cacheVars
<1>2. k \in 0..Len(y) /\ Len(x) + (Len(y) - k) <= PerCoreCapacity /\ Len(x) \in Nat
  <2>1. Len(x) \in Nat /\ Len(y) \in Nat
    BY Zenon, <1>0, LenProperties
  <2>n. PICK n : n = Room(Len(x), Len(y))
    BY Zenon
  <2>2. n \in Nat /\ n <= Len(y) /\ Len(x) + n <= PerCoreCapacity /\ k = Len(y) - n
    BY Zenon, <1>0, <1>k, <2>1, <2>n, RoomIs
  <2> QED
    BY <2>1, <2>2
<1>3. z \in Seq(Blocks) /\ Len(z) = Len(x) + (Len(y) - k)
  BY <1>0, <1>2, <1>k, Moved, Zenon
<1>4. PICK G : /\ G = [p \in Places |-> G[p]] /\ Once(Places, G, deleted, next_allocation)
               /\ Laid(G, [locals EXCEPT ![v][c] = z], [global EXCEPT ![v] = SubSeq(@, 1, k)],
                       Replies, items, held)
  <2>1. k \in 0..Len(global[v]) /\ z = Behind(locals[v][c], global[v], k)
    BY Zenon, <1>2, <1>k, <1>x
  <2> QED
    BY <2>1, Refilled, Zenon
<1>5. Replies' = Replies
  BY Zenon, <1>1 DEF Replies
<1>6. global' = [w \in Volumes |-> global'[w]]
  BY <1>0, <1>1, Zenon DEF Shape
<1>7. CASE z = <<>>
  <2>1. /\ UNCHANGED <<locals, held, gets>> /\ pc' = [pc EXCEPT ![t] = "reserve"]
    BY Zenon, <1>1, <1>7
  <2>2. x = <<>>
    <3>1. Len(x) = 0
      <4>1. Len(z) = 0
        BY Zenon, <1>7, EmptySeq
      <4>2. Len(y) \in Nat
        BY Zenon, <1>0, LenProperties
      <4> QED
        BY <1>2, <1>3, <4>1, <4>2
    <3> QED
      BY Zenon, <1>0, <3>1, EmptySeq
  <2>3. [locals EXCEPT ![v][c] = z] = locals
    BY <1>0, <1>7, <1>x, <2>2, ZenonT(40) DEF Shape
  <2>4. Stored'
    BY <1>1, <1>4, <1>5, <2>1, <2>3, Relaid, Zenon
  <2>5. /\ pc' \in [Threads -> {"idle", "slow", "reserve", "call"}]
        /\ \A u \in Threads : pc'[u] = IF u = t THEN "reserve" ELSE pc[u]
    BY Zenon, <1>0, <2>1 DEF Shape
  <2>6. \A u \in Threads : /\ pc'[u] = "call" <=> link[u] # NoMsg
                           /\ pc'[u] # "idle" => gets[u] < MaxGets
    BY Zenon, <1>0, <1>1, <2>5 DEF Shape
  <2>7. Shape'
    BY <1>0, <1>1, <1>6, <2>1, <2>5, <2>6 DEF Shape, Blocks
  <2> QED
    BY Zenon, <2>4, <2>7 DEF BlockInv
<1>8. CASE z # <<>>
  <2>1. /\ held' = [held EXCEPT ![t] = Append(h, Top(z))]
        /\ gets' = [gets EXCEPT ![t] = @ + 1]
        /\ locals' = [locals EXCEPT ![v][c] = Pop(z)] /\ pc' = [pc EXCEPT ![t] = "idle"]
    BY Zenon, <1>1, <1>8, <1>x
  <2>s. PICK s : s = [locals EXCEPT ![v][c] = z]
    BY Zenon
  <2>g. PICK H, I : /\ H = [G EXCEPT ![Local(v, c)] = Pop(z)]
                    /\ I = [H EXCEPT ![Held(t)] = Append(h, Top(z))]
    BY Zenon
  <2>2. /\ s = [w \in Volumes |-> [d \in Cores |-> s[w][d]]] /\ s[v][c] = z
        /\ [s EXCEPT ![v][c] = Pop(z)] = locals'
    BY <1>0, <2>1, <2>s, ZenonT(40) DEF Shape
  <2>3. Laid(G, s, global', Replies, items, held)
    BY Zenon, <1>1, <1>4, <2>s
  <2>4. /\ Local(v, c) \in Places /\ Held(t) \in Places /\ Local(v, c) # Held(t)
        /\ G[Local(v, c)] = z /\ G[Held(t)] = h
    BY <1>x, <2>2, <2>3, PlacesAre, PlacesDiffer DEF Laid
  <2>5. Once(Places, I, deleted, next_allocation)
    <3>1. Once(Places, [G EXCEPT ![Local(v, c)] = Pop(G[Local(v, c)]),
                           ![Held(t)] = Append(G[Held(t)], Top(G[Local(v, c)]))],
               deleted, next_allocation)
      BY Zenon, <1>4, <1>8, <2>4, OneMoves
    <3> QED
      BY Zenon, <2>4, <2>g, <3>1
  <2>6. H = [p \in Places |-> H[p]] /\ I = [p \in Places |-> I[p]]
    BY <1>4, <2>g, Zenon
  <2>7. Laid(H, locals', global', Replies, items, held)
    BY <1>4, <2>2, <2>3, <2>g, LaidLocal, Zenon
  <2>8. Laid(I, locals', global', Replies, items, held')
    <3>1. held = [u \in Threads |-> held[u]]
      BY Zenon, <1>0 DEF Shape
    <3>2. Laid([H EXCEPT ![Held(t)] = Append(h, Top(z))], locals', global', Replies, items,
               [held EXCEPT ![t] = Append(h, Top(z))])
      BY <2>6, <2>7, <3>1, LaidHeld, Zenon
    <3> QED
      BY Zenon, <2>1, <2>g, <3>2
  <2>9. Stored'
    BY <1>1, <1>5, <2>5, <2>6, <2>8, Relaid, Zenon
  <2>10. /\ locals' = [w \in Volumes |-> [d \in Cores |-> locals'[w][d]]]
         /\ \A w \in Volumes, d \in Cores : Len(locals'[w][d]) <= PerCoreCapacity
    <3>1. Len(z) \in Nat \ {0} /\ Len(z) <= PerCoreCapacity
      BY Zenon, <1>2, <1>3, <1>8, EmptySeq
    <3>2. Len(z) - 1 \in 0..Len(z)
      BY <3>1
    <3>3. Len(Pop(z)) = Len(z) - 1
      BY Zenon, <1>3, <3>2, Cut DEF Pop
    <3>4. Len(Pop(z)) <= PerCoreCapacity
      BY <3>1, <3>3, BlockCacheAssumption
    <3> QED
      BY <1>0, <2>1, <3>4, StackSet, Zenon DEF Shape
  <2>11. held' = [u \in Threads |-> held'[u]] /\ gets[t] < MaxGets
    BY <1>0, <1>1, <2>1, Zenon DEF Shape
  <2>12. /\ pc' \in [Threads -> {"idle", "slow", "reserve", "call"}]
         /\ \A u \in Threads : pc'[u] = IF u = t THEN "idle" ELSE pc[u]
         /\ \A u \in Threads : gets'[u] = IF u = t THEN gets[t] + 1 ELSE gets[u]
         /\ gets' \in [Threads -> 0..MaxGets]
    BY <1>0, <2>1, <2>11, BlockCacheAssumption DEF Shape
  <2>13. \A u \in Threads : /\ pc'[u] = "call" <=> link[u] # NoMsg
                            /\ pc'[u] # "idle" => gets'[u] < MaxGets
    BY Zenon, <1>0, <1>1, <2>12 DEF Shape
  <2>14. Shape'
    BY <1>0, <1>1, <1>6, <2>10, <2>11, <2>12, <2>13 DEF Shape, Blocks
  <2> QED
    BY Zenon, <2>9, <2>14 DEF BlockInv
<1> QED
  BY Zenon, <1>7, <1>8

(* put_slow_path leaves a core's stack not over its capacity. *)
LEMMA KeptIs ==
  ASSUME NEW n \in Nat
  PROVE  Kept(n) \in 0..n /\ Kept(n) <= PerCoreCapacity
<1>h. PICK h : h = PerCoreCapacity \div 2
  BY Zenon
<1>1. h \in Nat /\ h <= PerCoreCapacity
  BY <1>h, BlockCacheAssumption
<1>2. Kept(n) = IF n <= PerCoreCapacity THEN n ELSE IF h > 1 THEN h ELSE 1
  BY Zenon, <1>h DEF Kept
<1> QED
  BY <1>1, <1>2, BlockCacheAssumption

(* put() gives the thread's last block to the core's stack, and what is too much to *)
(* the global one. *)
LEMMA PutKeeps ==
  ASSUME BlockInv, NEW t \in Threads, NEW c \in Cores, Put(t, c)
  PROVE  BlockInv'
<1>v. PICK v \in Volumes : v = VolumeOf[t]
  BY Zenon, BlockCacheAssumption
<1>x. PICK x, y, h, z : x = locals[v][c] /\ y = global[v] /\ h = held[t] /\ z = Append(x, Top(h))
  BY Zenon
<1>k. PICK k, a, b : k = Kept(Len(z)) /\ a = SubSeq(z, 1, k) /\ b = Behind(y, z, k)
  BY Zenon
<1>0. /\ x \in Seq(Blocks) /\ y \in Seq(Blocks) /\ h \in Seq(Blocks) /\ Shape
  BY Zenon, <1>x, StoredTypes DEF BlockInv
<1>1. /\ h # <<>> /\ held' = [held EXCEPT ![t] = Pop(h)]
      /\ locals' = [locals EXCEPT ![v][c] = a] /\ global' = [global EXCEPT ![v] = b]
      /\ UNCHANGED <<next_allocation, pc, link, items, gets, live, deleted>>
  <2>1. LET stack == Append(locals[v][c], Top(held[t]))
            keep == Kept(Len(stack))
        IN  /\ held[t] # <<>> /\ held' = [held EXCEPT ![t] = Pop(held[t])]
            /\ locals' = [locals EXCEPT ![v][c] = SubSeq(stack, 1, keep)]
            /\ global' = [global EXCEPT ![v] = Behind(global[v], stack, keep)]
            /\ UNCHANGED <<next_allocation, pc, link, items, gets, cacheVars>>
    BY Zenon, <1>v DEF Put
  <2> QED
    BY Zenon, <1>k, <1>x, <2>1 DEF cacheVars
<1>2. z \in Seq(Blocks) /\ Len(z) \in Nat
  <2>1. Len(h) \in Nat \ {0}
    BY Zenon, <1>0, <1>1, EmptySeq, LenProperties
  <2>2. Len(h) \in 1..Len(h)
    BY <2>1
  <2>3. Top(h) \in Blocks
    BY Zenon, <1>0, <2>2, ElementOfSeq DEF Top
  <2>4. z \in Seq(Blocks)
    BY Zenon, <1>0, <1>x, <2>3, AppendProperties
  <2> QED
    BY Zenon, <2>4, LenProperties
<1>3. k \in 0..Len(z) /\ k <= PerCoreCapacity
  BY Zenon, <1>2, <1>k, KeptIs
<1>g. PICK G, H, I, J : /\ G = [Layout EXCEPT ![Held(t)] = Pop(h)]
                        /\ H = [G EXCEPT ![Local(v, c)] = z]
                        /\ I = [H EXCEPT ![Local(v, c)] = a]
                        /\ J = [I EXCEPT ![Global(v)] = b]
  BY Zenon
<1>4. /\ Local(v, c) \in Places /\ Held(t) \in Places /\ Global(v) \in Places
      /\ Local(v, c) # Held(t) /\ Held(t) # Local(v, c) /\ Local(v, c) # Global(v)
      /\ Global(v) # Held(t)
      /\ Layout[Local(v, c)] = x /\ Layout[Global(v)] = y /\ Layout[Held(t)] = h
      /\ Layout = [p \in Places |-> Layout[p]]
  <2>1. /\ Local(v, c) \in Places /\ Held(t) \in Places /\ Global(v) \in Places
    BY Zenon, PlacesAre
  <2>2. /\ Local(v, c) # Held(t) /\ Local(v, c) # Global(v) /\ Global(v) # Held(t)
    BY Zenon, PlacesDiffer
  <2>3. /\ Layout[Local(v, c)] = x /\ Layout[Global(v)] = y /\ Layout[Held(t)] = h
        /\ Layout = [p \in Places |-> Layout[p]]
    BY Zenon, <1>x, LayoutIs DEF Laid
  <2> QED
    BY Zenon, <2>1, <2>2, <2>3
<1>5. /\ G = [p \in Places |-> G[p]] /\ H = [p \in Places |-> H[p]]
      /\ I = [p \in Places |-> I[p]] /\ J = [p \in Places |-> J[p]]
      /\ H[Local(v, c)] = z /\ H[Global(v)] = y
  BY <1>4, <1>g, Zenon
<1>6. Once(Places, H, deleted, next_allocation)
  <2>1. Once(Places, [Layout EXCEPT ![Held(t)] = Pop(Layout[Held(t)]),
                         ![Local(v, c)] = Append(Layout[Local(v, c)], Top(Layout[Held(t)]))],
             deleted, next_allocation)
    BY Zenon, <1>1, <1>4, OneMoves DEF BlockInv, Stored
  <2> QED
    BY Zenon, <1>4, <1>g, <1>x, <2>1
<1>7. Once(Places, J, deleted, next_allocation)
  <2>1. k \in 0..Len(H[Local(v, c)])
    BY Zenon, <1>3, <1>5
  <2>2. Once(Places, [H EXCEPT ![Local(v, c)] = SubSeq(H[Local(v, c)], 1, k),
                         ![Global(v)] = Behind(H[Global(v)], H[Local(v, c)], k)],
             deleted, next_allocation)
    BY <1>4, <1>6, <2>1, TailMoves, Zenon
  <2> QED
    BY <1>5, <1>g, <1>k, <2>2, Zenon
<1>s. PICK s : s = [locals EXCEPT ![v][c] = z]
  BY Zenon
<1>8. /\ locals = [w \in Volumes |-> [d \in Cores |-> locals[w][d]]]
      /\ global = [w \in Volumes |-> global[w]] /\ held = [u \in Threads |-> held[u]]
      /\ \A w \in Volumes, d \in Cores : Len(locals[w][d]) <= PerCoreCapacity
  BY Zenon, <1>0 DEF Shape
<1>9. s = [w \in Volumes |-> [d \in Cores |-> s[w][d]]] /\ [s EXCEPT ![v][c] = a] = locals'
  BY <1>1, <1>8, <1>s, Zenon
<1>10. Laid(J, locals', global', Replies', items', held')
  <2>1. Replies' = Replies
    BY Zenon, <1>1 DEF Replies
  <2>2. Laid([Layout EXCEPT ![Held(t)] = Pop(h)], locals, global, Replies, items,
             [held EXCEPT ![t] = Pop(h)])
    BY <1>4, <1>8, LayoutIs, LaidHeld, Zenon
  <2>3. Laid(G, locals, global, Replies, items, held')
    BY Zenon, <1>1, <1>g, <2>2
  <2>4. Laid([G EXCEPT ![Local(v, c)] = z], [locals EXCEPT ![v][c] = z], global, Replies,
             items, held')
    BY <1>5, <1>8, <2>3, LaidLocal, Zenon
  <2>5. Laid(H, s, global, Replies, items, held')
    BY Zenon, <1>g, <1>s, <2>4
  <2>6. Laid([H EXCEPT ![Local(v, c)] = a], [s EXCEPT ![v][c] = a], global, Replies, items, held')
    BY <1>5, <1>9, <2>5, LaidLocal, Zenon
  <2>7. Laid(I, locals', global, Replies, items, held')
    BY <1>9, <1>g, <2>6, Zenon
  <2>8. Laid([I EXCEPT ![Global(v)] = b], locals', [global EXCEPT ![v] = b], Replies, items, held')
    BY <1>5, <1>8, <2>7, LaidGlobal, Zenon
  <2> QED
    BY Zenon, <1>1, <1>g, <2>1, <2>8
<1>11. Stored'
  BY <1>1, <1>5, <1>7, <1>10, Relaid, Zenon
<1>12. Shape'
  <2>1. Len(a) <= PerCoreCapacity
    BY Zenon, <1>2, <1>3, <1>k, Cut
  <2>2. /\ locals' = [w \in Volumes |-> [d \in Cores |-> locals'[w][d]]]
        /\ \A w \in Volumes, d \in Cores : Len(locals'[w][d]) <= PerCoreCapacity
    BY <1>1, <1>8, <2>1, StackSet, Zenon
  <2>3. held' = [u \in Threads |-> held'[u]] /\ global' = [w \in Volumes |-> global'[w]]
    BY <1>1, <1>8, Zenon
  <2> QED
    BY Zenon, <1>0, <1>1, <2>2, <2>3 DEF Shape, Blocks
<1> QED
  BY Zenon, <1>11, <1>12 DEF BlockInv

(* The destructor deletes what is on the volume's stacks. *)
LEMMA DestroyKeeps ==
  ASSUME BlockInv, NEW v \in Volumes, Destroy(v)
  PROVE  BlockInv'
<1>q. PICK Q : Q = {Local(v, c) : c \in Cores} \cup {Global(v)}
  BY Zenon
<1>g. PICK G, E : /\ G = [p \in Places |-> IF p \in Q THEN <<>> ELSE Layout[p]]
                  /\ E = deleted \cup UNION {Range(Layout[p]) : p \in Q}
  BY Zenon
<1>0. Shape
  BY Zenon DEF BlockInv
<1>1. /\ deleted' = deleted \cup Range(global[v]) \cup UNION {Range(locals[v][c]) : c \in Cores}
      /\ locals' = [locals EXCEPT ![v] = [c \in Cores |-> <<>>]]
      /\ global' = [global EXCEPT ![v] = <<>>] /\ live' = live \ {v}
      /\ UNCHANGED <<next_allocation, pc, link, items, held, gets>>
  BY Zenon DEF Destroy
<1>2. /\ \A c \in Cores : Layout[Local(v, c)] = locals[v][c]
      /\ Layout[Global(v)] = global[v]
      /\ Q \in SUBSET Places
  BY <1>q, LayoutIs, PlacesAre, Zenon DEF Laid
<1>3. E = deleted'
  <2>1. \A b : b \in UNION {Range(Layout[p]) : p \in Q}
                 <=> b \in Range(global[v]) \/ \E c \in Cores : b \in Range(locals[v][c])
    BY <1>2, <1>q
  <2>2. \A b : b \in E <=> b \in deleted'
    BY Zenon, <1>1, <1>g, <2>1
  <2> QED
    BY <2>2, Zenon
<1>4. Once(Places, G, deleted', next_allocation)
  <2>1. Once(Places, [p \in Places |-> IF p \in Q THEN <<>> ELSE Layout[p]],
             deleted \cup UNION {Range(Layout[p]) : p \in Q}, next_allocation)
    BY Zenon, <1>2, AllDeleted DEF BlockInv, Stored
  <2> QED
    BY Zenon, <1>3, <1>g, <2>1
<1>5. Replies' = Replies
  BY Zenon, <1>1 DEF Replies
<1>6. /\ \A w \in Volumes, d \in Cores : locals'[w][d] = IF w = v THEN <<>> ELSE locals[w][d]
      /\ \A w \in Volumes : global'[w] = IF w = v THEN <<>> ELSE global[w]
      /\ locals' = [w \in Volumes |-> [d \in Cores |-> locals'[w][d]]]
      /\ global' = [w \in Volumes |-> global'[w]]
  <2>1. /\ locals = [w \in Volumes |-> [d \in Cores |-> locals[w][d]]]
        /\ global = [w \in Volumes |-> global[w]]
    BY Zenon, <1>0 DEF Shape
  <2>2. locals' = [w \in Volumes |-> [d \in Cores |-> IF w = v THEN <<>> ELSE locals[w][d]]]
    BY Zenon, <1>1, <2>1
  <2>3. global' = [w \in Volumes |-> IF w = v THEN <<>> ELSE global[w]]
    BY Zenon, <1>1, <2>1
  <2> QED
    BY Zenon, <2>2, <2>3
<1>7. /\ \A w \in Volumes, d \in Cores : Local(w, d) \in Q <=> w = v
      /\ \A w \in Volumes : Global(w) \in Q <=> w = v
      /\ \A t \in Threads : Link(t) \notin Q /\ Items(t) \notin Q /\ Held(t) \notin Q
  BY Zenon, <1>q, PlacesDiffer
<1>8. Laid(G, locals', global', Replies', items', held')
  <2>1. ASSUME NEW w \in Volumes, NEW d \in Cores PROVE G[Local(w, d)] = locals'[w][d]
    <3>1. Local(w, d) \in Places /\ Layout[Local(w, d)] = locals[w][d]
      BY LayoutIs, PlacesAre, Zenon DEF Laid
    <3>2. G[Local(w, d)] = IF w = v THEN <<>> ELSE locals[w][d]
      BY Zenon, <1>7, <1>g, <3>1
    <3> QED
      BY Zenon, <1>6, <3>2
  <2>2. \A w \in Volumes : G[Global(w)] = global'[w]
    BY <1>6, <1>7, <1>g, LayoutIs, PlacesAre, Zenon DEF Laid
  <2>3. \A t \in Threads : /\ G[Link(t)] = Replies[t] /\ G[Items(t)] = items[t]
                           /\ G[Held(t)] = held[t]
    BY <1>7, <1>g, LayoutIs, PlacesAre, Zenon DEF Laid
  <2> QED
    BY Zenon, <1>1, <1>5, <2>1, <2>2, <2>3 DEF Laid
<1>9. G = [p \in Places |-> G[p]]
  BY Zenon, <1>g
<1>10. Stored'
  BY <1>1, <1>4, <1>8, <1>9, Relaid, Zenon
<1>11. Shape'
  <2>1. Len(<<>>) <= PerCoreCapacity
    BY BlockCacheAssumption
  <2>2. \A w \in Volumes, d \in Cores : Len(locals'[w][d]) <= PerCoreCapacity
    BY Zenon, <1>0, <1>6, <2>1 DEF Shape
  <2>3. live' \subseteq Volumes
    BY Zenon, <1>0, <1>1 DEF Shape
  <2> QED
    BY Zenon, <1>0, <1>1, <1>6, <2>2, <2>3 DEF Shape, Blocks
<1> QED
  BY Zenon, <1>10, <1>11 DEF BlockInv

(* Ranges of k addresses, one after the other, do not overlap. *)
LEMMA Multiples ==
  ASSUME NEW a \in Nat, NEW b \in Nat, NEW k \in Nat, a < b
  PROVE  a * k + k <= b * k /\ a * k \in Nat /\ b * k \in Nat
<1>1. PICK d \in Nat : b = a + 1 + d
  <2>1. b - a - 1 \in Nat /\ b = a + 1 + (b - a - 1)
    OBVIOUS
  <2> QED
    BY Zenon, <2>1
<1>2. (a + 1 + d) * k = a * k + k + d * k
  OBVIOUS
<1>3. d * k \in Nat /\ a * k \in Nat /\ b * k \in Nat
  OBVIOUS
<1> QED
  BY <1>1, <1>2, <1>3

(* Division rounds down. *)
LEMMA Quotient ==
  ASSUME NEW a \in Nat, NEW k \in Nat \ {0}
  PROVE  a \div k \in Nat /\ (a \div k) * k <= a /\ a < (a \div k) * k + k
OBVIOUS

(* The volumes' first reservations: n addresses each, all of those handed out. *)
LEMMA Reservations ==
  ASSUME NEW n \in Nat
  PROVE  /\ NumVolumes * n \in Nat
         /\ \A v \in Volumes : /\ (v - 1) * n \in Nat /\ (v - 1) * n + n <= NumVolumes * n
         /\ \A v, w \in Volumes : v < w => (v - 1) * n + n <= (w - 1) * n
         /\ \A b \in 0..(NumVolumes * n - 1) : \E v \in Volumes :
               (v - 1) * n <= b /\ b < (v - 1) * n + n
<1>1. NumVolumes * n \in Nat
  BY BlockCacheAssumption
<1>2. ASSUME NEW v \in Volumes
      PROVE  (v - 1) * n \in Nat /\ (v - 1) * n + n <= NumVolumes * n
  <2>1. v - 1 \in Nat /\ NumVolumes \in Nat /\ v - 1 < NumVolumes
    BY BlockCacheAssumption DEF Volumes
  <2> QED
    BY Zenon, <2>1, Multiples
<1>3. ASSUME NEW v \in Volumes, NEW w \in Volumes, v < w
      PROVE  (v - 1) * n + n <= (w - 1) * n
  <2>1. v - 1 \in Nat /\ w - 1 \in Nat /\ v - 1 < w - 1
    BY <1>3 DEF Volumes
  <2> QED
    BY Zenon, <2>1, Multiples
<1>4. ASSUME NEW b \in 0..(NumVolumes * n - 1)
      PROVE  \E v \in Volumes : (v - 1) * n <= b /\ b < (v - 1) * n + n
  <2>1. b \in Nat /\ b < NumVolumes * n
    BY <1>1
  <2>2. n # 0
    <3>1. CASE n = 0
      <4>1. NumVolumes * n = 0
        BY <3>1, BlockCacheAssumption
      <4> QED
        BY <2>1, <4>1
    <3> QED
      BY Zenon, <3>1
  <2>q. PICK q : q = b \div n
    BY Zenon
  <2>3. q \in Nat /\ q * n <= b /\ b < q * n + n
    BY Zenon, <2>1, <2>2, <2>q, Quotient
  <2>4. q < NumVolumes
    <3> SUFFICES ASSUME ~(q < NumVolumes) PROVE FALSE
      BY Zenon
    <3>1. CASE q = NumVolumes
      BY <2>1, <2>3, <3>1
    <3>2. CASE q # NumVolumes
      <4>1. NumVolumes \in Nat /\ NumVolumes < q
        BY <2>3, <3>2, BlockCacheAssumption
      <4>2. NumVolumes * n + n <= q * n /\ q * n \in Nat
        BY Zenon, <2>3, <4>1, Multiples
      <4> QED
        BY <1>1, <2>1, <2>3, <4>2
    <3> QED
      BY Zenon, <3>1, <3>2
  <2>5. q + 1 \in Volumes /\ q + 1 - 1 = q
    BY <2>3, <2>4, BlockCacheAssumption DEF Volumes
  <2> QED
    BY <2>3, <2>5
<1> QED
  BY Zenon, <1>1, <1>2, <1>3, <1>4

(* Initially the volumes' global stacks have all blocks. *)
LEMMA BlockInvInit == Init => BlockInv
<1> SUFFICES ASSUME Init PROVE BlockInv
  BY Zenon
<1>n. PICK n : n = Reserved(Cardinality(Cores) * PerCoreCapacity)
  BY Zenon
<1>1. n \in Nat
  <2>c. PICK k : k = Cardinality(Cores) * PerCoreCapacity
    BY Zenon
  <2>1. k \in Nat
    <3>1. Cardinality(Cores) \in Nat
      BY Zenon, BlockCacheAssumption, FS_CardinalityType
    <3> QED
      BY <2>c, <3>1, BlockCacheAssumption
  <2>2. k + AllocationBatch - 1 \in Nat
    BY <2>1, BlockCacheAssumption
  <2>3. Calls(k) \in Nat
    BY Zenon, <2>2, BlockCacheAssumption, Quotient DEF Calls
  <2> QED
    BY <1>n, <2>c, <2>3, BlockCacheAssumption DEF Reserved
<1>2. /\ next_allocation = NumVolumes * n
      /\ global = [v \in Volumes |-> Addresses((v - 1) * n, n)]
      /\ locals = [v \in Volumes |-> [c \in Cores |-> <<>>]]
      /\ pc = [t \in Threads |-> "idle"] /\ link = [t \in Threads |-> NoMsg]
      /\ items = [t \in Threads |-> <<>>] /\ held = [t \in Threads |-> <<>>]
      /\ gets = [t \in Threads |-> 0] /\ live = Volumes /\ deleted = {}
  BY Zenon, <1>n DEF Init
<1>3. Shape
  <2>1. NumVolumes * n \in Nat
    BY Zenon, <1>1, Reservations
  <2>2. Len(<<>>) <= PerCoreCapacity
    BY BlockCacheAssumption
  <2>3. gets \in [Threads -> 0..MaxGets]
    BY <1>2, BlockCacheAssumption
  <2> QED
    BY Zenon, <1>2, <2>1, <2>2, <2>3 DEF Shape
<1>4. \A t \in Threads : Replies[t] = <<>>
  BY Zenon, <1>2 DEF Replies, NoMsg
<1>s. PICK S : S = 0..(next_allocation - 1)
  BY Zenon
<1>5. ASSUME NEW v \in Volumes
      PROVE  /\ Layout[Global(v)] \in Seq(S) /\ Distinct(Layout[Global(v)])
             /\ Range(Layout[Global(v)]) = ((v - 1) * n)..((v - 1) * n + n - 1)
  <2>f. PICK f : f = (v - 1) * n
    BY Zenon
  <2>1. f \in Nat /\ f + n <= NumVolumes * n /\ NumVolumes * n \in Nat
    BY Zenon, <1>1, <2>f, Reservations
  <2>2. Layout[Global(v)] = Addresses(f, n)
    BY <1>2, <2>f, LayoutIs, Zenon DEF Laid
  <2>3. /\ Addresses(f, n) \in Seq(f..(f + n - 1)) /\ Distinct(Addresses(f, n))
        /\ Range(Addresses(f, n)) = f..(f + n - 1)
    BY <1>1, <2>1, AddressesAre, Zenon
  <2>4. f..(f + n - 1) \subseteq S
    BY <1>1, <1>2, <1>s, <2>1
  <2>5. Addresses(f, n) \in Seq(S)
    BY <2>3, <2>4, SeqMonotonic, Zenon
  <2> QED
    BY Zenon, <2>2, <2>3, <2>5, <2>f
<1>6. \A p \in Places : Layout[p] = <<>> \/ \E v \in Volumes : p = Global(v)
  <2> SUFFICES ASSUME NEW p \in Places
               PROVE  Layout[p] = <<>> \/ \E v \in Volumes : p = Global(v)
    BY Zenon
  <2>1. CASE \E v \in Volumes, c \in Cores : p = Local(v, c)
    <3>1. PICK v \in Volumes, c \in Cores : p = Local(v, c)
      BY Zenon, <2>1
    <3>2. Layout[p] = locals[v][c]
      BY Zenon, <3>1, LayoutIs DEF Laid
    <3> QED
      BY Zenon, <1>2, <3>2
  <2>2. CASE \E t \in Threads : p = Link(t) \/ p = Items(t) \/ p = Held(t)
    <3>1. PICK t \in Threads : p = Link(t) \/ p = Items(t) \/ p = Held(t)
      BY Zenon, <2>2
    <3>2. Layout[p] = Replies[t] \/ Layout[p] = items[t] \/ Layout[p] = held[t]
      BY Zenon, <3>1, LayoutIs DEF Laid
    <3>3. items[t] = <<>> /\ held[t] = <<>>
      BY Zenon, <1>2
    <3> QED
      BY Zenon, <1>4, <3>2, <3>3
  <2> QED
    BY Zenon, <2>1, <2>2, PlacesAre
<1>7. <<>> \in Seq(S) /\ Distinct(<<>>) /\ \A c : c \notin Range(<<>>)
  BY Zenon, NothingTwice
<1>8. \A p \in Places : Layout[p] \in Seq(S) /\ Distinct(Layout[p])
  BY <1>5, <1>6, <1>7, Zenon
<1>9. ASSUME NEW p \in Places, NEW q \in Places, NEW b, b \in Range(Layout[p]), b \in Range(Layout[q])
      PROVE  p = q
  <2>1. PICK v \in Volumes : p = Global(v)
    BY Zenon, <1>6, <1>7, <1>9
  <2>2. PICK w \in Volumes : q = Global(w)
    BY Zenon, <1>6, <1>7, <1>9
  <2>f. PICK f, g : f = (v - 1) * n /\ g = (w - 1) * n
    BY Zenon
  <2>3. f \in Nat /\ g \in Nat /\ (v < w => f + n <= g) /\ (w < v => g + n <= f)
    BY Zenon, <1>1, <2>f, Reservations
  <2>4. b \in f..(f + n - 1) /\ b \in g..(g + n - 1)
    BY <1>5, <1>9, <2>1, <2>2, <2>f, Zenon
  <2>5. v \in Int /\ w \in Int
    BY DEF Volumes
  <2>6. ~(v < w) /\ ~(w < v)
    BY <1>1, <2>3, <2>4
  <2>7. v = w
    BY <2>5, <2>6
  <2> QED
    BY Zenon, <2>1, <2>2, <2>7
<1>10. ASSUME NEW b \in S PROVE \E p \in Places : b \in Range(Layout[p])
  <2>1. b \in 0..(NumVolumes * n - 1)
    BY Zenon, <1>2, <1>s
  <2>2. PICK v \in Volumes : (v - 1) * n <= b /\ b < (v - 1) * n + n
    BY Zenon, <1>1, <2>1, Reservations
  <2>f. PICK f : f = (v - 1) * n
    BY Zenon
  <2>3. f \in Nat /\ NumVolumes * n \in Nat
    BY Zenon, <1>1, <2>f, Reservations
  <2>4. b \in f..(f + n - 1)
    BY <1>1, <2>1, <2>2, <2>3, <2>f
  <2> QED
    BY <1>5, <2>4, <2>f, PlacesAre, Zenon
<1>11. Layout \in [Places -> Seq(S)]
  BY Zenon, <1>8, LayoutIs
<1>12. Once(Places, Layout, deleted, next_allocation)
  BY Zenon, <1>2, <1>8, <1>9, <1>10, <1>11, <1>s DEF Once
<1> QED
  BY Zenon, <1>3, <1>12 DEF BlockInv, Stored

-----------------------------------------------------------------------------

(* Every step keeps every block in one place. *)
LEMMA BlockInvNext == BlockInv /\ [Next]_vars => BlockInv'
<1> SUFFICES ASSUME BlockInv, [Next]_vars PROVE BlockInv'
  BY Zenon
<1>1. CASE \E t \in Threads, c \in Cores :
             Get(t, c) \/ GetMiss(t, c) \/ GetSlowPath(t, c) \/ Put(t, c)
  BY Zenon, <1>1, GetKeeps, GetMissKeeps, GetSlowPathKeeps, PutKeeps
<1>2. CASE \E t \in Threads : \/ AllocateBlocks(t) \/ HandleAllocateBlocks(t)
                              \/ HandleAllocateBlocksReply(t) \/ Reserve(t)
  BY Zenon, <1>2, AllocateBlocksKeeps, HandleAllocateBlocksKeeps,
     HandleAllocateBlocksReplyKeeps,
     ReserveKeeps
<1>3. CASE \E v \in Volumes : Destroy(v)
  BY Zenon, <1>3, DestroyKeeps
<1>4. CASE UNCHANGED vars
  <2>1. UNCHANGED <<next_allocation, locals, global, pc, link, items, held, gets, live, deleted>>
    BY Zenon, <1>4 DEF vars
  <2>2. Replies' = Replies
    BY Zenon, <2>1 DEF Replies
  <2>3. Stored'
    BY Zenon, <2>1, <2>2, Relaid, LayoutIs DEF BlockInv, Stored
  <2>4. Shape'
    BY Zenon, <2>1 DEF BlockInv, Shape, Blocks
  <2> QED
    BY Zenon, <2>3, <2>4 DEF BlockInv
<1> QED
  BY Zenon, <1>1, <1>2, <1>3, <1>4 DEF Next

(***************************************************************************)
(* The caches' invariant: every address handed out is in one place, a      *)
(* core's stack is not over its capacity, and a thread waits for the       *)
(* controller exactly while a message is on its way (CoreLocalCache,       *)
(* BlockAllocator).                                                        *)
(***************************************************************************)
THEOREM BlockInvariance == Spec => []BlockInv
BY BlockInvInit, BlockInvNext, PTL DEF Spec

(***************************************************************************)
(* For any number of volumes, threads and cores, any capacity and batch:   *)
(* no block is given to two writes, and none is lost before its cache is   *)
(* (get, put, reserve, ~CoreLocalCache, BlockAllocator::AllocateBlocks).   *)
(***************************************************************************)
THEOREM BlocksAreInOnePlace == Spec => []EachBlockOnce
BY BlockInvariance, InvOnce, PTL

=============================================================================
