------------------------- MODULE HeapManagerProofs -------------------------
(***************************************************************************)
(* The heap for any start, size, alignments and requests: its nodes tile   *)
(* it, used parts are aligned and inside their nodes, free nodes do not    *)
(* touch, and the free list is ordered and knows its size.                 *)
(***************************************************************************)
EXTENDS HeapManager, FiniteSetTheorems, SequenceTheorems, NaturalsInduction, TLAPS

-----------------------------------------------------------------------------
(* The operators on lists.                                                 *)

\* The first place in a list that passes a test: the least of them.
LEMMA FirstPlace ==
  ASSUME NEW I \in SUBSET (Nat \ {0}), I # {}
  PROVE  /\ Min(I) \in I
         /\ \A j \in I : Min(I) <= j
<1> DEFINE R == OpToRel(<, Nat)
<1>1. IsWellFoundedOn(R, Nat)
  BY NatLessThanWellFounded
<1>2. \A x, y \in Nat : x < y => <<x, y>> \in R
  BY DEF OpToRel
<1> HIDE DEF R
<1>3. \E m \in I : \A j \in I : ~ (<<j, m>> \in R)
  BY <1>1, WFMin
<1>4. PICK m \in I : \A j \in I : ~ (<<j, m>> \in R)
  BY <1>3
<1>5. \A j \in I : ~ (j < m)
  BY <1>2, <1>4
<1>6. \A j \in I : m <= j
  BY <1>5
<1> QED BY <1>6 DEF Min

\* RemoveAt, place by place.
LEMMA RemoveAtPlaces ==
  ASSUME NEW S, NEW list \in Seq(S), NEW i \in 1..Len(list)
  PROVE  /\ RemoveAt(list, i) \in Seq(S)
         /\ Len(RemoveAt(list, i)) = Len(list) - 1
         /\ \A j \in 1..(Len(list) - 1) :
              RemoveAt(list, i)[j] = list[IF j < i THEN j ELSE j + 1]
<1> DEFINE A == SubSeq(list, 1, i - 1)
           B == SubSeq(list, i + 1, Len(list))
<1>1. Len(list) \in Nat
  BY LenProperties
<1>2. \A j \in 1..Len(list) : list[j] \in S
  BY ElementOfSeq
<1>3. /\ A \in Seq(S) /\ Len(A) = i - 1
      /\ \A j \in 1..(i - 1) : A[j] = list[j]
  BY <1>1, <1>2
<1>4. /\ B \in Seq(S) /\ Len(B) = Len(list) - i
      /\ \A j \in 1..(Len(list) - i) : B[j] = list[i + j]
  BY <1>1, <1>2
<1> HIDE DEF A, B
<1>5. /\ A \o B \in Seq(S)
      /\ Len(A \o B) = Len(A) + Len(B)
      /\ \A j \in 1..(Len(A) + Len(B)) :
           (A \o B)[j] = IF j <= Len(A) THEN A[j] ELSE B[j - Len(A)]
  BY <1>3, <1>4, ConcatProperties
<1>6. /\ A \o B \in Seq(S)
      /\ Len(A \o B) = Len(list) - 1
      /\ \A j \in 1..(Len(list) - 1) :
           (A \o B)[j] = IF j <= i - 1 THEN A[j] ELSE B[j - (i - 1)]
  BY <1>1, <1>3, <1>4, <1>5
<1>7. \A j \in 1..(Len(list) - 1) :
        (A \o B)[j] = list[IF j < i THEN j ELSE j + 1]
  BY <1>1, <1>3, <1>4, <1>6
<1> QED BY <1>6, <1>7 DEF A, B, RemoveAt

\* InsertAt, place by place.
LEMMA InsertAtPlaces ==
  ASSUME NEW S, NEW list \in Seq(S), NEW i \in 1..Len(list), NEW e \in S
  PROVE  /\ InsertAt(list, i, e) \in Seq(S)
         /\ Len(InsertAt(list, i, e)) = Len(list) + 1
         /\ \A j \in 1..(Len(list) + 1) :
              InsertAt(list, i, e)[j] = IF j < i THEN list[j]
                                        ELSE IF j = i THEN e ELSE list[j - 1]
<1> DEFINE A == SubSeq(list, 1, i - 1)
           B == SubSeq(list, i, Len(list))
           C == A \o <<e>>
<1>1. Len(list) \in Nat
  BY LenProperties
<1>2. \A j \in 1..Len(list) : list[j] \in S
  BY ElementOfSeq
<1>3. /\ A \in Seq(S) /\ Len(A) = i - 1
      /\ \A j \in 1..(i - 1) : A[j] = list[j]
  BY <1>1, <1>2
<1>4. /\ B \in Seq(S) /\ Len(B) = Len(list) - i + 1
      /\ \A j \in 1..(Len(list) - i + 1) : B[j] = list[i + j - 1]
  BY <1>1, <1>2
<1> HIDE DEF A, B
<1>5. /\ C \in Seq(S) /\ Len(C) = i /\ C[i] = e
      /\ \A j \in 1..(i - 1) : C[j] = A[j]
  BY <1>1, <1>3
<1> HIDE DEF C
<1>6. /\ C \o B \in Seq(S)
      /\ Len(C \o B) = Len(C) + Len(B)
      /\ \A j \in 1..(Len(C) + Len(B)) :
           (C \o B)[j] = IF j <= Len(C) THEN C[j] ELSE B[j - Len(C)]
  BY <1>4, <1>5, ConcatProperties
<1>7. /\ C \o B \in Seq(S)
      /\ Len(C \o B) = Len(list) + 1
      /\ \A j \in 1..(Len(list) + 1) :
           (C \o B)[j] = IF j <= i THEN C[j] ELSE B[j - i]
  BY <1>1, <1>4, <1>5, <1>6
<1>8. \A j \in 1..(Len(list) + 1) :
        (C \o B)[j] = IF j < i THEN list[j] ELSE IF j = i THEN e ELSE list[j - 1]
  BY <1>1, <1>3, <1>4, <1>5, <1>7
<1> QED BY <1>7, <1>8 DEF A, B, C, InsertAt

Places(list, n) == {i \in 1..Len(list) : list[i].size > n.size}

\* The nodes of a list that one was added to: the list is still without repeats
\* and still increasing.
LEMMA AddNode ==
  ASSUME NEW list \in Seq(FreeNode), NEW n \in FreeNode,
         NoRepeats(list), Increasing(list), n \notin Range(list),
         NEW r, r = heap_add_node_to_list(list, n)
  PROVE  /\ r \in Seq(FreeNode) /\ NoRepeats(r) /\ Increasing(r)
         /\ Range(r) = Range(list) \cup {n}
<1>1. Len(list) \in Nat /\ DOMAIN list = 1..Len(list)
  BY LenProperties
<1>2. \A j \in 1..Len(list) : list[j] \in FreeNode
  BY ElementOfSeq
<1>3. \A m \in FreeNode : m.size \in Nat
  BY DEF FreeNode
<1>4. Range(list) = {list[j] : j \in 1..Len(list)}
  BY <1>1 DEF Range
<1>5. \A j \in 1..Len(list) : list[j] # n
  BY <1>4
<1>6. CASE Places(list, n) = {}
  <2>1. r = Append(list, n)
    BY <1>6 DEF heap_add_node_to_list, SelectInSeq, Places
  <2>2. /\ r \in Seq(FreeNode) /\ Len(r) = Len(list) + 1
        /\ r[Len(list) + 1] = n
        /\ \A j \in 1..Len(list) : r[j] = list[j]
    BY <2>1, <1>1, AppendProperties
  <2>3. \A j \in 1..Len(list) : list[j].size <= n.size
    BY <1>2, <1>3, <1>6 DEF Places
  <2>4. NoRepeats(r)
    BY <2>2, <1>1, <1>5 DEF NoRepeats
  <2>5. Increasing(r)
    BY <2>2, <2>3, <1>1 DEF Increasing
  <2>6. Range(r) = {r[j] : j \in 1..(Len(list) + 1)}
    BY <2>2, LenProperties DEF Range
  <2>7. Range(r) = Range(list) \cup {n}
    BY <2>2, <2>6, <1>1, <1>4
  <2> QED BY <2>2, <2>4, <2>5, <2>7
<1>7. CASE Places(list, n) # {}
  <2> DEFINE i == Min(Places(list, n))
  <2>1. Places(list, n) \in SUBSET (Nat \ {0})
    BY <1>1 DEF Places
  <2>2. i \in Places(list, n) /\ \A j \in Places(list, n) : i <= j
    BY <2>1, <1>7, FirstPlace
  <2>3. r = IF i = 0 THEN Append(list, n) ELSE InsertAt(list, i, n)
    BY <1>7 DEF heap_add_node_to_list, SelectInSeq, Places
  <2> HIDE DEF i
  <2>4. /\ i \in 1..Len(list) /\ list[i].size > n.size
        /\ \A j \in 1..Len(list) : j < i => list[j].size <= n.size
    BY <2>2, <1>1, <1>2, <1>3 DEF Places
  <2>5. r = InsertAt(list, i, n)
    BY <2>3, <2>4
  <2>6. /\ r \in Seq(FreeNode) /\ Len(r) = Len(list) + 1
        /\ \A j \in 1..(Len(list) + 1) :
             r[j] = IF j < i THEN list[j] ELSE IF j = i THEN n ELSE list[j - 1]
    BY <2>4, <2>5, InsertAtPlaces
  <2>7. NoRepeats(r)
    <3> SUFFICES ASSUME NEW j \in 1..Len(r), NEW k \in 1..Len(r), j < k
                 PROVE  r[j] # r[k]
      <4>1. Len(r) \in Nat
        BY <2>6, <1>1
      <4> QED BY <4>1 DEF NoRepeats
    <3>1. \A a, b \in 1..Len(list) : a # b => list[a] # list[b]
      BY DEF NoRepeats
    <3>2. CASE k < i
      BY <3>1, <3>2, <2>4, <2>6, <1>1
    <3>3. CASE k = i
      BY <3>3, <2>4, <2>6, <1>1, <1>5
    <3>4. CASE k > i /\ j = i
      BY <3>4, <2>4, <2>6, <1>1, <1>5
    <3>5. CASE k > i /\ j < i
      <4>1. r[k] = list[k - 1] /\ r[j] = list[j]
        BY <3>5, <2>4, <2>6, <1>1
      <4>2. /\ k - 1 \in 1..Len(list) /\ j \in 1..Len(list)
            /\ k - 1 # j
        BY <3>5, <2>4, <2>6, <1>1
      <4> QED BY <3>1, <4>1, <4>2
    <3>6. CASE j > i
      <4>1. r[k] = list[k - 1] /\ r[j] = list[j - 1]
        BY <3>6, <2>4, <2>6, <1>1
      <4>2. /\ k - 1 \in 1..Len(list) /\ j - 1 \in 1..Len(list)
            /\ k - 1 # j - 1
        BY <3>6, <2>4, <2>6, <1>1
      <4> QED BY <3>1, <4>1, <4>2
    <3> QED BY <3>2, <3>3, <3>4, <3>5, <3>6, <2>4, <2>6, <1>1
  <2>8. Increasing(r)
    <3> SUFFICES ASSUME NEW j \in 1..(Len(r) - 1)
                 PROVE  r[j].size <= r[j + 1].size
      BY DEF Increasing
    <3>1. \A k \in 1..(Len(list) - 1) : list[k].size <= list[k + 1].size
      BY DEF Increasing
    <3>2. CASE j + 1 < i
      BY <3>1, <3>2, <2>4, <2>6, <1>1
    <3>3. CASE j + 1 = i
      BY <3>3, <2>4, <2>6, <1>1
    <3>4. CASE j = i
      <4>1. r[j] = n /\ r[j + 1] = list[i]
        BY <3>4, <2>4, <2>6, <1>1
      <4>2. n.size \in Nat /\ list[i].size \in Nat
        BY <2>4, <1>2, <1>3
      <4> QED BY <4>1, <4>2, <2>4
    <3>5. CASE j > i
      <4>1. r[j] = list[j - 1] /\ r[j + 1] = list[j]
        BY <3>5, <2>4, <2>6, <1>1
      <4>2. list[j - 1].size <= list[(j - 1) + 1].size
        BY <3>1, <3>5, <2>4, <2>6, <1>1
      <4>3. (j - 1) + 1 = j
        BY <2>6, <1>1
      <4> QED BY <4>1, <4>2, <4>3
    <3> QED BY <3>2, <3>3, <3>4, <3>5, <2>4, <2>6, <1>1
  <2>9. Range(r) = {r[j] : j \in 1..(Len(list) + 1)}
    BY <2>6, LenProperties DEF Range
  <2>10. ASSUME NEW m \in Range(r)
         PROVE  m \in Range(list) \cup {n}
    <3>1. PICK j \in 1..(Len(list) + 1) : m = r[j]
      BY <2>9
    <3>2. CASE j < i
      BY <3>1, <3>2, <2>4, <2>6, <1>1, <1>4
    <3>3. CASE j = i
      BY <3>1, <3>3, <2>6
    <3>4. CASE j > i
      <4>1. j - 1 \in 1..Len(list) /\ m = list[j - 1]
        BY <3>1, <3>4, <2>4, <2>6, <1>1
      <4> QED BY <4>1, <1>4
    <3> QED BY <3>2, <3>3, <3>4, <2>4, <1>1
  <2>11. ASSUME NEW j \in 1..Len(list)
         PROVE  list[j] \in Range(r)
    <3>1. CASE j < i
      BY <3>1, <2>4, <2>6, <2>9, <1>1
    <3>2. CASE ~ (j < i)
      <4>1. j + 1 \in 1..(Len(list) + 1) /\ r[j + 1] = list[j]
        BY <3>2, <2>4, <2>6, <1>1
      <4> QED BY <4>1, <2>9
    <3> QED BY <3>1, <3>2
  <2>12. n \in Range(r)
    <3>1. i \in 1..(Len(list) + 1) /\ r[i] = n
      BY <2>4, <2>6, <1>1
    <3> QED BY <3>1, <2>9
  <2> QED BY <2>6, <2>7, <2>8, <2>10, <2>11, <2>12, <1>4
<1> QED BY <1>6, <1>7

\* The nodes of a list that one was taken from.
LEMMA TakeNode ==
  ASSUME NEW list \in Seq(FreeNode), NEW i \in 1..Len(list),
         NoRepeats(list), Increasing(list),
         NEW r, r = RemoveAt(list, i)
  PROVE  /\ r \in Seq(FreeNode) /\ NoRepeats(r) /\ Increasing(r)
         /\ list[i] \in Range(list)
         /\ Range(r) = Range(list) \ {list[i]}
<1>1. Len(list) \in Nat /\ DOMAIN list = 1..Len(list)
  BY LenProperties
<1>2. \A j \in 1..Len(list) : list[j] \in FreeNode
  BY ElementOfSeq
<1>3. \A m \in FreeNode : m.size \in Nat
  BY DEF FreeNode
<1>4. Range(list) = {list[j] : j \in 1..Len(list)}
  BY <1>1 DEF Range
<1>5. /\ r \in Seq(FreeNode) /\ Len(r) = Len(list) - 1
      /\ \A j \in 1..(Len(list) - 1) : r[j] = list[IF j < i THEN j ELSE j + 1]
  BY RemoveAtPlaces
<1>6. NoRepeats(r)
  BY <1>1, <1>5 DEF NoRepeats
<1>7. Increasing(r)
  <2> SUFFICES ASSUME NEW j \in 1..(Len(r) - 1)
               PROVE  r[j].size <= r[j + 1].size
    BY DEF Increasing
  <2>1. \A k \in 1..Len(list) : list[k].size \in Nat
    BY <1>2, <1>3
  <2>2. \A k \in 1..(Len(list) - 1) : list[k].size <= list[k + 1].size
    BY DEF Increasing
  <2>3. CASE j + 1 < i
    BY <2>2, <2>3, <1>1, <1>5
  <2>4. CASE j + 1 = i
    <3>1. r[j] = list[j] /\ r[j + 1] = list[j + 2]
      BY <2>4, <1>1, <1>5
    <3>2. list[j].size <= list[j + 1].size
      BY <2>2, <1>1, <1>5
    <3>3. list[j + 1].size <= list[j + 2].size
      BY <2>2, <1>1, <1>5
    <3> QED BY <3>1, <3>2, <3>3, <2>1, <1>1, <1>5
  <2>5. CASE j >= i
    BY <2>2, <2>5, <1>1, <1>5
  <2> QED BY <2>3, <2>4, <2>5, <1>1, <1>5
<1>8. Range(r) = {r[j] : j \in 1..(Len(list) - 1)}
  BY <1>5, LenProperties DEF Range
<1>9. ASSUME NEW m \in Range(r)
      PROVE  m \in Range(list) \ {list[i]}
  <2>1. PICK j \in 1..(Len(list) - 1) : m = r[j]
    BY <1>8
  <2>2. PICK k \in 1..Len(list) : k # i /\ m = list[k]
    BY <2>1, <1>1, <1>5
  <2> QED BY <2>2, <1>4 DEF NoRepeats
<1>10. ASSUME NEW m \in Range(list) \ {list[i]}
       PROVE  m \in Range(r)
  <2>1. PICK k \in 1..Len(list) : m = list[k]
    BY <1>4
  <2>2. k # i
    BY <2>1
  <2>3. CASE k < i
    BY <2>1, <2>3, <1>1, <1>5, <1>8
  <2>4. CASE k > i
    <3>1. k - 1 \in 1..(Len(list) - 1) /\ r[k - 1] = list[k]
      BY <2>4, <1>1, <1>5
    <3> QED BY <3>1, <2>1, <1>8
  <2> QED BY <2>2, <2>3, <2>4, <1>1
<1> QED BY <1>4, <1>5, <1>6, <1>7, <1>9, <1>10

-----------------------------------------------------------------------------
(* The tiling: what splitting and merging do to sets of nodes.             *)

\* Nodes that do not meet have no address in common.
LEMMA ApartPoints ==
  ASSUME NEW n, NEW m, InHeap(n), InHeap(m)
  PROVE  Apart(n, m) <=> \A x \in Nat : ~ (Covers(n, x) /\ Covers(m, x))
<1> USE DEF Apart, Covers, End, InHeap
<1>1. ASSUME Apart(n, m), NEW x \in Nat
      PROVE  ~ (Covers(n, x) /\ Covers(m, x))
  BY <1>1
<1>2. ASSUME ~ Apart(n, m)
      PROVE  \E x \in Nat : Covers(n, x) /\ Covers(m, x)
  <2>1. CASE n.offset <= m.offset
    BY <1>2, <2>1
  <2>2. CASE m.offset <= n.offset
    BY <1>2, <2>2
  <2> QED BY <2>1, <2>2
<1> QED BY <1>1, <1>2

\* A node is apart from what is apart from all the nodes it is made of.
LEMMA ApartFromParts ==
  ASSUME NEW m, NEW q, NEW G, InHeap(m), InHeap(q),
         \A g \in G : InHeap(g) /\ Apart(g, q),
         \A x \in Nat : Covers(m, x) => \E g \in G : Covers(g, x)
  PROVE  Apart(m, q)
<1>1. ASSUME NEW x \in Nat, Covers(m, x), Covers(q, x)
      PROVE  FALSE
  <2>1. PICK g \in G : Covers(g, x)
    BY <1>1
  <2> QED BY <1>1, <2>1, ApartPoints
<1> QED BY <1>1, ApartPoints

LEMMA ApartSym ==
  ASSUME NEW n, NEW m
  PROVE  Apart(n, m) <=> Apart(m, n)
  BY DEF Apart

\* A free node is split into one that leaves the list and at most one that stays.
Split(n, t, R) ==
  /\ InHeap(t) /\ \A p \in R : InHeap(p) /\ Apart(p, t)
  /\ \A p, q \in R : p = q
  /\ \A x \in Nat : Covers(n, x) <=> Covers(t, x) \/ \E p \in R : Covers(p, x)

LEMMA SplitTiled ==
  ASSUME NEW F, NEW U, NEW L, Tiled(F, U, L), NEW n \in F, NEW t, NEW R,
         Split(n, t, R)
  PROVE  /\ Tiled((F \ {n}) \cup R, U \cup {t}, L)
         /\ Tiled((F \ {n}) \cup R, U, L \cup {t})
<1> DEFINE F1 == (F \ {n}) \cup R
<1>1. \A q \in F \cup U \cup L : InHeap(q)
  BY DEF Tiled, Scattered
<1>2. \A q \in (F \ {n}) \cup U \cup L : Apart(n, q)
  BY DEF Tiled, Scattered, AllApart
<1>3. InHeap(n)
  BY <1>1
<1>4. InHeap(t) /\ \A p \in R : InHeap(p) /\ Apart(p, t)
  BY DEF Split
<1>5. ASSUME NEW p \in R \cup {t}, NEW q \in (F \ {n}) \cup U \cup L
      PROVE  Apart(p, q)
  <2>1. \A x \in Nat : Covers(p, x) => \E g \in {n} : Covers(g, x)
    BY DEF Split
  <2>2. InHeap(p) /\ InHeap(q) /\ Apart(n, q)
    BY <1>1, <1>2, <1>4
  <2>3. \A g \in {n} : InHeap(g) /\ Apart(g, q)
    BY <2>2, <1>3
  <2> QED BY <2>1, <2>2, <2>3, ApartFromParts
<1>6. ASSUME NEW x \in Start..(Start + Size - 1)
      PROVE  \E q \in F1 \cup U \cup L \cup {t} : Covers(q, x)
  <2>1. x \in Nat
    BY HeapAssumption
  <2>2. PICK q \in F \cup U \cup L : Covers(q, x)
    BY DEF Tiled
  <2>3. CASE q = n
    BY <2>1, <2>2, <2>3 DEF Split
  <2>4. CASE q # n
    BY <2>2, <2>4
  <2> QED BY <2>3, <2>4
<1>7. Scattered(F1)
  <2>1. \A q \in F1 : InHeap(q)
    BY <1>1, <1>4
  <2>2. \A p, q \in F : p # q => Apart(p, q)
    BY DEF Tiled, Scattered
  <2>3. \A p \in R, q \in F \ {n} : Apart(p, q) /\ Apart(q, p)
    BY <1>5, ApartSym
  <2>4. \A p, q \in R : p = q
    BY DEF Split
  <2> QED BY <2>1, <2>2, <2>3, <2>4 DEF Scattered
<1>8. Scattered(U \cup {t}) /\ Scattered(L \cup {t})
  <2>1. \A q \in U \cup L : Apart(t, q) /\ Apart(q, t)
    BY <1>5, ApartSym
  <2>2. Scattered(U) /\ Scattered(L)
    BY DEF Tiled
  <2> QED BY <2>1, <2>2, <1>4 DEF Scattered
<1>9. AllApart(F1, U \cup {t}) /\ AllApart(F1, L \cup {t})
  <2>1. AllApart(F, U) /\ AllApart(F, L)
    BY DEF Tiled
  <2>2. \A q \in F \ {n} : Apart(t, q) /\ Apart(q, t)
    BY <1>5, ApartSym
  <2> QED BY <2>1, <2>2, <1>4, <1>5 DEF AllApart
<1>10. AllApart(U \cup {t}, L) /\ AllApart(U, L \cup {t})
  <2>1. AllApart(U, L)
    BY DEF Tiled
  <2>2. \A q \in U \cup L : Apart(t, q) /\ Apart(q, t)
    BY <1>5, ApartSym
  <2> QED BY <2>1, <2>2 DEF AllApart
<1>11. /\ Scattered(U) /\ Scattered(L)
       /\ AllApart(F1, U) /\ AllApart(F1, L)
  BY <1>9 DEF Tiled, AllApart
<1>12. /\ (F1 \cup U \cup L) \cup {t} = F1 \cup (U \cup {t}) \cup L
       /\ (F1 \cup U \cup L) \cup {t} = F1 \cup U \cup (L \cup {t})
  OBVIOUS
<1> HIDE DEF F1
<1>13. Tiled(F1, U \cup {t}, L)
  BY <1>6, <1>7, <1>8, <1>9, <1>10, <1>11, <1>12 DEF Tiled
<1>14. Tiled(F1, U, L \cup {t})
  BY <1>6, <1>7, <1>8, <1>9, <1>10, <1>11, <1>12 DEF Tiled
<1> QED BY <1>13, <1>14 DEF F1

\* A node in use and the free nodes around it become one free node.
LEMMA MergeTiled ==
  ASSUME NEW F, NEW U, NEW L, Tiled(F, U, L), NEW n \in U, NEW G \in SUBSET F,
         NEW m, InHeap(m),
         \A x \in Nat : Covers(m, x) <=> \E g \in G \cup {n} : Covers(g, x)
  PROVE  Tiled((F \ G) \cup {m}, U \ {n}, L)
<1> DEFINE F1 == (F \ G) \cup {m}
<1>1. \A q \in F \cup U \cup L : InHeap(q)
  BY DEF Tiled, Scattered
<1>2. ASSUME NEW q \in (F \ G) \cup (U \ {n}) \cup L
      PROVE  Apart(m, q) /\ Apart(q, m)
  <2>1. \A g \in G : Apart(g, q)
    BY ApartSym DEF Tiled, Scattered, AllApart
  <2>2. Apart(n, q)
    BY ApartSym DEF Tiled, Scattered, AllApart
  <2>3. \A g \in G \cup {n} : InHeap(g) /\ Apart(g, q)
    BY <1>1, <2>1, <2>2
  <2>4. InHeap(q)
    BY <1>1
  <2>5. \A x \in Nat : Covers(m, x) => \E g \in G \cup {n} : Covers(g, x)
    OBVIOUS
  <2>6. Apart(m, q)
    BY <2>3, <2>4, <2>5, ApartFromParts
  <2> QED BY <2>6, ApartSym
<1>3. ASSUME NEW x \in Start..(Start + Size - 1)
      PROVE  \E q \in F1 \cup (U \ {n}) \cup L : Covers(q, x)
  <2>1. x \in Nat
    BY HeapAssumption
  <2>2. PICK q \in F \cup U \cup L : Covers(q, x)
    BY DEF Tiled
  <2>3. CASE q \in G \cup {n}
    BY <2>1, <2>2, <2>3
  <2>4. CASE q \notin G \cup {n}
    BY <2>2, <2>4
  <2> QED BY <2>3, <2>4
<1>4. Scattered(F1)
  <2>1. Scattered(F)
    BY DEF Tiled
  <2>2. \A q \in F \ G : Apart(m, q) /\ Apart(q, m)
    BY <1>2
  <2> QED BY <2>1, <2>2, <1>1 DEF Scattered
<1>5. Scattered(U \ {n}) /\ Scattered(L)
  BY DEF Tiled, Scattered
<1>6. AllApart(F1, U \ {n}) /\ AllApart(F1, L)
  <2>1. AllApart(F, U) /\ AllApart(F, L)
    BY DEF Tiled
  <2> QED BY <2>1, <1>2 DEF AllApart
<1>7. AllApart(U \ {n}, L)
  BY DEF Tiled, AllApart
<1> HIDE DEF F1
<1>8. Tiled(F1, U \ {n}, L)
  BY <1>3, <1>4, <1>5, <1>6, <1>7 DEF Tiled
<1> QED BY <1>8 DEF F1

\* What HeapIsTiled counts.
LEMMA CountOne ==
  ASSUME NEW S, Scattered(S), NEW x \in Nat
  PROVE  Cardinality({n \in S : Covers(n, x)}) =
           IF \E n \in S : Covers(n, x) THEN 1 ELSE 0
<1>1. ASSUME NEW n \in S, Covers(n, x)
      PROVE  {q \in S : Covers(q, x)} = {n}
  <2>1. ASSUME NEW q \in S, Covers(q, x), q # n
        PROVE  FALSE
    BY <1>1, <2>1, ApartPoints DEF Scattered
  <2> QED BY <1>1, <2>1
<1>2. ASSUME ~ \E n \in S : Covers(n, x)
      PROVE  {q \in S : Covers(q, x)} = {}
  BY <1>2
<1> QED BY <1>1, <1>2, FS_EmptySet, FS_Singleton

LEMMA TiledCounts == Tiled(FreeNodes, inuse, lost) => HeapIsTiled
<1> SUFFICES ASSUME Tiled(FreeNodes, inuse, lost),
                    NEW x \in Start..(Start + Size - 1)
             PROVE  Cardinality({n \in FreeNodes : Covers(n, x)})
                      + Cardinality({n \in inuse : Covers(n, x)})
                      + Cardinality({n \in lost : Covers(n, x)}) = 1
  BY DEF HeapIsTiled
<1>1. x \in Nat
  BY HeapAssumption
<1>2. Scattered(FreeNodes) /\ Scattered(inuse) /\ Scattered(lost)
  BY DEF Tiled
<1>3. \A n \in FreeNodes \cup inuse \cup lost : InHeap(n)
  BY <1>2 DEF Scattered
<1>4. \A n \in FreeNodes, m \in inuse \cup lost : ~ (Covers(n, x) /\ Covers(m, x))
  BY <1>1, <1>3, ApartPoints DEF Tiled, AllApart
<1>5. \A n \in inuse, m \in lost : ~ (Covers(n, x) /\ Covers(m, x))
  BY <1>1, <1>3, ApartPoints DEF Tiled, AllApart
<1>6. \E n \in FreeNodes \cup inuse \cup lost : Covers(n, x)
  BY DEF Tiled
<1> QED BY <1>1, <1>2, <1>4, <1>5, <1>6, CountOne

-----------------------------------------------------------------------------
(* Free space.                                                             *)

Space(S) == {x \in Start..(Start + Size - 1) : \E n \in S : Covers(n, x)}

LEMMA NodeSpace ==
  ASSUME NEW n, InHeap(n)
  PROVE  /\ IsFiniteSet(Space({n})) /\ Cardinality(Space({n})) = n.size
         /\ \A x \in Nat : Covers(n, x) <=> x \in Space({n})
<1> USE DEF InHeap, Covers, End
<1>1. \A x \in Nat : Covers(n, x) => x \in Start..(Start + Size - 1)
  BY HeapAssumption
<1>2. n.offset \in Int /\ n.offset + n.size - 1 \in Int
  OBVIOUS
<1>3. Space({n}) = n.offset..(n.offset + n.size - 1)
  <2>1. ASSUME NEW x \in Space({n})
        PROVE  x \in n.offset..(n.offset + n.size - 1)
    BY <2>1, HeapAssumption DEF Space
  <2>2. ASSUME NEW x \in n.offset..(n.offset + n.size - 1)
        PROVE  x \in Space({n})
    BY <2>2, <1>1 DEF Space
  <2> QED BY <2>1, <2>2
<1>4. Cardinality(Space({n})) = n.size /\ IsFiniteSet(Space({n}))
  <2>1. /\ IsFiniteSet(n.offset..(n.offset + n.size - 1))
        /\ Cardinality(n.offset..(n.offset + n.size - 1)) =
             IF n.offset > n.offset + n.size - 1 THEN 0
             ELSE (n.offset + n.size - 1) - n.offset + 1
    BY <1>2, FS_Interval
  <2> QED BY <2>1, <1>3
<1>5. \A x \in Nat : Covers(n, x) <=> x \in Space({n})
  BY <1>1 DEF Space
<1> QED BY <1>4, <1>5

LEMMA SpaceFinite ==
  ASSUME NEW S
  PROVE  IsFiniteSet(Space(S)) /\ Cardinality(Space(S)) \in Nat
<1>1. Start \in Int /\ Start + Size - 1 \in Int
  BY HeapAssumption
<1>2. IsFiniteSet(Start..(Start + Size - 1))
  BY <1>1, FS_Interval
<1> QED BY <1>2, FS_Subset, FS_CardinalityType DEF Space

\* S covers what T and t cover, and these do not meet.
MadeOf(S, T, t) ==
  /\ InHeap(t) /\ \A n \in T : InHeap(n) /\ Apart(n, t)
  /\ \A x \in Nat : (\E n \in S : Covers(n, x)) <=>
                       (\E n \in T : Covers(n, x)) \/ Covers(t, x)

LEMMA SpaceLess ==
  ASSUME NEW S, NEW T, NEW t, MadeOf(S, T, t)
  PROVE  Cardinality(Space(S)) = Cardinality(Space(T)) + t.size
<1> USE DEF MadeOf
<1>1. \A x \in Start..(Start + Size - 1) : x \in Nat
  BY HeapAssumption
<1>2. Space(S) = Space(T) \cup Space({t})
  BY <1>1 DEF Space
<1>3. Space(T) \cap Space({t}) = {}
  BY <1>1, ApartPoints DEF Space
<1>4. /\ IsFiniteSet(Space(T)) /\ Cardinality(Space(T)) \in Nat
      /\ IsFiniteSet(Space({t})) /\ Cardinality(Space({t})) = t.size
  BY SpaceFinite, NodeSpace
<1>5. Cardinality(Space(T) \cup Space({t}))
        = Cardinality(Space(T)) + Cardinality(Space({t}))
            - Cardinality(Space(T) \cap Space({t}))
  BY <1>4, FS_Union
<1>6. Cardinality(Space(T) \cap Space({t})) = 0
  BY <1>3, FS_EmptySet
<1>7. t.size \in Nat
  BY DEF InHeap
<1> QED BY <1>2, <1>4, <1>5, <1>6, <1>7

-----------------------------------------------------------------------------
(* Alignment, and the part of a node that is taken.                        *)

LEMMA Multiples ==
  ASSUME NEW x \in Nat, NEW a \in Nat \ {0}
  PROVE  /\ x \div a \in Nat
         /\ (x \div a) * a \in Nat
         /\ (x \div a) * a <= x
         /\ x < (x \div a) * a + a
         /\ ((x \div a) * a) % a = 0
<1>1. PICK q \in Nat : q = x \div a
  OBVIOUS
<1>2. PICK r \in Nat : r = x % a /\ r < a
  OBVIOUS
<1>3. x = a * q + r
  BY <1>1, <1>2
<1>4. q * a \in Nat /\ q * a = a * q
  OBVIOUS
<1>5. (q * a) % a = 0
  OBVIOUS
<1> QED BY <1>1, <1>2, <1>3, <1>4, <1>5

LEMMA AlignFacts ==
  ASSUME NEW x \in Nat, NEW a \in Nat \ {0}
  PROVE  /\ AlignUp(x, a) \in Nat /\ x <= AlignUp(x, a) /\ AlignUp(x, a) % a = 0
         /\ AlignDown(x, a) \in Nat /\ AlignDown(x, a) <= x
         /\ AlignDown(x, a) % a = 0
<1>1. x + a - 1 \in Nat
  OBVIOUS
<1>2. /\ AlignUp(x, a) \in Nat /\ AlignUp(x, a) % a = 0
      /\ x + a - 1 < AlignUp(x, a) + a
  BY <1>1, Multiples DEF AlignUp
<1>3. /\ AlignDown(x, a) \in Nat /\ AlignDown(x, a) <= x
      /\ AlignDown(x, a) % a = 0
  BY Multiples DEF AlignDown
<1> QED BY <1>2, <1>3

\* A node n was cut into t, which is taken, and p, which stays unless t is all.
CutInto(n, t, p) ==
  /\ InHeap(t)
  /\ t.size = n.size => Split(n, t, {})
  /\ t.size # n.size => /\ p \in FreeNode /\ Split(n, t, {p})
                        /\ p.offset = n.offset \/ End(p) = End(n)

UsedInside(t, asize, a) ==
  /\ t.aligned_offset \in Nat /\ t.aligned_offset % a = 0
  /\ t.offset <= t.aligned_offset /\ t.aligned_offset + asize <= End(t)

\* What heap_allocate takes from a node that fits, and what it leaves.
LEMMA PlaceFacts ==
  ASSUME NEW n \in FreeNode, InHeap(n), NEW asize \in Nat \ {0},
         NEW a \in Nat \ {0}, NEW direction, Fits(n, asize, a, direction)
  PROVE  /\ CutInto(n, Place(n, asize, a, direction),
                    Remainder(n, Place(n, asize, a, direction), direction))
         /\ UsedInside(Place(n, asize, a, direction), asize, a)
<1> SUFFICES ASSUME NEW t, t = Place(n, asize, a, direction),
                    NEW p, p = Remainder(n, t, direction)
             PROVE  CutInto(n, t, p) /\ UsedInside(t, asize, a)
  OBVIOUS
<1> PICK u : u = t
  OBVIOUS
<1> DEFINE up == AlignUp(n.offset, a)
           down == AlignDown(End(n) - asize, a)
<1>1. /\ n.offset \in Nat /\ n.size \in Nat \ {0} /\ asize <= n.size
      /\ n.offset + n.size - asize \in Nat
      /\ Start <= n.offset /\ n.offset + n.size <= Start + Size
  BY DEF InHeap, Fits, End
<1>2. /\ up \in Nat /\ n.offset <= up /\ up % a = 0
      /\ down \in Nat /\ down <= End(n) - asize /\ down % a = 0
  <2>1. End(n) - asize \in Nat /\ End(n) = n.offset + n.size
    BY <1>1 DEF End
  <2>2. /\ down \in Nat /\ down <= End(n) - asize /\ down % a = 0
    BY <2>1, AlignFacts
  <2>3. /\ up \in Nat /\ n.offset <= up /\ up % a = 0
    BY <1>1, AlignFacts
  <2> QED BY <2>2, <2>3
<1>3. /\ direction => down >= n.offset
      /\ ~ direction => up + asize <= End(n)
  BY DEF Fits
<1>4. CASE direction
  <2>1. /\ t.offset = down /\ t.size = End(n) - down
        /\ t.aligned_offset = down
    BY <1>4 DEF Place
  <2>2. /\ p = [offset |-> n.offset, size |-> n.size - t.size]
        /\ p.offset = n.offset /\ p.size = n.size - t.size
    BY <1>4 DEF Remainder
  <2> HIDE DEF down
  <2>3. /\ u.offset \in Nat /\ u.size \in Nat \ {0}
        /\ n.offset <= u.offset /\ u.offset + u.size = n.offset + n.size
        /\ u.size <= n.size
    BY <2>1, <1>1, <1>2, <1>3, <1>4 DEF End
  <2>4. InHeap(u)
    BY <2>3, <1>1, HeapAssumption DEF InHeap, End
  <2>5. ASSUME t.size = n.size
        PROVE  Split(n, u, {})
    <3>1. u.offset = n.offset /\ u.size = n.size
      BY <2>3, <2>5, <1>1
    <3> QED BY <3>1, <2>4 DEF Split, Covers, End
  <2>6. ASSUME t.size # n.size
        PROVE  p \in FreeNode /\ Split(n, u, {p})
    <3>1. p.size \in Nat \ {0} /\ p.offset + p.size = u.offset
      BY <2>2, <2>3, <2>6, <1>1
    <3>2. p \in FreeNode
      BY <3>1, <2>2, <1>1 DEF FreeNode
    <3>3. InHeap(p) /\ Apart(p, u)
      BY <3>1, <2>2, <2>3, <1>1, HeapAssumption DEF InHeap, End, Apart
    <3>4. \A x \in Nat : Covers(n, x) <=> Covers(u, x) \/ Covers(p, x)
      BY <3>1, <2>2, <2>3, <1>1 DEF Covers, End
    <3> QED BY <3>2, <3>3, <3>4, <2>4 DEF Split
  <2> QED BY <2>1, <2>2, <2>3, <2>4, <2>5, <2>6, <1>1, <1>2 DEF End, CutInto, UsedInside
<1>5. CASE ~ direction
  <2>1. /\ t.offset = n.offset /\ t.size = (asize + up) - n.offset
        /\ t.aligned_offset = up
    BY <1>5 DEF Place
  <2>2. /\ p = [offset |-> n.offset + t.size, size |-> n.size - t.size]
        /\ p.offset = n.offset + t.size /\ p.size = n.size - t.size
    BY <1>5 DEF Remainder
  <2> HIDE DEF up
  <2>3. /\ u.offset = n.offset /\ u.size \in Nat \ {0}
        /\ u.offset + u.size = up + asize /\ u.size <= n.size
    BY <2>1, <1>1, <1>2, <1>3, <1>5 DEF End
  <2>4. InHeap(u)
    BY <2>3, <1>1, HeapAssumption DEF InHeap, End
  <2>5. ASSUME t.size = n.size
        PROVE  Split(n, u, {})
    <3>1. u.offset = n.offset /\ u.size = n.size
      BY <2>3, <2>5, <1>1
    <3> QED BY <3>1, <2>4 DEF Split, Covers, End
  <2>6. ASSUME t.size # n.size
        PROVE  p \in FreeNode /\ Split(n, u, {p}) /\ End(p) = End(n)
    <3>1. /\ p.size \in Nat \ {0} /\ p.offset = u.offset + u.size
          /\ p.offset \in Nat /\ p.offset + p.size = n.offset + n.size
      BY <2>2, <2>3, <2>6, <1>1
    <3>2. p \in FreeNode
      BY <3>1, <2>2 DEF FreeNode
    <3>3. InHeap(p) /\ Apart(p, u)
      BY <3>1, <2>3, <1>1, HeapAssumption DEF InHeap, End, Apart
    <3>4. \A x \in Nat : Covers(n, x) <=> Covers(u, x) \/ Covers(p, x)
      BY <3>1, <2>3, <1>1 DEF Covers, End
    <3> QED BY <3>1, <3>2, <3>3, <3>4, <2>4 DEF Split, End
  <2> QED BY <2>1, <2>2, <2>3, <2>4, <2>5, <2>6, <1>1, <1>2 DEF End, CutInto, UsedInside
<1> QED BY <1>4, <1>5

\* What is left of a node touches no free node that the node did not touch.
LEMMA SplitLoose ==
  ASSUME NEW F, NEW n \in F, NEW p, InHeap(p), Scattered(F),
         \A q, m \in F : End(q) # m.offset,
         n.offset <= p.offset, End(p) <= End(n),
         p.offset = n.offset \/ End(p) = End(n)
  PROVE  \A q, m \in (F \ {n}) \cup {p} : End(q) # m.offset
<1>1. ASSUME NEW q \in F \ {n}
      PROVE  End(q) # p.offset /\ End(p) # q.offset
  <2>1. Apart(q, n) /\ InHeap(q) /\ InHeap(n)
    BY DEF Scattered
  <2>2. End(q) # n.offset /\ End(n) # q.offset
    OBVIOUS
  <2> QED BY <2>1, <2>2 DEF Apart, InHeap, End
<1>2. End(p) # p.offset
  BY DEF InHeap, End
<1> QED BY <1>1, <1>2

-----------------------------------------------------------------------------
(* The steps.                                                              *)

LEMMA MaxFacts ==
  ASSUME NEW x \in Nat, NEW y \in Nat \ {0}
  PROVE  Max({x, y}) \in Nat \ {0}
<1>1. \E m \in {x, y} : \A z \in {x, y} : m >= z
  OBVIOUS
<1>2. Max({x, y}) \in {x, y} /\ \A z \in {x, y} : Max({x, y}) >= z
  BY <1>1 DEF Max
<1> QED BY <1>2

\* A node that covers an address of n is not among the nodes apart from n.
LEMMA MeetsNot ==
  ASSUME NEW n, NEW p, NEW S, InHeap(n), InHeap(p), NEW x \in Nat,
         Covers(n, x), Covers(p, x), \A q \in S : InHeap(q) /\ Apart(q, n)
  PROVE  p \notin S
  BY ApartPoints

Fitting(list, asize, a, direction) ==
  {i \in 1..Len(list) : Fits(list[i], asize, a, direction)}

\* A free list with these nodes, as it should be.
GoodList(r, F) ==
  /\ r \in Seq(FreeNode) /\ NoRepeats(r) /\ Increasing(r)
  /\ Range(r) = F
  /\ \A q, m \in F : End(q) # m.offset

\* The free list after a node was split.
LEMMA SplitList ==
  ASSUME HeapInv, NEW k \in 1..Len(free), NEW t, NEW p, CutInto(free[k], t, p)
  PROVE  /\ t.size = free[k].size =>
              GoodList(RemoveAt(free, k), FreeNodes \ {free[k]})
         /\ t.size # free[k].size =>
              GoodList(heap_add_node_to_list(RemoveAt(free, k), p),
                       (FreeNodes \ {free[k]}) \cup {p})
<1> PICK n : n = free[k]
  OBVIOUS
<1> DEFINE rest == RemoveAt(free, k)
<1>1. /\ free \in Seq(FreeNode) /\ NoRepeats(free) /\ Increasing(free)
      /\ Scattered(FreeNodes)
      /\ \A q, m \in FreeNodes : End(q) # m.offset
  BY DEF HeapInv, FreeListOrdered, Tiled, NoFragments
<1>2. /\ rest \in Seq(FreeNode) /\ NoRepeats(rest) /\ Increasing(rest)
      /\ n \in FreeNodes
      /\ Range(rest) = FreeNodes \ {n}
  BY <1>1, TakeNode DEF FreeNodes
<1> HIDE DEF rest
<1>3. CASE t.size = n.size
  BY <1>1, <1>2, <1>3 DEF rest, GoodList
<1>4. CASE t.size # n.size
  <2>1. /\ p \in FreeNode /\ Split(n, t, {p})
        /\ p.offset = n.offset \/ End(p) = End(n)
    BY <1>4 DEF CutInto
  <2>2. /\ InHeap(p) /\ InHeap(n)
        /\ \A x \in Nat : Covers(p, x) => Covers(n, x)
    BY <2>1, <1>1, <1>2 DEF Split, Scattered
  <2>3. \A q \in FreeNodes \ {n} : InHeap(q) /\ Apart(q, n)
    BY <1>1, <1>2 DEF Scattered
  <2>4. p.offset \in Nat /\ Covers(p, p.offset)
    BY <2>2 DEF InHeap, Covers, End
  <2>5. p \notin Range(rest)
    BY <2>2, <2>3, <2>4, <1>2, MeetsNot
  <2>6. PICK r : r = heap_add_node_to_list(rest, p)
    OBVIOUS
  <2>7. /\ r \in Seq(FreeNode) /\ NoRepeats(r) /\ Increasing(r)
        /\ Range(r) = Range(rest) \cup {p}
    BY <2>1, <2>5, <2>6, <1>2, AddNode
  <2>8. n.offset <= p.offset /\ End(p) <= End(n)
    <3>1. /\ p.offset \in Nat /\ p.size \in Nat \ {0} /\ End(p) = p.offset + p.size
          /\ n.offset \in Nat /\ n.size \in Nat \ {0} /\ End(n) = n.offset + n.size
      BY <2>2 DEF InHeap, End
    <3>2. Covers(n, p.offset) /\ Covers(n, p.offset + p.size - 1)
      BY <2>2, <2>4, <3>1 DEF Covers
    <3> QED BY <3>1, <3>2 DEF Covers
  <2>9. \A q, m \in (FreeNodes \ {n}) \cup {p} : End(q) # m.offset
    BY <2>1, <2>2, <2>8, <1>1, <1>2, SplitLoose
  <2> QED BY <2>6, <2>7, <2>9, <1>2, <1>4 DEF rest, GoodList
<1> QED BY <1>3, <1>4

LEMMA AllocateStep ==
  ASSUME HeapInv, NEW size \in AllocSizes, NEW alignment \in Alignments,
         NEW direction \in BOOLEAN, heap_allocate(size, alignment, direction)
  PROVE  HeapInv'
<1>1. PICK a, asize :
        /\ a = Max({alignment, HeapAlign}) /\ asize = AlignUp(size, HeapAlign)
  OBVIOUS
<1>2. a \in Nat \ {0} /\ asize \in Nat \ {0}
  <2>1. /\ alignment \in Nat /\ size \in Nat \ {0} /\ HeapAlign \in Nat \ {0}
    BY HeapAssumption
  <2>2. a \in Nat \ {0}
    BY <2>1, <1>1, MaxFacts
  <2>3. asize \in Nat /\ size <= asize
    BY <2>1, <1>1, AlignFacts
  <2> QED BY <2>1, <2>2, <2>3
<1>3. PICK k :
        /\ k = IF Fitting(free, asize, a, direction) # {}
               THEN Min(Fitting(free, asize, a, direction)) ELSE 0
        /\ k # 0
        /\ KeepRemainder(RemoveAt(free, k), free[k],
                         Place(free[k], asize, a, direction), direction)
        /\ free_size' = free_size - Place(free[k], asize, a, direction).size
        /\ \/ /\ inuse' = inuse \cup
                   {[offset |-> Place(free[k], asize, a, direction).offset,
                     size |-> Place(free[k], asize, a, direction).size,
                     aligned_offset |->
                       Place(free[k], asize, a, direction).aligned_offset,
                     aligned_size |-> asize, alignment |-> a]}
              /\ UNCHANGED lost
           \/ /\ lost' = lost \cup {Place(free[k], asize, a, direction)}
              /\ UNCHANGED inuse
  BY <1>1 DEF heap_allocate, SelectInSeq, Fitting
<1>4. k \in 1..Len(free) /\ Fits(free[k], asize, a, direction)
  <2>1. Fitting(free, asize, a, direction) \in SUBSET (Nat \ {0})
    BY LenProperties DEF Fitting, HeapInv
  <2>2. k \in Fitting(free, asize, a, direction)
    BY <2>1, <1>3, FirstPlace
  <2> QED BY <2>2 DEF Fitting
<1>5. PICK n, t, p, u, R :
        /\ n = free[k] /\ t = Place(n, asize, a, direction)
        /\ p = Remainder(n, t, direction)
        /\ u = [offset |-> t.offset, size |-> t.size,
                aligned_offset |-> t.aligned_offset,
                aligned_size |-> asize, alignment |-> a]
        /\ R = IF t.size = n.size THEN {} ELSE {p}
  OBVIOUS
<1>6. /\ free' = IF t.size = n.size THEN RemoveAt(free, k)
                 ELSE heap_add_node_to_list(RemoveAt(free, k), p)
      /\ free_size' = free_size - t.size
      /\ \/ inuse' = inuse \cup {u} /\ lost' = lost
         \/ lost' = lost \cup {t} /\ inuse' = inuse
  BY <1>3, <1>5 DEF KeepRemainder
<1>7. n \in FreeNode /\ InHeap(n)
  <2>1. n \in FreeNode /\ n \in FreeNodes
    BY <1>4, <1>5, ElementOfSeq, LenProperties DEF HeapInv, FreeNodes, Range
  <2> QED BY <2>1 DEF HeapInv, Tiled, Scattered
<1>8. CutInto(n, t, p) /\ UsedInside(t, asize, a)
  BY <1>2, <1>4, <1>5, <1>7, PlaceFacts
<1>9. /\ u.offset = t.offset /\ u.size = t.size /\ End(u) = End(t)
      /\ u.aligned_offset = t.aligned_offset /\ u.aligned_size = asize
      /\ u.alignment = a
  BY <1>5 DEF End
<1>10. Split(n, t, R) /\ Split(n, u, R) /\ InHeap(t)
  <2>1. Split(n, t, R) /\ InHeap(t)
    BY <1>5, <1>8 DEF CutInto
  <2> QED BY <2>1, <1>9 DEF Split, InHeap, Covers, Apart
<1>11. GoodList(free', (FreeNodes \ {n}) \cup R) /\ n \in FreeNodes
  <2>1. n \in FreeNodes
    BY <1>4, <1>5, LenProperties DEF HeapInv, FreeNodes, Range
  <2>2. CutInto(free[k], t, p)
    BY <1>5, <1>8
  <2>3. CASE t.size = n.size
    <3>1. GoodList(RemoveAt(free, k), FreeNodes \ {n})
      BY <2>2, <2>3, <1>4, <1>5, SplitList
    <3>2. R = {} /\ free' = RemoveAt(free, k)
      BY <2>3, <1>5, <1>6
    <3> QED BY <3>1, <3>2, <2>1
  <2>4. CASE t.size # n.size
    <3>1. GoodList(heap_add_node_to_list(RemoveAt(free, k), p),
                   (FreeNodes \ {n}) \cup {p})
      BY <2>2, <2>4, <1>4, <1>5, SplitList
    <3>2. R = {p} /\ free' = heap_add_node_to_list(RemoveAt(free, k), p)
      BY <2>4, <1>5, <1>6
    <3> QED BY <3>1, <3>2, <2>1
  <2> QED BY <2>3, <2>4
<1>12. PICK F1 : F1 = (FreeNodes \ {n}) \cup R
  OBVIOUS
<1>13. FreeNodes' = F1
  BY <1>11, <1>12 DEF FreeNodes, GoodList
<1>14. Tiled(F1, inuse \cup {u}, lost) /\ Tiled(F1, inuse, lost \cup {t})
  BY <1>10, <1>11, <1>12, SplitTiled DEF HeapInv
<1>15. Tiled(FreeNodes, inuse, lost)'
  BY <1>6, <1>13, <1>14 DEF Tiled
<1>16. FreeListOrdered'
  <2>1. free_size = Cardinality(Space(FreeNodes))
    BY DEF HeapInv, FreeListOrdered, FreeSpace, Space
  <2>2. \A q \in F1 : InHeap(q) /\ Apart(q, t)
    BY <1>14 DEF Tiled, Scattered, AllApart
  <2>3. \A x \in Nat : (\E q \in FreeNodes : Covers(q, x)) <=>
                         (\E q \in F1 : Covers(q, x)) \/ Covers(t, x)
    BY <1>10, <1>11, <1>12 DEF Split
  <2>4. Cardinality(Space(FreeNodes)) = Cardinality(Space(F1)) + t.size
    <3>1. MadeOf(FreeNodes, F1, t)
      BY <2>2, <2>3, <1>10 DEF MadeOf
    <3> QED BY <3>1, SpaceLess
  <2>5. t.size \in Nat /\ Cardinality(Space(F1)) \in Nat
    BY <1>10, SpaceFinite DEF InHeap
  <2>6. free_size' = Cardinality(Space(F1))
    BY <2>1, <2>4, <2>5, <1>6
  <2>7. FreeSpace' = Space(F1)
    BY <1>13 DEF FreeSpace, Space
  <2> QED BY <2>6, <2>7, <1>11 DEF FreeListOrdered, Increasing, GoodList
<1>17. \A q \in inuse' : \/ q \in inuse
                         \/ q = u
  BY <1>6
<1>18. UsedIsInside'
  BY <1>8, <1>9, <1>17 DEF UsedIsInside, HeapInv, UsedInside
<1>19. (\A q \in inuse : q.alignment \in Nat \ {0} /\ q.aligned_offset \in Nat
                           /\ q.aligned_size \in Nat)'
  BY <1>2, <1>8, <1>9, <1>17 DEF HeapInv, UsedInside
<1>20. NoFragments'
  BY <1>11, <1>12, <1>13 DEF NoFragments, GoodList
<1>21. (free \in Seq(FreeNode) /\ NoRepeats(free))'
  BY <1>11 DEF NoRepeats, GoodList
<1> QED BY <1>15, <1>16, <1>18, <1>19, <1>20, <1>21 DEF HeapInv

\* The neighbours of a node: the first that touches it, if one does.
LEMMA PrevFacts ==
  ASSUME NEW list \in Seq(FreeNode), NEW n, NEW i, i = PrevOf(list, n)
  PROVE  /\ i \in 0..Len(list)
         /\ i = 0 => \A m \in Range(list) : End(m) # n.offset
         /\ i # 0 => End(list[i]) = n.offset
<1> DEFINE I == {j \in 1..Len(list) : End(list[j]) = n.offset}
<1>1. i = IF I # {} THEN Min(I) ELSE 0
  BY DEF PrevOf, SelectInSeq
<1>2. Len(list) \in Nat /\ Range(list) = {list[j] : j \in 1..Len(list)}
  BY LenProperties DEF Range
<1>3. CASE I = {}
  BY <1>1, <1>2, <1>3
<1>4. CASE I # {}
  <2>1. I \in SUBSET (Nat \ {0})
    BY <1>2
  <2>2. i \in I
    BY <2>1, <1>1, <1>4, FirstPlace
  <2> QED BY <2>2, <1>2
<1> QED BY <1>3, <1>4

LEMMA NextFacts ==
  ASSUME NEW list \in Seq(FreeNode), NEW n, NEW i, i = NextOf(list, n)
  PROVE  /\ i \in 0..Len(list)
         /\ i = 0 => \A m \in Range(list) : m.offset # End(n)
         /\ i # 0 => list[i].offset = End(n)
<1> DEFINE I == {j \in 1..Len(list) : list[j].offset = End(n)}
<1>1. i = IF I # {} THEN Min(I) ELSE 0
  BY DEF NextOf, SelectInSeq
<1>2. Len(list) \in Nat /\ Range(list) = {list[j] : j \in 1..Len(list)}
  BY LenProperties DEF Range
<1>3. CASE I = {}
  BY <1>1, <1>2, <1>3
<1>4. CASE I # {}
  <2>1. I \in SUBSET (Nat \ {0})
    BY <1>2
  <2>2. i \in I
    BY <2>1, <1>1, <1>4, FirstPlace
  <2> QED BY <2>2, <1>2
<1> QED BY <1>3, <1>4

\* The node at a place, if there is one.
NodeAt(list, i) == IF i = 0 THEN {} ELSE {list[i]}

LEMMA WithoutFacts ==
  ASSUME NEW list \in Seq(FreeNode), NEW i \in 0..Len(list),
         NoRepeats(list), Increasing(list)
  PROVE  /\ Without(list, i) \in Seq(FreeNode) /\ NoRepeats(Without(list, i))
         /\ Increasing(Without(list, i))
         /\ NodeAt(list, i) \in SUBSET Range(list)
         /\ Range(Without(list, i)) = Range(list) \ NodeAt(list, i)
<1>1. CASE i = 0
  BY <1>1 DEF Without, NodeAt
<1>2. CASE i # 0
  <2>1. i \in 1..Len(list)
    BY <1>2, LenProperties
  <2>2. Without(list, i) = RemoveAt(list, i) /\ NodeAt(list, i) = {list[i]}
    BY <1>2 DEF Without, NodeAt
  <2> QED BY <2>1, <2>2, TakeNode
<1> QED BY <1>1, <1>2

LEMMA ReleaseStep ==
  ASSUME HeapInv, NEW n \in inuse, heap_release(n)
  PROVE  HeapInv'
<1>1. PICK prev, rest, next, m :
        /\ prev = PrevOf(free, n) /\ rest = Without(free, prev)
        /\ next = NextOf(rest, n)
        /\ m = [offset |-> IF prev = 0 THEN n.offset ELSE free[prev].offset,
                size |-> n.size + SizeAt(free, prev) + SizeAt(rest, next)]
        /\ inuse' = inuse \ {n}
        /\ free' = heap_add_node_to_list(Without(rest, next), m)
        /\ free_size' = free_size + n.size
        /\ lost' = lost
  BY DEF heap_release
<1>2. /\ free \in Seq(FreeNode) /\ NoRepeats(free) /\ Increasing(free)
      /\ Tiled(FreeNodes, inuse, lost)
      /\ \A q, r \in FreeNodes : End(q) # r.offset
      /\ Range(free) = FreeNodes
  BY DEF HeapInv, FreeListOrdered, NoFragments, FreeNodes
<1>3. PICK P, Q, F1 :
        /\ P = NodeAt(free, prev) /\ Q = NodeAt(rest, next)
        /\ F1 = (FreeNodes \ (P \cup Q)) \cup {m}
  OBVIOUS
<1>4. /\ prev \in 0..Len(free)
      /\ prev = 0 => \A q \in FreeNodes : End(q) # n.offset
      /\ prev # 0 => End(free[prev]) = n.offset
  BY <1>1, <1>2, PrevFacts
<1>5. /\ rest \in Seq(FreeNode) /\ NoRepeats(rest) /\ Increasing(rest)
      /\ P \subseteq FreeNodes /\ Range(rest) = FreeNodes \ P
  BY <1>1, <1>2, <1>3, <1>4, WithoutFacts
<1>6. /\ next \in 0..Len(rest)
      /\ next = 0 => \A q \in FreeNodes \ P : q.offset # End(n)
      /\ next # 0 => rest[next].offset = End(n)
  BY <1>1, <1>5, NextFacts
<1>7. PICK left : left = Without(rest, next)
  OBVIOUS
<1>8. /\ left \in Seq(FreeNode) /\ NoRepeats(left) /\ Increasing(left)
      /\ Q \subseteq FreeNodes \ P /\ Range(left) = FreeNodes \ (P \cup Q)
  <2>1. /\ left \in Seq(FreeNode) /\ NoRepeats(left) /\ Increasing(left)
        /\ Q \in SUBSET Range(rest) /\ Range(left) = Range(rest) \ Q
    BY <1>3, <1>5, <1>6, <1>7, WithoutFacts
  <2> QED BY <2>1, <1>5
<1>9. /\ InHeap(n) /\ \A q \in FreeNodes : InHeap(q) /\ Apart(q, n)
  BY <1>2 DEF Tiled, Scattered, AllApart
\* The ends of the merged node.
<1>10. /\ P = {} => m.offset = n.offset /\ \A q \in FreeNodes : End(q) # n.offset
       /\ \A g \in P : m.offset = g.offset /\ End(g) = n.offset
       /\ P = {} \/ \E g \in P : P = {g}
  BY <1>1, <1>3, <1>4 DEF NodeAt
<1>11. /\ Q = {} => /\ End(m) = End(n)
                    /\ \A q \in FreeNodes \ P : q.offset # End(n)
       /\ \A g \in Q : End(m) = End(g) /\ g.offset = End(n)
       /\ Q = {} \/ \E g \in Q : Q = {g}
  <2>1. /\ SizeAt(free, prev) \in Nat
        /\ m.offset + SizeAt(free, prev) = n.offset
    <3>1. CASE prev = 0
      BY <3>1, <1>1, <1>9 DEF SizeAt, InHeap
    <3>2. CASE prev # 0
      <4>1. InHeap(free[prev]) /\ End(free[prev]) = n.offset
        BY <3>2, <1>3, <1>4, <1>5, <1>9 DEF NodeAt
      <4> QED BY <3>2, <4>1, <1>1 DEF SizeAt, InHeap, End
    <3> QED BY <3>1, <3>2
  <2>2. /\ SizeAt(rest, next) \in Nat
        /\ next # 0 => End(rest[next]) = End(n) + SizeAt(rest, next)
        /\ next = 0 => SizeAt(rest, next) = 0
    <3>1. CASE next = 0
      BY <3>1 DEF SizeAt
    <3>2. CASE next # 0
      <4>1. InHeap(rest[next]) /\ rest[next].offset = End(n)
        BY <3>2, <1>3, <1>6, <1>8, <1>9 DEF NodeAt
      <4> QED BY <3>2, <4>1 DEF SizeAt, InHeap, End
    <3> QED BY <3>1, <3>2
  <2>3. m.size = n.size + SizeAt(free, prev) + SizeAt(rest, next)
    BY <1>1
  <2>4. m.offset \in Nat
    BY <1>5, <1>9, <1>10 DEF InHeap
  <2>5. End(m) = End(n) + SizeAt(rest, next)
    BY <2>1, <2>2, <2>3, <2>4, <1>9 DEF InHeap, End
  <2>6. End(n) \in Nat
    BY <1>9 DEF InHeap, End
  <2> QED BY <2>2, <2>5, <2>6, <1>3, <1>6 DEF NodeAt
<1>12. m.offset \in Nat /\ m.size \in Nat /\ m = [offset |-> m.offset, size |-> m.size]
  <2>1. m.offset \in Nat
    BY <1>5, <1>9, <1>10 DEF InHeap
  <2>2. SizeAt(free, prev) \in Nat
    BY <1>3, <1>4, <1>5, <1>9 DEF SizeAt, InHeap, NodeAt
  <2>3. SizeAt(rest, next) \in Nat
    BY <1>3, <1>6, <1>8, <1>9 DEF SizeAt, InHeap, NodeAt
  <2>4. n.size \in Nat
    BY <1>9 DEF InHeap
  <2> QED BY <2>1, <2>2, <2>3, <2>4, <1>1
<1>13. /\ InHeap(m) /\ m.offset <= n.offset /\ End(n) <= End(m)
  <2>1. /\ m.offset <= n.offset /\ Start <= m.offset
    BY <1>9, <1>10, <1>5 DEF InHeap, End
  <2>2. /\ End(n) <= End(m) /\ End(m) <= Start + Size
    BY <1>8, <1>9, <1>11 DEF InHeap, End
  <2> QED BY <2>1, <2>2, <1>9, <1>12, HeapAssumption DEF InHeap, End
<1>14. m \in FreeNode
  BY <1>12, <1>13 DEF FreeNode, InHeap
<1>15. \A x \in Nat : Covers(m, x) <=> \E g \in (P \cup Q) \cup {n} : Covers(g, x)
  <2> SUFFICES ASSUME NEW x \in Nat
               PROVE  Covers(m, x) <=> \E g \in (P \cup Q) \cup {n} : Covers(g, x)
    OBVIOUS
  <2>1. Covers(m, x) <=> \/ m.offset <= x /\ x < n.offset
                         \/ Covers(n, x)
                         \/ End(n) <= x /\ x < End(m)
    BY <1>9, <1>12, <1>13 DEF Covers, InHeap, End
  <2>2. m.offset <= x /\ x < n.offset <=> \E g \in P : Covers(g, x)
    <3>1. CASE P = {}
      BY <3>1, <1>9, <1>10 DEF InHeap
    <3>2. CASE P # {}
      BY <3>2, <1>10 DEF Covers
    <3> QED BY <3>1, <3>2
  <2>3. End(n) <= x /\ x < End(m) <=> \E g \in Q : Covers(g, x)
    <3>1. CASE Q = {}
      BY <3>1, <1>9, <1>11 DEF InHeap, End
    <3>2. CASE Q # {}
      BY <3>2, <1>11 DEF Covers
    <3> QED BY <3>1, <3>2
  <2> QED BY <2>1, <2>2, <2>3
<1>16. Tiled(F1, inuse \ {n}, lost)
  <2>1. P \cup Q \in SUBSET FreeNodes
    BY <1>5, <1>8
  <2> QED BY <2>1, <1>2, <1>3, <1>13, <1>15, MergeTiled
<1>17. m \notin Range(left)
  <2>1. n.offset \in Nat /\ Covers(n, n.offset) /\ Covers(m, n.offset)
    BY <1>9, <1>13 DEF Covers, InHeap, End
  <2>2. \A q \in Range(left) : InHeap(q) /\ Apart(q, n)
    BY <1>8, <1>9
  <2> QED BY <2>1, <2>2, <1>9, <1>13, MeetsNot
<1>18. /\ free' \in Seq(FreeNode) /\ NoRepeats(free') /\ Increasing(free')
       /\ Range(free') = F1
  <2>1. free' = heap_add_node_to_list(left, m)
    BY <1>1, <1>7
  <2> QED BY <2>1, <1>3, <1>8, <1>14, <1>17, AddNode
<1>19. FreeNodes' = F1
  BY <1>18 DEF FreeNodes
<1>20. Tiled(FreeNodes, inuse, lost)'
  BY <1>1, <1>16, <1>19 DEF Tiled
<1>21. FreeListOrdered'
  <2>1. free_size = Cardinality(Space(FreeNodes))
    BY DEF HeapInv, FreeListOrdered, FreeSpace, Space
  <2>2. MadeOf(F1, FreeNodes, n)
    <3>1. \A x \in Nat : (\E q \in F1 : Covers(q, x)) <=>
                           (\E q \in FreeNodes : Covers(q, x)) \/ Covers(n, x)
      BY <1>3, <1>5, <1>8, <1>15
    <3> QED BY <3>1, <1>9 DEF MadeOf
  <2>3. Cardinality(Space(F1)) = Cardinality(Space(FreeNodes)) + n.size
    BY <2>2, SpaceLess
  <2>4. free_size' = Cardinality(Space(F1))
    BY <2>1, <2>3, <1>1
  <2>5. FreeSpace' = Space(F1)
    BY <1>19 DEF FreeSpace, Space
  <2> QED BY <2>4, <2>5, <1>18 DEF FreeListOrdered, Increasing
<1>22. UsedIsInside'
  BY <1>1 DEF UsedIsInside, HeapInv
<1>23. (\A q \in inuse : q.alignment \in Nat \ {0} /\ q.aligned_offset \in Nat
                           /\ q.aligned_size \in Nat)'
  BY <1>1 DEF HeapInv
<1>24. \A q, r \in F1 : End(q) # r.offset
  <2>1. ASSUME NEW q \in FreeNodes \ (P \cup Q)
        PROVE  End(q) # m.offset
    <3>1. CASE P = {}
      BY <3>1, <1>10
    <3>2. CASE P # {}
      BY <3>2, <1>2, <1>5, <1>10
    <3> QED BY <3>1, <3>2
  <2>2. ASSUME NEW q \in FreeNodes \ (P \cup Q)
        PROVE  End(m) # q.offset
    <3>1. CASE Q = {}
      BY <3>1, <1>11
    <3>2. CASE Q # {}
      BY <3>2, <1>2, <1>8, <1>11
    <3> QED BY <3>1, <3>2
  <2>3. End(m) # m.offset
    BY <1>13 DEF InHeap, End
  <2> QED BY <2>1, <2>2, <2>3, <1>2, <1>3
<1>25. NoFragments'
  BY <1>19, <1>24 DEF NoFragments
<1>26. (free \in Seq(FreeNode) /\ NoRepeats(free))'
  BY <1>18 DEF NoRepeats
<1> QED BY <1>20, <1>21, <1>22, <1>23, <1>25, <1>26 DEF HeapInv

-----------------------------------------------------------------------------
(* The theorems.                                                           *)

LEMMA InitInv == HeapInit => HeapInv
<1> SUFFICES ASSUME HeapInit
             PROVE  HeapInv
  OBVIOUS
<1>1. PICK n : n = [offset |-> Start, size |-> Size]
  OBVIOUS
<1>2. /\ n \in FreeNode /\ n.offset = Start /\ n.size = Size
      /\ InHeap(n)
  BY <1>1, HeapAssumption DEF FreeNode, InHeap, End
<1>3. free = <<n>> /\ free_size = Size /\ inuse = {} /\ lost = {}
  BY <1>1 DEF HeapInit
<1>4. /\ free \in Seq(FreeNode) /\ Len(free) = 1 /\ free[1] = n
      /\ FreeNodes = {n}
  BY <1>2, <1>3 DEF FreeNodes, Range
<1>5. NoRepeats(free) /\ Increasing(free)
  BY <1>4 DEF NoRepeats, Increasing
<1>6. Tiled(FreeNodes, inuse, lost)
  BY <1>2, <1>3, <1>4, HeapAssumption DEF Tiled, Scattered, AllApart, Covers, End
<1>7. NoFragments /\ UsedIsInside
  BY <1>2, <1>3, <1>4 DEF NoFragments, UsedIsInside, InHeap, End
<1>8. FreeListOrdered
  <2>1. FreeSpace = Space({n})
    BY <1>4 DEF FreeSpace, Space
  <2> QED BY <2>1, <1>2, <1>3, <1>5, NodeSpace DEF FreeListOrdered
<1> QED BY <1>3, <1>4, <1>5, <1>6, <1>7, <1>8 DEF HeapInv

LEMMA HeapInvariant == HeapSpec => []HeapInv
<1>1. ASSUME HeapInv, [HeapNext]_heapVars
      PROVE  HeapInv'
  <2>1. ASSUME NEW size \in AllocSizes, NEW alignment \in Alignments,
               NEW direction \in BOOLEAN, heap_allocate(size, alignment, direction)
        PROVE  HeapInv'
    BY <1>1, <2>1, AllocateStep
  <2>2. ASSUME NEW n \in inuse, heap_release(n)
        PROVE  HeapInv'
    BY <1>1, <2>2, ReleaseStep
  <2>3. CASE UNCHANGED heapVars
    <3>1. /\ free' = free /\ free_size' = free_size /\ inuse' = inuse /\ lost' = lost
      BY <2>3 DEF heapVars
    <3> QED BY <3>1, <1>1
          DEF HeapInv, FreeListOrdered, FreeSpace, FreeNodes, Increasing,
              NoRepeats, Tiled, NoFragments, UsedIsInside
  <2> QED BY <1>1, <2>1, <2>2, <2>3 DEF HeapNext
<1> QED BY <1>1, InitInv, PTL DEF HeapSpec

\* Every address of a heap is in exactly one node, free or in use, unless a node
\* could not be created for it: heap_allocate and heap_release never hand out an
\* address twice and lose none.
THEOREM HeapTiled == HeapSpec => []HeapIsTiled
<1>1. HeapInv => HeapIsTiled
  BY TiledCounts DEF HeapInv
<1> QED BY <1>1, HeapInvariant, PTL

\* The part of a node that its owner uses is aligned as he asked and inside it.
THEOREM UsedInsideNode == HeapSpec => []UsedIsInside
<1>1. HeapInv => UsedIsInside
  BY DEF HeapInv
<1> QED BY <1>1, HeapInvariant, PTL

\* heap_release leaves no two free nodes that touch.
THEOREM NothingFragmented == HeapSpec => []NoFragments
<1>1. HeapInv => NoFragments
  BY DEF HeapInv
<1> QED BY <1>1, HeapInvariant, PTL

\* The free list stays ordered by size, and heap->free.size is the free space.
THEOREM FreeListCorrect == HeapSpec => []FreeListOrdered
<1>1. HeapInv => FreeListOrdered
  BY DEF HeapInv
<1> QED BY <1>1, HeapInvariant, PTL
=============================================================================
