--------------------------- MODULE Emitter_proofs ---------------------------
(* Proofs about Emitter, for every set of roots, whatever they render to that  *)
(* RenderAssumption allows, and every set of signals, values, texts and actions: *)
(* the retained tree is what the views render to, inputs reach their owners,   *)
(* what is as it was makes no frame, and the page that has had every frame     *)
(* shows the retained tree.                                                    *)
EXTENDS Emitter, ListFacts, FiniteSetTheorems

-----------------------------------------------------------------------------
(* Paths.                                                                    *)

LEMMA PrefixIs ==
  ASSUME NEW p \in Paths, NEW q \in Paths
  PROVE  /\ IsPrefix(p, q) <=> Len(p) <= Len(q) /\ \A k \in 1 .. Len(p) : p[k] = q[k]
         /\ IsStrictPrefix(p, q) <=> IsPrefix(p, q) /\ Len(p) < Len(q)
<1>1. Len(p) \in Nat /\ Len(q) \in Nat BY DEF Paths
<1>2. SubSeq(p, 1, Len(p)) = p BY DEF Paths
<1>3. ASSUME Len(p) <= Len(q)
      PROVE  /\ SubSeq(q, 1, Len(p)) \in Paths /\ Len(SubSeq(q, 1, Len(p))) = Len(p)
             /\ \A k \in 1 .. Len(p) : SubSeq(q, 1, Len(p))[k] = q[k]
  BY <1>1, <1>3 DEF Paths
<1>4. ASSUME Len(p) <= Len(q), \A k \in 1 .. Len(p) : p[k] = q[k]
      PROVE  p = SubSeq(q, 1, Len(p))
  BY <1>1, <1>3, <1>4 DEF Paths
<1>5. IsPrefix(p, q) <=> Len(p) <= Len(q) /\ \A k \in 1 .. Len(p) : p[k] = q[k]
  BY <1>1, <1>2, <1>3, <1>4 DEF IsPrefix
<1>6. ASSUME IsPrefix(p, q), Len(p) = Len(q) PROVE p = q
  BY <1>1, <1>5, <1>6 DEF Paths
<1>7. QED BY <1>1, <1>5, <1>6 DEF IsStrictPrefix

\* Prefixes are in order, and those of one path one after the other.
LEMMA PrefixOrder ==
  ASSUME NEW p \in Paths, NEW q \in Paths, NEW r \in Paths
  PROVE  /\ IsPrefix(p, p) /\ IsPrefix(<<>>, p) /\ ~IsStrictPrefix(p, p)
         /\ IsPrefix(p, q) <=> IsStrictPrefix(p, q) \/ p = q
         /\ IsPrefix(p, q) /\ IsPrefix(q, r) => IsPrefix(p, r)
         /\ IsStrictPrefix(p, q) /\ IsPrefix(q, r) => IsStrictPrefix(p, r)
         /\ IsPrefix(p, q) /\ IsStrictPrefix(q, r) => IsStrictPrefix(p, r)
         /\ IsPrefix(p, r) /\ IsPrefix(q, r) => IsPrefix(p, q) \/ IsStrictPrefix(q, p)
<1>1. Len(p) \in Nat /\ Len(q) \in Nat /\ Len(r) \in Nat /\ <<>> \in Paths /\ Len(<<>>) = 0
  BY DEF Paths
<1>2. IsPrefix(p, p) /\ IsPrefix(<<>>, p) BY <1>1, PrefixIs
<1>3. IsPrefix(p, q) <=> IsStrictPrefix(p, q) \/ p = q BY <1>2 DEF IsStrictPrefix
<1>4. ~IsStrictPrefix(p, p) BY DEF IsStrictPrefix
<1>5. IsPrefix(p, q) /\ IsPrefix(q, r) => IsPrefix(p, r)
  <2> SUFFICES ASSUME IsPrefix(p, q), IsPrefix(q, r) PROVE IsPrefix(p, r) OBVIOUS
  <2>1. Len(p) <= Len(q) /\ Len(q) <= Len(r) BY PrefixIs
  <2>2. \A k \in 1 .. Len(p) : p[k] = q[k] BY PrefixIs
  <2>3. \A k \in 1 .. Len(q) : q[k] = r[k] BY PrefixIs
  <2>4. \A k \in 1 .. Len(p) : k \in 1 .. Len(q) BY <1>1, <2>1
  <2>5. \A k \in 1 .. Len(p) : p[k] = r[k] BY <2>2, <2>3, <2>4
  <2>6. QED BY <1>1, <2>1, <2>5, PrefixIs
<1>6. Len(p) < Len(q) /\ Len(q) <= Len(r) => Len(p) < Len(r) BY <1>1
<1>7. Len(p) <= Len(q) /\ Len(q) < Len(r) => Len(p) < Len(r) BY <1>1
<1>8. ASSUME IsPrefix(p, r), IsPrefix(q, r) PROVE IsPrefix(p, q) \/ IsStrictPrefix(q, p)
  <2>1. \A k \in 1 .. Len(p) : p[k] = r[k] BY <1>8, PrefixIs
  <2>2. \A k \in 1 .. Len(q) : q[k] = r[k] BY <1>8, PrefixIs
  <2>3. CASE Len(p) <= Len(q)
    <3>1. \A k \in 1 .. Len(p) : k \in 1 .. Len(q) BY <1>1, <2>3
    <3>2. \A k \in 1 .. Len(p) : p[k] = q[k] BY <2>1, <2>2, <3>1
    <3>3. QED BY <2>3, <3>2, PrefixIs
  <2>4. CASE Len(q) < Len(p)
    <3>1. \A k \in 1 .. Len(q) : k \in 1 .. Len(p) BY <1>1, <2>4
    <3>2. \A k \in 1 .. Len(q) : q[k] = p[k] BY <2>1, <2>2, <3>1
    <3>3. IsPrefix(q, p) BY <1>1, <2>4, <3>2, PrefixIs
    <3>4. QED BY <2>4, <3>3, PrefixIs
  <2>5. QED BY <1>1, <2>3, <2>4
<1>9. QED BY <1>2, <1>3, <1>4, <1>5, <1>6, <1>7, <1>8, PrefixIs

\* The prefixes of a path, by length; the longest but itself is its parent.
LEMMA PrefixOf ==
  ASSUME NEW q \in Paths, NEW n \in 0 .. Len(q)
  PROVE  /\ SubSeq(q, 1, n) \in Paths /\ Len(SubSeq(q, 1, n)) = n
         /\ IsPrefix(SubSeq(q, 1, n), q)
         /\ \A k \in 1 .. n : SubSeq(q, 1, n)[k] = q[k]
<1> DEFINE r == SubSeq(q, 1, n)
<1>1. Len(q) \in Nat /\ n <= Len(q) BY DEF Paths
<1>2. r \in Paths /\ Len(r) = n /\ \A k \in 1 .. n : r[k] = q[k]
  BY <1>1 DEF Paths
<1> HIDE DEF r
<1>3. IsPrefix(r, q) BY <1>1, <1>2, PrefixIs
<1>4. QED BY <1>2, <1>3 DEF r

LEMMA FrontIs ==
  ASSUME NEW q \in Paths, q # <<>>
  PROVE  /\ Len(q) \in Nat \ {0} /\ Front(q) \in Paths /\ Len(Front(q)) = Len(q) - 1
         /\ IsStrictPrefix(Front(q), q)
         /\ \A p \in Paths : IsStrictPrefix(p, q) => IsPrefix(p, Front(q))
         /\ Last(q) \in Nat \ {0} /\ q = Append(Front(q), Last(q))
<1>1. Len(q) \in Nat \ {0} BY DEF Paths
<1>2. Len(q) - 1 \in 0 .. Len(q) BY <1>1
<1>3. Front(q) = SubSeq(q, 1, Len(q) - 1) BY DEF Front
<1>4. /\ Front(q) \in Paths /\ Len(Front(q)) = Len(q) - 1 /\ IsPrefix(Front(q), q)
      /\ \A k \in 1 .. Len(q) - 1 : Front(q)[k] = q[k]
  BY <1>2, <1>3, PrefixOf
<1>5. IsStrictPrefix(Front(q), q) BY <1>1, <1>4, PrefixIs
<1>6. ASSUME NEW p \in Paths, IsStrictPrefix(p, q) PROVE IsPrefix(p, Front(q))
  <2>1. Len(p) \in Nat /\ Len(p) < Len(q) /\ \A k \in 1 .. Len(p) : p[k] = q[k]
    BY <1>6, PrefixIs DEF Paths
  <2>2. Len(p) <= Len(q) - 1 /\ \A k \in 1 .. Len(p) : k \in 1 .. Len(q) - 1
    BY <1>1, <2>1
  <2>3. QED BY <1>4, <2>1, <2>2, PrefixIs
<1>7. Last(q) \in Nat \ {0} /\ q = Append(Front(q), Last(q))
  <2>1. Last(q) = q[Len(q)] /\ q[Len(q)] \in Nat \ {0} BY <1>1 DEF Last, Paths
  <2>2. /\ Append(Front(q), Last(q)) \in Paths
        /\ Len(Append(Front(q), Last(q))) = Len(q)
        /\ \A k \in 1 .. Len(q) : Append(Front(q), Last(q))[k] = q[k]
    BY <1>1, <1>4, <2>1 DEF Paths
  <2>3. QED BY <1>1, <2>1, <2>2 DEF Paths
<1>8. QED BY <1>1, <1>4, <1>5, <1>6, <1>7

LEMMA NthIs ==
  ASSUME NEW p \in Paths, NEW i \in Nat \ {0}
  PROVE  /\ Nth(p, i) \in Paths /\ Len(Nth(p, i)) = Len(p) + 1
         /\ IsStrictPrefix(p, Nth(p, i))
         /\ Front(Nth(p, i)) = p /\ Last(Nth(p, i)) = i /\ Nth(p, i) # <<>>
<1>1. Len(p) \in Nat BY DEF Paths
<1>2. /\ Nth(p, i) \in Paths /\ Len(Nth(p, i)) = Len(p) + 1
      /\ \A k \in 1 .. Len(p) : p[k] = Nth(p, i)[k]
      /\ Nth(p, i)[Len(p) + 1] = i
  BY <1>1 DEF Nth, Paths
<1>3. IsStrictPrefix(p, Nth(p, i)) BY <1>1, <1>2, PrefixIs
<1>4. Front(Nth(p, i)) = p BY <1>1 DEF Nth, Front, Paths
<1>5. Last(Nth(p, i)) = i BY <1>2 DEF Last
<1>6. Nth(p, i) # <<>> BY <1>1, <1>2
<1>7. QED BY <1>2, <1>3, <1>4, <1>5, <1>6

\* A set of paths has a topmost one.
LEMMA Topmost ==
  ASSUME NEW S \in SUBSET Paths, S # {}
  PROVE  \E p \in S : \A r \in S : ~IsStrictPrefix(r, p)
<1> DEFINE T == {Len(q) : q \in S}
<1>1. \A q \in S : Len(q) \in Nat BY DEF Paths
<1>2. T \in SUBSET Nat /\ T # {} BY <1>1
<1>3. PICK n \in T : \A m \in T : n <= m
  <2> HIDE DEF T
  <2>1. QED BY <1>2, Smallest
<1>4. PICK p \in S : Len(p) = n OBVIOUS
<1>5. ASSUME NEW r \in S, IsStrictPrefix(r, p) PROVE FALSE
  <2>1. Len(r) < Len(p) BY <1>5, PrefixIs
  <2>2. Len(p) <= Len(r) BY <1>3, <1>4
  <2>3. QED BY <2>1, <2>2, <1>1
<1>6. QED BY <1>4, <1>5

\* All that is above a node is in the tree.
Rooted(paths) == \A q \in paths : \A p \in Paths : IsPrefix(p, q) => p \in paths

LEMMA TreeRooted ==
  ASSUME NEW t, IsTree(t)
  PROVE  Rooted(DOMAIN t)
<1> DEFINE Bad == {q \in DOMAIN t : \E p \in Paths : IsPrefix(p, q) /\ p \notin DOMAIN t}
<1>1. DOMAIN t \in SUBSET Paths /\ <<>> \in DOMAIN t
  BY DEF IsTree
<1>2. ASSUME Bad # {} PROVE FALSE
  <2>1. Bad \in SUBSET Paths BY <1>1
  <2>2. PICK q \in Bad : \A r \in Bad : ~IsStrictPrefix(r, q)
    <3> HIDE DEF Bad
    <3>1. QED BY <1>2, <2>1, Topmost
  <2>3. q \in DOMAIN t /\ q \in Paths BY <1>1
  <2>4. PICK p \in Paths : IsPrefix(p, q) /\ p \notin DOMAIN t OBVIOUS
  <2>5. IsStrictPrefix(p, q) BY <2>3, <2>4, PrefixOrder
  <2>6. q # <<>>
    <3>1. Len(p) \in Nat /\ Len(p) < Len(q) BY <2>3, <2>5, PrefixIs DEF Paths
    <3>2. QED BY <3>1
  <2>7. Front(q) \in DOMAIN t BY <2>3, <2>6 DEF IsTree
  <2>8. IsStrictPrefix(Front(q), q) /\ IsPrefix(p, Front(q)) BY <2>3, <2>5, <2>6, FrontIs
  <2>9. Front(q) \in Bad BY <2>4, <2>7, <2>8
  <2>10. QED BY <2>2, <2>8, <2>9
<1>3. QED BY <1>2 DEF Rooted

\* What a slot holds lies below its first child.
LEMMA BelowSlot ==
  ASSUME NEW t, IsTree(t), NEW p \in DOMAIN t, t[p].slot # None,
         NEW q \in DOMAIN t, IsStrictPrefix(p, q)
  PROVE  IsPrefix(Nth(p, 1), q)
<1>1. p \in Paths /\ q \in Paths BY DEF IsTree
<1>2. Len(p) \in Nat /\ Len(q) \in Nat /\ Len(p) < Len(q) BY <1>1, PrefixIs DEF Paths
<1> DEFINE r == SubSeq(q, 1, Len(p) + 1)
<1>3. Len(p) + 1 \in 0 .. Len(q) BY <1>2
<1>4. /\ r \in Paths /\ Len(r) = Len(p) + 1 /\ IsPrefix(r, q)
      /\ \A k \in 1 .. Len(p) + 1 : r[k] = q[k]
  BY <1>1, <1>3, PrefixOf
<1> HIDE DEF r
<1>5. r \in DOMAIN t BY <1>4, TreeRooted DEF Rooted
<1>6. r # <<>> BY <1>2, <1>4
<1>7. /\ Front(r) \in Paths /\ Len(Front(r)) = Len(p) /\ r = Append(Front(r), Last(r))
  BY <1>2, <1>4, <1>6, FrontIs
<1>8. IsPrefix(Front(r), q)
  <2>1. IsPrefix(Front(r), r) BY <1>4, <1>6, <1>7, FrontIs, PrefixOrder
  <2>2. QED BY <2>1, <1>1, <1>4, <1>7, PrefixOrder
<1>9. Front(r) = p
  <2>1. IsPrefix(p, q) BY <1>1, PrefixIs
  <2>2. IsPrefix(p, Front(r)) \/ IsStrictPrefix(Front(r), p) BY <2>1, <1>1, <1>7, <1>8, PrefixOrder
  <2>3. QED BY <2>2, <1>1, <1>2, <1>7, PrefixIs, PrefixOrder
<1>10. Last(r) = 1 BY <1>5, <1>6, <1>9 DEF IsTree
<1>11. r = Nth(p, 1) BY <1>7, <1>9, <1>10 DEF Nth
<1>12. QED BY <1>4, <1>11

-----------------------------------------------------------------------------
(* The order of a walk, and the ids given in it.                              *)

LEMMA BeforeIs ==
  ASSUME NEW q \in Paths, NEW r \in Paths
  PROVE  Before(q, r) <=>
           \/ IsStrictPrefix(q, r)
           \/ \E i \in 1 .. Len(q) : i <= Len(r) /\ q[i] < r[i]
                                     /\ \A k \in 1 .. i - 1 : q[k] = r[k]
<1>1. Len(q) \in Nat /\ Len(r) \in Nat BY DEF Paths
<1>2. DOMAIN q = 1 .. Len(q) /\ DOMAIN r = 1 .. Len(r) BY DEF Paths
<1>3. ASSUME NEW i \in 1 .. Len(q), i <= Len(r)
      PROVE  SubSeq(q, 1, i - 1) = SubSeq(r, 1, i - 1) <=> \A k \in 1 .. i - 1 : q[k] = r[k]
  <2> DEFINE a == SubSeq(q, 1, i - 1)
             b == SubSeq(r, 1, i - 1)
  <2>1. i - 1 \in 0 .. Len(q) /\ i - 1 \in 0 .. Len(r) BY <1>1, <1>3
  <2>2. a \in Paths /\ Len(a) = i - 1 /\ \A k \in 1 .. i - 1 : a[k] = q[k]
    BY <2>1, PrefixOf
  <2>3. b \in Paths /\ Len(b) = i - 1 /\ \A k \in 1 .. i - 1 : b[k] = r[k]
    BY <2>1, PrefixOf
  <2> HIDE DEF a, b
  <2>4. a = b <=> \A k \in 1 .. i - 1 : a[k] = b[k]
    BY <2>1, <2>2, <2>3 DEF Paths
  <2>5. QED BY <2>2, <2>3, <2>4 DEF a, b
<1> DEFINE Turn(i) == q[i] < r[i] /\ SubSeq(q, 1, i - 1) = SubSeq(r, 1, i - 1)
           Differ(i) == q[i] < r[i] /\ \A k \in 1 .. i - 1 : q[k] = r[k]
<1>4. \A i \in 1 .. Len(q) : i <= Len(r) => (Turn(i) <=> Differ(i)) BY <1>3
<1>5. Before(q, r) <=> IsStrictPrefix(q, r) \/ \E i \in DOMAIN q \intersect DOMAIN r : Turn(i)
  BY DEF Before
<1>6. \A i : i \in DOMAIN q \intersect DOMAIN r <=> i \in 1 .. Len(q) /\ i <= Len(r)
  BY <1>1, <1>2
<1> HIDE DEF Turn
<1>7. QED BY <1>4, <1>5, <1>6

\* It is a strict order, and total.
LEMMA BeforeOrder ==
  ASSUME NEW p \in Paths, NEW q \in Paths, NEW r \in Paths
  PROVE  /\ ~Before(p, p)
         /\ Before(p, q) /\ Before(q, r) => Before(p, r)
         /\ p = q \/ Before(p, q) \/ Before(q, p)
<1>1. Len(p) \in Nat /\ Len(q) \in Nat /\ Len(r) \in Nat BY DEF Paths
<1>2. /\ \A k \in 1 .. Len(p) : p[k] \in Nat
      /\ \A k \in 1 .. Len(q) : q[k] \in Nat
      /\ \A k \in 1 .. Len(r) : r[k] \in Nat
  BY DEF Paths
<1>3. ~Before(p, p) BY <1>2, BeforeIs, PrefixOrder
<1>4. ASSUME Before(p, q), Before(q, r) PROVE Before(p, r)
  <2>1. CASE IsStrictPrefix(p, q) /\ IsStrictPrefix(q, r)
    <3>1. IsStrictPrefix(p, r) BY <2>1, PrefixOrder
    <3>2. QED BY <3>1, BeforeIs
  <2>2. ASSUME IsStrictPrefix(p, q),
               NEW i \in 1 .. Len(q), i <= Len(r), q[i] < r[i], \A k \in 1 .. i - 1 : q[k] = r[k]
        PROVE  Before(p, r)
    <3>1. Len(p) < Len(q) /\ \A k \in 1 .. Len(p) : p[k] = q[k] BY <2>2, PrefixIs
    <3>2. CASE i <= Len(p)
      <4>1. i \in 1 .. Len(p) /\ p[i] < r[i] BY <1>1, <2>2, <3>1, <3>2
      <4>2. \A k \in 1 .. i - 1 : k \in 1 .. Len(p) BY <1>1, <3>2
      <4>3. \A k \in 1 .. i - 1 : p[k] = r[k] BY <2>2, <3>1, <4>2
      <4>4. QED BY <2>2, <4>1, <4>3, BeforeIs
    <3>3. CASE Len(p) < i
      <4>1. Len(p) < Len(r) BY <1>1, <2>2, <3>3
      <4>2. \A k \in 1 .. Len(p) : k \in 1 .. i - 1 BY <1>1, <3>3
      <4>3. \A k \in 1 .. Len(p) : p[k] = r[k] BY <2>2, <3>1, <4>2
      <4>4. IsStrictPrefix(p, r) BY <1>1, <4>1, <4>3, PrefixIs
      <4>5. QED BY <4>4, BeforeIs
    <3>4. QED BY <1>1, <3>2, <3>3
  <2>3. ASSUME NEW i \in 1 .. Len(p), i <= Len(q), p[i] < q[i], \A k \in 1 .. i - 1 : p[k] = q[k],
               IsStrictPrefix(q, r)
        PROVE  Before(p, r)
    <3>1. Len(q) < Len(r) /\ \A k \in 1 .. Len(q) : q[k] = r[k] BY <2>3, PrefixIs
    <3>2. i <= Len(r) /\ p[i] < r[i] BY <1>1, <2>3, <3>1
    <3>3. \A k \in 1 .. i - 1 : k \in 1 .. Len(q) BY <1>1, <2>3
    <3>4. \A k \in 1 .. i - 1 : p[k] = r[k] BY <2>3, <3>1, <3>3
    <3>5. QED BY <3>2, <3>4, BeforeIs
  <2>4. ASSUME NEW i \in 1 .. Len(p), i <= Len(q), p[i] < q[i], \A k \in 1 .. i - 1 : p[k] = q[k],
               NEW j \in 1 .. Len(q), j <= Len(r), q[j] < r[j], \A k \in 1 .. j - 1 : q[k] = r[k]
        PROVE  Before(p, r)
    <3>1. CASE i < j
      <4>1. i <= Len(r) /\ i \in 1 .. j - 1 /\ p[i] < r[i] BY <1>1, <2>4, <3>1
      <4>2. \A k \in 1 .. i - 1 : k \in 1 .. j - 1 BY <1>1, <3>1
      <4>3. \A k \in 1 .. i - 1 : p[k] = r[k] BY <2>4, <4>2
      <4>4. QED BY <4>1, <4>3, BeforeIs
    <3>2. CASE i = j
      <4>1. p[i] \in Nat /\ q[i] \in Nat /\ r[i] \in Nat BY <1>1, <1>2, <2>4, <3>2
      <4>2. p[i] < r[i] /\ \A k \in 1 .. i - 1 : p[k] = r[k] BY <2>4, <3>2, <4>1
      <4>3. QED BY <4>2, <2>4, <3>2, BeforeIs
    <3>3. CASE j < i
      <4>1. j \in 1 .. Len(p) /\ j \in 1 .. i - 1 BY <1>1, <2>4, <3>3
      <4>2. p[j] < r[j] BY <2>4, <4>1
      <4>3. \A k \in 1 .. j - 1 : k \in 1 .. i - 1 BY <1>1, <3>3
      <4>4. \A k \in 1 .. j - 1 : p[k] = r[k] BY <2>4, <4>3
      <4>5. QED BY <4>1, <4>2, <4>4, <2>4, BeforeIs
    <3>4. i \in Nat /\ j \in Nat BY <1>1
    <3>5. QED BY <3>1, <3>2, <3>3, <3>4
  <2>5. CASE IsStrictPrefix(p, q)
    <3>1. CASE IsStrictPrefix(q, r) BY <2>1, <2>5, <3>1
    <3>2. CASE ~IsStrictPrefix(q, r)
      <4>1. PICK i \in 1 .. Len(q) : i <= Len(r) /\ q[i] < r[i] /\ \A k \in 1 .. i - 1 : q[k] = r[k]
        BY <1>4, <3>2, BeforeIs
      <4>2. QED BY <2>2, <2>5, <4>1
    <3>3. QED BY <3>1, <3>2
  <2>6. CASE ~IsStrictPrefix(p, q)
    <3>1. PICK i \in 1 .. Len(p) : i <= Len(q) /\ p[i] < q[i] /\ \A k \in 1 .. i - 1 : p[k] = q[k]
      BY <1>4, <2>6, BeforeIs
    <3>2. CASE IsStrictPrefix(q, r) BY <2>3, <3>1, <3>2
    <3>3. CASE ~IsStrictPrefix(q, r)
      <4>1. PICK j \in 1 .. Len(q) : j <= Len(r) /\ q[j] < r[j] /\ \A k \in 1 .. j - 1 : q[k] = r[k]
        BY <1>4, <3>3, BeforeIs
      <4>2. QED BY <2>4, <3>1, <4>1
    <3>4. QED BY <3>2, <3>3
  <2>7. QED BY <2>5, <2>6
<1>5. p = q \/ Before(p, q) \/ Before(q, p)
  <2> DEFINE Differ == {k \in 1 .. Len(p) : k <= Len(q) /\ p[k] # q[k]}
  <2>1. CASE Differ = {}
    <3>1. CASE Len(p) <= Len(q)
      <4>1. \A k \in 1 .. Len(p) : k <= Len(q) BY <1>1, <3>1
      <4>2. IsPrefix(p, q) BY <2>1, <3>1, <4>1, PrefixIs
      <4>3. QED BY <4>2, PrefixOrder, BeforeIs
    <3>2. CASE Len(q) < Len(p)
      <4>1. \A k \in 1 .. Len(q) : k \in 1 .. Len(p) /\ k <= Len(q) BY <1>1, <3>2
      <4>2. Len(q) <= Len(p) /\ \A k \in 1 .. Len(q) : q[k] = p[k] BY <1>1, <2>1, <3>2, <4>1
      <4>3. IsPrefix(q, p) BY <4>2, PrefixIs
      <4>4. QED BY <4>3, PrefixOrder, BeforeIs
    <3>3. QED BY <1>1, <3>1, <3>2
  <2>2. CASE Differ # {}
    <3>1. Differ \in SUBSET Nat OBVIOUS
    <3>2. PICK i \in Differ : \A k \in Differ : i <= k
      <4> HIDE DEF Differ
      <4>1. QED BY <2>2, <3>1, Smallest
    <3>3. i \in 1 .. Len(p) /\ i <= Len(q) /\ i \in 1 .. Len(q) /\ p[i] # q[i] BY <1>1
    <3>4. ASSUME NEW k \in 1 .. i - 1 PROVE p[k] = q[k]
      <4>1. k \in 1 .. Len(p) /\ k <= Len(q) /\ ~(i <= k) BY <1>1, <3>3
      <4>2. QED BY <3>2, <4>1
    <3>5. p[i] < q[i] \/ q[i] < p[i] BY <1>2, <3>3
    <3>6. i <= Len(p) BY <1>1, <3>3
    <3>7. QED BY <3>3, <3>4, <3>5, <3>6, BeforeIs
  <2>3. QED BY <2>1, <2>2
<1>6. QED BY <1>3, <1>4, <1>5

LEMMA PlaceIs ==
  ASSUME NEW N \in SUBSET Paths, IsFiniteSet(N), NEW q \in N
  PROVE  /\ Cardinality({r \in N : Before(r, q)}) \in Nat
         /\ Cardinality({r \in N : Before(r, q)}) < Cardinality(N)
         /\ \A s \in N : Before(q, s) =>
              Cardinality({r \in N : Before(r, q)}) < Cardinality({r \in N : Before(r, s)})
<1> DEFINE before(s) == {r \in N : Before(r, s)}
<1>1. \A A, B \in SUBSET N : A \subseteq B /\ A # B => Cardinality(A) < Cardinality(B)
  <2> SUFFICES ASSUME NEW A \in SUBSET N, NEW B \in SUBSET N, A \subseteq B, A # B
               PROVE  Cardinality(A) < Cardinality(B)
    OBVIOUS
  <2>1. IsFiniteSet(A) /\ IsFiniteSet(B) BY FS_Subset
  <2>2. Cardinality(A) \in Nat /\ Cardinality(B) \in Nat BY <2>1, FS_CardinalityType
  <2>3. Cardinality(A) <= Cardinality(B) /\ Cardinality(A) # Cardinality(B) BY <2>1, FS_Subset
  <2>4. QED BY <2>2, <2>3
<1>2. \A s \in N : before(s) \in SUBSET N OBVIOUS
<1>3. q \notin before(q) BY BeforeOrder
<1>4. Cardinality(before(q)) \in Nat
  <2>1. IsFiniteSet(before(q)) BY <1>2, FS_Subset
  <2> HIDE DEF before
  <2>2. QED BY <2>1, FS_CardinalityType
<1>5. Cardinality(before(q)) < Cardinality(N) BY <1>1, <1>2, <1>3
<1>6. ASSUME NEW s \in N, Before(q, s) PROVE Cardinality(before(q)) < Cardinality(before(s))
  <2>1. before(q) \subseteq before(s) BY <1>6, BeforeOrder
  <2>2. q \in before(s) BY <1>6
  <2>3. QED BY <1>1, <1>2, <1>3, <2>1, <2>2
<1>7. QED BY <1>4, <1>5, <1>6

\* A node is a view with an id.
Bears(node, view) == node = Given(view, node.id)

\* Every node has its view and an id: the old one of its path, or one of the next
\* that no other has.
RightlyNumbered(t, fresh, old, next, N) ==
  /\ DOMAIN t = DOMAIN fresh
  /\ \A q \in DOMAIN fresh : Bears(t[q], fresh[q])
  /\ \A q \in DOMAIN fresh \ N : t[q].id = old[q]
  /\ \A q \in N : t[q].id \in Nat /\ next <= t[q].id /\ t[q].id < next + Cardinality(N)
  /\ \A q, r \in N : t[q].id = t[r].id => q = r

OnPaths(t) == DOMAIN t \in SUBSET Paths /\ IsFiniteSet(DOMAIN t)

LEMMA NumberedIs ==
  ASSUME NEW fresh, OnPaths(fresh), NEW old, NEW next \in Nat
  PROVE  RightlyNumbered(Numbered(fresh, old, next), fresh, old, next, DOMAIN fresh \ DOMAIN old)
<1> DEFINE t == Numbered(fresh, old, next)
           N == DOMAIN fresh \ DOMAIN old
           place(q) == Cardinality({r \in DOMAIN fresh \ DOMAIN old : Before(r, q)})
           id(q) == IF q \in DOMAIN old THEN old[q] ELSE next + place(q)
<1>1. t = [q \in DOMAIN fresh |-> Given(fresh[q], id(q))] BY DEF Numbered
<1>2. \A q \in DOMAIN fresh : Bears(t[q], fresh[q]) /\ t[q].id = id(q)
  BY <1>1 DEF Given, Bears
<1>3. N \in SUBSET Paths /\ IsFiniteSet(N) BY FS_Subset DEF OnPaths
<1>4. Cardinality(N) \in Nat BY <1>3, FS_CardinalityType
<1>5. ASSUME NEW q \in N
      PROVE  /\ place(q) \in Nat /\ place(q) < Cardinality(N)
             /\ \A s \in N : Before(q, s) => place(q) < place(s)
  BY <1>3, PlaceIs
<1>6. \A q \in N : t[q].id = next + place(q) BY <1>2
<1> HIDE DEF place
<1>7. ASSUME NEW q \in N
      PROVE  t[q].id \in Nat /\ next <= t[q].id /\ t[q].id < next + Cardinality(N)
  <2>1. \A n \in Nat, m \in Nat, k \in Nat :
          n < m => k + n \in Nat /\ k <= k + n /\ k + n < k + m
    OBVIOUS
  <2>2. place(q) \in Nat /\ place(q) < Cardinality(N) BY <1>5
  <2>3. QED BY <1>4, <1>6, <2>1, <2>2
<1>8. ASSUME NEW q \in N, NEW r \in N, t[q].id = t[r].id PROVE q = r
  <2>1. q \in Paths /\ r \in Paths BY <1>3
  <2>2. place(q) = place(r)
    <3>1. \A n \in Nat, m \in Nat, k \in Nat : k + n = k + m => n = m OBVIOUS
    <3>2. QED BY <1>5, <1>6, <1>8, <3>1
  <2>3. ~Before(q, r) /\ ~Before(r, q) BY <1>5, <2>2
  <2>4. QED BY <2>1, <2>3, BeforeOrder
<1>9. DOMAIN t = DOMAIN fresh BY <1>1
<1>10. QED BY <1>2, <1>7, <1>8, <1>9 DEF RightlyNumbered

-----------------------------------------------------------------------------
(* The emitter's inductive invariant.                                        *)

TextSignals == {s \in Signals : ValuesOf[s] \subseteq TextValues}

Retained ==
  [component : Components, text : Optional(TextValues), bind : Optional(TextSignals),
   slot : Optional(Signals), tap : Optional(Actions),
   router : BOOLEAN, link : BOOLEAN, id : Nat]

\* A tree of nodes with ids: all above a node is in it, and no id is there twice.
ShapeOK(t) ==
  /\ DOMAIN t \in SUBSET Paths /\ IsFiniteSet(DOMAIN t) /\ t \in [DOMAIN t -> Retained]
  /\ Rooted(DOMAIN t)
  /\ \A q, r \in DOMAIN t : t[q].id = t[r].id => q = r

RetainedOK ==
  /\ root \in Roots /\ values \in Valuations
  /\ ShapeOK(tree) /\ nextId \in Nat /\ \A q \in DOMAIN tree : tree[q].id < nextId
  /\ due \subseteq effects /\ \A e \in effects : e.kind = "text" => e.on \in TextSignals

\* The effects a node asks for.
TextEffect(node) == Effect("text", node, node.bind)
SlotEffect(node) == Effect("slot", node, node.slot)

AsksText(t, q, e) == t[q].bind # None /\ e = TextEffect(t[q])
AsksSlot(t, q, e) == t[q].slot # None /\ e = SlotEffect(t[q])
Asks(t, q, e) == AsksText(t, q, e) \/ AsksSlot(t, q, e)

\* What lies below a slot whose effect is due.
Stale(t, d, q) ==
  \E p \in DOMAIN t : IsStrictPrefix(p, q) /\ t[p].slot # None /\ SlotEffect(t[p]) \in d

\* An effect registered is one of a node's, and all those of a node that is not
\* stale are registered.
Wired(t, f, d) ==
  /\ \A e \in f : \E q \in DOMAIN t : Asks(t, q, e)
  /\ \A q \in DOMAIN t : ~Stale(t, d, q) => \A e : Asks(t, q, e) => e \in f

\* A node is a view but for its text.
Stands(node, view) ==
  /\ node.component = view.component /\ node.bind = view.bind /\ node.slot = view.slot
  /\ node.tap = view.tap /\ node.router = view.router /\ node.link = view.link

\* What is not stale is what the views render to, but for texts that are due.
Follows(t, d, u) ==
  /\ \A q \in DOMAIN t : ~Stale(t, d, q) =>
       /\ q \in DOMAIN u /\ Stands(t[q], u[q])
       /\ t[q].text = u[q].text \/ (t[q].bind # None /\ TextEffect(t[q]) \in d)
  /\ \A q \in DOMAIN u : ~Stale(t, d, q) => q \in DOMAIN t

WiredInv == Wired(tree, effects, due)
FollowsInv == Follows(tree, due, Render[root][values])

\* Inputs are registered as InputsReachOwner says.
InputsOK(t, ts, ls) ==
  /\ ts = Tapped(t) /\ ls \subseteq Linked(t, <<>>)
  /\ \A q \in DOMAIN t : t[q].id \in Linked(t, <<>>) /\ ~CutOff(t, q) => t[q].id \in ls

EmitterInv ==
  /\ RetainedOK
  /\ ~broken => WiredInv /\ FollowsInv /\ InputsOK(tree, taps, links)

-----------------------------------------------------------------------------
(* What the views render to.                                                 *)

LEMMA RenderedTree ==
  ASSUME NEW r \in Roots, NEW v \in Valuations
  PROVE  IsTree(Render[r][v])
BY RenderAssumption

LEMMA RenderedText ==
  ASSUME NEW r \in Roots, NEW v \in Valuations, NEW t, t = Render[r][v],
         NEW q \in DOMAIN t, t[q].bind # None
  PROVE  t[q].text = v[t[q].bind]
<1>1. ShowsBound(Render[r][v], v) BY RenderAssumption
<1>2. QED BY <1>1 DEF ShowsBound

LEMMA RenderedView ==
  ASSUME NEW r \in Roots, NEW v \in Valuations, NEW q \in DOMAIN Render[r][v]
  PROVE  q \in Paths /\ Render[r][v][q] \in View
BY RenderedTree DEF IsTree

\* Below slots whose signals agree, two renderings differ in bound texts only.
LEMMA RenderedAlike ==
  ASSUME NEW r \in Roots, NEW v \in Valuations, NEW w \in Valuations,
         NEW t, t = Render[r][v], NEW u, u = Render[r][w],
         NEW q \in DOMAIN t,
         \A p \in DOMAIN t : IsStrictPrefix(p, q) /\ t[p].slot # None => v[t[p].slot] = w[t[p].slot]
  PROVE  /\ q \in DOMAIN u /\ Stands(t[q], u[q])
         /\ t[q].bind = None => u[q].text = t[q].text
<1>1. /\ q \in DOMAIN u /\ u[q] = [t[q] EXCEPT !.text = u[q].text]
      /\ t[q].bind = None => u[q].text = t[q].text
  <2>1. SameBelow(t, v, u, w) BY RenderAssumption
  <2>2. QED BY <2>1 DEF SameBelow
<1>2. t[q] \in View BY RenderedView
<1>3. Stands(t[q], u[q])
  <2> DEFINE x == u[q].text
  <2>1. u[q] = [t[q] EXCEPT !.text = x] BY <1>1
  <2> HIDE DEF x
  <2>2. QED BY <1>2, <2>1 DEF View, Stands
<1>4. QED BY <1>1, <1>3

LEMMA GivenIs ==
  ASSUME NEW view \in View, NEW i \in Nat
  PROVE  /\ Given(view, i) \in Retained /\ Stands(Given(view, i), view)
         /\ Given(view, i).text = view.text /\ Given(view, i).id = i
BY DEF View, Given, Retained, Stands, TextSignals

\* The topmost slot between a base and a path.
LEMMA TopSlot ==
  ASSUME NEW t, DOMAIN t \in SUBSET Paths, NEW b \in Paths, NEW q \in Paths,
         NEW r \in DOMAIN t, IsPrefix(b, r), IsStrictPrefix(r, q), t[r].slot # None
  PROVE  \E p \in DOMAIN t :
           /\ IsPrefix(b, p) /\ IsStrictPrefix(p, q) /\ t[p].slot # None
           /\ \A s \in DOMAIN t : IsPrefix(b, s) /\ IsStrictPrefix(s, p) => t[s].slot = None
<1> DEFINE S == {p \in DOMAIN t : IsPrefix(b, p) /\ IsStrictPrefix(p, q) /\ t[p].slot # None}
<1>1. S \in SUBSET Paths /\ S # {} OBVIOUS
<1>2. PICK p \in S : \A s \in S : ~IsStrictPrefix(s, p)
  <2> HIDE DEF S
  <2>1. QED BY <1>1, Topmost
<1>3. ASSUME NEW s \in DOMAIN t, IsPrefix(b, s), IsStrictPrefix(s, p), t[s].slot # None PROVE FALSE
  <2>1. s \in Paths /\ p \in Paths OBVIOUS
  <2>2. IsPrefix(p, q) BY DEF IsStrictPrefix
  <2>3. IsStrictPrefix(s, q) BY <1>3, <2>1, <2>2, PrefixOrder
  <2>4. QED BY <1>2, <1>3, <2>3
<1>4. QED BY <1>3

\* registerBindings registers the effects of what lies in no slot below p, and what
\* lies in one is stale, as that slot's effect is due.
Own(t, b, q) ==
  IsPrefix(b, q) /\ \A r \in DOMAIN t : IsPrefix(b, r) /\ IsStrictPrefix(r, q) => t[r].slot = None

LEMMA RegisteredIs ==
  ASSUME NEW t, NEW b
  PROVE  \A e : e \in Registered(t, b) <=> \E q \in DOMAIN t : Own(t, b, q) /\ Asks(t, q, e)
<1> DEFINE own == {q \in DOMAIN t :
                /\ IsPrefix(b, q)
                /\ \A r \in DOMAIN t : IsPrefix(b, r) /\ IsStrictPrefix(r, q)
                                       => t[r].slot = None}
<1>1. Registered(t, b) =
        {Effect("text", t[q], t[q].bind) : q \in {r \in own : t[r].bind # None}}
          \union {Effect("slot", t[q], t[q].slot) : q \in {r \in own : t[r].slot # None}}
  BY DEF Registered
<1>2. \A q : q \in own <=> q \in DOMAIN t /\ Own(t, b, q) BY DEF Own
<1> HIDE DEF own
<1>3. QED BY <1>1, <1>2 DEF Asks, AsksText, AsksSlot, TextEffect, SlotEffect

LEMMA NotOwnStale ==
  ASSUME NEW t, DOMAIN t \in SUBSET Paths, NEW b \in Paths, NEW q \in DOMAIN t,
         IsPrefix(b, q), ~Own(t, b, q), NEW d, Registered(t, b) \subseteq d
  PROVE  Stale(t, d, q)
<1>1. PICK r \in DOMAIN t : IsPrefix(b, r) /\ IsStrictPrefix(r, q) /\ t[r].slot # None
  BY DEF Own
<1>2. PICK p \in DOMAIN t :
        /\ IsPrefix(b, p) /\ IsStrictPrefix(p, q) /\ t[p].slot # None
        /\ \A s \in DOMAIN t : IsPrefix(b, s) /\ IsStrictPrefix(s, p) => t[s].slot = None
  BY <1>1, TopSlot
<1>3. SlotEffect(t[p]) \in Registered(t, b)
  BY <1>2, RegisteredIs DEF Own, Asks, AsksSlot
<1>4. QED BY <1>2, <1>3 DEF Stale

LEMMA RetainedFields ==
  ASSUME NEW n \in Retained
  PROVE  /\ n.component \in Components /\ n.text \in Optional(TextValues)
         /\ n.bind \in Optional(TextSignals) /\ n.slot \in Optional(Signals)
         /\ n.tap \in Optional(Actions) /\ n.router \in BOOLEAN /\ n.link \in BOOLEAN
         /\ n.id \in Nat
BY DEF Retained

\* Effects registered for a node are of its kinds.
LEMMA AskedTyped ==
  ASSUME NEW t, ShapeOK(t), NEW q \in DOMAIN t, NEW e, Asks(t, q, e)
  PROVE  /\ e.id = t[q].id /\ e.kind \in {"text", "slot"}
         /\ e.kind = "text" => AsksText(t, q, e) /\ e.on = t[q].bind /\ e.on \in TextSignals
         /\ e.kind = "slot" => AsksSlot(t, q, e) /\ e.on = t[q].slot
<1>1. t[q] \in Retained BY DEF ShapeOK
<1>2. t[q].bind \in Optional(TextSignals) BY <1>1, RetainedFields
<1>3. CASE AsksText(t, q, e)
  <2>1. e = Effect("text", t[q], t[q].bind) /\ t[q].bind # None
    BY <1>3 DEF AsksText, TextEffect
  <2>2. e.id = t[q].id /\ e.kind = "text" /\ e.on = t[q].bind BY <2>1 DEF Effect
  <2>3. QED BY <1>2, <1>3, <2>1, <2>2 DEF Optional
<1>4. CASE AsksSlot(t, q, e)
  <2>1. e = Effect("slot", t[q], t[q].slot) BY <1>4 DEF AsksSlot, SlotEffect
  <2>2. e.id = t[q].id /\ e.kind = "slot" /\ e.on = t[q].slot BY <2>1 DEF Effect
  <2>3. QED BY <1>4, <2>2
<1>5. QED BY <1>3, <1>4 DEF Asks

-----------------------------------------------------------------------------
(* mount.                                                                    *)

LEMMA MountedOK ==
  ASSUME NEW r \in Roots, NEW v \in Valuations, NEW u, u = Render[r][v],
         NEW t, t = Numbered(u, <<>>, 1), NEW d, d = Registered(t, <<>>)
  PROVE  /\ ShapeOK(t) /\ Cardinality(DOMAIN t) + 1 \in Nat
         /\ \A q \in DOMAIN t : t[q].id < Cardinality(DOMAIN t) + 1
         /\ \A e \in d : e.kind = "text" => e.on \in TextSignals
         /\ Wired(t, d, d) /\ Follows(t, d, u)
         /\ InputsOK(t, Tapped(t), Linked(t, <<>>))
<1>1. IsTree(u) /\ DOMAIN u \in SUBSET Paths /\ IsFiniteSet(DOMAIN u) /\ Rooted(DOMAIN u)
  <2>1. IsTree(u) BY RenderedTree
  <2>2. QED BY <2>1, TreeRooted DEF IsTree
<1>2. Cardinality(DOMAIN u) \in Nat BY <1>1, FS_CardinalityType
<1>3. /\ DOMAIN t = DOMAIN u
      /\ \A q \in DOMAIN u : Bears(t[q], u[q])
      /\ \A q \in DOMAIN u : t[q].id \in Nat /\ 1 <= t[q].id /\ t[q].id < 1 + Cardinality(DOMAIN u)
      /\ \A p, q \in DOMAIN u : t[p].id = t[q].id => p = q
  <2>1. RightlyNumbered(t, u, <<>>, 1, DOMAIN u \ DOMAIN <<>>)
    BY <1>1, NumberedIs DEF OnPaths
  <2>2. DOMAIN u \ DOMAIN <<>> = DOMAIN u OBVIOUS
  <2>3. QED BY <2>1, <2>2 DEF RightlyNumbered
<1>4. \A q \in DOMAIN u : u[q] \in View BY RenderedView
<1>5. ASSUME NEW q \in DOMAIN t
      PROVE  t[q] \in Retained /\ Stands(t[q], u[q]) /\ t[q].text = u[q].text
  <2>1. t[q] = Given(u[q], t[q].id) /\ u[q] \in View /\ t[q].id \in Nat BY <1>3, <1>4 DEF Bears
  <2>2. QED BY <2>1, GivenIs
<1>6. t \in [DOMAIN t -> Retained]
  <2>1. t = [q \in DOMAIN t |-> t[q]] BY DEF Numbered
  <2>2. QED BY <1>5, <2>1
<1>7. ShapeOK(t) BY <1>1, <1>3, <1>6 DEF ShapeOK
<1>8. /\ Cardinality(DOMAIN t) + 1 \in Nat
      /\ \A q \in DOMAIN t : t[q].id < Cardinality(DOMAIN t) + 1
  BY <1>2, <1>3
<1>9. \A e : e \in d <=> \E q \in DOMAIN t : Own(t, <<>>, q) /\ Asks(t, q, e)
  BY RegisteredIs
<1>10. \A e \in d : e.kind = "text" => e.on \in TextSignals
  BY <1>7, <1>9, AskedTyped
<1>11. ASSUME NEW q \in DOMAIN t, ~Stale(t, d, q) PROVE Own(t, <<>>, q)
  <2>1. DOMAIN t \in SUBSET Paths /\ q \in Paths /\ <<>> \in Paths BY <1>1, <1>3 DEF Paths
  <2>2. IsPrefix(<<>>, q) BY <2>1, PrefixOrder
  <2>3. QED BY <1>11, <2>1, <2>2, NotOwnStale
<1>12. Wired(t, d, d) BY <1>9, <1>11 DEF Wired
<1>13. Follows(t, d, u) BY <1>3, <1>5 DEF Follows
<1>14. InputsOK(t, Tapped(t), Linked(t, <<>>)) BY DEF InputsOK
<1>15. QED BY <1>7, <1>8, <1>10, <1>12, <1>13, <1>14

LEMMA StartOK == EmitterInit => EmitterInv
<1> SUFFICES ASSUME EmitterInit PROVE EmitterInv
  OBVIOUS
<1> DEFINE u == Render[root][values]
           d == Registered(tree, <<>>)
<1>1. /\ root \in Roots /\ values \in Valuations /\ tree = Numbered(u, <<>>, 1)
      /\ nextId = Cardinality(DOMAIN tree) + 1 /\ effects = d /\ due = d
      /\ taps = Tapped(tree) /\ links = Linked(tree, <<>>)
  BY DEF EmitterInit, Mounted
<1> HIDE DEF d
<1>2. d = Registered(tree, <<>>) BY DEF d
<1>3. /\ ShapeOK(tree) /\ Cardinality(DOMAIN tree) + 1 \in Nat
      /\ \A q \in DOMAIN tree : tree[q].id < Cardinality(DOMAIN tree) + 1
      /\ \A e \in d : e.kind = "text" => e.on \in TextSignals
      /\ Wired(tree, d, d) /\ Follows(tree, d, u)
      /\ InputsOK(tree, Tapped(tree), Linked(tree, <<>>))
  <2> HIDE DEF u
  <2>1. u = Render[root][values] BY DEF u
  <2>2. QED BY <1>1, <1>2, <2>1, MountedOK
<1>4. RetainedOK BY <1>1, <1>3 DEF RetainedOK
<1>5. QED BY <1>1, <1>3, <1>4 DEF EmitterInv, WiredInv, FollowsInv

LEMMA ReconnectOK == EmitterInv /\ Reconnect => EmitterInv'
<1> SUFFICES ASSUME EmitterInv, Reconnect PROVE EmitterInv'
  OBVIOUS
<1> DEFINE u == Render[root][values']
           d == Registered(tree', <<>>)
<1>1. /\ root' = root /\ values' \in Valuations /\ tree' = Numbered(u, <<>>, 1)
      /\ nextId' = Cardinality(DOMAIN tree') + 1 /\ effects' = d /\ due' = d
      /\ taps' = Tapped(tree') /\ links' = Linked(tree', <<>>)
  BY DEF Reconnect, Mount, Mounted
<1>2. root \in Roots /\ values' \in Valuations BY <1>1 DEF EmitterInv, RetainedOK
<1> HIDE DEF d
<1>3. d = Registered(tree', <<>>) BY <1>1 DEF d
<1>4. /\ ShapeOK(tree') /\ Cardinality(DOMAIN tree') + 1 \in Nat
      /\ \A q \in DOMAIN tree' : tree'[q].id < Cardinality(DOMAIN tree') + 1
      /\ \A e \in d : e.kind = "text" => e.on \in TextSignals
      /\ Wired(tree', d, d) /\ Follows(tree', d, u)
      /\ InputsOK(tree', Tapped(tree'), Linked(tree', <<>>))
  <2> HIDE DEF u
  <2>1. u = Render[root][values'] BY DEF u
  <2>2. QED BY <1>1, <1>2, <1>3, <2>1, MountedOK
<1>5. RetainedOK' BY <1>1, <1>2, <1>4 DEF RetainedOK
<1>6. WiredInv' /\ FollowsInv' BY <1>1, <1>4 DEF WiredInv, FollowsInv
<1>7. InputsOK(tree, taps, links)' BY <1>1, <1>4
<1>8. QED BY <1>5, <1>6, <1>7 DEF EmitterInv

-----------------------------------------------------------------------------
(* A write.                                                                  *)

LEMMA ValuationIs ==
  ASSUME NEW v \in Valuations, NEW s \in Signals, NEW x \in ValuesOf[s]
  PROVE  /\ [v EXCEPT ![s] = x] \in Valuations
         /\ [v EXCEPT ![s] = x][s] = x
         /\ \A r \in Signals \ {s} : [v EXCEPT ![s] = x][r] = v[r]
         /\ \A r \in Signals : v[r] \in ValuesOf[r]
BY DEF Valuations

LEMMA WriteOK ==
  ASSUME EmitterInv, NEW s \in Signals, NEW x \in ValuesOf[s], Write(s, x)
  PROVE  EmitterInv'
<1> DEFINE v == values
           w == values'
           t == tree
           f == effects
           d == due'
           u == Render[root][v]
           z == Render[root][w]
<1>1. /\ w = [values EXCEPT ![s] = x] /\ d = due \union {e \in f : e.on = s}
      /\ root' = root /\ tree' = t /\ nextId' = nextId /\ effects' = f /\ taps' = taps
      /\ links' = links /\ broken' = broken /\ (due = {} \/ broken)
  BY DEF Write, treeVars, Returned
<1>2. RetainedOK BY DEF EmitterInv
<1>3. root \in Roots /\ v \in Valuations /\ w \in Valuations
  BY <1>1, <1>2, ValuationIs DEF RetainedOK
<1>4. w[s] = x /\ \A r \in Signals \ {s} : w[r] = v[r]
  BY <1>1, <1>2, ValuationIs DEF RetainedOK
<1>5. RetainedOK' BY <1>1, <1>2, <1>3 DEF RetainedOK
<1>6. SUFFICES ASSUME ~broken PROVE (WiredInv /\ FollowsInv /\ InputsOK(tree, taps, links))'
  BY <1>1, <1>5 DEF EmitterInv
<1>7. due = {} /\ d = {e \in f : e.on = s} BY <1>1, <1>6
<1>8. ShapeOK(t) /\ DOMAIN t \in SUBSET Paths BY <1>2 DEF RetainedOK, ShapeOK
<1>9. Wired(t, f, {}) /\ Follows(t, {}, u) /\ InputsOK(t, taps, links)
  BY <1>6, <1>7 DEF EmitterInv, WiredInv, FollowsInv
<1>10. \A q : ~Stale(t, {}, q) BY DEF Stale
<1>11. /\ \A e \in f : \E q \in DOMAIN t : Asks(t, q, e)
       /\ \A q \in DOMAIN t : \A e : Asks(t, q, e) => e \in f
  BY <1>9, <1>10 DEF Wired
<1>12. /\ DOMAIN t = DOMAIN u
       /\ \A q \in DOMAIN t : Stands(t[q], u[q]) /\ t[q].text = u[q].text
  BY <1>9, <1>10 DEF Follows
<1>13. WiredInv'
  <2>1. Wired(t, f, d) BY <1>11 DEF Wired
  <2>2. QED BY <1>1, <2>1 DEF WiredInv
<1>14. \A q \in DOMAIN t : u[q] \in View BY <1>3, <1>12, RenderedView
<1>15. \A q \in DOMAIN z : z[q] \in View /\ q \in Paths BY <1>3, RenderedView
<1> HIDE DEF v, w, t, f, d, u, z
<1>16. u = Render[root][v] /\ z = Render[root][w] BY DEF u, z
<1>17. \A q \in DOMAIN t : u[q].slot = t[q].slot /\ u[q].bind = t[q].bind BY <1>12 DEF Stands
\* A slot of that signal is due.
<1>18. ASSUME NEW p \in DOMAIN t, t[p].slot # None, t[p].slot = s
       PROVE  SlotEffect(t[p]) \in d
  <2>1. SlotEffect(t[p]) \in f BY <1>11, <1>18 DEF Asks, AsksSlot
  <2>2. SlotEffect(t[p]).on = s BY <1>18 DEF SlotEffect, Effect
  <2>3. QED BY <1>7, <2>1, <2>2 DEF d, f
<1>19. ASSUME NEW p \in DOMAIN t, t[p].bind # None, t[p].bind = s
       PROVE  TextEffect(t[p]) \in d
  <2>1. TextEffect(t[p]) \in f BY <1>11, <1>19 DEF Asks, AsksText
  <2>2. TextEffect(t[p]).on = s BY <1>19 DEF TextEffect, Effect
  <2>3. QED BY <1>7, <2>1, <2>2 DEF d, f
<1>20. \A p \in DOMAIN t : u[p].slot \in Optional(Signals) /\ u[p].bind \in Optional(Signals)
  BY <1>14 DEF View, Optional
<1>21. ASSUME NEW q \in DOMAIN t, ~Stale(t, d, q)
       PROVE  /\ q \in DOMAIN z /\ Stands(t[q], z[q])
              /\ t[q].text = z[q].text \/ (t[q].bind # None /\ TextEffect(t[q]) \in d)
  <2>1. ASSUME NEW p \in DOMAIN u, IsStrictPrefix(p, q), u[p].slot # None
        PROVE  v[u[p].slot] = w[u[p].slot]
    <3>1. p \in DOMAIN t /\ t[p].slot = u[p].slot BY <1>12, <1>17, <2>1
    <3>2. SlotEffect(t[p]) \notin d BY <1>21, <2>1, <3>1 DEF Stale
    <3>3. u[p].slot # s BY <1>18, <2>1, <3>1, <3>2
    <3>4. u[p].slot \in Signals \ {s} BY <1>20, <2>1, <3>1, <3>3 DEF Optional
    <3>5. QED BY <1>4, <3>4 DEF v, w
  <2>2. /\ q \in DOMAIN z /\ Stands(u[q], z[q])
        /\ u[q].bind = None => z[q].text = u[q].text
    BY <1>3, <1>12, <1>16, <2>1, RenderedAlike DEF v, w
  <2>3. Stands(t[q], z[q]) BY <1>12, <2>2 DEF Stands
  <2>4. CASE u[q].bind = None BY <1>12, <2>2, <2>3, <2>4
  <2>5. CASE u[q].bind = s /\ u[q].bind # None
    <3>1. t[q].bind = s /\ t[q].bind # None BY <1>17, <2>5
    <3>2. TextEffect(t[q]) \in d BY <1>19, <3>1
    <3>3. QED BY <2>2, <2>3, <3>1, <3>2
  <2>6. CASE u[q].bind \notin {s, None}
    <3>1. u[q].bind \in Signals \ {s} BY <1>20, <2>6 DEF Optional
    <3>2. z[q].bind = u[q].bind BY <2>2 DEF Stands
    <3>3. z[q].text = w[u[q].bind] BY <1>3, <1>16, <2>2, <2>6, <3>2, RenderedText DEF w
    <3>4. u[q].text = v[u[q].bind] BY <1>3, <1>12, <1>16, <2>6, RenderedText DEF v
    <3>5. z[q].text = t[q].text BY <1>4, <1>12, <3>1, <3>3, <3>4 DEF v, w
    <3>6. QED BY <2>2, <2>3, <3>5
  <2>7. QED BY <2>4, <2>5, <2>6
\* Nothing new is rendered but below such a slot.
<1>22. ASSUME NEW q \in DOMAIN z, ~Stale(t, d, q) PROVE q \in DOMAIN t
  <2>1. ASSUME NEW r \in DOMAIN z, IsStrictPrefix(r, q), z[r].slot # None,
               \A p \in DOMAIN z : IsStrictPrefix(p, r) /\ z[p].slot # None => z[p].slot # s
        PROVE  z[r].slot # s
    <3>1. \A p \in DOMAIN z : z[p].slot \in Optional(Signals) BY <1>15 DEF View
    <3>2. \A p \in DOMAIN z : IsStrictPrefix(p, r) /\ z[p].slot # None => w[z[p].slot] = v[z[p].slot]
      BY <1>4, <2>1, <3>1 DEF Optional, v, w
    <3>3. r \in DOMAIN u /\ Stands(z[r], u[r])
      BY <1>3, <1>16, <3>2, RenderedAlike DEF v, w
    <3>4. r \in DOMAIN t /\ t[r].slot = z[r].slot BY <1>12, <1>17, <3>3 DEF Stands
    <3>5. SlotEffect(t[r]) \notin d BY <1>22, <2>1, <3>4 DEF Stale
    <3>6. QED BY <1>18, <2>1, <3>4, <3>5
  <2> DEFINE S == {r \in DOMAIN z : IsStrictPrefix(r, q) /\ z[r].slot # None /\ z[r].slot = s}
  <2>2. ASSUME S # {} PROVE FALSE
    <3>1. S \in SUBSET Paths BY <1>15
    <3>2. PICK r \in S : \A p \in S : ~IsStrictPrefix(p, r)
      <4> HIDE DEF S
      <4>1. QED BY <2>2, <3>1, Topmost
    <3>3. ASSUME NEW p \in DOMAIN z, IsStrictPrefix(p, r), z[p].slot # None PROVE z[p].slot # s
      <4>1. p \in Paths /\ r \in Paths /\ q \in Paths /\ IsPrefix(r, q)
        BY <1>15 DEF IsStrictPrefix
      <4>2. IsStrictPrefix(p, q) BY <3>3, <4>1, PrefixOrder
      <4>3. QED BY <3>2, <3>3, <4>2
    <3>4. QED BY <2>1, <3>3
  <2>3. \A p \in DOMAIN z : z[p].slot \in Optional(Signals) BY <1>15 DEF View
  <2>4. \A p \in DOMAIN z : IsStrictPrefix(p, q) /\ z[p].slot # None => w[z[p].slot] = v[z[p].slot]
    BY <1>4, <2>2, <2>3 DEF Optional, v, w
  <2>5. q \in DOMAIN u BY <1>3, <1>16, <2>4, RenderedAlike DEF v, w
  <2>6. QED BY <1>12, <2>5
<1>23. Follows(t, d, z) BY <1>21, <1>22 DEF Follows
<1>24. FollowsInv' BY <1>1, <1>23 DEF FollowsInv, d, t, z, w
<1>25. InputsOK(tree, taps, links)' BY <1>1, <1>9 DEF t
<1>26. QED BY <1>13, <1>24, <1>25

-----------------------------------------------------------------------------
(* A bound text.                                                             *)

\* A tree that differs in texts.
Retexted(t2, t) ==
  /\ DOMAIN t2 = DOMAIN t
  /\ \A q \in DOMAIN t : Stands(t2[q], t[q]) /\ t2[q].id = t[q].id

LEMMA RetextedAsks ==
  ASSUME NEW t, NEW t2, Retexted(t2, t)
  PROVE  /\ \A q \in DOMAIN t : TextEffect(t2[q]) = TextEffect(t[q]) /\ SlotEffect(t2[q]) = SlotEffect(t[q])
         /\ \A q \in DOMAIN t : \A e : Asks(t2, q, e) <=> Asks(t, q, e)
<1>1. ASSUME NEW q \in DOMAIN t
      PROVE  /\ TextEffect(t2[q]) = TextEffect(t[q]) /\ SlotEffect(t2[q]) = SlotEffect(t[q])
             /\ t2[q].bind = t[q].bind /\ t2[q].slot = t[q].slot
  BY DEF Retexted, Stands, TextEffect, SlotEffect, Effect
<1>2. QED BY <1>1 DEF Asks, AsksText, AsksSlot

LEMMA TappedIs ==
  ASSUME NEW t, \A q, r \in DOMAIN t : t[q].id = t[r].id => q = r
  PROVE  /\ DOMAIN Tapped(t) = {t[q].id : q \in Tappable(t)}
         /\ \A q \in Tappable(t) : Tapped(t)[t[q].id] = t[q].tap
         /\ Tapped(t) = [i \in DOMAIN Tapped(t) |-> Tapped(t)[i]]
<1>1. Tapped(t) = [i \in {t[q].id : q \in Tappable(t)} |->
                     t[CHOOSE q \in Tappable(t) : t[q].id = i].tap]
  BY DEF Tapped
<1>2. ASSUME NEW q \in Tappable(t) PROVE Tapped(t)[t[q].id] = t[q].tap
  <2>1. t[q].id \in {t[r].id : r \in Tappable(t)} OBVIOUS
  <2>2. Tappable(t) \subseteq DOMAIN t BY DEF Tappable
  <2>3. (CHOOSE r \in Tappable(t) : t[r].id = t[q].id) = q BY <2>2
  <2>4. QED BY <1>1, <2>1, <2>3
<1>3. QED BY <1>1, <1>2

\* A function with the taps of a tree is Tapped.
LEMMA TappedAre ==
  ASSUME NEW t, \A q, r \in DOMAIN t : t[q].id = t[r].id => q = r,
         NEW f, f = [i \in DOMAIN f |-> f[i]],
         DOMAIN f = {t[q].id : q \in Tappable(t)},
         \A q \in Tappable(t) : f[t[q].id] = t[q].tap
  PROVE  f = Tapped(t)
<1> DEFINE g == Tapped(t)
<1>1. /\ DOMAIN g = {t[q].id : q \in Tappable(t)} /\ g = [i \in DOMAIN g |-> g[i]]
      /\ \A q \in Tappable(t) : g[t[q].id] = t[q].tap
  BY TappedIs
<1> HIDE DEF g
<1>2. DOMAIN f = DOMAIN g BY <1>1
<1>3. ASSUME NEW i \in DOMAIN f PROVE f[i] = g[i]
  <2>1. PICK q \in Tappable(t) : i = t[q].id OBVIOUS
  <2>2. QED BY <1>1, <2>1
<1>4. f = g BY <1>1, <1>2, <1>3
<1>5. QED BY <1>4 DEF g

\* The links of which registerBindings hears below b.
Routed(t, b, q) ==
  t[q].link /\ \E s \in DOMAIN t : t[s].router /\ IsPrefix(b, s) /\ IsPrefix(s, q)

LEMMA LinkedIs ==
  ASSUME NEW t, NEW b
  PROVE  \A i : i \in Linked(t, b) <=> \E q \in DOMAIN t : Routed(t, b, q) /\ i = t[q].id
BY DEF Linked, Routed

LEMMA RetextedInputs ==
  ASSUME NEW t, NEW t2, Retexted(t2, t), \A q, r \in DOMAIN t : t[q].id = t[r].id => q = r,
         NEW ts, NEW ls, InputsOK(t, ts, ls)
  PROVE  InputsOK(t2, ts, ls)
<1>1. DOMAIN t2 = DOMAIN t BY DEF Retexted
<1>2. \A q \in DOMAIN t : /\ t2[q].id = t[q].id /\ t2[q].tap = t[q].tap /\ t2[q].slot = t[q].slot
                          /\ t2[q].router = t[q].router /\ t2[q].link = t[q].link
  BY DEF Retexted, Stands
<1>3. Tappable(t2) = Tappable(t) /\ Tappable(t) \subseteq DOMAIN t BY <1>1, <1>2 DEF Tappable
<1>4. ts = Tapped(t) BY DEF InputsOK
<1>5. Tapped(t2) = ts
  <2>1. /\ DOMAIN ts = {t[q].id : q \in Tappable(t)} /\ ts = [i \in DOMAIN ts |-> ts[i]]
        /\ \A q \in Tappable(t) : ts[t[q].id] = t[q].tap
    BY <1>4, TappedIs
  <2>2. \A q, r \in DOMAIN t2 : t2[q].id = t2[r].id => q = r BY <1>1, <1>2
  <2>3. DOMAIN ts = {t2[q].id : q \in Tappable(t2)} BY <1>2, <1>3, <2>1
  <2>4. \A q \in Tappable(t2) : ts[t2[q].id] = t2[q].tap BY <1>2, <1>3, <2>1
  <2>5. QED BY <2>1, <2>2, <2>3, <2>4, TappedAre
<1>6. Linked(t2, <<>>) = Linked(t, <<>>)
  <2>1. \A q \in DOMAIN t : Routed(t2, <<>>, q) <=> Routed(t, <<>>, q) BY <1>1, <1>2 DEF Routed
  <2>2. \A i : i \in Linked(t2, <<>>) <=> i \in Linked(t, <<>>) BY <1>1, <1>2, <2>1, LinkedIs
  <2>3. QED BY <2>2
<1>7. \A q \in DOMAIN t : CutOff(t2, q) <=> CutOff(t, q) BY <1>1, <1>2 DEF CutOff
<1>8. QED BY <1>1, <1>2, <1>5, <1>6, <1>7 DEF InputsOK

LEMMA RunTextOK ==
  ASSUME EmitterInv, NEW e \in due, e.kind = "text", RunText(e),
         UNCHANGED <<root, values>>
  PROVE  EmitterInv'
<1> DEFINE t == tree
           f == effects
           d == due
           t2 == tree'
           d2 == due'
           x == values[e.on]
           u == Render[root][values]
           hit == {q \in DOMAIN t : t[q].id = e.id /\ t[q].text # x}
<1>1. /\ t2 = [q \in DOMAIN t |-> IF q \in hit THEN [t[q] EXCEPT !.text = x] ELSE t[q]]
      /\ d2 = d \ {e}
      /\ root' = root /\ values' = values
      /\ nextId' = nextId /\ effects' = f /\ taps' = taps /\ links' = links /\ broken' = broken
  BY DEF RunText
<1>2. RetainedOK BY DEF EmitterInv
<1>3. /\ root \in Roots /\ values \in Valuations /\ ShapeOK(t) /\ nextId \in Nat
      /\ \A q \in DOMAIN t : t[q].id < nextId
      /\ d \subseteq f /\ \A a \in f : a.kind = "text" => a.on \in TextSignals
  BY <1>2 DEF RetainedOK
<1>4. x \in TextValues
  <2>1. e.on \in TextSignals BY <1>3
  <2>2. e.on \in Signals /\ ValuesOf[e.on] \subseteq TextValues BY <2>1 DEF TextSignals
  <2>3. values[e.on] \in ValuesOf[e.on] BY <1>3, <2>2 DEF Valuations
  <2>4. QED BY <2>2, <2>3
<1> HIDE DEF x, u, hit, t, f, d, t2, d2
<1>5. /\ DOMAIN t \in SUBSET Paths /\ IsFiniteSet(DOMAIN t) /\ Rooted(DOMAIN t)
      /\ \A q, r \in DOMAIN t : t[q].id = t[r].id => q = r
      /\ \A q \in DOMAIN t : t[q] \in Retained
  BY <1>3 DEF ShapeOK
<1>6. ASSUME NEW n \in Retained
      PROVE  /\ [n EXCEPT !.text = x] \in Retained /\ Stands([n EXCEPT !.text = x], n)
             /\ [n EXCEPT !.text = x].id = n.id /\ [n EXCEPT !.text = x].text = x
             /\ Stands(n, n)
  BY <1>4 DEF Retained, Stands, Optional
<1>7. DOMAIN t2 = DOMAIN t BY <1>1
<1>8. ASSUME NEW q \in DOMAIN t
      PROVE  /\ t2[q] \in Retained /\ Stands(t2[q], t[q]) /\ t2[q].id = t[q].id
             /\ q \in hit => t2[q].text = x
             /\ q \notin hit => t2[q] = t[q]
  <2>1. CASE q \in hit
    <3>1. t2[q] = [t[q] EXCEPT !.text = x] BY <1>1, <2>1
    <3>2. QED BY <1>5, <1>6, <2>1, <3>1
  <2>2. CASE q \notin hit
    <3>1. t2[q] = t[q] BY <1>1, <2>2
    <3>2. QED BY <1>5, <1>6, <2>2, <3>1
  <2>3. QED BY <2>1, <2>2
<1>9. Retexted(t2, t) BY <1>7, <1>8 DEF Retexted
<1>10. ShapeOK(t2)
  <2>1. t2 \in [DOMAIN t2 -> Retained]
    <3>1. t2 = [q \in DOMAIN t2 |-> t2[q]] BY <1>1
    <3>2. QED BY <1>7, <1>8, <3>1
  <2>2. \A q, r \in DOMAIN t2 : t2[q].id = t2[r].id => q = r BY <1>5, <1>7, <1>8
  <2>3. QED BY <1>5, <1>7, <2>1, <2>2 DEF ShapeOK
<1>11. RetainedOK'
  <2>1. \A q \in DOMAIN t2 : t2[q].id < nextId BY <1>3, <1>7, <1>8
  <2>2. d2 \subseteq f BY <1>1, <1>3
  <2>3. QED BY <1>1, <1>3, <1>10, <2>1, <2>2 DEF RetainedOK, t2, d2
<1>12. SUFFICES ASSUME ~broken PROVE (WiredInv /\ FollowsInv /\ InputsOK(tree, taps, links))'
  BY <1>1, <1>11 DEF EmitterInv
<1>13. Wired(t, f, d) /\ Follows(t, d, u) /\ InputsOK(t, taps, links)
  BY <1>12 DEF EmitterInv, WiredInv, FollowsInv, t, f, d, u
<1>14. e \in d BY DEF d
<1>15. PICK p \in DOMAIN t : Asks(t, p, e) BY <1>3, <1>13, <1>14 DEF Wired
<1>16. e.id = t[p].id /\ AsksText(t, p, e) /\ e.on = t[p].bind BY <1>3, <1>15, AskedTyped
<1>17. /\ \A q \in DOMAIN t : TextEffect(t2[q]) = TextEffect(t[q]) /\ SlotEffect(t2[q]) = SlotEffect(t[q])
       /\ \A q \in DOMAIN t : \A a : Asks(t2, q, a) <=> Asks(t, q, a)
       /\ \A q \in DOMAIN t : t2[q].slot = t[q].slot /\ t2[q].bind = t[q].bind
  BY <1>8, <1>9, RetextedAsks DEF Stands
\* The effect is no slot's: what is stale stays so.
<1>18. \A q : Stale(t2, d2, q) <=> Stale(t, d, q)
  <2>1. \A q \in DOMAIN t : SlotEffect(t[q]) # e
    <3>1. \A q \in DOMAIN t : SlotEffect(t[q]).kind = "slot" BY DEF SlotEffect, Effect
    <3>2. QED BY <3>1
  <2>2. QED BY <1>1, <1>7, <1>17, <2>1 DEF Stale
<1>19. Wired(t2, f, d2) BY <1>7, <1>13, <1>17, <1>18 DEF Wired
<1>20. ASSUME NEW q \in DOMAIN t2, ~Stale(t2, d2, q)
       PROVE  /\ q \in DOMAIN u /\ Stands(t2[q], u[q])
              /\ t2[q].text = u[q].text \/ (t2[q].bind # None /\ TextEffect(t2[q]) \in d2)
  <2>1. /\ q \in DOMAIN t /\ q \in DOMAIN u /\ Stands(t[q], u[q])
        /\ t[q].text = u[q].text \/ (t[q].bind # None /\ TextEffect(t[q]) \in d)
    BY <1>7, <1>13, <1>18, <1>20 DEF Follows
  <2>2. Stands(t2[q], u[q]) BY <1>8, <2>1 DEF Stands
  <2>3. CASE q = p
    <3>1. t2[q].text = x
      <4>1. CASE q \in hit BY <1>8, <2>1, <4>1
      <4>2. CASE q \notin hit
        <5>1. t[q].text = x BY <1>16, <2>1, <2>3, <4>2 DEF hit
        <5>2. QED BY <1>8, <2>1, <4>2, <5>1
      <4>3. QED BY <4>1, <4>2
    <3>2. u[q].bind = e.on /\ u[q].bind # None BY <1>16, <2>1, <2>3 DEF Stands, AsksText
    <3>3. u[q].text = x BY <1>3, <2>1, <3>2, RenderedText DEF u, x
    <3>4. QED BY <2>1, <2>2, <3>1, <3>3
  <2>4. CASE q # p
    <3>1. t[q].id # e.id BY <1>5, <1>16, <2>1, <2>4
    <3>2. q \notin hit BY <3>1 DEF hit
    <3>3. t2[q] = t[q] BY <1>8, <2>1, <3>2
    <3>4. TextEffect(t[q]).id = t[q].id BY DEF TextEffect, Effect
    <3>5. TextEffect(t[q]) # e BY <3>1, <3>4
    <3>6. QED BY <1>1, <2>1, <2>2, <3>3, <3>5
  <2>5. QED BY <2>3, <2>4
<1>21. Follows(t2, d2, u)
  <2>1. \A q \in DOMAIN u : ~Stale(t2, d2, q) => q \in DOMAIN t2
    BY <1>7, <1>13, <1>18 DEF Follows
  <2>2. QED BY <1>20, <2>1 DEF Follows
<1>22. InputsOK(t2, taps, links) BY <1>5, <1>9, <1>13, RetextedInputs
<1>23. WiredInv' BY <1>1, <1>19 DEF WiredInv, t2, d2
<1>24. FollowsInv' BY <1>1, <1>21 DEF FollowsInv, t2, d2, u
<1>25. InputsOK(tree, taps, links)' BY <1>1, <1>22 DEF t2
<1>26. QED BY <1>23, <1>24, <1>25

-----------------------------------------------------------------------------
(* A slot.                                                                   *)

\* A tree that differs below p only, where it has the nodes B.
Outside(t, p) == DOMAIN t \ Beneath(t, p)
IdsBeneath(t, p) == {t[q].id : q \in Beneath(t, p)}

Fits(t2, t, p, B) ==
  /\ ShapeOK(t) /\ ShapeOK(t2) /\ p \in DOMAIN t
  /\ DOMAIN t2 = B \union Outside(t, p)
  /\ \A q \in B : IsStrictPrefix(p, q)
  /\ \A q \in Outside(t, p) : t2[q] = t[q]

\* What a slot's effect makes of the tree.
IdsBelow(t, n) == \A q \in DOMAIN t : t[q].id < n
ShowsNow(t2, u, B) == \A q \in B : Stands(t2[q], u[q]) /\ t2[q].text = u[q].text

Refits(t2, t, u, p, next) ==
  /\ Fits(t2, t, p, Beneath(u, p)) /\ ShowsNow(t2, u, Beneath(u, p))
  /\ \A q \in Kept(t, u, p) : t2[q].id = t[q].id
  /\ next \in Nat /\ IdsBelow(t2, next)

LEMMA RefittedIs ==
  ASSUME NEW t, ShapeOK(t), NEW p \in DOMAIN t, NEW u, IsTree(u), NEW next \in Nat,
         IdsBelow(t, next), NEW t2, t2 = Refitted(t, u, p, next)
  PROVE  Refits(t2, t, u, p, next + Cardinality(Beneath(u, p) \ Kept(t, u, p)))
<1> DEFINE B == Beneath(u, p)
           K == Kept(t, u, p)
           O == DOMAIN t \ Beneath(t, p)
           part == Part(u, B)
           old == [q \in K |-> t[q].id]
           n == Numbered(part, old, next)
           N == B \ K
<1>1. /\ DOMAIN t \in SUBSET Paths /\ IsFiniteSet(DOMAIN t) /\ Rooted(DOMAIN t)
      /\ \A q, r \in DOMAIN t : t[q].id = t[r].id => q = r
      /\ \A q \in DOMAIN t : t[q] \in Retained /\ t[q].id \in Nat
  BY RetainedFields DEF ShapeOK
<1>2. /\ DOMAIN u \in SUBSET Paths /\ IsFiniteSet(DOMAIN u) /\ Rooted(DOMAIN u)
      /\ \A q \in DOMAIN u : u[q] \in View
  BY TreeRooted DEF IsTree
<1>3. B \in SUBSET DOMAIN u /\ \A q \in B : IsStrictPrefix(p, q)
  BY DEF Beneath
<1>4. O \in SUBSET DOMAIN t /\ \A q \in O : ~IsStrictPrefix(p, q)
  BY DEF Beneath
<1>5. K \in SUBSET B /\ K \in SUBSET DOMAIN t /\ K \intersect O = {}
  BY DEF Kept, Beneath
<1>6. IsFiniteSet(B) /\ IsFiniteSet(O) /\ IsFiniteSet(N)
  BY <1>1, <1>2, <1>3, <1>4, FS_Subset
<1>7. DOMAIN part = B /\ \A q \in B : part[q] = u[q] BY DEF Part
<1>8. DOMAIN old = K /\ \A q \in K : old[q] = t[q].id OBVIOUS
<1> HIDE DEF B, K, O, part, old
<1>9. RightlyNumbered(n, part, old, next, N)
  <2>1. OnPaths(part) BY <1>2, <1>3, <1>6, <1>7 DEF OnPaths
  <2>2. RightlyNumbered(n, part, old, next, DOMAIN part \ DOMAIN old) BY <2>1, NumberedIs
  <2>3. QED BY <1>7, <1>8, <2>2
<1> HIDE DEF N, n
<1>10. /\ DOMAIN n = B
       /\ \A q \in B : Bears(n[q], u[q])
       /\ \A q \in K : n[q].id = t[q].id
       /\ \A q \in N : n[q].id \in Nat /\ next <= n[q].id /\ n[q].id < next + Cardinality(N)
       /\ \A q, r \in N : n[q].id = n[r].id => q = r
  BY <1>5, <1>7, <1>8, <1>9 DEF RightlyNumbered, N
<1>11. /\ DOMAIN t2 = B \union O /\ t2 = [q \in DOMAIN t2 |-> t2[q]]
       /\ \A q \in B : t2[q] = n[q]
       /\ \A q \in O : q \notin B /\ t2[q] = t[q]
  <2>1. t2 = Over(n, Part(t, O)) BY DEF Refitted, n, part, old, B, K, O
  <2>2. DOMAIN Part(t, O) = O /\ \A q \in O : Part(t, O)[q] = t[q] BY DEF Part
  <2>3. \A q \in O : q \notin B BY <1>3, <1>4
  <2>4. QED BY <1>10, <2>1, <2>2, <2>3 DEF Over
<1>12. Cardinality(N) \in Nat BY <1>6, FS_CardinalityType
<1>13. next + Cardinality(N) \in Nat /\ next <= next + Cardinality(N) BY <1>12
<1>14. ASSUME NEW q \in K \union O PROVE t2[q].id = t[q].id /\ t[q].id \in Nat /\ t[q].id < next
  <2>1. q \in DOMAIN t /\ (q \in K => q \in B) BY <1>4, <1>5
  <2>2. \A r \in DOMAIN t : t[r].id < next BY DEF IdsBelow
  <2>3. QED BY <1>1, <1>10, <1>11, <2>1, <2>2
<1>15. ASSUME NEW q \in N PROVE t2[q].id = n[q].id /\ q \in B BY <1>11 DEF N
<1>16. DOMAIN t2 = K \union O \union N BY <1>5, <1>11 DEF N
<1>17. ASSUME NEW q \in DOMAIN t2
       PROVE  t2[q].id \in Nat /\ t2[q].id < next + Cardinality(N)
  <2>1. CASE q \in K \union O
    <3>1. \A i \in Nat : i < next => i < next + Cardinality(N) BY <1>12
    <3>2. QED BY <1>14, <2>1, <3>1
  <2>2. CASE q \in N BY <1>10, <1>15, <2>2
  <2>3. QED BY <1>16, <2>1, <2>2
<1>18. ASSUME NEW q \in DOMAIN t2, NEW r \in DOMAIN t2, t2[q].id = t2[r].id PROVE q = r
  <2>1. CASE q \in K \union O /\ r \in K \union O
    <3>1. q \in DOMAIN t /\ r \in DOMAIN t BY <1>4, <1>5, <2>1
    <3>2. QED BY <1>1, <1>14, <1>18, <2>1, <3>1
  <2>2. CASE q \in N /\ r \in N BY <1>10, <1>15, <1>18, <2>2
  <2>3. ASSUME NEW a \in K \union O, NEW b \in N, t2[a].id = t2[b].id PROVE FALSE
    <3>1. t2[a].id \in Nat /\ t2[a].id < next BY <1>14
    <3>2. t2[b].id \in Nat /\ next <= t2[b].id BY <1>10, <1>15
    <3>3. QED BY <2>3, <3>1, <3>2
  <2>4. QED BY <1>16, <1>18, <2>1, <2>2, <2>3
<1>19. ASSUME NEW q \in B
       PROVE  t2[q] \in Retained /\ Stands(t2[q], u[q]) /\ t2[q].text = u[q].text
  <2>1. Bears(t2[q], u[q]) /\ u[q] \in View /\ t2[q].id \in Nat
    BY <1>2, <1>3, <1>10, <1>11, <1>17
  <2>2. t2[q] = Given(u[q], t2[q].id) BY <2>1 DEF Bears
  <2>3. QED BY <2>1, <2>2, GivenIs
<1>20. t2 \in [DOMAIN t2 -> Retained]
  <2>1. \A q \in DOMAIN t2 : t2[q] \in Retained BY <1>1, <1>4, <1>11, <1>19
  <2>2. QED BY <1>11, <2>1
<1>21. DOMAIN t2 \in SUBSET Paths /\ IsFiniteSet(DOMAIN t2)
  <2>1. IsFiniteSet(B \union O) BY <1>6, FS_Union
  <2>2. B \union O \in SUBSET Paths BY <1>1, <1>2, <1>3, <1>4
  <2>3. QED BY <1>11, <2>1, <2>2
<1>22. ASSUME NEW q \in DOMAIN t2, NEW r \in Paths, IsPrefix(r, q) PROVE r \in DOMAIN t2
  <2>1. q \in Paths /\ p \in Paths BY <1>1, <1>21
  <2>2. CASE q \in B
    <3>1. q \in DOMAIN u /\ IsPrefix(p, q) BY <1>3, <2>2 DEF IsStrictPrefix
    <3>2. CASE IsPrefix(r, p)
      <4>1. r \in DOMAIN t BY <1>1, <3>2 DEF Rooted
      <4>2. ~IsStrictPrefix(p, r) BY <2>1, <3>2, PrefixOrder
      <4>3. QED BY <1>11, <4>1, <4>2 DEF O, Beneath
    <3>3. CASE IsStrictPrefix(p, r)
      <4>1. r \in DOMAIN u BY <1>2, <1>22, <3>1 DEF Rooted
      <4>2. QED BY <1>11, <3>3, <4>1 DEF B, Beneath
    <3>4. QED BY <1>22, <2>1, <3>1, <3>2, <3>3, PrefixOrder
  <2>3. CASE q \in O
    <3>1. q \in DOMAIN t /\ ~IsStrictPrefix(p, q) BY <1>4, <2>3
    <3>2. r \in DOMAIN t BY <1>1, <1>22, <3>1 DEF Rooted
    <3>3. ~IsStrictPrefix(p, r) BY <1>22, <2>1, <3>1, PrefixOrder
    <3>4. QED BY <1>11, <3>2, <3>3 DEF O, Beneath
  <2>4. QED BY <1>11, <2>2, <2>3
<1>23. ShapeOK(t2) BY <1>18, <1>20, <1>21, <1>22 DEF ShapeOK, Rooted
<1>24. \A q \in K : t2[q].id = t[q].id BY <1>14
<1>25. /\ DOMAIN t2 = Beneath(u, p) \union (DOMAIN t \ Beneath(t, p))
       /\ \A q \in DOMAIN t \ Beneath(t, p) : q \notin Beneath(u, p) /\ t2[q] = t[q]
  BY <1>11 DEF B, O
<1>26. \A q \in Beneath(u, p) : Stands(t2[q], u[q]) /\ t2[q].text = u[q].text
  BY <1>19 DEF B
<1>27. N = Beneath(u, p) \ Kept(t, u, p) BY DEF N, B, K
<1>28. \A q \in Kept(t, u, p) : t2[q].id = t[q].id BY <1>24 DEF K
<1>29. \A q \in Beneath(u, p) : IsStrictPrefix(p, q) BY <1>3 DEF B
<1>30. Fits(t2, t, p, Beneath(u, p)) BY <1>23, <1>25, <1>29 DEF Fits, Outside
<1>31. ShowsNow(t2, u, Beneath(u, p)) BY <1>26 DEF ShowsNow
<1>32. IdsBelow(t2, next + Cardinality(N)) BY <1>17 DEF IdsBelow
<1>33. QED BY <1>13, <1>27, <1>28, <1>30, <1>31, <1>32 DEF Refits

LEMMA FitsIs ==
  ASSUME NEW t, NEW t2, NEW p, NEW B, Fits(t2, t, p, B)
  PROVE  /\ DOMAIN t \in SUBSET Paths /\ DOMAIN t2 \in SUBSET Paths /\ p \in Paths
         /\ \A q, r \in DOMAIN t : t[q].id = t[r].id => q = r
         /\ \A q, r \in DOMAIN t2 : t2[q].id = t2[r].id => q = r
         /\ \A q : q \in Outside(t, p) <=> q \in DOMAIN t /\ ~IsStrictPrefix(p, q)
         /\ \A q : q \in Outside(t, p) <=> q \in DOMAIN t2 /\ ~IsStrictPrefix(p, q)
         /\ \A q : q \in B <=> q \in DOMAIN t2 /\ IsStrictPrefix(p, q)
<1>1. \A q : q \in Outside(t, p) <=> q \in DOMAIN t /\ ~IsStrictPrefix(p, q)
  BY DEF Outside, Beneath
<1>2. QED BY <1>1 DEF Fits, ShapeOK

\* A function with the taps of a tree.
Distinct(t) == \A q, r \in DOMAIN t : t[q].id = t[r].id => q = r

TapsOf(f, t) ==
  /\ f = [i \in DOMAIN f |-> f[i]]
  /\ DOMAIN f = {t[q].id : q \in Tappable(t)}
  /\ \A q \in Tappable(t) : f[t[q].id] = t[q].tap

LEMMA TapsAre ==
  ASSUME NEW t, Distinct(t), NEW f
  PROVE  f = Tapped(t) <=> TapsOf(f, t)
<1>1. TapsOf(Tapped(t), t) BY TappedIs DEF Distinct, TapsOf
<1>2. ASSUME TapsOf(f, t) PROVE f = Tapped(t) BY <1>2, TappedAre DEF Distinct, TapsOf
<1>3. QED BY <1>1, <1>2

LEMMA SlotTaps ==
  ASSUME NEW t, NEW t2, NEW p, NEW B, Fits(t2, t, p, B),
         NEW ids, ids = IdsBeneath(t, p),
         NEW ts, ts = Tapped(t), NEW f, f = Over(Tapped(Part(t2, B)), Without(ts, ids))
  PROVE  f = Tapped(t2)
<1> DEFINE P == Part(t2, B)
           g == Tapped(P)
           h == Without(ts, ids)
<1>1. /\ \A q, r \in DOMAIN t : t[q].id = t[r].id => q = r
      /\ \A q, r \in DOMAIN t2 : t2[q].id = t2[r].id => q = r
      /\ \A q : q \in Outside(t, p) <=> q \in DOMAIN t /\ ~IsStrictPrefix(p, q)
      /\ DOMAIN t2 = B \union Outside(t, p)
      /\ \A q \in Outside(t, p) : q \in DOMAIN t /\ q \notin B /\ t2[q] = t[q]
  <2>1. /\ \A q, r \in DOMAIN t : t[q].id = t[r].id => q = r
        /\ \A q, r \in DOMAIN t2 : t2[q].id = t2[r].id => q = r
        /\ \A q : q \in Outside(t, p) <=> q \in DOMAIN t /\ ~IsStrictPrefix(p, q)
        /\ \A q : q \in B <=> q \in DOMAIN t2 /\ IsStrictPrefix(p, q)
    BY FitsIs
  <2>2. DOMAIN t2 = B \union Outside(t, p) /\ \A q \in Outside(t, p) : t2[q] = t[q]
    BY DEF Fits
  <2>3. QED BY <2>1, <2>2
<1>2. DOMAIN P = B /\ \A q \in B : P[q] = t2[q] /\ q \in DOMAIN t2 BY <1>1 DEF Part
<1> HIDE DEF P
<1>3. /\ DOMAIN ts = {t[q].id : q \in Tappable(t)}
      /\ \A q \in Tappable(t) : ts[t[q].id] = t[q].tap
  <2>1. Distinct(t) BY <1>1 DEF Distinct
  <2>2. TapsOf(ts, t) BY <2>1, TapsAre
  <2>3. QED BY <2>2 DEF TapsOf
<1>4. /\ DOMAIN g = {P[q].id : q \in Tappable(P)}
      /\ \A q \in Tappable(P) : g[P[q].id] = P[q].tap
  <2>1. Distinct(P) BY <1>1, <1>2 DEF Distinct
  <2>2. TapsOf(g, P) BY <2>1, TapsAre
  <2>3. QED BY <2>2 DEF TapsOf
<1> HIDE DEF g
<1>5. DOMAIN h = DOMAIN ts \ ids /\ \A i \in DOMAIN ts \ ids : h[i] = ts[i] BY DEF Without
<1>6. /\ f = [i \in DOMAIN f |-> f[i]] /\ DOMAIN f = DOMAIN g \union DOMAIN h
      /\ \A i \in DOMAIN g : f[i] = g[i]
      /\ \A i \in DOMAIN h : i \notin DOMAIN g => f[i] = h[i]
  BY DEF Over, g, h, P
<1> HIDE DEF h
\* Of the old taps, those outside are left.
<1>7. ASSUME NEW q \in DOMAIN t PROVE t[q].id \in ids <=> q \notin Outside(t, p)
  BY <1>1 DEF Outside, Beneath, IdsBeneath
<1>8. ASSUME NEW i \in DOMAIN f PROVE i \in {t2[q].id : q \in Tappable(t2)}
  <2>1. CASE i \in DOMAIN g
    <3>1. PICK q \in Tappable(P) : i = P[q].id BY <1>4, <2>1
    <3>2. q \in Tappable(t2) /\ i = t2[q].id BY <1>2, <3>1 DEF Tappable
    <3>3. QED BY <3>2
  <2>2. CASE i \in DOMAIN h
    <3>1. i \in DOMAIN ts /\ i \notin ids BY <1>5, <2>2
    <3>2. PICK q \in Tappable(t) : i = t[q].id BY <1>3, <3>1
    <3>3. q \in Outside(t, p) BY <1>7, <3>1, <3>2 DEF Tappable
    <3>4. q \in Tappable(t2) /\ i = t2[q].id BY <1>1, <3>2, <3>3 DEF Tappable
    <3>5. QED BY <3>4
  <2>3. QED BY <1>6, <2>1, <2>2
<1>9. ASSUME NEW q \in Tappable(t2) PROVE t2[q].id \in DOMAIN f /\ f[t2[q].id] = t2[q].tap
  <2>1. q \in DOMAIN t2 /\ t2[q].tap # None BY DEF Tappable
  <2>2. CASE q \in B
    <3>1. q \in Tappable(P) /\ P[q] = t2[q] BY <1>2, <2>1, <2>2 DEF Tappable
    <3>2. t2[q].id \in DOMAIN g /\ g[t2[q].id] = t2[q].tap BY <1>4, <3>1
    <3>3. QED BY <1>6, <3>2
  <2>3. CASE q \in Outside(t, p)
    <3>1. q \in Tappable(t) /\ t2[q] = t[q] BY <1>1, <2>1, <2>3 DEF Tappable
    <3>2. t[q].id \in DOMAIN ts /\ ts[t[q].id] = t[q].tap BY <1>3, <3>1
    <3>3. t[q].id \notin ids BY <1>1, <1>7, <2>3
    <3>4. t2[q].id \in DOMAIN h /\ h[t2[q].id] = t2[q].tap BY <1>5, <3>1, <3>2, <3>3
    <3>5. ASSUME t2[q].id \in DOMAIN g PROVE FALSE
      <4>1. PICK r \in Tappable(P) : t2[q].id = P[r].id BY <1>4, <3>5
      <4>2. r \in B /\ t2[q].id = t2[r].id BY <1>2, <4>1 DEF Tappable
      <4>3. QED BY <1>1, <1>2, <2>1, <2>3, <4>2
    <3>6. QED BY <1>6, <3>4, <3>5
  <2>4. QED BY <1>1, <2>1, <2>2, <2>3
<1>10. DOMAIN f = {t2[q].id : q \in Tappable(t2)} BY <1>8, <1>9
<1>11. TapsOf(f, t2) BY <1>6, <1>9, <1>10 DEF TapsOf
<1>12. Distinct(t2) BY <1>1 DEF Distinct
<1>13. QED BY <1>11, <1>12, TapsAre

LEMMA SlotLinks ==
  ASSUME NEW t, NEW t2, NEW p, NEW B, Fits(t2, t, p, B), t[p].slot # None,
         NEW ids, ids = IdsBeneath(t, p),
         NEW ts, NEW ls, InputsOK(t, ts, ls), NEW ls2, ls2 = (ls \ ids) \union Linked(t2, p)
  PROVE  /\ ls2 \subseteq Linked(t2, <<>>)
         /\ \A q \in DOMAIN t2 : t2[q].id \in Linked(t2, <<>>) /\ ~CutOff(t2, q) => t2[q].id \in ls2
<1>1. /\ \A q, r \in DOMAIN t : t[q].id = t[r].id => q = r
      /\ \A q, r \in DOMAIN t2 : t2[q].id = t2[r].id => q = r
      /\ \A q : q \in Outside(t, p) <=> q \in DOMAIN t /\ ~IsStrictPrefix(p, q)
      /\ \A q : q \in Outside(t, p) <=> q \in DOMAIN t2 /\ ~IsStrictPrefix(p, q)
      /\ DOMAIN t \in SUBSET Paths /\ DOMAIN t2 \in SUBSET Paths /\ p \in Paths /\ <<>> \in Paths
  BY FitsIs DEF Paths
<1>2. p \in DOMAIN t /\ \A q \in Outside(t, p) : t2[q] = t[q] BY DEF Fits
<1>3. \A q \in DOMAIN t : t[q].id \in ids <=> q \notin Outside(t, p)
  BY <1>1 DEF Outside, Beneath, IdsBeneath
\* What is above a node outside is outside.
<1>4. ASSUME NEW q \in Outside(t, p), NEW s \in Paths, IsPrefix(s, q)
      PROVE  (s \in DOMAIN t \/ s \in DOMAIN t2) => s \in Outside(t, p)
  <2>1. q \in Paths /\ ~IsStrictPrefix(p, q) BY <1>1
  <2>2. ~IsStrictPrefix(p, s) BY <1>1, <1>4, <2>1, PrefixOrder
  <2>3. QED BY <1>1, <2>2
<1>5. ASSUME NEW q \in Outside(t, p) PROVE Routed(t2, <<>>, q) <=> Routed(t, <<>>, q)
  <2>1. t2[q] = t[q] BY <1>2
  <2>2. ASSUME NEW s \in DOMAIN t, IsPrefix(s, q), t[s].router PROVE s \in DOMAIN t2 /\ t2[s].router
    <3>1. s \in Outside(t, p) BY <1>1, <1>4, <2>2
    <3>2. QED BY <1>1, <1>2, <2>2, <3>1
  <2>3. ASSUME NEW s \in DOMAIN t2, IsPrefix(s, q), t2[s].router PROVE s \in DOMAIN t /\ t[s].router
    <3>1. s \in Outside(t, p) BY <1>1, <1>4, <2>3
    <3>2. QED BY <1>1, <1>2, <2>3, <3>1
  <2>4. QED BY <2>1, <2>2, <2>3 DEF Routed
<1>6. ASSUME NEW q \in Outside(t, p), CutOff(t, q) PROVE CutOff(t2, q)
  <2>1. q \in Paths BY <1>1
  <2>2. PICK x \in DOMAIN t :
          /\ t[x].slot # None /\ ~t[x].router /\ IsStrictPrefix(x, q)
          /\ ~ \E s \in DOMAIN t : t[s].router /\ IsStrictPrefix(x, s) /\ IsPrefix(s, q)
    BY <1>6 DEF CutOff
  <2>3. x \in Paths /\ IsPrefix(x, q) BY <1>1, <2>2 DEF IsStrictPrefix
  <2>4. x \in Outside(t, p) BY <1>4, <2>3
  <2>5. x \in DOMAIN t2 /\ t2[x] = t[x] BY <1>1, <1>2, <2>4
  <2>6. ASSUME NEW s \in DOMAIN t2, t2[s].router, IsStrictPrefix(x, s), IsPrefix(s, q) PROVE FALSE
    <3>1. s \in Outside(t, p) BY <1>1, <1>4, <2>6
    <3>2. s \in DOMAIN t /\ t[s].router BY <1>1, <1>2, <2>6, <3>1
    <3>3. QED BY <2>2, <2>6, <3>2
  <2>7. QED BY <2>2, <2>5, <2>6 DEF CutOff
<1>7. ls \subseteq Linked(t, <<>>) BY DEF InputsOK
<1>8. ASSUME NEW i \in ls2 PROVE i \in Linked(t2, <<>>)
  <2>1. CASE i \in Linked(t2, p)
    <3>1. PICK q \in DOMAIN t2 : Routed(t2, p, q) /\ i = t2[q].id BY <2>1, LinkedIs
    <3>2. Routed(t2, <<>>, q) BY <1>1, <3>1, PrefixOrder DEF Routed
    <3>3. QED BY <3>1, <3>2, LinkedIs
  <2>2. CASE i \in ls \ ids
    <3>1. PICK q \in DOMAIN t : Routed(t, <<>>, q) /\ i = t[q].id BY <1>7, <2>2, LinkedIs
    <3>2. q \in Outside(t, p) BY <1>3, <2>2, <3>1
    <3>3. q \in DOMAIN t2 /\ Routed(t2, <<>>, q) /\ i = t2[q].id BY <1>1, <1>2, <1>5, <3>1, <3>2
    <3>4. QED BY <3>3, LinkedIs
  <2>3. QED BY <2>1, <2>2
<1>9. ASSUME NEW q \in DOMAIN t2, t2[q].id \in Linked(t2, <<>>), ~CutOff(t2, q)
      PROVE  t2[q].id \in ls2
  <2>1. Routed(t2, <<>>, q) BY <1>1, <1>9, LinkedIs
  <2>2. CASE q \in Outside(t, p)
    <3>1. Routed(t, <<>>, q) /\ ~CutOff(t, q) /\ q \in DOMAIN t /\ t2[q] = t[q]
      BY <1>1, <1>2, <1>5, <1>6, <1>9, <2>1, <2>2
    <3>2. t[q].id \in Linked(t, <<>>) BY <3>1, LinkedIs
    <3>3. t[q].id \in ls BY <3>1, <3>2 DEF InputsOK
    <3>4. t[q].id \notin ids BY <1>3, <2>2, <3>1
    <3>5. QED BY <3>1, <3>3, <3>4
  <2>3. CASE q \notin Outside(t, p)
    <3>1. IsStrictPrefix(p, q) /\ q \in Paths BY <1>1, <2>3
    <3>2. p \in Outside(t, p) /\ p \in DOMAIN t2 /\ t2[p] = t[p] BY <1>1, <1>2, PrefixOrder
    <3>3. \E s \in DOMAIN t2 : t2[s].router /\ IsPrefix(p, s) /\ IsPrefix(s, q)
      <4>1. CASE t2[p].router BY <1>1, <3>1, <3>2, <4>1, PrefixOrder
      <4>2. CASE ~t2[p].router
        <5>1. \E s \in DOMAIN t2 : t2[s].router /\ IsStrictPrefix(p, s) /\ IsPrefix(s, q)
          BY <1>9, <3>1, <3>2, <4>2 DEF CutOff
        <5>2. QED BY <5>1 DEF IsStrictPrefix
      <4>3. QED BY <4>1, <4>2
    <3>4. Routed(t2, p, q) BY <2>1, <3>3 DEF Routed
    <3>5. QED BY <3>4, LinkedIs
  <2>4. QED BY <2>2, <2>3
<1>10. QED BY <1>8, <1>9

\* The slot's effect has run: those of what it held are gone, those of what lies in
\* no slot of what it holds now are registered and due.
SlotRan(f2, d2, f, d, t2, t, p) ==
  LET gone == {a \in f : a.id \in IdsBeneath(t, p)}
  IN  /\ f2 = (f \ gone) \union Registered(t2, Nth(p, 1))
      /\ d2 = ((d \ {SlotEffect(t[p])}) \ gone) \union Registered(t2, Nth(p, 1))

LEMMA SlotWired ==
  ASSUME NEW t, NEW t2, NEW p, NEW u, NEW B, B = Beneath(u, p), Fits(t2, t, p, B),
         IsTree(u), ShowsNow(t2, u, B),
         t[p].slot # None, NEW f, NEW d, Wired(t, f, d), Follows(t, d, u),
         NEW f2, NEW d2, SlotRan(f2, d2, f, d, t2, t, p)
  PROVE  Wired(t2, f2, d2) /\ Follows(t2, d2, u)
<1> DEFINE e == SlotEffect(t[p])
           gone == {a \in f : a.id \in IdsBeneath(t, p)}
           added == Registered(t2, Nth(p, 1))
<1>0. /\ e = SlotEffect(t[p]) /\ gone = {a \in f : a.id \in IdsBeneath(t, p)}
      /\ added = Registered(t2, Nth(p, 1))
      /\ f2 = (f \ gone) \union added /\ d2 = ((d \ {e}) \ gone) \union added
  BY DEF SlotRan
<1> HIDE DEF e, gone, added
<1> DEFINE ids == IdsBeneath(t, p)
<1>1. /\ DOMAIN t \in SUBSET Paths /\ DOMAIN t2 \in SUBSET Paths /\ p \in Paths
      /\ \A q, r \in DOMAIN t : t[q].id = t[r].id => q = r
      /\ \A q, r \in DOMAIN t2 : t2[q].id = t2[r].id => q = r
  BY FitsIs
<1>2. /\ \A q : q \in Outside(t, p) <=> q \in DOMAIN t /\ ~IsStrictPrefix(p, q)
      /\ \A q : q \in Outside(t, p) <=> q \in DOMAIN t2 /\ ~IsStrictPrefix(p, q)
      /\ \A q : q \in B <=> q \in DOMAIN t2 /\ IsStrictPrefix(p, q)
  BY FitsIs
<1>3. /\ ShapeOK(t) /\ ShapeOK(t2) /\ p \in DOMAIN t
      /\ \A q \in Outside(t, p) : t2[q] = t[q]
  BY DEF Fits
<1>4. \A q \in DOMAIN t : t[q].id \in ids <=> q \notin Outside(t, p)
  BY <1>1, <1>2 DEF Beneath, IdsBeneath
<1> HIDE DEF ids
<1>5. p \in Outside(t, p) /\ Nth(p, 1) \in Paths /\ IsStrictPrefix(p, Nth(p, 1))
  BY <1>1, <1>2, <1>3, PrefixOrder, NthIs
<1>6. \A a : a \in added <=> \E q \in DOMAIN t2 : Own(t2, Nth(p, 1), q) /\ Asks(t2, q, a)
  BY <1>0, RegisteredIs
<1>7. ASSUME NEW a \in added
      PROVE  \E q \in B : Asks(t2, q, a) /\ a.id = t2[q].id
  <2>1. PICK q \in DOMAIN t2 : Own(t2, Nth(p, 1), q) /\ Asks(t2, q, a) BY <1>6
  <2>2. IsPrefix(Nth(p, 1), q) /\ q \in Paths BY <1>1, <2>1 DEF Own
  <2>3. IsStrictPrefix(p, q) BY <1>1, <1>5, <2>2, PrefixOrder
  <2>4. a.id = t2[q].id BY <1>3, <2>1, AskedTyped
  <2>5. QED BY <1>2, <2>1, <2>3, <2>4
\* What is asked for outside is as it was, but for the effect that has run.
<1>8. ASSUME NEW q \in Outside(t, p), NEW a, Asks(t, q, a)
      PROVE  Asks(t2, q, a) /\ (a \in f2 <=> a \in f) /\ (a \in d2 <=> a \in d /\ a # e)
  <2>1. q \in DOMAIN t /\ q \in DOMAIN t2 /\ t2[q] = t[q] BY <1>2, <1>3
  <2>2. Asks(t2, q, a) BY <1>8, <2>1 DEF Asks, AsksText, AsksSlot
  <2>3. a.id = t[q].id BY <1>3, <1>8, <2>1, AskedTyped
  <2>4. a \notin gone BY <1>0, <1>4, <2>1, <2>3 DEF ids
  <2>5. a \notin added
    <3>1. SUFFICES ASSUME a \in added PROVE FALSE OBVIOUS
    <3>2. PICK r \in B : a.id = t2[r].id BY <1>7, <3>1
    <3>3. r = q BY <1>1, <1>2, <2>1, <2>3, <3>2
    <3>4. QED BY <1>2, <3>2, <3>3
  <2>6. QED BY <1>0, <2>2, <2>4, <2>5
<1>9. ASSUME NEW q \in DOMAIN t, SlotEffect(t[q]) = e PROVE q = p
  <2>1. SlotEffect(t[q]).id = t[q].id /\ e.id = t[p].id BY <1>0 DEF SlotEffect, Effect
  <2>2. QED BY <1>1, <1>3, <1>9, <2>1
\* What is above such a path is outside.
<1>10. ASSUME NEW q \in Paths, ~IsStrictPrefix(p, q), NEW x, IsStrictPrefix(x, q),
              x \in DOMAIN t \/ x \in DOMAIN t2
       PROVE  x \in Outside(t, p) /\ x # p
  <2>1. x \in Paths /\ IsPrefix(x, q) BY <1>1, <1>10 DEF IsStrictPrefix
  <2>2. ~IsStrictPrefix(p, x) BY <1>1, <1>10, <2>1, PrefixOrder
  <2>3. QED BY <1>2, <1>10, <2>2
<1>11. ASSUME NEW x \in Outside(t, p), t[x].slot # None, x # p
       PROVE  /\ x \in DOMAIN t /\ x \in DOMAIN t2 /\ t2[x] = t[x]
              /\ SlotEffect(t[x]) \in d2 <=> SlotEffect(t[x]) \in d
  <2>1. x \in DOMAIN t /\ x \in DOMAIN t2 /\ t2[x] = t[x] BY <1>2, <1>3
  <2>2. Asks(t, x, SlotEffect(t[x])) BY <1>11 DEF Asks, AsksSlot
  <2>3. SlotEffect(t[x]) # e BY <1>9, <1>11, <2>1
  <2>4. QED BY <1>8, <2>1, <2>2, <2>3
<1>12. ASSUME NEW q \in Paths, ~IsStrictPrefix(p, q) PROVE Stale(t2, d2, q) <=> Stale(t, d, q)
  <2>1. ASSUME Stale(t, d, q) PROVE Stale(t2, d2, q)
    <3>1. PICK x \in DOMAIN t : IsStrictPrefix(x, q) /\ t[x].slot # None /\ SlotEffect(t[x]) \in d
      BY <2>1 DEF Stale
    <3>2. x \in Outside(t, p) /\ x # p BY <1>10, <1>12, <3>1
    <3>3. x \in DOMAIN t2 /\ t2[x] = t[x] /\ SlotEffect(t[x]) \in d2 BY <1>11, <3>1, <3>2
    <3>4. QED BY <3>1, <3>3 DEF Stale
  <2>2. ASSUME Stale(t2, d2, q) PROVE Stale(t, d, q)
    <3>1. PICK x \in DOMAIN t2 : IsStrictPrefix(x, q) /\ t2[x].slot # None /\ SlotEffect(t2[x]) \in d2
      BY <2>2 DEF Stale
    <3>2. x \in Outside(t, p) /\ x # p BY <1>10, <1>12, <3>1
    <3>3. t2[x] = t[x] BY <1>3, <3>2
    <3>4. x \in DOMAIN t /\ SlotEffect(t[x]) \in d BY <1>11, <3>1, <3>2, <3>3
    <3>5. QED BY <3>1, <3>3, <3>4 DEF Stale
  <2>3. QED BY <2>1, <2>2
\* What is fresh below the slot is what the slot renders to.
<1>13. ASSUME NEW q \in B, ~Stale(t2, d2, q)
       PROVE  \A a : Asks(t2, q, a) => a \in added
  <2>1. q \in DOMAIN t2 /\ q \in Paths /\ q \in DOMAIN u /\ IsStrictPrefix(p, q)
    BY <1>1, <1>2 DEF Beneath
  <2>2. ~Stale(t, d, p)
    <3>1. SUFFICES ASSUME Stale(t, d, p) PROVE FALSE OBVIOUS
    <3>2. ~IsStrictPrefix(p, p) BY <1>1, PrefixOrder
    <3>3. Stale(t2, d2, p) BY <1>1, <1>12, <3>1, <3>2
    <3>4. PICK x \in DOMAIN t2 : IsStrictPrefix(x, p) /\ t2[x].slot # None /\ SlotEffect(t2[x]) \in d2
      BY <3>3 DEF Stale
    <3>5. x \in Paths /\ IsPrefix(p, q) BY <1>1, <2>1 DEF IsStrictPrefix
    <3>6. IsStrictPrefix(x, q) BY <1>1, <2>1, <3>4, <3>5, PrefixOrder
    <3>7. QED BY <1>13, <3>4, <3>6 DEF Stale
  <2>3. p \in DOMAIN u /\ u[p].slot # None BY <1>3, <2>2 DEF Follows, Stands
  <2>4. IsPrefix(Nth(p, 1), q) BY <2>1, <2>3, BelowSlot
  <2>5. Own(t2, Nth(p, 1), q)
    <3>1. Registered(t2, Nth(p, 1)) \subseteq d2 BY <1>0
    <3>2. QED BY <1>1, <1>5, <1>13, <2>1, <2>4, <3>1, NotOwnStale
  <2>6. QED BY <1>6, <2>1, <2>5
<1>14. Wired(t2, f2, d2)
  <2>1. ASSUME NEW a \in f2 PROVE \E q \in DOMAIN t2 : Asks(t2, q, a)
    <3>1. CASE a \in added BY <1>6, <3>1
    <3>2. CASE a \in f \ gone
      <4>1. PICK q \in DOMAIN t : Asks(t, q, a) BY <3>2 DEF Wired
      <4>2. a.id = t[q].id BY <1>3, <4>1, AskedTyped
      <4>3. q \in Outside(t, p) BY <1>0, <1>4, <3>2, <4>1, <4>2 DEF ids
      <4>4. q \in DOMAIN t2 /\ Asks(t2, q, a) BY <1>2, <1>8, <4>1, <4>3
      <4>5. QED BY <4>4
    <3>3. QED BY <1>0, <3>1, <3>2
  <2>2. ASSUME NEW q \in DOMAIN t2, ~Stale(t2, d2, q), NEW a, Asks(t2, q, a) PROVE a \in f2
    <3>1. CASE q \in B BY <1>0, <1>13, <2>2, <3>1
    <3>2. CASE q \in Outside(t, p)
      <4>1. q \in DOMAIN t /\ q \in Paths /\ ~IsStrictPrefix(p, q) /\ t2[q] = t[q]
        BY <1>1, <1>2, <1>3, <3>2
      <4>2. ~Stale(t, d, q) BY <1>12, <2>2, <4>1
      <4>3. Asks(t, q, a) BY <2>2, <4>1 DEF Asks, AsksText, AsksSlot
      <4>4. a \in f BY <4>1, <4>2, <4>3 DEF Wired
      <4>5. QED BY <1>8, <3>2, <4>3, <4>4
    <3>3. QED BY <1>2, <3>1, <3>2
  <2>3. QED BY <2>1, <2>2 DEF Wired
<1>15. ASSUME NEW q \in DOMAIN t2, ~Stale(t2, d2, q)
       PROVE  /\ q \in DOMAIN u /\ Stands(t2[q], u[q])
              /\ t2[q].text = u[q].text \/ (t2[q].bind # None /\ TextEffect(t2[q]) \in d2)
  <2>1. CASE q \in B BY <2>1 DEF Beneath, ShowsNow
  <2>2. CASE q \in Outside(t, p)
    <3>1. q \in DOMAIN t /\ q \in Paths /\ ~IsStrictPrefix(p, q) /\ t2[q] = t[q]
      BY <1>1, <1>2, <1>3, <2>2
    <3>2. ~Stale(t, d, q) BY <1>12, <1>15, <3>1
    <3>3. /\ q \in DOMAIN u /\ Stands(t[q], u[q])
          /\ t[q].text = u[q].text \/ (t[q].bind # None /\ TextEffect(t[q]) \in d)
      BY <3>1, <3>2 DEF Follows
    <3>4. CASE t[q].text = u[q].text BY <3>1, <3>3, <3>4
    <3>5. CASE t[q].bind # None /\ TextEffect(t[q]) \in d
      <4>1. Asks(t, q, TextEffect(t[q])) BY <3>5 DEF Asks, AsksText
      <4>2. TextEffect(t[q]) # e BY <1>0 DEF TextEffect, SlotEffect, Effect
      <4>3. TextEffect(t[q]) \in d2 BY <1>8, <2>2, <3>5, <4>1, <4>2
      <4>4. QED BY <3>1, <3>3, <3>5, <4>3
    <3>6. QED BY <3>3, <3>4, <3>5
  <2>3. QED BY <1>2, <2>1, <2>2
<1>16. ASSUME NEW q \in DOMAIN u, ~Stale(t2, d2, q) PROVE q \in DOMAIN t2
  <2>1. q \in Paths BY DEF IsTree
  <2>2. CASE IsStrictPrefix(p, q)
    <3>1. q \in B BY <2>2 DEF Beneath
    <3>2. QED BY <1>2, <3>1
  <2>3. CASE ~IsStrictPrefix(p, q)
    <3>1. ~Stale(t, d, q) BY <1>12, <1>16, <2>1, <2>3
    <3>2. q \in DOMAIN t BY <3>1 DEF Follows
    <3>3. QED BY <1>2, <2>3, <3>2
  <2>4. QED BY <2>2, <2>3
<1>17. QED BY <1>14, <1>15, <1>16 DEF Follows

LEMMA RunSlotOK ==
  ASSUME EmitterInv, NEW e \in due, e.kind = "slot", RunSlot(e),
         UNCHANGED <<root, values>>
  PROVE  EmitterInv'
<1> DEFINE t == tree
           t2 == tree'
           u == Render[root][values]
           ids(q) == IdsBeneath(tree, q)
           frameOf(q) == Reconciled(tree, tree', q)
           fails(q) == \E i \in DOMAIN frameOf(q) :
                         frameOf(q)[i].cmd = "SET_TEXT" /\ frameOf(q)[i].arg = None
           added(q) == IF fails(q) THEN {} ELSE Registered(tree', Nth(q, 1))
<1>1. PICK p \in {q \in DOMAIN tree : tree[q].id = e.id} :
        /\ tree' = Refitted(tree, u, p, nextId)
        /\ nextId' = nextId + Cardinality(Beneath(u, p) \ Kept(tree, u, p))
        /\ effects' = (effects \ Destroyed(tree, p)) \union added(p)
        /\ due' = ((due \ {e}) \ Destroyed(tree, p)) \union added(p)
        /\ taps' = IF fails(p) THEN Without(taps, Forgotten(ids(p)))
                   ELSE Over(Tapped(Part(tree', Beneath(u, p))), Without(taps, Forgotten(ids(p))))
        /\ links' = (links \ Forgotten(ids(p))) \union (IF fails(p) THEN {} ELSE Linked(tree', p))
        /\ broken' = (broken \/ fails(p))
  BY DEF RunSlot, IdsBeneath
<1> DEFINE B == Beneath(u, p)
           gone == {a \in effects : a.id \in ids(p)}
<1>2. Destroyed(tree, p) = gone BY DEF Destroyed, IdsBeneath
<1> HIDE DEF fails
<1>3. /\ root \in Roots /\ values \in Valuations /\ ShapeOK(t) /\ nextId \in Nat
      /\ \A q \in DOMAIN t : t[q].id < nextId
      /\ due \subseteq effects /\ \A a \in effects : a.kind = "text" => a.on \in TextSignals
  BY DEF EmitterInv, RetainedOK
<1>4. IsTree(u) BY <1>3, RenderedTree
<1>5. p \in DOMAIN t /\ t[p].id = e.id OBVIOUS
<1>6. Refits(t2, t, u, p, nextId')
  <2> HIDE DEF t, t2, u
  <2>1. t2 = Refitted(t, u, p, nextId) /\ nextId' = nextId + Cardinality(Beneath(u, p) \ Kept(t, u, p))
    BY <1>1 DEF t2, t, u
  <2>2. IdsBelow(t, nextId) BY <1>3 DEF IdsBelow
  <2>3. QED BY <1>3, <1>4, <1>5, <2>1, <2>2, RefittedIs
<1>7. Fits(t2, t, p, B) /\ ShapeOK(t2) BY <1>6 DEF Refits, Fits
<1>8. \A a \in added(p) : a.kind = "text" => a.on \in TextSignals
  <2>1. ASSUME NEW a \in Registered(t2, Nth(p, 1)) PROVE a.kind = "text" => a.on \in TextSignals
    <3>1. PICK q \in DOMAIN t2 : Asks(t2, q, a) BY RegisteredIs
    <3>2. QED BY <1>7, <3>1, AskedTyped
  <2>2. QED BY <2>1
<1>9. RetainedOK'
  <2>1. \A q \in DOMAIN t2 : t2[q].id < nextId' BY <1>6 DEF Refits, IdsBelow
  <2>2. due' \subseteq effects' BY <1>1, <1>3
  <2>3. \A a \in effects' : a.kind = "text" => a.on \in TextSignals BY <1>1, <1>3, <1>8
  <2>4. nextId' \in Nat BY <1>6 DEF Refits
  <2>5. QED BY <1>3, <1>7, <2>1, <2>2, <2>3, <2>4 DEF RetainedOK
<1>10. SUFFICES ASSUME ~broken' PROVE (WiredInv /\ FollowsInv /\ InputsOK(tree, taps, links))'
  BY <1>9 DEF EmitterInv
<1>11. ~broken /\ ~fails(p) BY <1>1, <1>10
<1>12. Wired(t, effects, due) /\ Follows(t, due, u) /\ InputsOK(t, taps, links)
  BY <1>11 DEF EmitterInv, WiredInv, FollowsInv
<1>13. t[p].slot # None /\ e = SlotEffect(t[p])
  <2>1. PICK q \in DOMAIN t : Asks(t, q, e) BY <1>3, <1>12 DEF Wired
  <2>2. AsksSlot(t, q, e) /\ e.id = t[q].id BY <1>3, <2>1, AskedTyped
  <2>3. q = p BY <1>3, <1>5, <2>2 DEF ShapeOK
  <2>4. QED BY <2>2, <2>3 DEF AsksSlot
<1>14. /\ effects' = (effects \ gone) \union Registered(t2, Nth(p, 1))
       /\ due' = ((due \ {e}) \ gone) \union Registered(t2, Nth(p, 1))
       /\ taps' = Over(Tapped(Part(t2, B)), Without(taps, ids(p)))
       /\ links' = (links \ ids(p)) \union Linked(t2, p)
  BY <1>1, <1>2, <1>11 DEF Forgotten
<1>15. Wired(t2, effects', due') /\ Follows(t2, due', u)
  <2>1. B = Beneath(u, p) /\ ShowsNow(t2, u, B) BY <1>6 DEF Refits
  <2>2. SlotRan(effects', due', effects, due, t2, t, p) BY <1>13, <1>14 DEF SlotRan
  <2> HIDE DEF t, t2, u, B
  <2>3. QED BY <1>4, <1>7, <1>12, <1>13, <2>1, <2>2, SlotWired
<1>16. InputsOK(t2, taps', links')
  <2>1. ids(p) = IdsBeneath(t, p) /\ taps = Tapped(t) BY <1>12 DEF InputsOK
  <2> HIDE DEF t, t2, u, B, ids
  <2>2. taps' = Tapped(t2) BY <1>7, <1>14, <2>1, SlotTaps
  <2>3. /\ links' \subseteq Linked(t2, <<>>)
        /\ \A q \in DOMAIN t2 :
             t2[q].id \in Linked(t2, <<>>) /\ ~CutOff(t2, q) => t2[q].id \in links'
    BY <1>7, <1>12, <1>13, <1>14, <2>1, SlotLinks
  <2>4. QED BY <2>2, <2>3 DEF InputsOK
<1>17. WiredInv' BY <1>15 DEF WiredInv
<1>18. FollowsInv' BY <1>15 DEF FollowsInv
<1>19. QED BY <1>16, <1>17, <1>18

-----------------------------------------------------------------------------
(* The theorems.                                                             *)

LEMMA StillOK ==
  ASSUME EmitterInv, UNCHANGED <<root, values, treeVars, due>>
  PROVE  EmitterInv'
BY DEF EmitterInv, RetainedOK, WiredInv, FollowsInv, treeVars

\* The invariant of the emitter: ids are distinct, and what is not below a slot whose
\* effect is due is registered and as the views render it (Emitter.java).
THEOREM EmitterInductive == EmitterSpec => []EmitterInv
<1>1. EmitterInv /\ [EmitterNext]_emitterVars => EmitterInv'
  <2> SUFFICES ASSUME EmitterInv, [EmitterNext]_emitterVars PROVE EmitterInv'
    OBVIOUS
  <2>1. ASSUME NEW e \in due, RunEffect(e) PROVE EmitterInv'
    <3>1. UNCHANGED <<root, values>> BY <2>1 DEF RunEffect
    <3>2. CASE e.kind = "text" /\ RunText(e) BY <3>1, <3>2, RunTextOK
    <3>3. CASE e.kind = "slot" /\ RunSlot(e) BY <3>1, <3>3, RunSlotOK
    <3>4. QED BY <2>1, <3>2, <3>3 DEF RunEffect
  <2>2. ASSUME NEW s \in Signals, NEW x \in ValuesOf[s], Write(s, x) PROVE EmitterInv'
    BY <2>2, WriteOK
  <2>3. CASE Cut BY <2>3, StillOK DEF Cut
  <2>4. CASE Reconnect BY <2>4, ReconnectOK
  <2>5. CASE RenderFull BY <2>5, StillOK DEF RenderFull
  <2>6. CASE UNCHANGED emitterVars BY <2>6, StillOK DEF emitterVars
  <2>7. QED BY <2>1, <2>2, <2>3, <2>4, <2>5, <2>6 DEF EmitterNext
<1>2. QED BY <1>1, StartOK, PTL DEF EmitterSpec

\* When a write has returned, and no effect broke, the retained tree shows what the
\* views render to (Emitter's effects, run in any order).
THEOREM TreeIsViewCorrect == EmitterSpec => []TreeIsView
<1>1. EmitterInv => TreeIsView
  <2> SUFFICES ASSUME EmitterInv, due = {}, ~broken
               PROVE  Content(tree) = Content(Render[root][values])
    BY DEF TreeIsView
  <2> DEFINE u == Render[root][values]
  <2>1. Follows(tree, {}, u) BY DEF EmitterInv, FollowsInv
  <2> HIDE DEF u
  <2>2. \A q : ~Stale(tree, {}, q) BY DEF Stale
  <2>3. DOMAIN tree = DOMAIN u BY <2>1, <2>2 DEF Follows
  <2>4. \A q \in DOMAIN tree : tree[q].component = u[q].component /\ tree[q].text = u[q].text
    BY <2>1, <2>2 DEF Follows, Stands
  <2>5. QED BY <2>3, <2>4 DEF Content, u
<1>2. QED BY <1>1, EmitterInductive, PTL

\* tapActions and navigateActions: a tap runs the action of the view that its node
\* shows, and a link that is not cut off goes by its router.
THEOREM InputsCorrect == EmitterSpec => []InputsReachOwner
<1>1. EmitterInv => InputsReachOwner BY DEF EmitterInv, InputsReachOwner, InputsOK
<1>2. QED BY <1>1, EmitterInductive, PTL

-----------------------------------------------------------------------------
(* What is as it was makes no frame.                                          *)

\* A frame of nothing but empty parts is empty.
LEMMA NothingFlattened ==
  ASSUME NEW n \in Nat, NEW s, s = [i \in 1 .. n |-> <<>>]
  PROVE  FlattenSeq(s) = <<>>
<1>1. Len(s) = n /\ \A i \in 1 .. n : s[i] = <<>> OBVIOUS
<1>2. CASE n = 0
  <2>1. s = <<>> BY <1>2
  <2>2. QED BY <1>1, <1>2, <2>1 DEF FlattenSeq
<1>3. CASE n # 0
  <2> DEFINE Fix(g) == g = [i \in 1 .. Len(s) |-> IF i = 1 THEN s[i] ELSE g[i - 1] \o s[i]]
             f == CHOOSE g : Fix(g)
  <2>1. FlattenSeq(s) = f[Len(s)] BY <1>1, <1>3 DEF FlattenSeq
  <2>2. Fix([i \in 1 .. n |-> <<>>])
    <3> DEFINE c == [i \in 1 .. n |-> <<>>]
    <3>1. ASSUME NEW i \in 1 .. n PROVE c[i] = IF i = 1 THEN s[i] ELSE c[i - 1] \o s[i]
      <4>1. CASE i = 1 BY <1>1, <4>1
      <4>2. CASE i # 1
        <5>1. i - 1 \in 1 .. n BY <4>2
        <5>2. c[i - 1] = <<>> /\ s[i] = <<>> BY <1>1, <5>1
        <5>3. <<>> \o <<>> = <<>> OBVIOUS
        <5>4. c[i - 1] \o s[i] = <<>> BY <5>2, <5>3
        <5>5. QED BY <4>2, <5>4
      <4>3. QED BY <4>1, <4>2
    <3>2. c = [i \in 1 .. n |-> c[i]] OBVIOUS
    <3> HIDE DEF c
    <3>3. Fix(c) BY <1>1, <3>1, <3>2
    <3>4. QED BY <3>3 DEF c
  <2> HIDE DEF Fix
  <2>3. Fix(f) BY <2>2
  <2> HIDE DEF f
  <2>4. /\ \A i \in 1 .. n : f[i] = IF i = 1 THEN s[i] ELSE f[i - 1] \o s[i]
    BY <1>1, <2>3 DEF Fix
  <2> DEFINE Bad == {i \in 1 .. n : f[i] # <<>>}
  <2>5. ASSUME Bad # {} PROVE FALSE
    <3>1. Bad \in SUBSET Nat OBVIOUS
    <3>2. PICK i \in Bad : \A j \in Bad : i <= j
      <4> HIDE DEF Bad
      <4>1. QED BY <2>5, <3>1, Smallest
    <3>3. f[i] # <<>> /\ i \in 1 .. n OBVIOUS
    <3>4. i # 1 BY <1>1, <2>4, <3>3
    <3>5. i - 1 \in 1 .. n /\ ~(i <= i - 1) BY <3>3, <3>4
    <3>6. f[i - 1] = <<>> BY <3>2, <3>5
    <3>7. f[i] = <<>> \o <<>> BY <1>1, <2>4, <3>3, <3>4, <3>6
    <3>8. QED BY <3>3, <3>7
  <2>6. n \in 1 .. n BY <1>3
  <2>7. f[n] = <<>> BY <2>5, <2>6
  <2>8. QED BY <1>1, <2>1, <2>7
<1>4. QED BY <1>2, <1>3

\* A finite set of paths has one with none of them below it: one with the fewest.
LEMMA Bottommost ==
  ASSUME NEW S \in SUBSET Paths, S # {}, IsFiniteSet(S)
  PROVE  \E p \in S : \A r \in S : ~IsStrictPrefix(p, r)
<1> DEFINE below(q) == Cardinality({r \in S : IsStrictPrefix(q, r)})
           T == {below(q) : q \in S}
<1>1. \A q \in S : IsFiniteSet({r \in S : IsStrictPrefix(q, r)}) BY FS_Subset
<1>2. \A q \in S : below(q) \in Nat BY <1>1, FS_CardinalityType
<1> HIDE DEF below
<1>3. T \in SUBSET Nat /\ T # {} BY <1>2
<1>4. PICK m \in T : \A k \in T : m <= k
  <2> HIDE DEF T
  <2>1. QED BY <1>3, Smallest
<1>5. PICK p \in S : below(p) = m OBVIOUS
<1>6. ASSUME NEW r \in S, IsStrictPrefix(p, r) PROVE FALSE
  <2> DEFINE A == {x \in S : IsStrictPrefix(r, x)}
             B == {x \in S : IsStrictPrefix(p, x)}
  <2>1. A \subseteq B /\ r \in B /\ r \notin A
    BY <1>6, PrefixOrder DEF IsStrictPrefix
  <2>2. IsFiniteSet(B) /\ IsFiniteSet(A) BY <1>1
  <2>3. below(r) = Cardinality(A) /\ below(p) = Cardinality(B) BY DEF below
  <2> HIDE DEF A, B
  <2>4. Cardinality(A) <= Cardinality(B) /\ Cardinality(A) # Cardinality(B)
    BY <2>1, <2>2, FS_Subset
  <2>5. m <= below(r) /\ below(r) \in Nat /\ below(p) \in Nat BY <1>2, <1>4
  <2>6. QED BY <1>5, <2>3, <2>4, <2>5
<1>7. QED BY <1>5, <1>6

\* Where two trees show the same, reconcileNode makes nothing.
LEMMA NothingReconciled ==
  ASSUME NEW t, NEW t2, NEW p, DOMAIN t \in SUBSET Paths, IsFiniteSet(DOMAIN t), Rooted(DOMAIN t),
         DOMAIN t2 = DOMAIN t, p \in DOMAIN t,
         \A q \in DOMAIN t : t2[q].component = t[q].component /\ t2[q].text = t[q].text
  PROVE  Reconciled(t, t2, p) = <<>>
<1> DEFINE K == Kept(t, t2, p)
           n(q) == Max({Arity(t, q), Arity(t2, q)})
           part(q, i, g) ==
             IF Nth(q, i) \in K THEN NewText(t[Nth(q, i)], t2[Nth(q, i)]) \o g[Nth(q, i)]
             ELSE (IF Nth(q, i) \in DOMAIN t
                   THEN <<RemoveOp(t2[q].id, t[Nth(q, i)].id), DeleteOp(t[Nth(q, i)].id)>>
                   ELSE <<>>)
                  \o (IF Nth(q, i) \in DOMAIN t2
                      THEN Append(EmitNode(t2, Nth(q, i)), InsertOp(t2[q].id, t2[Nth(q, i)].id, i - 1))
                      ELSE <<>>)
           Fix(g) == g = [q \in {p} \union K |-> FlattenSeq([i \in 1 .. n(q) |-> part(q, i, g)])]
           f == CHOOSE g : Fix(g)
<1>1. Reconciled(t, t2, p) = f[p] BY DEF Reconciled, EachChild
<1>2. K = Beneath(t, p)
  <2>1. ASSUME NEW q \in Beneath(t, p) PROVE q \in K
    <3>1. q \in DOMAIN t /\ q \in Paths /\ p \in Paths BY DEF Beneath
    <3>2. ASSUME NEW k \in Len(p) + 1 .. Len(q)
          PROVE  t[SubSeq(q, 1, k)].component = t2[SubSeq(q, 1, k)].component
      <4>1. k \in 0 .. Len(q) BY <3>1 DEF Paths
      <4>2. SubSeq(q, 1, k) \in Paths /\ IsPrefix(SubSeq(q, 1, k), q) BY <3>1, <4>1, PrefixOf
      <4>3. SubSeq(q, 1, k) \in DOMAIN t BY <3>1, <4>2 DEF Rooted
      <4>4. QED BY <4>3
    <3>3. QED BY <3>1, <3>2 DEF Kept, Beneath
  <2>2. K \subseteq Beneath(t, p) BY DEF Kept
  <2>3. QED BY <2>1, <2>2
<1>3. \A q : n(q) \in Nat
  <2> SUFFICES ASSUME NEW q PROVE n(q) \in Nat OBVIOUS
  <2> DEFINE a == Arity(t, q)
  <2>1. a \in Nat
    <3> DEFINE C == {r \in DOMAIN t : r # <<>> /\ Front(r) = q}
    <3>1. IsFiniteSet(C) BY FS_Subset
    <3> HIDE DEF C
    <3>2. Cardinality(C) \in Nat BY <3>1, FS_CardinalityType
    <3>3. QED BY <3>2 DEF Arity, C
  <2>2. Arity(t2, q) = a BY DEF Arity
  <2> HIDE DEF a
  <2>3. n(q) = Max({a}) BY <2>2 DEF a
  <2>4. Max({a}) = a
    <3>1. a >= a BY <2>1
    <3>2. \A x \in {a} : x = a OBVIOUS
    <3>3. QED BY <3>1, <3>2 DEF Max
  <2>5. QED BY <2>1, <2>3, <2>4
<1> HIDE DEF n
\* Nothing is made of a node below which nothing is made.
<1>4. ASSUME NEW g, NEW q \in {p} \union K, \A r \in K : IsStrictPrefix(q, r) => g[r] = <<>>
      PROVE  FlattenSeq([i \in 1 .. n(q) |-> part(q, i, g)]) = <<>>
  <2>1. q \in Paths BY <1>2 DEF Beneath
  <2>2. ASSUME NEW i \in 1 .. n(q) PROVE part(q, i, g) = <<>>
    <3>1. <<>> \o <<>> = <<>> OBVIOUS
    <3>2. i \in Nat \ {0} BY <1>3
    <3>3. Nth(q, i) \in Paths /\ IsStrictPrefix(q, Nth(q, i)) BY <2>1, <3>2, NthIs
    <3>4. CASE Nth(q, i) \in K
      <4>1. Nth(q, i) \in DOMAIN t BY <1>2, <3>4 DEF Beneath
      <4>2. NewText(t[Nth(q, i)], t2[Nth(q, i)]) = <<>> BY <4>1 DEF NewText
      <4>3. g[Nth(q, i)] = <<>> BY <1>4, <3>3, <3>4
      <4>4. QED BY <3>1, <3>4, <4>2, <4>3
    <3>5. CASE Nth(q, i) \notin K
      <4>1. p = q \/ IsStrictPrefix(p, q) BY <1>2 DEF Beneath
      <4>2. p \in Paths OBVIOUS
      <4>3. IsStrictPrefix(p, Nth(q, i)) BY <2>1, <3>3, <4>1, <4>2, PrefixOrder DEF IsStrictPrefix
      <4>4. Nth(q, i) \notin DOMAIN t BY <1>2, <3>5, <4>3 DEF Beneath
      <4>5. QED BY <3>1, <3>5, <4>4
    <3>6. QED BY <3>4, <3>5
  <2> HIDE DEF part
  <2>3. [i \in 1 .. n(q) |-> part(q, i, g)] = [i \in 1 .. n(q) |-> <<>>] BY <2>2
  <2> DEFINE s == [i \in 1 .. n(q) |-> part(q, i, g)]
  <2>4. s = [i \in 1 .. n(q) |-> <<>>] BY <2>3
  <2> HIDE DEF s
  <2>5. FlattenSeq(s) = <<>> BY <1>3, <2>4, NothingFlattened
  <2>6. QED BY <2>5 DEF s
<1> HIDE DEF part
<1>5. Fix([q \in {p} \union K |-> <<>>])
  <2> DEFINE c == [q \in {p} \union K |-> <<>>]
  <2>1. \A q \in {p} \union K : c[q] = <<>> OBVIOUS
  <2>2. c = [q \in {p} \union K |-> c[q]] OBVIOUS
  <2> HIDE DEF c, K
  <2>3. ASSUME NEW q \in {p} \union K
        PROVE  c[q] = FlattenSeq([i \in 1 .. n(q) |-> part(q, i, c)])
    <3>1. \A r \in K : IsStrictPrefix(q, r) => c[r] = <<>> BY <2>1
    <3>2. QED BY <1>4, <2>1, <3>1
  <2>4. Fix(c) BY <2>2, <2>3
  <2>5. QED BY <2>4 DEF c
<1> HIDE DEF Fix
<1>6. Fix(f) BY <1>5
<1> HIDE DEF f
<1>7. \A q \in {p} \union K : f[q] = FlattenSeq([i \in 1 .. n(q) |-> part(q, i, f)])
  BY <1>6 DEF Fix
<1> HIDE DEF K
<1> DEFINE Bad == {q \in {p} \union K : f[q] # <<>>}
<1>8. ASSUME Bad # {} PROVE FALSE
  <2>1. Bad \in SUBSET DOMAIN t BY <1>2 DEF Beneath
  <2>2. Bad \in SUBSET Paths /\ IsFiniteSet(Bad) BY <2>1, FS_Subset
  <2>3. PICK q \in Bad : \A r \in Bad : ~IsStrictPrefix(q, r)
    <3> HIDE DEF Bad
    <3>1. QED BY <1>8, <2>2, Bottommost
  <2>4. q \in {p} \union K /\ f[q] # <<>> OBVIOUS
  <2>5. \A r \in K : IsStrictPrefix(q, r) => f[r] = <<>> BY <2>3
  <2>6. FlattenSeq([i \in 1 .. n(q) |-> part(q, i, f)]) = <<>> BY <1>4, <2>4, <2>5
  <2>7. QED BY <1>7, <2>4, <2>6
<1>9. QED BY <1>1, <1>8

LEMMA SameContent ==
  ASSUME NEW t, NEW t2, Content(t2) = Content(t)
  PROVE  /\ DOMAIN t2 = DOMAIN t
         /\ \A q \in DOMAIN t : t2[q].component = t[q].component /\ t2[q].text = t[q].text
<1>1. DOMAIN Content(t) = DOMAIN t /\ DOMAIN Content(t2) = DOMAIN t2 BY DEF Content
<1>2. DOMAIN t2 = DOMAIN t BY <1>1
<1>3. ASSUME NEW q \in DOMAIN t PROVE t2[q].component = t[q].component /\ t2[q].text = t[q].text
  <2>1. /\ Content(t)[q] = <<t[q].component, t[q].text>>
        /\ Content(t2)[q] = <<t2[q].component, t2[q].text>>
    BY <1>2 DEF Content
  <2>2. QED BY <2>1
<1>4. QED BY <1>2, <1>3

Quiet(t2, t, ops) == ops = <<>> /\ \A q \in DOMAIN t : t2[q].id = t[q].id

LEMMA TextQuiet ==
  ASSUME EmitterInv, NEW e \in due, RunText(e), Content(tree') = Content(tree)
  PROVE  Quiet(tree', tree, frame')
<1> DEFINE stale == {q \in DOMAIN tree : tree[q].id = e.id /\ tree[q].text # values[e.on]}
           x == values[e.on]
<1>1. /\ tree' = [q \in DOMAIN tree |->
                    IF q \in stale THEN [tree[q] EXCEPT !.text = x] ELSE tree[q]]
      /\ stale = {} => frame' = <<>>
  BY DEF RunText, Send
<1>2. \A q \in DOMAIN tree : tree[q] \in Retained
  BY DEF EmitterInv, RetainedOK, ShapeOK
<1>3. ASSUME NEW q \in stale PROVE FALSE
  <2>1. q \in DOMAIN tree /\ tree[q].text # x OBVIOUS
  <2>2. tree'[q] = [tree[q] EXCEPT !.text = x] BY <1>1, <2>1
  <2> HIDE DEF x
  <2>3. tree'[q].text = x BY <1>2, <2>1, <2>2 DEF Retained
  <2>4. QED BY <2>1, <2>3, SameContent
<1> HIDE DEF stale, x
<1>4. \A q \in DOMAIN tree : tree'[q] = tree[q] BY <1>1, <1>3
<1>5. QED BY <1>1, <1>3, <1>4 DEF Quiet

LEMMA SlotQuiet ==
  ASSUME EmitterInv, NEW e \in due, RunSlot(e), Content(tree') = Content(tree)
  PROVE  Quiet(tree', tree, frame')
<1> DEFINE t == tree
           t2 == tree'
           u == Render[root][values]
<1>1. PICK p \in DOMAIN tree :
        /\ tree' = Refitted(tree, u, p, nextId)
        /\ frame' = <<>> \/ frame' = Reconciled(tree, tree', p)
  BY DEF RunSlot, Send
<1>2. /\ root \in Roots /\ values \in Valuations /\ ShapeOK(t) /\ nextId \in Nat
      /\ IdsBelow(t, nextId)
  BY DEF EmitterInv, RetainedOK, IdsBelow
<1>3. IsTree(u) BY <1>2, RenderedTree
<1> HIDE DEF t, t2, u
<1>4. Refits(t2, t, u, p, nextId + Cardinality(Beneath(u, p) \ Kept(t, u, p)))
  BY <1>1, <1>2, <1>3, RefittedIs DEF t, t2
<1>5. /\ DOMAIN t2 = DOMAIN t
      /\ \A q \in DOMAIN t : t2[q].component = t[q].component /\ t2[q].text = t[q].text
  BY SameContent DEF t, t2
<1>6. /\ p \in DOMAIN t /\ DOMAIN t \in SUBSET Paths /\ IsFiniteSet(DOMAIN t) /\ Rooted(DOMAIN t)
  BY <1>1, <1>2 DEF ShapeOK, t
<1>7. Reconciled(t, t2, p) = <<>> BY <1>5, <1>6, NothingReconciled
<1>8. /\ Fits(t2, t, p, Beneath(u, p)) /\ ShowsNow(t2, u, Beneath(u, p))
      /\ \A q \in Kept(t, u, p) : t2[q].id = t[q].id
  BY <1>4 DEF Refits
<1>9. /\ \A q : q \in Outside(t, p) <=> q \in DOMAIN t /\ ~IsStrictPrefix(p, q)
      /\ \A q : q \in Beneath(u, p) <=> q \in DOMAIN t2 /\ IsStrictPrefix(p, q)
  BY <1>8, FitsIs
<1>10. \A q \in Outside(t, p) : t2[q] = t[q] BY <1>8 DEF Fits
\* All that is beneath the slot is kept.
<1>11. ASSUME NEW q \in DOMAIN t, IsStrictPrefix(p, q) PROVE q \in Kept(t, u, p)
  <2>1. q \in Beneath(t, p) /\ q \in Beneath(u, p) BY <1>5, <1>9, <1>11 DEF Beneath
  <2>2. ASSUME NEW k \in Len(p) + 1 .. Len(q)
        PROVE  t[SubSeq(q, 1, k)].component = u[SubSeq(q, 1, k)].component
    <3>1. p \in Paths /\ q \in Paths BY <1>6
    <3>2. Len(p) \in Nat /\ Len(q) \in Nat BY <3>1 DEF Paths
    <3>3. k \in 0 .. Len(q) /\ Len(p) < k BY <3>2
    <3> DEFINE r == SubSeq(q, 1, k)
    <3>4. r \in Paths /\ IsPrefix(r, q) /\ Len(r) = k BY <3>1, <3>3, PrefixOf
    <3> HIDE DEF r
    <3>5. r \in DOMAIN t BY <1>6, <3>4 DEF Rooted
    <3>6. IsPrefix(p, q) BY <1>11 DEF IsStrictPrefix
    <3>7. IsPrefix(p, r) \/ IsStrictPrefix(r, p) BY <3>1, <3>4, <3>6, PrefixOrder
    <3>8. ~IsPrefix(r, p) BY <3>1, <3>2, <3>3, <3>4, PrefixIs
    <3>9. IsStrictPrefix(p, r)
      <4>1. IsPrefix(p, r) BY <3>7, <3>8 DEF IsStrictPrefix
      <4>2. QED BY <3>1, <3>3, <3>4, <4>1, PrefixIs
    <3>10. r \in Beneath(u, p) BY <1>5, <1>9, <3>5, <3>9
    <3>11. t2[r].component = u[r].component BY <1>8, <3>10 DEF ShowsNow, Stands
    <3>12. t2[r].component = t[r].component BY <1>5, <3>5
    <3>13. QED BY <3>11, <3>12 DEF r
  <2>3. QED BY <2>1, <2>2 DEF Kept
<1>12. \A q \in DOMAIN t : t2[q].id = t[q].id BY <1>8, <1>9, <1>10, <1>11
<1>13. frame' = <<>> BY <1>1, <1>7 DEF t, t2
<1>14. QED BY <1>12, <1>13 DEF Quiet, t, t2

\* "An identical recompute emits zero opcodes": a step of the emitter that leaves what
\* the tree shows as it was sends nothing and keeps every id (QuietRecompute).
THEOREM QuietCorrect == EmitterSpec => QuietRecompute
<1> DEFINE Silent == Content(tree') = Content(tree) /\ linked' = linked /\ asked' = asked
                       => /\ frame' = <<>>
                          /\ \A q \in DOMAIN tree : tree'[q].id = tree[q].id
<1>1. EmitterInv /\ [EmitterNext]_emitterVars => [Silent]_emitterVars
  <2> SUFFICES ASSUME EmitterInv, EmitterNext,
                      Content(tree') = Content(tree), linked' = linked, asked' = asked
               PROVE  Quiet(tree', tree, frame')
    BY DEF Quiet
  <2>1. ASSUME NEW e \in due, RunEffect(e) PROVE Quiet(tree', tree, frame')
    <3>1. CASE RunText(e) BY <3>1, TextQuiet
    <3>2. CASE RunSlot(e) BY <3>2, SlotQuiet
    <3>3. QED BY <2>1, <3>1, <3>2 DEF RunEffect
  <2>2. ASSUME NEW s \in Signals, NEW x \in ValuesOf[s], Write(s, x)
        PROVE  Quiet(tree', tree, frame')
    BY <2>2 DEF Write, treeVars, Quiet
  <2>3. CASE Cut BY <2>3 DEF Cut
  <2>4. CASE Reconnect BY <2>4 DEF Reconnect
  <2>5. CASE RenderFull BY <2>5 DEF RenderFull
  <2>6. QED BY <2>1, <2>2, <2>3, <2>4, <2>5 DEF EmitterNext
<1>2. QED BY <1>1, EmitterInductive, PTL DEF EmitterSpec, QuietRecompute

-----------------------------------------------------------------------------
(* Lists of elements.                                                         *)

NoRepeat(s) == \A j, k \in DOMAIN s : s[j] = s[k] => j = k

LEMMA CutOutIs ==
  ASSUME NEW S, NEW s \in Seq(S), NEW k \in 1 .. Len(s), NEW r, r = RemoveAt(s, k)
  PROVE  /\ r \in Seq(S) /\ Len(r) = Len(s) - 1
         /\ \A j \in 1 .. Len(r) : r[j] = IF j < k THEN s[j] ELSE s[j + 1]
<1> DEFINE a == SubSeq(s, 1, k - 1)
           b == SubSeq(s, k + 1, Len(s))
<1>1. Len(s) \in Nat /\ k \in Nat /\ k <= Len(s) OBVIOUS
<1>2. /\ a \in Seq(S) /\ Len(a) = k - 1
      /\ \A j \in 1 .. k - 1 : a[j] = s[j]
  BY <1>1
<1>3. /\ b \in Seq(S) /\ Len(b) = Len(s) - k
      /\ \A j \in 1 .. Len(s) - k : b[j] = s[k + j]
  BY <1>1
<1> HIDE DEF a, b
<1>4. r = a \o b BY DEF RemoveAt, a, b
<1>5. /\ r \in Seq(S) /\ Len(r) = Len(s) - 1
      /\ \A j \in 1 .. k - 1 : r[j] = a[j]
      /\ \A j \in k .. Len(s) - 1 : r[j] = b[j - (k - 1)]
  BY <1>1, <1>2, <1>3, <1>4
<1>6. ASSUME NEW j \in k .. Len(s) - 1 PROVE r[j] = s[j + 1]
  <2>1. j - (k - 1) \in 1 .. Len(s) - k /\ k + (j - (k - 1)) = j + 1 BY <1>1
  <2>2. QED BY <1>3, <1>5, <2>1
<1>7. QED BY <1>1, <1>2, <1>5, <1>6

Removed(r, S, s, x) ==
  /\ r \in Seq(S) /\ ToSet(r) \subseteq ToSet(s)
  /\ x \notin ToSet(s) => r = s
  /\ NoRepeat(s) => NoRepeat(r) /\ ToSet(r) = ToSet(s) \ {x}

LEMMA RemovedIs ==
  ASSUME NEW S, NEW s \in Seq(S), NEW x
  PROVE  Removed(RemoveFirst(s, x), S, s, x)
<1> SUFFICES ASSUME NEW r, r = RemoveFirst(s, x) PROVE Removed(r, S, s, x) OBVIOUS
<1>0. Len(s) \in Nat /\ DOMAIN s = 1 .. Len(s) OBVIOUS
<1>1. CASE x \notin ToSet(s)
  <2>1. ~ \E i \in 1 .. Len(s) : s[i] = x BY <1>0, <1>1 DEF ToSet
  <2>2. r = s BY <2>1 DEF RemoveFirst
  <2>3. QED BY <1>1, <2>2 DEF Removed
<1>2. CASE x \in ToSet(s)
  <2> DEFINE I == {i \in 1 .. Len(s) : s[i] = x}
             k == Min(I)
  <2>1. I # {} /\ I \in SUBSET Nat BY <1>0, <1>2 DEF ToSet
  <2>2. r = RemoveAt(s, k) BY <2>1 DEF RemoveFirst, SelectInSeq
  <2>3. k \in I
    <3>1. \E i \in I : \A j \in I : i <= j
      <4> HIDE DEF I
      <4>1. QED BY <2>1, Smallest
    <3> HIDE DEF I
    <3>2. k = CHOOSE i \in I : \A j \in I : i <= j BY DEF Min
    <3> HIDE DEF k
    <3>3. QED BY <3>1, <3>2
  <2>4. k \in 1 .. Len(s) /\ s[k] = x BY <2>3
  <2> HIDE DEF k, I
  <2>5. /\ r \in Seq(S) /\ Len(r) = Len(s) - 1
        /\ \A j \in 1 .. Len(r) : r[j] = IF j < k THEN s[j] ELSE s[j + 1]
    BY <2>2, <2>4, CutOutIs
  <2>6. DOMAIN r = 1 .. Len(s) - 1 BY <1>0, <2>4, <2>5
  <2>7. ToSet(r) \subseteq ToSet(s)
    <3>1. \A j \in DOMAIN r : r[j] \in ToSet(s) BY <1>0, <2>4, <2>5, <2>6 DEF ToSet
    <3>2. QED BY <3>1 DEF ToSet
  <2>8. ASSUME NoRepeat(s) PROVE NoRepeat(r) /\ ToSet(r) = ToSet(s) \ {x}
    <3>1. \A j \in DOMAIN r : r[j] # x
      BY <1>0, <2>4, <2>5, <2>6, <2>8 DEF NoRepeat
    <3>2. NoRepeat(r)
      <4> SUFFICES ASSUME NEW i \in DOMAIN r, NEW j \in DOMAIN r, r[i] = r[j] PROVE i = j
        BY DEF NoRepeat
      <4> DEFINE at(m) == IF m < k THEN m ELSE m + 1
      <4>1. at(i) \in DOMAIN s /\ at(j) \in DOMAIN s /\ r[i] = s[at(i)] /\ r[j] = s[at(j)]
        BY <1>0, <2>4, <2>5, <2>6
      <4>2. at(i) = at(j) BY <2>8, <4>1 DEF NoRepeat
      <4>3. QED BY <1>0, <2>4, <2>6, <4>2
    <3>3. ASSUME NEW y \in ToSet(s), y # x PROVE y \in ToSet(r)
      <4>1. PICK i \in DOMAIN s : s[i] = y BY DEF ToSet
      <4>2. i # k BY <2>4, <3>3, <4>1
      <4>3. CASE i < k
        <5>1. i \in DOMAIN r /\ r[i] = y BY <1>0, <2>4, <2>5, <2>6, <4>1, <4>3
        <5>2. QED BY <5>1 DEF ToSet
      <4>4. CASE i > k
        <5>1. i - 1 \in DOMAIN r /\ ~(i - 1 < k) /\ (i - 1) + 1 = i BY <1>0, <2>4, <2>6, <4>4
        <5>2. r[i - 1] = y BY <2>5, <2>6, <4>1, <5>1
        <5>3. QED BY <5>1, <5>2 DEF ToSet
      <4>5. QED BY <1>0, <2>4, <4>2, <4>3, <4>4
    <3>4. \A y \in ToSet(r) : y # x BY <3>1 DEF ToSet
    <3>5. QED BY <2>7, <3>2, <3>3, <3>4
  <2>9. QED BY <1>2, <2>5, <2>7, <2>8 DEF Removed
<1>3. QED BY <1>1, <1>2 DEF Removed

Both(a, b) == ToSet(a \o b) = ToSet(a) \union ToSet(b)

LEMMA BothIs ==
  ASSUME NEW S, NEW a \in Seq(S), NEW b \in Seq(S)
  PROVE  Both(a, b)
<1> DEFINE ab == a \o b
<1>0. /\ Len(a) \in Nat /\ Len(b) \in Nat
      /\ DOMAIN a = 1 .. Len(a) /\ DOMAIN b = 1 .. Len(b)
  OBVIOUS
<1>1. /\ ab \in Seq(S) /\ Len(ab) = Len(a) + Len(b) /\ DOMAIN ab = 1 .. Len(a) + Len(b)
      /\ \A i \in 1 .. Len(a) : ab[i] = a[i]
      /\ \A i \in 1 .. Len(b) : ab[Len(a) + i] = b[i]
  <2>1. ab \in Seq(S) /\ Len(ab) = Len(a) + Len(b) OBVIOUS
  <2>2. \A i \in 1 .. Len(a) : ab[i] = a[i] OBVIOUS
  <2>3. ASSUME NEW i \in 1 .. Len(b) PROVE ab[Len(a) + i] = b[i]
    <3>1. Len(a) + i \in Len(a) + 1 .. Len(a) + Len(b) /\ (Len(a) + i) - Len(a) = i BY <1>0
    <3>2. QED BY <3>1
  <2>4. QED BY <2>1, <2>2, <2>3
<1> HIDE DEF ab
<1>2. \A i \in DOMAIN ab : ab[i] \in ToSet(a) \union ToSet(b)
  <2> SUFFICES ASSUME NEW i \in DOMAIN ab PROVE ab[i] \in ToSet(a) \union ToSet(b) OBVIOUS
  <2>1. CASE i <= Len(a) BY <1>0, <1>1, <2>1 DEF ToSet
  <2>2. CASE i > Len(a)
    <3>1. i - Len(a) \in 1 .. Len(b) /\ Len(a) + (i - Len(a)) = i BY <1>0, <1>1, <2>2
    <3>2. ab[i] = b[i - Len(a)] BY <1>1, <3>1
    <3>3. QED BY <1>0, <3>1, <3>2 DEF ToSet
  <2>3. QED BY <1>0, <1>1, <2>1, <2>2
<1>3. \A i \in DOMAIN a : a[i] \in ToSet(ab)
  <2> SUFFICES ASSUME NEW i \in DOMAIN a PROVE a[i] \in ToSet(ab) OBVIOUS
  <2>1. i \in DOMAIN ab /\ ab[i] = a[i] BY <1>0, <1>1
  <2>2. QED BY <2>1 DEF ToSet
<1>4. \A i \in DOMAIN b : b[i] \in ToSet(ab)
  <2> SUFFICES ASSUME NEW i \in DOMAIN b PROVE b[i] \in ToSet(ab) OBVIOUS
  <2>1. Len(a) + i \in DOMAIN ab /\ ab[Len(a) + i] = b[i] BY <1>0, <1>1
  <2>2. QED BY <2>1 DEF ToSet
<1>5. ToSet(ab) = ToSet(a) \union ToSet(b) BY <1>2, <1>3, <1>4 DEF ToSet
<1>6. QED BY <1>5 DEF ab, Both

\* Appending to the first of two lists is putting before the second.
Shifts(a, b, x) == Append(a, x) \o b = a \o (<<x>> \o b)

LEMMA ShiftIs ==
  ASSUME NEW S, NEW a \in Seq(S), NEW b \in Seq(S), NEW x \in S
  PROVE  Shifts(a, b, x)
<1> DEFINE ax == Append(a, x)
           xb == <<x>> \o b
           l == ax \o b
           r == a \o xb
<1>0. /\ Len(a) \in Nat /\ Len(b) \in Nat
      /\ DOMAIN a = 1 .. Len(a) /\ DOMAIN b = 1 .. Len(b)
  OBVIOUS
<1>2. /\ ax \in Seq(S) /\ Len(ax) = Len(a) + 1 /\ DOMAIN ax = 1 .. Len(a) + 1
      /\ \A i \in 1 .. Len(a) : ax[i] = a[i]
      /\ ax[Len(a) + 1] = x
  BY <1>0
<1>3. /\ xb \in Seq(S) /\ Len(xb) = Len(b) + 1 /\ DOMAIN xb = 1 .. Len(b) + 1
      /\ xb[1] = x
      /\ \A i \in 1 .. Len(b) : xb[i + 1] = b[i]
  <2>1. xb \in Seq(S) /\ Len(xb) = Len(b) + 1 /\ xb[1] = x BY <1>0
  <2>2. ASSUME NEW i \in 1 .. Len(b) PROVE xb[i + 1] = b[i]
    <3>1. i + 1 \in 1 + 1 .. 1 + Len(b) /\ (i + 1) - 1 = i /\ Len(<<x>>) = 1 BY <1>0
    <3>2. QED BY <3>1
  <2>3. QED BY <2>1, <2>2
<1>4. /\ l \in Seq(S) /\ Len(l) = (Len(a) + 1) + Len(b)
      /\ \A i \in 1 .. Len(a) + 1 : l[i] = ax[i]
      /\ \A i \in 1 .. Len(b) : l[(Len(a) + 1) + i] = b[i]
  <2> HIDE DEF ax
  <2>1. l \in Seq(S) /\ Len(l) = (Len(a) + 1) + Len(b)
    <3>1. ax \in Seq(S) /\ Len(ax) = Len(a) + 1 BY <1>2
    <3>2. l \in Seq(S) /\ Len(l) = Len(ax) + Len(b) BY <3>1
    <3>3. QED BY <3>1, <3>2
  <2>2. \A i \in 1 .. Len(a) + 1 : l[i] = ax[i] BY <1>2
  <2>3. ASSUME NEW i \in 1 .. Len(b) PROVE l[(Len(a) + 1) + i] = b[i]
    <3>1. /\ (Len(a) + 1) + i \in Len(ax) + 1 .. Len(ax) + Len(b)
          /\ ((Len(a) + 1) + i) - Len(ax) = i
      BY <1>0, <1>2
    <3>2. QED BY <3>1, <1>2
  <2>4. QED BY <2>1, <2>2, <2>3
<1>5. /\ r \in Seq(S) /\ Len(r) = Len(a) + (Len(b) + 1)
      /\ \A i \in 1 .. Len(a) : r[i] = a[i]
      /\ \A i \in 1 .. Len(b) + 1 : r[Len(a) + i] = xb[i]
  <2> HIDE DEF xb
  <2>1. r \in Seq(S) /\ Len(r) = Len(a) + (Len(b) + 1)
    <3>1. xb \in Seq(S) /\ Len(xb) = Len(b) + 1 BY <1>3
    <3>2. r \in Seq(S) /\ Len(r) = Len(a) + Len(xb) BY <3>1
    <3>3. QED BY <3>1, <3>2
  <2>2. \A i \in 1 .. Len(a) : r[i] = a[i] BY <1>3
  <2>3. ASSUME NEW i \in 1 .. Len(b) + 1 PROVE r[Len(a) + i] = xb[i]
    <3>1. Len(a) + i \in Len(a) + 1 .. Len(a) + Len(xb) /\ (Len(a) + i) - Len(a) = i
      BY <1>0, <1>3
    <3>2. QED BY <3>1, <1>3
  <2>4. QED BY <2>1, <2>2, <2>3
<1> HIDE DEF ax, xb, l, r
<1>9. l = r
  <2>1. Len(l) = Len(r) BY <1>0, <1>4, <1>5
  <2>2. ASSUME NEW i \in 1 .. Len(l) PROVE l[i] = r[i]
    <3>1. CASE i <= Len(a)
      <4>1. i \in 1 .. Len(a) /\ i \in 1 .. Len(a) + 1 BY <1>0, <3>1
      <4>2. QED BY <4>1, <1>2, <1>4, <1>5
    <3>2. CASE i = Len(a) + 1
      <4>1. i \in 1 .. Len(a) + 1 /\ 1 \in 1 .. Len(b) + 1 BY <1>0, <3>2
      <4>2. r[Len(a) + 1] = x /\ l[i] = ax[i] BY <4>1, <1>3, <1>4, <1>5
      <4>3. QED BY <3>2, <4>2, <1>2
    <3>3. CASE i > Len(a) + 1
      <4> DEFINE j == i - (Len(a) + 1)
      <4>1. /\ j \in 1 .. Len(b) /\ j + 1 \in 1 .. Len(b) + 1
            /\ (Len(a) + 1) + j = i /\ Len(a) + (j + 1) = i
        BY <1>0, <1>4, <3>3
      <4> HIDE DEF j
      <4>2. l[i] = b[j] BY <4>1, <1>4
      <4>3. r[i] = xb[j + 1] BY <4>1, <1>5
      <4>4. xb[j + 1] = b[j] BY <4>1, <1>3
      <4>5. QED BY <4>2, <4>3, <4>4
    <3>4. QED BY <1>0, <3>1, <3>2, <3>3
  <2>3. QED BY <1>4, <1>5, <2>1, <2>2
<1>10. QED BY <1>9 DEF Shifts, l, r, ax, xb

\* insertAt puts an element at its place, or at the end.
PutIn(r, S, s, x, k) ==
  /\ r \in Seq(S) /\ ToSet(r) = ToSet(s) \union {x}
  /\ NoRepeat(s) /\ x \notin ToSet(s) => NoRepeat(r)
  /\ k = -1 => r = Append(s, x)

LEMMA InsertedIs ==
  ASSUME NEW S, NEW s \in Seq(S), NEW x \in S, NEW k \in Int
  PROVE  PutIn(InsertedAt(s, x, k), S, s, x, k)
<1> SUFFICES ASSUME NEW r, r = InsertedAt(s, x, k) PROVE PutIn(r, S, s, x, k) OBVIOUS
<1> DEFINE n == IF k \in 0 .. Len(s) - 1 THEN k ELSE Len(s)
<1>0. Len(s) \in Nat /\ DOMAIN s = 1 .. Len(s) /\ n \in 0 .. Len(s) OBVIOUS
<1>1. /\ r \in Seq(S) /\ Len(r) = Len(s) + 1
      /\ \A j \in 1 .. Len(s) + 1 : r[j] = IF j <= n THEN s[j] ELSE IF j = n + 1 THEN x ELSE s[j - 1]
  <2>1. CASE k \in 0 .. Len(s) - 1
    <3> DEFINE a == SubSeq(s, 1, k)
               b == SubSeq(s, k + 1, Len(s))
               ax == a \o <<x>>
    <3>1. r = ax \o b
      <4>1. (k + 1) - 1 = k BY <2>1
      <4>2. QED BY <2>1, <4>1 DEF InsertedAt, InsertAt
    <3>2. a \in Seq(S) /\ Len(a) = k /\ \A j \in 1 .. k : a[j] = s[j] BY <1>0, <2>1
    <3>3. /\ b \in Seq(S) /\ Len(b) = Len(s) - k
          /\ \A j \in 1 .. Len(s) - k : b[j] = s[k + j]
      BY <1>0, <2>1
    <3> HIDE DEF a, b
    <3>4. /\ ax \in Seq(S) /\ Len(ax) = k + 1 /\ ax[k + 1] = x
          /\ \A j \in 1 .. k : ax[j] = a[j]
      <4>1. <<x>> \in Seq(S) /\ Len(<<x>>) = 1 /\ k \in Nat BY <2>1
      <4>2. ax \in Seq(S) /\ Len(ax) = k + 1 BY <3>2, <4>1
      <4>3. \A j \in 1 .. k : ax[j] = a[j] BY <3>2, <4>1
      <4>4. ax[k + 1] = x BY <3>2, <4>1
      <4>5. QED BY <4>2, <4>3, <4>4
    <3> HIDE DEF ax
    <3>5. /\ r \in Seq(S) /\ Len(r) = (k + 1) + (Len(s) - k)
          /\ \A j \in 1 .. k + 1 : r[j] = ax[j]
          /\ \A j \in k + 2 .. Len(s) + 1 : r[j] = b[j - (k + 1)]
      <4>1. r \in Seq(S) /\ Len(r) = Len(ax) + Len(b)
        <5>1. ax \in Seq(S) /\ b \in Seq(S) /\ r = ax \o b BY <3>1, <3>3, <3>4
        <5>2. QED BY ONLY <5>1
      <4>2. \A j \in 1 .. k + 1 : r[j] = ax[j] BY <3>1, <3>3, <3>4
      <4>3. ASSUME NEW j \in k + 2 .. Len(s) + 1 PROVE r[j] = b[j - (k + 1)]
        <5>1. j \in Len(ax) + 1 .. Len(ax) + Len(b) /\ j - Len(ax) = j - (k + 1)
          BY <1>0, <2>1, <3>3, <3>4
        <5>2. ax \in Seq(S) /\ b \in Seq(S) /\ r = ax \o b BY <3>1, <3>3, <3>4
        <5>3. r[j] = b[j - Len(ax)] BY ONLY <5>1, <5>2
        <5>4. QED BY <5>1, <5>3
      <4>4. QED BY <3>3, <3>4, <4>1, <4>2, <4>3
    <3>6. n = k BY <2>1
    <3>7. ASSUME NEW j \in k + 2 .. Len(s) + 1 PROVE r[j] = s[j - 1]
      <4>1. j - (k + 1) \in 1 .. Len(s) - k /\ k + (j - (k + 1)) = j - 1 BY <1>0, <2>1
      <4>2. QED BY <3>3, <3>5, <4>1
    <3> HIDE DEF n
    <3>8. ASSUME NEW j \in 1 .. Len(s) + 1
          PROVE r[j] = IF j <= n THEN s[j] ELSE IF j = n + 1 THEN x ELSE s[j - 1]
      <4>1. CASE j <= k
        <5>1. j \in 1 .. k /\ j \in 1 .. k + 1 BY <2>1, <4>1
        <5>2. QED BY <3>2, <3>4, <3>5, <3>6, <4>1, <5>1
      <4>2. CASE j = k + 1
        <5>1. j \in 1 .. k + 1 /\ ~(j <= k) BY <2>1, <4>2
        <5>2. QED BY <3>4, <3>5, <3>6, <4>2, <5>1
      <4>3. CASE j > k + 1
        <5>1. j \in k + 2 .. Len(s) + 1 /\ ~(j <= k) /\ j # k + 1 BY <1>0, <2>1, <4>3
        <5>2. QED BY <3>6, <3>7, <5>1
      <4>4. QED BY <2>1, <4>1, <4>2, <4>3
    <3>9. Len(r) = Len(s) + 1 BY <1>0, <2>1, <3>5
    <3>10. QED BY <3>5, <3>8, <3>9
  <2>2. CASE k \notin 0 .. Len(s) - 1
    <3>1. r = Append(s, x) BY <2>2 DEF InsertedAt
    <3>2. n = Len(s) BY <2>2
    <3> HIDE DEF n
    <3>3. /\ r \in Seq(S) /\ Len(r) = Len(s) + 1 /\ r[Len(s) + 1] = x
          /\ \A j \in 1 .. Len(s) : r[j] = s[j]
      BY <1>0, <3>1
    <3>4. \A j \in 1 .. Len(s) + 1 : j \in 1 .. Len(s) \/ (j = Len(s) + 1 /\ ~(j <= Len(s)))
      BY <1>0
    <3>5. QED BY <1>0, <3>2, <3>3, <3>4
  <2>3. QED BY <2>1, <2>2
<1>2. k = -1 => r = Append(s, x)
  <2>1. -1 \notin 0 .. Len(s) - 1 BY <1>0
  <2>2. QED BY <2>1 DEF InsertedAt
<1> HIDE DEF n
<1>3. DOMAIN r = 1 .. Len(s) + 1 BY <1>1
<1>4. ToSet(r) = ToSet(s) \union {x}
  <2>1. ASSUME NEW j \in DOMAIN r PROVE r[j] \in ToSet(s) \union {x}
    <3>1. CASE j <= n
      <4>1. j \in DOMAIN s /\ r[j] = s[j] BY <1>0, <1>1, <1>3, <3>1
      <4>2. QED BY <4>1 DEF ToSet
    <3>2. CASE j = n + 1
      <4>1. r[j] = x BY <1>0, <1>1, <1>3, <3>2
      <4>2. QED BY <4>1
    <3>3. CASE j > n + 1
      <4>1. j - 1 \in DOMAIN s /\ r[j] = s[j - 1] BY <1>0, <1>1, <1>3, <3>3
      <4>2. QED BY <4>1 DEF ToSet
    <3>4. QED BY <1>0, <1>3, <3>1, <3>2, <3>3
  <2>2. n + 1 \in DOMAIN r /\ r[n + 1] = x BY <1>0, <1>1, <1>3
  <2>3. ASSUME NEW j \in DOMAIN s PROVE \E i \in DOMAIN r : r[i] = s[j]
    <3>1. CASE j <= n
      <4>1. j \in DOMAIN r /\ r[j] = s[j] BY <1>0, <1>1, <1>3, <3>1
      <4>2. QED BY <4>1
    <3>2. CASE j > n
      <4>1. j + 1 \in DOMAIN r /\ ~(j + 1 <= n) /\ j + 1 # n + 1 /\ (j + 1) - 1 = j
        BY <1>0, <1>3, <3>2
      <4>2. r[j + 1] = s[j] BY <1>1, <1>3, <4>1
      <4>3. QED BY <4>1, <4>2
    <3>3. QED BY <1>0, <3>1, <3>2
  <2>4. QED BY <2>1, <2>2, <2>3 DEF ToSet
<1>5. ASSUME NoRepeat(s), x \notin ToSet(s) PROVE NoRepeat(r)
  <2> SUFFICES ASSUME NEW i \in DOMAIN r, NEW j \in DOMAIN r, r[i] = r[j] PROVE i = j
    BY DEF NoRepeat
  <2> DEFINE at(m) == IF m <= n THEN m ELSE m - 1
  <2>1. ASSUME NEW m \in DOMAIN r, m # n + 1
        PROVE  at(m) \in DOMAIN s /\ r[m] = s[at(m)] /\ r[m] # x
    <3>1. at(m) \in DOMAIN s BY <1>0, <1>3, <2>1
    <3>2. r[m] = s[at(m)] BY <1>1, <1>3, <2>1
    <3>3. s[at(m)] # x BY <1>5, <3>1 DEF ToSet
    <3>4. QED BY <3>1, <3>2, <3>3
  <2>2. r[n + 1] = x BY <1>0, <1>1
  <2>3. CASE i = n + 1 \/ j = n + 1 BY <2>1, <2>2, <2>3
  <2>4. CASE i # n + 1 /\ j # n + 1
    <3>1. at(i) = at(j) BY <1>5, <2>1, <2>4 DEF NoRepeat
    <3>2. QED BY <1>0, <1>3, <2>4, <3>1
  <2>5. QED BY <2>3, <2>4
<1>6. QED BY <1>1, <1>2, <1>4, <1>5 DEF PutIn

\* In the middle of a list.
LEMMA MiddleIs ==
  ASSUME NEW S, NEW a \in Seq(S), NEW b \in Seq(S), NEW x \in S
  PROVE  /\ InsertedAt(a \o b, x, Len(a)) = Append(a, x) \o b
         /\ x \notin ToSet(a) /\ x \notin ToSet(b) => RemoveFirst(a \o (<<x>> \o b), x) = a \o b
<1> DEFINE s == a \o b
           l == a \o (<<x>> \o b)
<1>0. /\ Len(a) \in Nat /\ Len(b) \in Nat
      /\ DOMAIN a = 1 .. Len(a) /\ DOMAIN b = 1 .. Len(b)
  OBVIOUS
<1>1. /\ s \in Seq(S) /\ Len(s) = Len(a) + Len(b)
      /\ \A i \in 1 .. Len(a) : s[i] = a[i]
      /\ \A i \in 1 .. Len(b) : s[Len(a) + i] = b[i]
  <2>1. s \in Seq(S) /\ Len(s) = Len(a) + Len(b) OBVIOUS
  <2>2. \A i \in 1 .. Len(a) : s[i] = a[i] OBVIOUS
  <2>3. ASSUME NEW i \in 1 .. Len(b) PROVE s[Len(a) + i] = b[i]
    <3>1. Len(a) + i \in Len(a) + 1 .. Len(a) + Len(b) /\ (Len(a) + i) - Len(a) = i BY <1>0
    <3>2. QED BY <3>1
  <2>4. QED BY <2>1, <2>2, <2>3
<1>2. /\ l \in Seq(S) /\ Len(l) = Len(a) + (Len(b) + 1)
      /\ \A i \in 1 .. Len(a) : l[i] = a[i]
      /\ l[Len(a) + 1] = x
      /\ \A i \in 1 .. Len(b) : l[Len(a) + (i + 1)] = b[i]
  <2> DEFINE xb == <<x>> \o b
  <2>1. /\ xb \in Seq(S) /\ Len(xb) = Len(b) + 1 /\ xb[1] = x
    BY <1>0
  <2>2. ASSUME NEW i \in 1 .. Len(b) PROVE xb[i + 1] = b[i]
    <3>1. i + 1 \in 1 + 1 .. 1 + Len(b) /\ (i + 1) - 1 = i /\ Len(<<x>>) = 1 BY <1>0
    <3>2. QED BY <3>1
  <2> HIDE DEF xb
  <2>3. l = a \o xb BY DEF xb
  <2>4. l \in Seq(S) /\ Len(l) = Len(a) + (Len(b) + 1) BY <2>1, <2>3
  <2>5. \A i \in 1 .. Len(a) : l[i] = a[i] BY <2>1, <2>3
  <2>6. ASSUME NEW i \in 1 .. Len(b) + 1 PROVE l[Len(a) + i] = xb[i]
    <3>1. Len(a) + i \in Len(a) + 1 .. Len(a) + Len(xb) /\ (Len(a) + i) - Len(a) = i
      BY <1>0, <2>1
    <3>2. QED BY <3>1, <2>1, <2>3
  <2>7. l[Len(a) + 1] = x
    <3>1. 1 \in 1 .. Len(b) + 1 BY <1>0
    <3>2. QED BY <3>1, <2>1, <2>6
  <2>8. ASSUME NEW i \in 1 .. Len(b) PROVE l[Len(a) + (i + 1)] = b[i]
    <3>1. i + 1 \in 1 .. Len(b) + 1 BY <1>0
    <3>2. QED BY <3>1, <2>2, <2>6
  <2>9. QED BY <2>4, <2>5, <2>7, <2>8
<1> HIDE DEF s, l
<1>3. InsertedAt(s, x, Len(a)) = Append(a, x) \o b
  <2>1. CASE Len(b) = 0
    <3>1. Len(a) \notin 0 .. Len(s) - 1 BY <1>0, <1>1, <2>1
    <3>2. InsertedAt(s, x, Len(a)) = Append(s, x) BY <3>1 DEF InsertedAt
    <3>3. s = a /\ Append(a, x) \o b = Append(a, x)
      <4>1. b = <<>> BY <2>1
      <4>2. QED BY <4>1 DEF s
    <3>4. QED BY <3>2, <3>3
  <2>2. CASE Len(b) # 0
    <3>1. Len(a) \in 0 .. Len(s) - 1 BY <1>0, <1>1, <2>2
    <3>2. InsertedAt(s, x, Len(a))
            = (SubSeq(s, 1, (Len(a) + 1) - 1) \o <<x>>) \o SubSeq(s, Len(a) + 1, Len(s))
      BY <3>1 DEF InsertedAt, InsertAt
    <3>3. (Len(a) + 1) - 1 = Len(a) BY <1>0
    <3>4. SubSeq(s, 1, Len(a)) = a BY <1>0, <1>1
    <3>5. SubSeq(s, Len(a) + 1, Len(s)) = b
      <4> DEFINE c == SubSeq(s, Len(a) + 1, Len(s))
      <4>1. /\ c \in Seq(S) /\ Len(c) = Len(b)
            /\ \A i \in 1 .. Len(b) : c[i] = s[Len(a) + i]
        BY <1>0, <1>1
      <4> HIDE DEF c
      <4>2. c = b BY <1>1, <4>1
      <4>3. QED BY <4>2 DEF c
    <3>6. a \o <<x>> = Append(a, x) OBVIOUS
    <3>7. QED BY <3>2, <3>3, <3>4, <3>5, <3>6
  <2>3. QED BY <2>1, <2>2
<1>4. ASSUME x \notin ToSet(a), x \notin ToSet(b) PROVE RemoveFirst(l, x) = s
  <2> DEFINE I == {i \in 1 .. Len(l) : l[i] = x}
             k == Len(a) + 1
  <2>1. \A i \in 1 .. Len(a) : a[i] # x BY <1>0, <1>4 DEF ToSet
  <2>2. \A i \in 1 .. Len(b) : b[i] # x BY <1>0, <1>4 DEF ToSet
  <2>3. I = {k}
    <3>1. k \in I BY <1>0, <1>2
    <3>2. ASSUME NEW i \in I, i # k PROVE FALSE
      <4>1. i \in 1 .. Len(l) /\ l[i] = x OBVIOUS
      <4>2. CASE i <= Len(a)
        <5>1. i \in 1 .. Len(a) BY <1>0, <4>1, <4>2
        <5>2. QED BY <1>2, <2>1, <4>1, <5>1
      <4>3. CASE i > Len(a)
        <5> DEFINE j == i - (Len(a) + 1)
        <5>1. j \in 1 .. Len(b) /\ i = Len(a) + (j + 1) BY <1>0, <1>2, <3>2, <4>1, <4>3
        <5> HIDE DEF j
        <5>2. QED BY <1>2, <2>2, <4>1, <5>1
      <4>4. QED BY <1>0, <4>1, <4>2, <4>3
    <3> HIDE DEF I
    <3>3. QED BY <3>1, <3>2
  <2>4. k \in 1 .. Len(l) /\ l[k] = x BY <1>0, <1>2
  <2>5. RemoveFirst(l, x) = RemoveAt(l, Min(I)) BY <2>4 DEF RemoveFirst, SelectInSeq
  <2>6. Min(I) = k
    <3>1. k <= k BY <1>0
    <3>2. Min({k}) = k BY <3>1 DEF Min
    <3>3. QED BY <2>3, <3>2
  <2> HIDE DEF I, k
  <2>7. RemoveFirst(l, x) = RemoveAt(l, k) BY <2>5, <2>6
  <2> DEFINE r == RemoveAt(l, k)
  <2> HIDE DEF r
  <2>71. r = RemoveAt(l, k) /\ l \in Seq(S) /\ k \in 1 .. Len(l) BY <1>2, <2>4 DEF r
  <2>8. /\ r \in Seq(S) /\ Len(r) = Len(l) - 1
        /\ \A j \in 1 .. Len(r) : r[j] = IF j < k THEN l[j] ELSE l[j + 1]
    BY ONLY <2>71, CutOutIs
  <2>9. Len(r) = Len(s) BY <1>0, <1>1, <1>2, <2>8
  <2>10. ASSUME NEW i \in 1 .. Len(s) PROVE r[i] = s[i]
    <3>1. CASE i <= Len(a)
      <4>1. i \in 1 .. Len(a) /\ i < k BY <1>0, <3>1 DEF k
      <4>2. QED BY <1>1, <1>2, <2>8, <2>9, <4>1
    <3>2. CASE i > Len(a)
      <4> DEFINE j == i - Len(a)
      <4>1. j \in 1 .. Len(b) /\ Len(a) + j = i /\ Len(a) + (j + 1) = i + 1 /\ ~(i < k)
        BY <1>0, <1>1, <3>2 DEF k
      <4> HIDE DEF j
      <4>2. r[i] = l[i + 1] BY <2>8, <2>9, <4>1
      <4>3. l[i + 1] = b[j] BY <1>2, <4>1
      <4>4. s[i] = b[j] BY <1>1, <4>1
      <4>5. QED BY <4>2, <4>3, <4>4
    <3>3. QED BY <1>0, <1>1, <3>1, <3>2
  <2>11. r = s BY <1>1, <2>8, <2>9, <2>10
  <2>12. QED BY <2>7, <2>11 DEF r
<1>5. QED BY <1>3, <1>4 DEF s, l

-----------------------------------------------------------------------------
(* Pages, and frames that are applied to them.                                *)

Shown == TextValues \union {Blank, None}

Element == [shell : Components, text : Shown, inside : Seq(Nat)]

Docs == UNION {[S -> Element] : S \in SUBSET Nat}

Commands == {"CREATE_NODE", "DELETE_NODE", "INSERT_CHILD", "REMOVE_CHILD", "SET_TEXT"}

Ops == {op \in [cmd : Commands, id : Nat, arg : Components \union Shown, child : Nat, index : Int] :
          /\ op.cmd = "CREATE_NODE" => op.arg \in Components
          /\ op.cmd = "SET_TEXT" => op.arg \in Shown}

LEMMA DocIs ==
  ASSUME NEW d
  PROVE  d \in Docs <=> /\ DOMAIN d \in SUBSET Nat /\ d = [i \in DOMAIN d |-> d[i]]
                        /\ \A i \in DOMAIN d : d[i] \in Element
<1>1. ASSUME d \in Docs
      PROVE  /\ DOMAIN d \in SUBSET Nat /\ d = [i \in DOMAIN d |-> d[i]]
             /\ \A i \in DOMAIN d : d[i] \in Element
  <2>1. PICK S \in SUBSET Nat : d \in [S -> Element] BY <1>1 DEF Docs
  <2>2. QED BY <2>1
<1>2. ASSUME DOMAIN d \in SUBSET Nat, d = [i \in DOMAIN d |-> d[i]],
             \A i \in DOMAIN d : d[i] \in Element
      PROVE  d \in Docs
  <2>1. d \in [DOMAIN d -> Element] BY <1>2
  <2>2. QED BY <1>2, <2>1 DEF Docs
<1>3. QED BY <1>1, <1>2

LEMMA OpIs ==
  ASSUME NEW i \in Nat, NEW c \in Components, NEW j \in Nat, NEW k \in Int, NEW x \in Shown
  PROVE  /\ CreateOp(i, c) \in Ops /\ DeleteOp(i) \in Ops /\ InsertOp(i, j, k) \in Ops
         /\ RemoveOp(i, j) \in Ops /\ TextOp(i, x) \in Ops
<1>1. Blank \in Shown BY DEF Shown
<1>2. QED BY <1>1 DEF CreateOp, DeleteOp, InsertOp, RemoveOp, TextOp, Opcode, Ops, Commands

LEMMA ElementFields ==
  ASSUME NEW e \in Element
  PROVE  e.shell \in Components /\ e.text \in Shown /\ e.inside \in Seq(Nat)
BY DEF Element

\* What each opcode does to a page.
Created(e, d, i, c) ==
  /\ e \in Docs /\ DOMAIN e = DOMAIN d \union {i}
  /\ \A j \in DOMAIN d : e[j] = d[j]
  /\ i \notin DOMAIN d => e[i] = [shell |-> c, text |-> Blank, inside |-> <<>>]
  /\ i \in DOMAIN d => e = d

LEMMA CreatedDoc ==
  ASSUME NEW d \in Docs, NEW i \in Nat, NEW c \in Components
  PROVE  Created(CreateNode(d, i, c), d, i, c)
<1> SUFFICES ASSUME NEW e, e = CreateNode(d, i, c) PROVE Created(e, d, i, c) OBVIOUS
<1> DEFINE new == [shell |-> c, text |-> Blank, inside |-> <<>>]
<1>1. DOMAIN d \in SUBSET Nat /\ d = [j \in DOMAIN d |-> d[j]] /\ \A j \in DOMAIN d : d[j] \in Element
  BY DocIs
<1>2. new \in Element BY DEF Element, Shown
<1>3. e = [j \in DOMAIN d \union {i} |-> IF j \in DOMAIN d THEN d[j] ELSE new]
  BY DEF CreateNode
<1> HIDE DEF new
<1>4. DOMAIN e = DOMAIN d \union {i} /\ e = [j \in DOMAIN e |-> e[j]] BY <1>3
<1>5. \A j \in DOMAIN d : e[j] = d[j] BY <1>3
<1>6. i \notin DOMAIN d => e[i] = new BY <1>3
<1>7. \A j \in DOMAIN e : e[j] \in Element BY <1>1, <1>2, <1>3
<1>8. e \in Docs
  <2>1. DOMAIN e \in SUBSET Nat BY <1>1, <1>4
  <2>2. QED BY <1>4, <1>7, <2>1, DocIs
<1>9. i \in DOMAIN d => e = d
  <2> SUFFICES ASSUME i \in DOMAIN d PROVE e = d OBVIOUS
  <2>1. DOMAIN d \union {i} = DOMAIN d OBVIOUS
  <2>2. e = [j \in DOMAIN d |-> d[j]] BY <1>3, <2>1
  <2>3. QED BY <1>1, <2>2
<1>10. QED BY <1>4, <1>5, <1>6, <1>8, <1>9 DEF new, Created

TakenOut(e, d, c) ==
  /\ e \in Docs /\ DOMAIN e = DOMAIN d
  /\ \A j \in DOMAIN d : e[j].shell = d[j].shell /\ e[j].text = d[j].text
                         /\ e[j].inside = RemoveFirst(d[j].inside, c)
  /\ \A j \in DOMAIN d : c \notin ToSet(d[j].inside) => e[j] = d[j]

LEMMA DetachedDoc ==
  ASSUME NEW d \in Docs, NEW c
  PROVE  TakenOut(Detached(d, c), d, c)
<1> SUFFICES ASSUME NEW e, e = Detached(d, c) PROVE TakenOut(e, d, c) OBVIOUS
<1>1. DOMAIN d \in SUBSET Nat /\ d = [j \in DOMAIN d |-> d[j]] /\ \A j \in DOMAIN d : d[j] \in Element
  BY DocIs
<1>2. e = [j \in DOMAIN d |-> [d[j] EXCEPT !.inside = RemoveFirst(d[j].inside, c)]]
  BY DEF Detached
<1>3. ASSUME NEW j \in DOMAIN d
      PROVE  /\ e[j] \in Element
             /\ e[j].shell = d[j].shell /\ e[j].text = d[j].text
             /\ e[j].inside = RemoveFirst(d[j].inside, c)
             /\ c \notin ToSet(d[j].inside) => e[j] = d[j]
  <2> DEFINE s == d[j].inside
             r == RemoveFirst(d[j].inside, c)
  <2>1. d[j] \in Element /\ s \in Seq(Nat) BY <1>1, ElementFields
  <2>2. e[j] = [d[j] EXCEPT !.inside = r] BY <1>2
  <2>3. r \in Seq(Nat) /\ (c \notin ToSet(s) => r = s)
    <3>1. r = RemoveFirst(s, c) OBVIOUS
    <3> HIDE DEF r, s
    <3>2. Removed(RemoveFirst(s, c), Nat, s, c) BY <2>1, RemovedIs
    <3>3. QED BY <3>1, <3>2 DEF Removed
  <2> HIDE DEF r
  <2>4. e[j] \in Element /\ e[j].shell = d[j].shell /\ e[j].text = d[j].text /\ e[j].inside = r
    BY <2>1, <2>2, <2>3 DEF Element
  <2>5. r = s => e[j] = d[j] BY <2>1, <2>2 DEF Element
  <2>6. QED BY <2>3, <2>4, <2>5 DEF r
<1>4. DOMAIN e = DOMAIN d /\ e = [j \in DOMAIN e |-> e[j]] BY <1>2
<1>5. e \in Docs BY <1>1, <1>3, <1>4, DocIs
<1>6. QED BY <1>3, <1>4, <1>5 DEF TakenOut

Deleted(e, d, i) ==
  /\ e \in Docs /\ DOMAIN e = DOMAIN d \ {i}
  /\ \A j \in DOMAIN d \ {i} : e[j] = Detached(d, i)[j]

LEMMA DeletedDoc ==
  ASSUME NEW d \in Docs, NEW i
  PROVE  Deleted(DeleteNode(d, i), d, i)
<1> SUFFICES ASSUME NEW e, e = DeleteNode(d, i) PROVE Deleted(e, d, i) OBVIOUS
<1> DEFINE f == Detached(d, i)
<1>1. f \in Docs /\ DOMAIN f = DOMAIN d BY DetachedDoc DEF TakenOut
<1>2. e = [j \in DOMAIN d \ {i} |-> f[j]] BY DEF DeleteNode
<1> HIDE DEF f
<1>3. DOMAIN f \in SUBSET Nat /\ \A j \in DOMAIN f : f[j] \in Element BY <1>1, DocIs
<1>4. DOMAIN e = DOMAIN d \ {i} /\ e = [j \in DOMAIN e |-> e[j]] BY <1>2
<1>5. e \in Docs
  <2>1. DOMAIN e \in SUBSET Nat /\ \A j \in DOMAIN e : e[j] \in Element BY <1>1, <1>2, <1>3
  <2>2. QED BY <1>4, <2>1, DocIs
<1>6. QED BY <1>2, <1>4, <1>5 DEF f, Deleted

Inserted(e, d, i, c, k) ==
  /\ e \in Docs /\ DOMAIN e = DOMAIN d
  /\ i \notin DOMAIN d \/ c \notin DOMAIN d \/ Encloses(d, i, c) => e = d
  /\ i \in DOMAIN d /\ c \in DOMAIN d /\ ~Encloses(d, i, c) =>
       /\ \A j \in DOMAIN d \ {i} : e[j] = Detached(d, c)[j]
       /\ e[i].shell = d[i].shell /\ e[i].text = d[i].text
       /\ e[i].inside = InsertedAt(RemoveFirst(d[i].inside, c), c, k)

LEMMA InsertedDoc ==
  ASSUME NEW d \in Docs, NEW i \in Nat, NEW c \in Nat, NEW k \in Int
  PROVE  Inserted(InsertChild(d, i, c, k), d, i, c, k)
<1> SUFFICES ASSUME NEW e, e = InsertChild(d, i, c, k) PROVE Inserted(e, d, i, c, k) OBVIOUS
<1>1. CASE i \notin DOMAIN d \/ c \notin DOMAIN d \/ Encloses(d, i, c)
  BY <1>1 DEF InsertChild, Known, Inserted
<1>2. CASE i \in DOMAIN d /\ c \in DOMAIN d /\ ~Encloses(d, i, c)
  <2> DEFINE f == Detached(d, c)
             l == RemoveFirst(d[i].inside, c)
             r == InsertedAt(f[i].inside, c, k)
  <2>1. e = [f EXCEPT ![i].inside = r] BY <1>2 DEF InsertChild, Known
  <2>2. /\ f \in Docs /\ DOMAIN f = DOMAIN d
        /\ f[i].shell = d[i].shell /\ f[i].text = d[i].text /\ f[i].inside = l
    BY <1>2, DetachedDoc DEF TakenOut
  <2> HIDE DEF f
  <2>3. /\ DOMAIN f \in SUBSET Nat /\ f = [j \in DOMAIN f |-> f[j]]
        /\ \A j \in DOMAIN f : f[j] \in Element
    BY <2>2, DocIs
  <2>4. f[i] \in Element /\ f[i].inside \in Seq(Nat) BY <1>2, <2>2, <2>3, ElementFields
  <2>5. r \in Seq(Nat)
    <3>1. PutIn(r, Nat, f[i].inside, c, k) BY <2>4, InsertedIs
    <3> HIDE DEF r
    <3>2. QED BY <3>1 DEF PutIn
  <2> HIDE DEF r
  <2>6. /\ DOMAIN e = DOMAIN d /\ e = [j \in DOMAIN e |-> e[j]]
        /\ \A j \in DOMAIN d \ {i} : e[j] = f[j]
        /\ e[i] = [f[i] EXCEPT !.inside = r]
    BY <1>2, <2>1, <2>2, <2>3
  <2>7. /\ e[i] \in Element /\ e[i].shell = f[i].shell /\ e[i].text = f[i].text
        /\ e[i].inside = r
    BY <2>4, <2>5, <2>6 DEF Element
  <2>8. \A j \in DOMAIN e : e[j] \in Element BY <2>2, <2>3, <2>6, <2>7
  <2>9. e \in Docs BY <2>2, <2>3, <2>6, <2>8, DocIs
  <2>10. e[i].inside = InsertedAt(l, c, k) BY <2>2, <2>7 DEF r
  <2>11. QED BY <1>2, <2>2, <2>6, <2>7, <2>9, <2>10 DEF f, Inserted
<1>3. QED BY <1>1, <1>2 DEF Inserted

Written(e, d, i, x) ==
  /\ e \in Docs /\ DOMAIN e = DOMAIN d
  /\ \A j \in DOMAIN d : j # i => e[j] = d[j]
  /\ i \in DOMAIN d => e[i] = [shell |-> d[i].shell, text |-> x, inside |-> <<>>]

LEMMA WrittenDoc ==
  ASSUME NEW d \in Docs, NEW i, NEW x \in Shown
  PROVE  Written(WriteText(d, i, x), d, i, x)
<1> SUFFICES ASSUME NEW e, e = WriteText(d, i, x) PROVE Written(e, d, i, x) OBVIOUS
<1>1. CASE i \notin DOMAIN d BY <1>1 DEF WriteText, Known, Written
<1>2. CASE i \in DOMAIN d
  <2>1. e = [d EXCEPT ![i] = [shell |-> d[i].shell, text |-> x, inside |-> <<>>]]
    BY <1>2 DEF WriteText, Known
  <2>2. /\ DOMAIN d \in SUBSET Nat /\ d = [j \in DOMAIN d |-> d[j]]
        /\ \A j \in DOMAIN d : d[j] \in Element
    BY DocIs
  <2>3. d[i] \in Element BY <1>2, <2>2
  <2>4. [shell |-> d[i].shell, text |-> x, inside |-> <<>>] \in Element
    <3>2. d[i].shell \in Components /\ <<>> \in Seq(Nat) BY <2>3, ElementFields
    <3>3. [shell |-> d[i].shell, text |-> x, inside |-> <<>>] \in Element BY <3>2 DEF Element
    <3>4. QED BY <3>3
  <2>5. /\ DOMAIN e = DOMAIN d /\ e = [j \in DOMAIN e |-> e[j]]
        /\ \A j \in DOMAIN d : j # i => e[j] = d[j]
        /\ e[i] = [shell |-> d[i].shell, text |-> x, inside |-> <<>>]
    BY <1>2, <2>1, <2>2, <2>4
  <2>6. e \in Docs BY <2>2, <2>4, <2>5, DocIs
  <2>7. QED BY <2>5, <2>6 DEF Written
<1>3. QED BY <1>1, <1>2 DEF Written

LEMMA ApplyType ==
  ASSUME NEW d \in Docs, NEW op \in Ops
  PROVE  Apply(d, op) \in Docs
<1>1. /\ op.cmd \in Commands /\ op.id \in Nat /\ op.child \in Nat /\ op.index \in Int
      /\ op.cmd = "CREATE_NODE" => op.arg \in Components
      /\ op.cmd = "SET_TEXT" => op.arg \in Shown
  BY DEF Ops
<1>2. CASE op.cmd = "CREATE_NODE" BY <1>1, <1>2, CreatedDoc DEF Apply, Created
<1>3. CASE op.cmd = "DELETE_NODE" BY <1>3, DeletedDoc DEF Apply, Deleted
<1>4. CASE op.cmd = "INSERT_CHILD" BY <1>1, <1>4, InsertedDoc DEF Apply, Inserted
<1>5. CASE op.cmd = "REMOVE_CHILD" BY <1>5, DetachedDoc DEF Apply, TakenOut
<1>6. CASE op.cmd = "SET_TEXT" BY <1>1, <1>6, WrittenDoc DEF Apply, Written
<1>7. QED BY <1>1, <1>2, <1>3, <1>4, <1>5, <1>6 DEF Commands

\* rows[i] is the page after i opcodes.
AppliedBy(page, ops, rows) ==
  /\ rows \in [0 .. Len(ops) -> Docs] /\ rows[0] = page
  /\ \A i \in 1 .. Len(ops) : rows[i] = Apply(rows[i - 1], ops[i])

LEMMA ApplyRows ==
  ASSUME NEW page \in Docs, NEW ops \in Seq(Ops)
  PROVE  \E rows : AppliedBy(page, ops, rows) /\ ApplyFrame(page, ops) = rows[Len(ops)]
<1> DEFINE N == Len(ops)
           F == [k \in 1 .. N |-> [v \in Docs |-> Apply(v, ops[k])]]
           Table(h) == h = [s \in SUBSET (1 .. N) |->
                              IF s = {} THEN page
                              ELSE Apply(h[s \ {Max(s)}], ops[Max(s)])]
           h == CHOOSE h : Table(h)
           S == {n \in Nat : n <= N => h[1 .. n] \in Docs}
<1>0. N \in Nat OBVIOUS
<1>1. \E g : Table(g)
  <2>1. ASSUME NEW k \in 1 .. N, NEW v \in Docs PROVE Apply(v, ops[k]) \in Docs
    BY <2>1, ApplyType
  <2>2. F \in [1 .. N -> [Docs -> Docs]] BY <2>1
  <2>3. PICK g \in [SUBSET (1 .. N) -> Docs] : FoldTable(g, page, F, N)
    <3> HIDE DEF F, N
    <3>1. QED BY <1>0, <2>2, FoldTableExists
  <2>4. ASSUME NEW s \in SUBSET (1 .. N)
        PROVE  g[s] = IF s = {} THEN page ELSE Apply(g[s \ {Max(s)}], ops[Max(s)])
    <3>1. g[s] = IF s = {} THEN page ELSE F[Max(s)][g[s \ {Max(s)}]]
      BY <2>3 DEF FoldTable
    <3>2. CASE s = {} BY <3>1, <3>2
    <3>3. CASE s # {}
      <4>1. Max(s) \in s BY <1>0, <3>3, MaxIs
      <4>2. Max(s) \in 1 .. N /\ g[s \ {Max(s)}] \in Docs BY <4>1
      <4>3. QED BY <3>1, <3>3, <4>2
    <3>4. QED BY <3>2, <3>3
  <2>5. g = [s \in SUBSET (1 .. N) |-> g[s]] OBVIOUS
  <2>6. Table(g) BY <2>4, <2>5
  <2>7. QED BY <2>6
<1>2. Table(h) BY <1>1
<1>3. ApplyFrame(page, ops) = h[1 .. N]
  <2>1. DOMAIN ops = 1 .. N OBVIOUS
  <2>2. QED BY <2>1 DEF ApplyFrame, FoldLeft, MapThenFoldSet
<1> HIDE DEF h, N
<1>4. h[1 .. 0] = page
  <2>1. 1 .. 0 = {} /\ {} \in SUBSET (1 .. N) OBVIOUS
  <2>2. QED BY <2>1, <1>2
<1>5. ASSUME NEW n \in 1 .. N PROVE h[1 .. n] = Apply(h[1 .. n - 1], ops[n])
  <2>1. (1 .. n) \in SUBSET (1 .. N) /\ n \in Nat \ {0} BY <1>0
  <2>2. 1 .. n # {} /\ Max(1 .. n) = n /\ (1 .. n) \ {n} = 1 .. n - 1
    BY <2>1, LastOfRange
  <2>3. QED BY <2>1, <2>2, <1>2
<1>6. Nat \subseteq S
  <2>1. 0 \in S BY <1>4
  <2>2. ASSUME NEW m \in Nat, m \in S PROVE m + 1 \in S
    <3> SUFFICES ASSUME m + 1 <= N PROVE h[1 .. m + 1] \in Docs OBVIOUS
    <3>1. m + 1 \in 1 .. N /\ (m + 1) - 1 = m BY <1>0
    <3>2. h[1 .. m] \in Docs BY <2>2, <1>0
    <3>3. ops[m + 1] \in Ops BY <3>1 DEF N
    <3>4. h[1 .. m + 1] = Apply(h[1 .. m], ops[m + 1]) BY <3>1, <1>5
    <3>5. QED BY <3>2, <3>3, <3>4, ApplyType
  <2> HIDE DEF S
  <2>3. QED BY <2>1, <2>2, Inductive
<1> DEFINE rows == [n \in 0 .. N |-> h[1 .. n]]
<1>7. ASSUME NEW n \in 0 .. N PROVE h[1 .. n] \in Docs
  BY <1>0, <1>6
<1>8. rows \in [0 .. N -> Docs] BY <1>7
<1>9. rows[0] = page BY <1>0, <1>4
<1>10. ASSUME NEW i \in 1 .. N PROVE rows[i] = Apply(rows[i - 1], ops[i])
  <2>1. i \in 0 .. N /\ i - 1 \in 0 .. N BY <1>0
  <2>2. QED BY <2>1, <1>5
<1>11. rows[N] = h[1 .. N] BY <1>0
<1> HIDE DEF rows
<1>12. QED BY <1>3, <1>8, <1>9, <1>10, <1>11 DEF N, AppliedBy

\* There is one such sequence of pages.
LEMMA AppliedIs ==
  ASSUME NEW page \in Docs, NEW ops \in Seq(Ops), NEW rows, AppliedBy(page, ops, rows)
  PROVE  ApplyFrame(page, ops) = rows[Len(ops)] /\ rows[Len(ops)] \in Docs
<1> DEFINE N == Len(ops)
<1>1. PICK others : AppliedBy(page, ops, others) /\ ApplyFrame(page, ops) = others[N]
  BY ApplyRows
<1> DEFINE S == {n \in Nat : n <= N => rows[n] = others[n]}
<1>2. 0 \in S BY <1>1 DEF AppliedBy
<1>3. ASSUME NEW m \in Nat, m \in S PROVE m + 1 \in S
  <2> SUFFICES ASSUME m + 1 <= N PROVE rows[m + 1] = others[m + 1] OBVIOUS
  <2>1. N \in Nat /\ m <= N /\ m + 1 \in 1 .. N /\ (m + 1) - 1 = m OBVIOUS
  <2>2. rows[m] = others[m] BY <2>1, <1>3
  <2>3. rows[m + 1] = Apply(rows[m], ops[m + 1]) BY <2>1 DEF AppliedBy
  <2>4. others[m + 1] = Apply(others[m], ops[m + 1]) BY <2>1, <1>1 DEF AppliedBy
  <2>5. QED BY <2>2, <2>3, <2>4
<1>4. Nat \subseteq S
  <2> HIDE DEF S
  <2>1. QED BY <1>2, <1>3, Inductive
<1>5. N \in Nat /\ N \in 0 .. N OBVIOUS
<1>6. rows[N] = others[N] BY <1>4, <1>5
<1>7. rows[N] \in Docs BY <1>5 DEF AppliedBy
<1>8. QED BY <1>1, <1>6, <1>7

LEMMA AppliedNothing ==
  ASSUME NEW page \in Docs
  PROVE  ApplyFrame(page, <<>>) = page
<1>1. <<>> \in Seq(Ops) /\ Len(<<>>) = 0 OBVIOUS
<1>2. PICK rows : AppliedBy(page, <<>>, rows) /\ ApplyFrame(page, <<>>) = rows[Len(<<>>)]
  BY <1>1, ApplyRows
<1>3. QED BY <1>1, <1>2 DEF AppliedBy

LEMMA AppliedThen ==
  ASSUME NEW page \in Docs, NEW ops \in Seq(Ops), NEW out \in Seq(Ops)
  PROVE  /\ ApplyFrame(page, ops) \in Docs
         /\ ApplyFrame(page, ops \o out)
              = ApplyFrame(ApplyFrame(page, ops), out)
<1> DEFINE N == Len(ops)
           M == Len(out)
           all == ops \o out
           mid == ApplyFrame(page, ops)
<1>1. PICK rows : AppliedBy(page, ops, rows) /\ mid = rows[N] BY ApplyRows
<1>2. /\ rows \in [0 .. N -> Docs] /\ rows[0] = page
      /\ \A i \in 1 .. N : rows[i] = Apply(rows[i - 1], ops[i])
  BY <1>1 DEF AppliedBy
<1>3. mid \in Docs BY <1>1, AppliedIs
<1>4. PICK then : AppliedBy(mid, out, then) /\ ApplyFrame(mid, out) = then[M]
  <2> HIDE DEF mid
  <2>1. QED BY <1>3, ApplyRows
<1>5. /\ then \in [0 .. M -> Docs] /\ then[0] = mid
      /\ \A i \in 1 .. M : then[i] = Apply(then[i - 1], out[i])
  <2> HIDE DEF mid
  <2>1. QED BY <1>4 DEF AppliedBy
<1>6. /\ N \in Nat /\ M \in Nat /\ all \in Seq(Ops) /\ Len(all) = N + M
      /\ \A i \in 1 .. N : all[i] = ops[i]
      /\ \A i \in N + 1 .. N + M : all[i] = out[i - N]
  <2> HIDE DEF mid
  <2>1. QED OBVIOUS
<1> DEFINE both == [i \in 0 .. N + M |-> IF i <= N THEN rows[i] ELSE then[i - N]]
<1> HIDE DEF N, M, all, mid
<1>7. both \in [0 .. N + M -> Docs] /\ both[0] = page
  <2>1. ASSUME NEW i \in 0 .. N + M PROVE both[i] \in Docs
    <3>1. CASE i <= N
      <4>1. i \in 0 .. N BY <3>1
      <4>2. QED BY <4>1, <3>1, <1>2
    <3>2. CASE i > N
      <4>1. i - N \in 0 .. M /\ ~ (i <= N) BY <3>2, <1>6
      <4>2. QED BY <4>1, <1>5
    <3>3. QED BY <3>1, <3>2, <1>6
  <2>2. both[0] = page BY <1>6, <1>2
  <2>3. QED BY <2>1, <2>2
<1>8. both[N + M] = then[M]
  <2>1. CASE M = 0 BY <2>1, <1>1, <1>5, <1>6
  <2>2. CASE M # 0 BY <2>2, <1>6
  <2>3. QED BY <2>1, <2>2
<1>9. ASSUME NEW i \in 1 .. N + M PROVE both[i] = Apply(both[i - 1], all[i])
  <2>1. CASE i <= N
    <3>1. i \in 1 .. N /\ both[i] = rows[i] /\ both[i - 1] = rows[i - 1] BY <2>1, <1>6
    <3>2. QED BY <3>1, <1>2, <1>6
  <2>2. CASE i > N
    <3>1. i - N \in 1 .. M /\ i \in N + 1 .. N + M BY <2>2, <1>6
    <3>2. both[i] = then[i - N] BY <2>2, <1>6
    <3>3. both[i - 1] = then[(i - N) - 1]
      <4>1. CASE i = N + 1
        <5>0. i - 1 = N /\ N <= N /\ N \in 0 .. N + M /\ (i - N) - 1 = 0 BY <4>1, <1>6
        <5>1. both[i - 1] = rows[N] BY <5>0
        <5>2. QED BY <5>0, <5>1, <1>1, <1>5
      <4>2. CASE i # N + 1
        <5>1. ~ (i - 1 <= N) /\ i - 1 \in 0 .. N + M /\ (i - 1) - N = (i - N) - 1
          BY <4>2, <2>2, <1>6
        <5>2. QED BY <5>1
      <4>3. QED BY <4>1, <4>2
    <3>4. then[i - N] = Apply(then[(i - N) - 1], out[i - N]) BY <3>1, <1>5
    <3>5. all[i] = out[i - N] BY <3>1, <1>6
    <3>6. QED BY <3>2, <3>3, <3>4, <3>5
  <2>3. QED BY <2>1, <2>2, <1>6
<1> HIDE DEF both
<1>10. AppliedBy(page, all, both) BY <1>6, <1>7, <1>9 DEF AppliedBy
<1>11. ApplyFrame(page, all) = both[N + M] BY <1>6, <1>10, AppliedIs
<1>12. QED BY <1>3, <1>4, <1>8, <1>11 DEF all, mid



LEMMA OneApplied ==
  ASSUME NEW d \in Docs, NEW op \in Ops
  PROVE  ApplyFrame(d, <<op>>) = Apply(d, op)
<1>1. <<op>> \in Seq(Ops) /\ Len(<<op>>) = 1 /\ <<op>>[1] = op OBVIOUS
<1>2. PICK rows : AppliedBy(d, <<op>>, rows) /\ ApplyFrame(d, <<op>>) = rows[Len(<<op>>)]
  BY <1>1, ApplyRows
<1>3. rows[0] = d /\ \A i \in 1 .. 1 : rows[i] = Apply(rows[i - 1], <<op>>[i])
  BY <1>1, <1>2 DEF AppliedBy
<1>4. 1 \in 1 .. 1 /\ 1 - 1 = 0 OBVIOUS
<1>5. rows[1] = Apply(rows[1 - 1], <<op>>[1]) BY <1>3, <1>4
<1>6. rows[1] = Apply(d, op) BY <1>1, <1>3, <1>4, <1>5
<1>7. QED BY <1>1, <1>2, <1>6

\* What steps make of what they begin with, one after the other.
Rows(rows, base, n, F) == rows[0] = base /\ \A i \in 1 .. n : rows[i] = F[i][rows[i - 1]]

LEMMA RowsExist ==
  ASSUME NEW A, NEW base \in A, NEW n \in Nat, NEW F \in [1 .. n -> [A -> A]]
  PROVE  \E rows \in [0 .. n -> A] : Rows(rows, base, n, F)
<1>1. PICK h \in [SUBSET (1 .. n) -> A] : FoldTable(h, base, F, n) BY FoldTableExists
<1> DEFINE rows == [i \in 0 .. n |-> h[1 .. i]]
<1>2. rows \in [0 .. n -> A]
  <2>1. \A i \in 0 .. n : (1 .. i) \in SUBSET (1 .. n) OBVIOUS
  <2>2. QED BY <2>1
<1>3. rows[0] = base
  <2>1. 1 .. 0 = {} /\ {} \in SUBSET (1 .. n) /\ 0 \in 0 .. n OBVIOUS
  <2>2. h[{}] = base BY <1>1, <2>1 DEF FoldTable
  <2>3. QED BY <2>1, <2>2
<1>4. ASSUME NEW i \in 1 .. n PROVE rows[i] = F[i][rows[i - 1]]
  <2>1. (1 .. i) \in SUBSET (1 .. n) /\ i \in Nat \ {0} OBVIOUS
  <2>2. 1 .. i # {} /\ Max(1 .. i) = i /\ (1 .. i) \ {i} = 1 .. i - 1 BY <2>1, LastOfRange
  <2>3. h[1 .. i] = F[i][h[1 .. i - 1]] BY <1>1, <2>1, <2>2 DEF FoldTable
  <2>4. QED BY <2>3
<1> HIDE DEF rows
<1>5. QED BY <1>2, <1>3, <1>4 DEF Rows

\* The parts of a list put together, one after the other.
LEMMA FlattenIs ==
  ASSUME NEW S, NEW n \in Nat, NEW s \in [1 .. n -> Seq(S)]
  PROVE  \E f \in [0 .. n -> Seq(S)] :
           /\ f[0] = <<>> /\ \A i \in 1 .. n : f[i] = f[i - 1] \o s[i]
           /\ FlattenSeq(s) = f[n]
<1>1. Len(s) = n /\ \A i \in 1 .. n : s[i] \in Seq(S) OBVIOUS
<1> DEFINE F == [i \in 1 .. n |-> [x \in Seq(S) |-> x \o s[i]]]
<1>2. PICK f \in [0 .. n -> Seq(S)] : f[0] = <<>> /\ \A i \in 1 .. n : f[i] = F[i][f[i - 1]]
  <2>1. F \in [1 .. n -> [Seq(S) -> Seq(S)]] /\ <<>> \in Seq(S) BY <1>1
  <2> DEFINE A == Seq(S)
  <2>2. F \in [1 .. n -> [A -> A]] /\ <<>> \in A BY <2>1
  <2> HIDE DEF F, A
  <2>3. \E f \in [0 .. n -> A] : Rows(f, <<>>, n, F) BY <2>2, RowsExist
  <2>4. \E f \in [0 .. n -> A] : f[0] = <<>> /\ \A i \in 1 .. n : f[i] = F[i][f[i - 1]]
    BY <2>3 DEF Rows
  <2>5. QED BY <2>4 DEF A
<1>3. ASSUME NEW i \in 1 .. n
      PROVE  f[i] = f[i - 1] \o s[i] /\ f[i] \in Seq(S) /\ f[i - 1] \in Seq(S)
  <2>1. i \in 0 .. n /\ i - 1 \in 0 .. n OBVIOUS
  <2>2. QED BY <1>2, <2>1
<1>4. CASE n = 0
  <2>1. s = <<>> BY <1>4
  <2>2. FlattenSeq(s) = <<>> BY <1>1, <1>4, <2>1 DEF FlattenSeq
  <2>3. QED BY <1>2, <1>3, <1>4, <2>2
<1>5. CASE n # 0
  <2> DEFINE Fix(g) == g = [i \in 1 .. Len(s) |-> IF i = 1 THEN s[i] ELSE g[i - 1] \o s[i]]
             h == CHOOSE g : Fix(g)
             c == [i \in 1 .. n |-> f[i]]
  <2>1. FlattenSeq(s) = h[Len(s)] BY <1>1, <1>5 DEF FlattenSeq
  <2>2. ASSUME NEW i \in 1 .. n PROVE f[i] = IF i = 1 THEN s[i] ELSE f[i - 1] \o s[i]
    <3>1. CASE i = 1
      <4>1. f[i - 1] = <<>> /\ s[i] \in Seq(S) BY <1>1, <1>2, <3>1
      <4>2. <<>> \o s[i] = s[i] BY <4>1
      <4>3. QED BY <1>3, <3>1, <4>1, <4>2
    <3>2. CASE i # 1 BY <1>3, <3>2
    <3>3. QED BY <3>1, <3>2
  <2>3. ASSUME NEW i \in 1 .. n PROVE c[i] = IF i = 1 THEN s[i] ELSE c[i - 1] \o s[i]
    <3>1. i # 1 => i - 1 \in 1 .. n OBVIOUS
    <3>2. i # 1 => c[i - 1] = f[i - 1] BY <3>1
    <3>3. QED BY <2>2, <3>2
  <2>4. c = [i \in 1 .. n |-> c[i]] OBVIOUS
  <2> HIDE DEF c
  <2>5. Fix(c) BY <1>1, <2>3, <2>4
  <2>6. Fix(h) BY <2>5
  <2> HIDE DEF h
  <2>7. \A i \in 1 .. n : h[i] = IF i = 1 THEN s[i] ELSE h[i - 1] \o s[i]
    BY <1>1, <2>6
  <2> HIDE DEF Fix
  <2> DEFINE Bad == {i \in 1 .. n : h[i] # f[i]}
  <2>8. ASSUME Bad # {} PROVE FALSE
    <3>1. Bad \in SUBSET Nat OBVIOUS
    <3>2. PICK i \in Bad : \A j \in Bad : i <= j
      <4> HIDE DEF Bad
      <4>1. QED BY <2>8, <3>1, Smallest
    <3>3. i \in 1 .. n /\ h[i] # f[i] OBVIOUS
    <3>4. CASE i = 1 BY <2>2, <2>7, <3>3, <3>4
    <3>5. CASE i # 1
      <4>1. i - 1 \in 1 .. n /\ ~(i <= i - 1) BY <3>3, <3>5
      <4>2. h[i - 1] = f[i - 1] BY <3>2, <4>1
      <4>3. QED BY <2>2, <2>7, <3>3, <3>5, <4>2
    <3>6. QED BY <3>4, <3>5
  <2>9. n \in 1 .. n BY <1>5
  <2>10. h[n] = f[n] BY <2>8, <2>9
  <2>11. QED BY <1>1, <1>2, <1>3, <2>1, <2>10
<1>6. QED BY <1>4, <1>5

\* What is in one list is in another.
Occurs(a, b) == \A j \in DOMAIN a : \E k \in DOMAIN b : b[k] = a[j]

\* A frame made of parts: the pages between them.
LEMMA PartsApplied ==
  ASSUME NEW d \in Docs, NEW n \in Nat, NEW s \in [1 .. n -> Seq(Ops)]
  PROVE  /\ FlattenSeq(s) \in Seq(Ops)
         /\ \A i \in 1 .. n : Occurs(s[i], FlattenSeq(s))
         /\ \E D \in [0 .. n -> Docs] :
              /\ D[0] = d /\ \A i \in 1 .. n : D[i] = ApplyFrame(D[i - 1], s[i])
              /\ ApplyFrame(d, FlattenSeq(s)) = D[n]
<1>0. \A a, b \in Seq(Ops) : ToSet(a \o b) = ToSet(a) \union ToSet(b)
  <2> SUFFICES ASSUME NEW a \in Seq(Ops), NEW b \in Seq(Ops)
               PROVE  ToSet(a \o b) = ToSet(a) \union ToSet(b)
    OBVIOUS
  <2> HIDE DEF Ops
  <2>1. Both(a, b) BY BothIs
  <2>2. QED BY <2>1 DEF Both
<1>1. PICK f \in [0 .. n -> Seq(Ops)] :
        /\ f[0] = <<>> /\ \A i \in 1 .. n : f[i] = f[i - 1] \o s[i]
        /\ FlattenSeq(s) = f[n]
  <2> HIDE DEF Ops
  <2>1. QED BY FlattenIs
<1> DEFINE D == [i \in 0 .. n |-> ApplyFrame(d, f[i])]
           Holds(i) == \A m \in 1 .. i : \A j \in DOMAIN s[m] : \E k \in DOMAIN f[i] : f[i][k] = s[m][j]
           N == {i \in Nat : i <= n => Holds(i)}
<1>2. \A i \in 0 .. n : f[i] \in Seq(Ops) /\ ApplyFrame(d, f[i]) \in Docs
  <2>1. \A i \in 0 .. n : f[i] \in Seq(Ops) BY <1>1
  <2>2. <<>> \in Seq(Ops) OBVIOUS
  <2>3. QED BY <2>1, <2>2, AppliedThen
<1>3. D \in [0 .. n -> Docs] BY <1>2
<1>4. D[0] = d /\ D[n] = ApplyFrame(d, FlattenSeq(s))
  <2>1. 0 \in 0 .. n /\ n \in 0 .. n OBVIOUS
  <2>2. QED BY <1>1, <2>1, AppliedNothing
<1>5. ASSUME NEW i \in 1 .. n PROVE D[i] = ApplyFrame(D[i - 1], s[i])
  <2>1. i \in 0 .. n /\ i - 1 \in 0 .. n OBVIOUS
  <2>2. f[i - 1] \in Seq(Ops) /\ s[i] \in Seq(Ops) BY <1>2, <2>1
  <2>3. ApplyFrame(d, f[i - 1] \o s[i]) = ApplyFrame(ApplyFrame(d, f[i - 1]), s[i])
    BY <2>2, AppliedThen
  <2>4. QED BY <1>1, <2>1, <2>3
<1>6. 0 \in N BY SMT
<1>7. ASSUME NEW i \in Nat, i \in N PROVE i + 1 \in N
  <2> SUFFICES ASSUME i + 1 <= n PROVE Holds(i + 1) OBVIOUS
  <2>1. i + 1 \in 1 .. n /\ i \in 0 .. n /\ (i + 1) - 1 = i OBVIOUS
  <2>2. f[i + 1] = f[i] \o s[i + 1] BY <1>1, <2>1
  <2>3. f[i] \in Seq(Ops) /\ s[i + 1] \in Seq(Ops) BY <1>2, <2>1
  <2>4. Holds(i) BY <1>7, <2>1
  <2> SUFFICES ASSUME NEW m \in 1 .. i + 1, NEW j \in DOMAIN s[m]
               PROVE  \E k \in DOMAIN f[i + 1] : f[i + 1][k] = s[m][j]
    OBVIOUS
  <2> DEFINE a == f[i]
             b == s[i + 1]
             ab == f[i + 1]
  <2>5. /\ a \in Seq(Ops) /\ b \in Seq(Ops) /\ ab = a \o b BY <2>2, <2>3
  <2> HIDE DEF a, b, ab, Ops
  <2>6. ToSet(ab) = ToSet(a) \union ToSet(b) BY <1>0, <2>5
  <2>7. CASE m = i + 1
    <3>1. b[j] \in ToSet(b) BY <2>7 DEF ToSet, b
    <3>2. b[j] \in ToSet(ab) BY <2>6, <3>1
    <3>3. QED BY <2>7, <3>2 DEF ToSet, ab, b
  <2>8. CASE m # i + 1
    <3>1. m \in 1 .. i BY <2>8
    <3>2. PICK k \in DOMAIN a : a[k] = s[m][j] BY <2>4, <3>1 DEF a
    <3>3. s[m][j] \in ToSet(a) BY <3>2 DEF ToSet
    <3>4. s[m][j] \in ToSet(ab) BY <2>6, <3>3
    <3>5. QED BY <3>4 DEF ToSet, ab
  <2>9. QED BY <2>7, <2>8
<1>8. Nat \subseteq N
  <2> HIDE DEF N
  <2>1. QED BY <1>6, <1>7, Inductive
<1>9. Holds(n) BY <1>8
<1>10. FlattenSeq(s) \in Seq(Ops)
  <2>1. n \in 0 .. n OBVIOUS
  <2>2. QED BY <1>1, <1>2, <2>1
<1> HIDE DEF D
<1>11. \A i \in 1 .. n : Occurs(s[i], FlattenSeq(s))
  BY <1>1, <1>9 DEF Occurs
<1>12. QED BY <1>3, <1>4, <1>5, <1>10, <1>11


\* ops makes e of d.
Makes(d, ops, e) == d \in Docs /\ ops \in Seq(Ops) /\ e \in Docs /\ e = ApplyFrame(d, ops)

LEMMA MakesNothing ==
  ASSUME NEW d \in Docs
  PROVE  Makes(d, <<>>, d)
BY AppliedNothing DEF Makes

LEMMA MakesOne ==
  ASSUME NEW d \in Docs, NEW op \in Ops
  PROVE  Makes(d, <<op>>, Apply(d, op))
<1>1. <<op>> \in Seq(Ops) OBVIOUS
<1>2. QED BY <1>1, OneApplied, ApplyType DEF Makes

LEMMA MakesSome ==
  ASSUME NEW d \in Docs, NEW ops \in Seq(Ops)
  PROVE  Makes(d, ops, ApplyFrame(d, ops))
<1>1. ApplyFrame(d, ops) \in Docs
  <2>1. <<>> \in Seq(Ops) OBVIOUS
  <2>2. QED BY <2>1, AppliedThen
<1>2. QED BY <1>1 DEF Makes

LEMMA MakesThen ==
  ASSUME NEW d, NEW a, NEW e, NEW b, NEW f, Makes(d, a, e), Makes(e, b, f)
  PROVE  Makes(d, a \o b, f)
<1>1. /\ d \in Docs /\ a \in Seq(Ops) /\ e = ApplyFrame(d, a)
      /\ b \in Seq(Ops) /\ f \in Docs /\ f = ApplyFrame(e, b)
  BY DEF Makes
<1>2. ApplyFrame(d, a \o b) = ApplyFrame(ApplyFrame(d, a), b) BY <1>1, AppliedThen
<1>3. a \o b \in Seq(Ops)
  <2> HIDE DEF Ops
  <2>1. QED BY <1>1
<1>4. QED BY <1>1, <1>2, <1>3 DEF Makes

\* The pages between the parts of a frame.
MadeOf(d, n, s, D) ==
  /\ D \in [0 .. n -> Docs] /\ D[0] = d
  /\ \A i \in 1 .. n : Makes(D[i - 1], s[i], D[i])
  /\ Makes(d, FlattenSeq(s), D[n])

LEMMA MakesParts ==
  ASSUME NEW d \in Docs, NEW n \in Nat, NEW s \in [1 .. n -> Seq(Ops)]
  PROVE  \E D : MadeOf(d, n, s, D)
<1>1. PICK D \in [0 .. n -> Docs] :
        /\ D[0] = d /\ \A i \in 1 .. n : D[i] = ApplyFrame(D[i - 1], s[i])
        /\ ApplyFrame(d, FlattenSeq(s)) = D[n]
  BY PartsApplied
<1>2. FlattenSeq(s) \in Seq(Ops) BY PartsApplied
<1>3. ASSUME NEW i \in 1 .. n PROVE Makes(D[i - 1], s[i], D[i])
  <2>1. i \in 0 .. n /\ i - 1 \in 0 .. n OBVIOUS
  <2>2. D[i] \in Docs /\ D[i - 1] \in Docs BY <1>1, <2>1
  <2>3. QED BY <1>1, <2>2 DEF Makes
<1>4. n \in 0 .. n OBVIOUS
<1>5. Makes(d, FlattenSeq(s), D[n]) BY <1>1, <1>2, <1>4 DEF Makes
<1>6. MadeOf(d, n, s, D) BY <1>1, <1>3, <1>5 DEF MadeOf
<1>7. QED BY <1>6

LEMMA PartOccurs ==
  ASSUME NEW n \in Nat, NEW s \in [1 .. n -> Seq(Ops)], NEW i \in 1 .. n
  PROVE  Occurs(s[i], FlattenSeq(s))
<1> DEFINE d == [x \in {} |-> x]
<1>1. d \in Docs
  <2>1. DOMAIN d = {} /\ d = [i_ \in DOMAIN d |-> d[i_]] OBVIOUS
  <2> HIDE DEF d
  <2>2. DOMAIN d \in SUBSET Nat BY <2>1
  <2>3. QED BY <2>1, <2>2, DocIs
<1> HIDE DEF d
<1>2. QED BY <1>1, PartsApplied

-----------------------------------------------------------------------------
(* The branches of a tree.                                                   *)

Siblings(t) ==
  \A q \in DOMAIN t : q # <<>> /\ Last(q) > 1 => Append(Front(q), Last(q) - 1) \in DOMAIN t

\* A node was numbered before those below it.
ElderFirst(t) ==
  \A q \in DOMAIN t : \A i \in Nat \ {0} : Nth(q, i) \in DOMAIN t => t[q].id < t[Nth(q, i)].id

\* A tree that a page can show.
Grown(t) == ShapeOK(t) /\ Siblings(t) /\ ElderFirst(t) /\ TextsHoldNothing(t)

Under(t, q) == {r \in DOMAIN t : IsPrefix(q, r)}

\* What lies below a path lies on one of its branches.
LEMMA BranchIs ==
  ASSUME NEW q \in Paths, NEW r \in Paths
  PROVE  /\ IsStrictPrefix(q, r) <=> \E i \in Nat \ {0} : IsPrefix(Nth(q, i), r)
         /\ \A i, j \in Nat \ {0} : IsPrefix(Nth(q, i), r) /\ IsPrefix(Nth(q, j), r) => i = j
<1>1. Len(q) \in Nat /\ Len(r) \in Nat BY DEF Paths
<1>2. ASSUME NEW i \in Nat \ {0}
      PROVE  /\ Nth(q, i) \in Paths /\ Len(Nth(q, i)) = Len(q) + 1
             /\ \A k \in 1 .. Len(q) : Nth(q, i)[k] = q[k]
             /\ Nth(q, i)[Len(q) + 1] = i
  BY <1>1 DEF Nth, Paths
<1>3. ASSUME NEW i \in Nat \ {0}
      PROVE  IsPrefix(Nth(q, i), r) <=>
               Len(q) + 1 <= Len(r) /\ r[Len(q) + 1] = i /\ \A k \in 1 .. Len(q) : q[k] = r[k]
  <2>1. IsPrefix(Nth(q, i), r) <=>
          Len(q) + 1 <= Len(r) /\ \A k \in 1 .. Len(q) + 1 : Nth(q, i)[k] = r[k]
    BY <1>2, PrefixIs
  <2>2. 1 .. Len(q) + 1 = (1 .. Len(q)) \union {Len(q) + 1} BY <1>1
  <2>3. QED BY <1>2, <2>1, <2>2
<1>4. IsStrictPrefix(q, r) <=> Len(q) + 1 <= Len(r) /\ \A k \in 1 .. Len(q) : q[k] = r[k]
  BY <1>1, PrefixIs
<1>5. Len(q) + 1 <= Len(r) => r[Len(q) + 1] \in Nat \ {0} BY <1>1 DEF Paths
<1>6. IsStrictPrefix(q, r) <=> \E i \in Nat \ {0} : IsPrefix(Nth(q, i), r)
  BY <1>3, <1>4, <1>5
<1>7. \A i, j \in Nat \ {0} : IsPrefix(Nth(q, i), r) /\ IsPrefix(Nth(q, j), r) => i = j
  BY <1>3
<1>8. QED BY <1>6, <1>7

\* A node's children are the first positions below it.
LEMMA ChildrenIs ==
  ASSUME NEW t, ShapeOK(t), Siblings(t), NEW q \in DOMAIN t
  PROVE  /\ Arity(t, q) \in Nat
         /\ \A i \in Nat \ {0} : Nth(q, i) \in DOMAIN t <=> i <= Arity(t, q)
<1> DEFINE C == {r \in DOMAIN t : r # <<>> /\ Front(r) = q}
           I == {i \in Nat \ {0} : Nth(q, i) \in DOMAIN t}
<1>1. DOMAIN t \in SUBSET Paths /\ IsFiniteSet(DOMAIN t) /\ q \in Paths BY DEF ShapeOK
<1>2. IsFiniteSet(C) /\ Cardinality(C) \in Nat
  <2>1. IsFiniteSet(C) BY <1>1, FS_Subset
  <2> HIDE DEF C
  <2>2. QED BY <2>1, FS_CardinalityType
<1>3. \A r \in C : r \in Paths /\ Last(r) \in I /\ r = Nth(q, Last(r))
  BY <1>1, FrontIs DEF Nth
<1>4. \A i \in I : i \in Nat \ {0} /\ Nth(q, i) \in C /\ Last(Nth(q, i)) = i
  BY <1>1, NthIs
<1>5. \A i \in I : i > 1 => i - 1 \in I
  <2> SUFFICES ASSUME NEW i \in I, i > 1 PROVE i - 1 \in I OBVIOUS
  <2>1. Nth(q, i) \in DOMAIN t /\ Nth(q, i) # <<>> /\ Front(Nth(q, i)) = q /\ Last(Nth(q, i)) = i
    BY <1>1, NthIs
  <2>2. Append(q, i - 1) \in DOMAIN t BY <2>1 DEF Siblings
  <2>3. i - 1 \in Nat \ {0} OBVIOUS
  <2>4. QED BY <2>2, <2>3 DEF Nth
<1>6. I \in SUBSET Nat OBVIOUS
<1>7. Arity(t, q) = Cardinality(C) BY DEF Arity
<1> HIDE DEF C, I
<1>8. ASSUME NEW n \in Nat, 1 .. n \subseteq I PROVE n <= Cardinality(C)
  <2> DEFINE f == [i \in 1 .. n |-> Nth(q, i)]
  <2>1. f \in [1 .. n -> C] BY <1>4, <1>8
  <2>2. \A i, j \in 1 .. n : f[i] = f[j] => i = j BY <1>4, <1>8
  <2> HIDE DEF f
  <2>3. f \in Injection(1 .. n, C) BY <2>1, <2>2 DEF Injection, IsInjective
  <2>4. Cardinality(1 .. n) <= Cardinality(C) BY <1>2, <2>3, FS_Injection DEF ExistsInjection
  <2>5. Cardinality(1 .. n) = n
    <3>1. Cardinality(1 .. n) = IF 1 > n THEN 0 ELSE n - 1 + 1 BY FS_Interval
    <3>2. QED BY <3>1
  <2>6. QED BY <2>4, <2>5
<1> DEFINE N == {n \in Nat : n + 1 \notin I}
<1>9. N # {}
  <2> SUFFICES ASSUME N = {} PROVE FALSE OBVIOUS
  <2>1. \A n \in Nat : n + 1 \in I OBVIOUS
  <2>2. \A n \in Nat : 1 .. n \subseteq I
    <3> SUFFICES ASSUME NEW n \in Nat, NEW i \in 1 .. n PROVE i \in I OBVIOUS
    <3>1. i - 1 \in Nat /\ (i - 1) + 1 = i OBVIOUS
    <3>2. QED BY <2>1, <3>1
  <2>3. Cardinality(C) + 1 \in Nat BY <1>2
  <2>4. Cardinality(C) + 1 <= Cardinality(C) BY <1>8, <2>2, <2>3
  <2>5. QED BY <1>2, <2>4
<1>10. PICK n \in N : \A m \in N : n <= m
  <2>1. N \in SUBSET Nat OBVIOUS
  <2> HIDE DEF N
  <2>2. QED BY <1>9, <2>1, Smallest
<1>11. \A i \in 1 .. n : i \in I
  <2> SUFFICES ASSUME NEW i \in 1 .. n PROVE i \in I OBVIOUS
  <2>1. i - 1 \in Nat /\ (i - 1) + 1 = i /\ ~(n <= i - 1) OBVIOUS
  <2>2. QED BY <1>10, <2>1
<1>12. \A i \in I : i <= n
  <2> DEFINE B == {i \in I : i > n}
  <2> SUFFICES ASSUME B # {} PROVE FALSE BY <1>6
  <2>1. B \in SUBSET Nat BY <1>6
  <2>2. PICK i \in B : \A m \in B : i <= m
    <3> HIDE DEF B
    <3>1. QED BY <2>1, Smallest
  <2>3. i \in I /\ i > n /\ i \in Nat BY <2>1
  <2>4. i # n + 1 BY <2>3
  <2>5. i > 1 /\ i - 1 > n /\ ~(i <= i - 1) BY <2>3, <2>4
  <2>6. i - 1 \in I BY <1>5, <2>3, <2>5
  <2>7. QED BY <2>2, <2>5, <2>6
<1>13. Cardinality(C) = n
  <2> DEFINE f == [i \in 1 .. n |-> Nth(q, i)]
  <2>1. f \in [1 .. n -> C] BY <1>4, <1>11
  <2>2. \A i, j \in 1 .. n : f[i] = f[j] => i = j BY <1>4, <1>11
  <2>3. \A r \in C : \E i \in 1 .. n : f[i] = r
    <3> SUFFICES ASSUME NEW r \in C PROVE \E i \in 1 .. n : f[i] = r OBVIOUS
    <3>1. Last(r) \in I /\ r = Nth(q, Last(r)) BY <1>3
    <3>2. Last(r) \in 1 .. n BY <1>4, <1>12, <3>1
    <3>3. QED BY <3>1, <3>2
  <2> HIDE DEF f
  <2>4. f \in Bijection(1 .. n, C)
    BY <2>1, <2>2, <2>3 DEF Bijection, Injection, IsInjective, Surjection
  <2>5. QED BY <2>4, FS_CountingElements DEF ExistsBijection
<1>14. \A i \in Nat \ {0} : Nth(q, i) \in DOMAIN t <=> i <= n
  BY <1>11, <1>12 DEF I
<1>15. QED BY <1>7, <1>13, <1>14

-----------------------------------------------------------------------------
(* Pages in which an element lies inside older ones only.                    *)

Sound(d, n) ==
  /\ d \in Docs /\ n \in Nat
  /\ \A i \in DOMAIN d :
       /\ i < n /\ NoRepeat(d[i].inside)
       /\ \A c \in ToSet(d[i].inside) : c \in DOMAIN d /\ i < c

\* Nothing has it inside.
Loose(d, c) == \A i \in DOMAIN d : c \notin ToSet(d[i].inside)

Within(d, w) ==
  w = [i \in DOMAIN d |-> ToSet(d[i].inside) \union UNION {w[c] : c \in ToSet(d[i].inside)}]

\* What lies at any depth in an element is what every set has that has all that
\* is inside it and inside its own members.
LEMMA WithinExists ==
  ASSUME NEW d, \A i \in DOMAIN d : ToSet(d[i].inside) \subseteq DOMAIN d
  PROVE  \E w : Within(d, w)
<1> DEFINE Closed(T) == \A x \in T : ToSet(d[x].inside) \subseteq T
           w == [i \in DOMAIN d |->
                   {x \in DOMAIN d :
                      \A T \in SUBSET DOMAIN d : Closed(T) /\ ToSet(d[i].inside) \subseteq T => x \in T}]
           sum(i) == ToSet(d[i].inside) \union UNION {w[c] : c \in ToSet(d[i].inside)}
<1>1. ASSUME NEW i \in DOMAIN d
      PROVE  ToSet(d[i].inside) \subseteq w[i] /\ Closed(w[i]) /\ w[i] \subseteq DOMAIN d
  OBVIOUS
<1>2. ASSUME NEW i \in DOMAIN d, NEW T \in SUBSET DOMAIN d, Closed(T), ToSet(d[i].inside) \subseteq T
      PROVE  w[i] \subseteq T
  BY <1>2
<1> HIDE DEF w
<1>3. ASSUME NEW i \in DOMAIN d PROVE w[i] = sum(i)
  <2>1. sum(i) \subseteq w[i]
    <3>1. \A c \in ToSet(d[i].inside) : c \in DOMAIN d /\ ToSet(d[c].inside) \subseteq w[i]
      BY <1>1
    <3>2. \A c \in ToSet(d[i].inside) : w[c] \subseteq w[i]
      BY <1>1, <1>2, <3>1
    <3>3. QED BY <1>1, <3>2
  <2>2. sum(i) \subseteq DOMAIN d BY <1>1, <2>1
  <2>3. Closed(sum(i))
    <3> SUFFICES ASSUME NEW x \in sum(i) PROVE ToSet(d[x].inside) \subseteq sum(i) OBVIOUS
    <3>1. CASE x \in ToSet(d[i].inside)
      <4>1. x \in DOMAIN d BY <3>1
      <4>2. ToSet(d[x].inside) \subseteq w[x] BY <1>1, <4>1
      <4>3. QED BY <3>1, <4>2
    <3>2. ASSUME NEW c \in ToSet(d[i].inside), x \in w[c] PROVE ToSet(d[x].inside) \subseteq sum(i)
      <4>1. c \in DOMAIN d OBVIOUS
      <4>2. ToSet(d[x].inside) \subseteq w[c] BY <1>1, <3>2, <4>1
      <4>3. QED BY <4>2
    <3>3. QED BY <3>1, <3>2
  <2>4. w[i] \subseteq sum(i) BY <1>2, <2>2, <2>3
  <2>5. QED BY <2>1, <2>4
<1>4. w = [i \in DOMAIN d |-> w[i]] BY DEF w
<1>5. Within(d, w) BY <1>3, <1>4 DEF Within
<1>6. QED BY <1>5

LEMMA EnclosesIs ==
  ASSUME NEW n, NEW d, Sound(d, n), NEW i \in DOMAIN d, NEW c
  PROVE  /\ c \in ToSet(d[i].inside) => Encloses(d, i, c)
         /\ Loose(d, c) => ~Encloses(d, i, c)
<1> DEFINE w == CHOOSE g : Within(d, g)
<1>1. \A k \in DOMAIN d : ToSet(d[k].inside) \subseteq DOMAIN d BY DEF Sound
<1>2. Within(d, w)
  <2>1. \E g : Within(d, g) BY <1>1, WithinExists
  <2>2. QED BY <2>1
<1>3. Encloses(d, i, c) <=> c \in w[i] BY DEF Encloses, Within
<1> HIDE DEF w
<1>4. \A k \in DOMAIN d :
        w[k] = ToSet(d[k].inside) \union UNION {w[x] : x \in ToSet(d[k].inside)}
  BY <1>2 DEF Within
<1>5. c \in ToSet(d[i].inside) => Encloses(d, i, c) BY <1>3, <1>4
<1>6. ASSUME Loose(d, c), c \in w[i] PROVE FALSE
  <2> DEFINE B == {k \in DOMAIN d : c \in w[k]}
             G == {n - k : k \in B}
  <2>1. \A k \in DOMAIN d : k \in Nat /\ k < n BY DocIs DEF Sound
  <2>2. \A k \in B : k \in DOMAIN d /\ c \in w[k] OBVIOUS
  <2>3. \A k \in B : \E x \in B : k < x
    <3> SUFFICES ASSUME NEW k \in B PROVE \E x \in B : k < x OBVIOUS
    <3>1. c \notin ToSet(d[k].inside) BY <1>6 DEF Loose
    <3>2. PICK x \in ToSet(d[k].inside) : c \in w[x] BY <1>4, <3>1
    <3>3. x \in DOMAIN d /\ k < x BY DEF Sound
    <3>4. QED BY <3>2, <3>3
  <2>4. i \in B BY <1>6
  <2> HIDE DEF B
  <2>5. n \in Nat BY DEF Sound
  <2>6. G \in SUBSET Nat /\ G # {} BY <2>1, <2>2, <2>4, <2>5
  <2>7. PICK g \in G : \A m \in G : g <= m
    <3> HIDE DEF G
    <3>1. QED BY <2>6, Smallest
  <2>8. PICK k \in B : g = n - k OBVIOUS
  <2>9. PICK x \in B : k < x BY <2>3
  <2>10. g <= n - x BY <2>7
  <2>11. k \in Nat /\ x \in Nat BY <2>1, <2>2
  <2>12. QED BY <2>5, <2>8, <2>9, <2>10, <2>11
<1>7. QED BY <1>3, <1>5, <1>6

LEMMA EmptyIs == NoRepeat(<<>>) /\ ToSet(<<>>) = {} /\ \A S : <<>> \in Seq(S)
BY DEF NoRepeat, ToSet

\* What a node is made of before its children: an element is made where there is
\* none, and keeps what it has where it is not written.
Opening(node) == <<CreateOp(node.id, node.component)>> \o Texts(node)

Headed(e, d, node) ==
  /\ e \in Docs /\ DOMAIN e = DOMAIN d \union {node.id}
  /\ \A j \in DOMAIN d : j # node.id => e[j] = d[j]
  /\ node.id \notin DOMAIN d =>
       e[node.id] = [shell |-> node.component, text |-> TextOf(node), inside |-> <<>>]
  /\ node.id \in DOMAIN d =>
       e[node.id] = IF TextOf(node) = Blank THEN d[node.id]
                    ELSE [shell |-> d[node.id].shell, text |-> TextOf(node), inside |-> <<>>]

LEMMA HeadIs ==
  ASSUME NEW d \in Docs, NEW node \in Retained
  PROVE  \E e : Makes(d, Opening(node), e) /\ Headed(e, d, node)
<1> DEFINE i == node.id
           x == node.text
           op == CreateOp(i, node.component)
           a == Apply(d, op)
<1>1. i \in Nat /\ node.component \in Components /\ x \in TextValues \union {None} /\ x \in Shown
  BY DEF Retained, Optional, Shown
<1>2. op \in Ops /\ TextOp(i, x) \in Ops /\ op.cmd = "CREATE_NODE"
      /\ op.id = i /\ op.arg = node.component
  BY <1>1, OpIs DEF CreateOp, Opcode
<1>3. a = CreateNode(d, i, node.component) BY <1>2 DEF Apply
<1>4. Created(a, d, i, node.component) BY <1>1, <1>3, CreatedDoc
<1>5. Opening(node) = <<op>> \o Texts(node) BY DEF Opening
<1> HIDE DEF op, a
<1>6. Makes(d, <<op>>, a) BY <1>2, MakesOne DEF a
<1>7. a \in Docs BY <1>4 DEF Created
<1>8. CASE TextOf(node) = Blank
  <2>1. Texts(node) = <<>> BY <1>8 DEF Texts
  <2>2. Opening(node) = <<op>> \o <<>> BY <1>5, <2>1
  <2>3. Makes(a, <<>>, a) BY <1>7, MakesNothing
  <2>4. Makes(d, <<op>> \o <<>>, a) BY <1>6, <2>3, MakesThen
  <2>5. Headed(a, d, node) BY <1>4, <1>8 DEF Created, Headed
  <2>6. QED BY <2>2, <2>4, <2>5
<1>9. CASE TextOf(node) # Blank
  <2> DEFINE tp == TextOp(i, x)
             e == Apply(a, tp)
  <2>1. Texts(node) = <<tp>> /\ TextOf(node) = x BY <1>9 DEF Texts, TextOf
  <2>2. tp \in Ops /\ tp.cmd = "SET_TEXT" /\ tp.id = i /\ tp.arg = x
    BY <1>2 DEF TextOp, Opcode
  <2>3. e = WriteText(a, i, x) BY <2>2 DEF Apply
  <2>4. Opening(node) = <<op>> \o <<tp>> BY <1>5, <2>1
  <2> HIDE DEF tp, e
  <2>5. Makes(a, <<tp>>, e) BY <1>7, <2>2, MakesOne DEF e
  <2>6. Makes(d, <<op>> \o <<tp>>, e) BY <1>6, <2>5, MakesThen
  <2>7. Written(e, a, i, x) BY <1>1, <1>7, <2>3, WrittenDoc
  <2>8. Headed(e, d, node)
    <3>1. i \in DOMAIN a /\ a[i].shell = IF i \in DOMAIN d THEN d[i].shell ELSE node.component
      BY <1>4 DEF Created
    <3>2. e[i] = [shell |-> a[i].shell, text |-> TextOf(node), inside |-> <<>>]
      BY <2>1, <2>7, <3>1 DEF Written
    <3>3. e \in Docs /\ DOMAIN e = DOMAIN d \union {i} BY <1>4, <2>7 DEF Created, Written
    <3>4. \A j \in DOMAIN d : j # i => e[j] = d[j] BY <1>4, <2>7 DEF Created, Written
    <3>5. QED BY <1>9, <3>1, <3>2, <3>3, <3>4 DEF Headed
  <2>9. QED BY <2>4, <2>6, <2>8
<1>10. QED BY <1>8, <1>9

\* INSERT_CHILD of a loose element into an older one.
LEMMA InsertsAre ==
  ASSUME NEW i \in Nat, NEW c \in Nat, NEW k \in Int, NEW d \in Docs
  PROVE  /\ InsertOp(i, c, k) \in Ops
         /\ Apply(d, InsertOp(i, c, k)) = InsertChild(d, i, c, k)
<1> DEFINE op == InsertOp(i, c, k)
<1>1. op \in [cmd : Commands, id : Nat, arg : Components \union Shown, child : Nat, index : Int]
  BY DEF InsertOp, Opcode, Commands, Shown
<1>2. op.cmd = "INSERT_CHILD" /\ op.id = i /\ op.child = c /\ op.index = k
  BY DEF InsertOp, Opcode
<1> HIDE DEF op
<1>3. op \in Ops BY <1>1, <1>2 DEF Ops
<1>4. Apply(d, op) = InsertChild(d, i, c, k) BY <1>2 DEF Apply
<1>5. QED BY <1>3, <1>4 DEF op

SoundIn(d, n, i) ==
  /\ i < n /\ NoRepeat(d[i].inside)
  /\ \A c \in ToSet(d[i].inside) : c \in DOMAIN d /\ i < c

LEMMA SoundIs ==
  ASSUME NEW d, NEW n
  PROVE  Sound(d, n) <=> d \in Docs /\ n \in Nat /\ \A i \in DOMAIN d : SoundIn(d, n, i)
BY DEF Sound, SoundIn

LEMMA InsideIs ==
  ASSUME NEW d \in Docs, NEW i \in DOMAIN d
  PROVE  i \in Nat /\ d[i] \in Element /\ d[i].inside \in Seq(Nat)
BY DocIs, ElementFields

Adopted(e, d, n, i, c, k) ==
  /\ Sound(e, n) /\ DOMAIN e = DOMAIN d
  /\ \A j \in DOMAIN d : j # i => e[j] = d[j]
  /\ e[i] = [shell |-> d[i].shell, text |-> d[i].text, inside |-> InsertedAt(d[i].inside, c, k)]

LEMMA AdoptIs ==
  ASSUME NEW n, NEW d, Sound(d, n), NEW i \in DOMAIN d, NEW c \in DOMAIN d, i < c, Loose(d, c),
         NEW k \in Int
  PROVE  \E e : Makes(d, <<InsertOp(i, c, k)>>, e) /\ Adopted(e, d, n, i, c, k)
<1> DEFINE s == d[i].inside
           r == RemoveFirst(s, c)
           z == InsertedAt(s, c, k)
           e == InsertChild(d, i, c, k)
<1>1. d \in Docs BY DEF Sound
<1>2. i \in Nat /\ c \in Nat /\ s \in Seq(Nat) /\ c \notin ToSet(s)
  BY <1>1, InsideIs DEF Loose
<1>3. InsertOp(i, c, k) \in Ops /\ Apply(d, InsertOp(i, c, k)) = e BY <1>1, <1>2, InsertsAre
<1>4. Makes(d, <<InsertOp(i, c, k)>>, e)
  <2>1. Makes(d, <<InsertOp(i, c, k)>>, Apply(d, InsertOp(i, c, k))) BY <1>1, <1>3, MakesOne
  <2>2. QED BY <1>3, <2>1
<1>5. ~Encloses(d, i, c) BY EnclosesIs
<1>6. Inserted(e, d, i, c, k) BY <1>1, <1>2, InsertedDoc
<1>7. TakenOut(Detached(d, c), d, c) BY <1>1, DetachedDoc
<1>8. Removed(r, Nat, s, c) BY <1>2, RemovedIs
<1>9. PutIn(z, Nat, s, c, k) BY <1>2, InsertedIs
<1> HIDE DEF e
<1>10. /\ e \in Docs /\ DOMAIN e = DOMAIN d
       /\ e[i].shell = d[i].shell /\ e[i].text = d[i].text
       /\ e[i].inside = InsertedAt(r, c, k)
  BY <1>5, <1>6 DEF Inserted
<1>11. \A j \in DOMAIN d : j # i => e[j] = d[j]
  <2>1. \A j \in DOMAIN d \ {i} : e[j] = Detached(d, c)[j] BY <1>5, <1>6 DEF Inserted
  <2>2. \A j \in DOMAIN d : Detached(d, c)[j] = d[j] BY <1>7 DEF TakenOut, Loose
  <2>3. QED BY <2>1, <2>2
<1> HIDE DEF s, r, z
<1>12. r = s BY <1>2, <1>8 DEF Removed
<1>13. e[i].inside = z BY <1>10, <1>12 DEF z
<1>14. e[i] = [shell |-> d[i].shell, text |-> d[i].text, inside |-> z]
  <2>1. e[i] \in Element BY <1>10, InsideIs
  <2>2. QED BY <1>10, <1>13, <2>1 DEF Element
<1>15. Sound(e, n)
  <2>1. ASSUME NEW j \in DOMAIN e PROVE SoundIn(e, n, j)
    <3>1. SoundIn(d, n, j) BY <1>10, <2>1, SoundIs
    <3>2. CASE j # i BY <1>10, <1>11, <3>1, <3>2 DEF SoundIn
    <3>3. CASE j = i
      <4>1. NoRepeat(s) /\ j < n /\ \A x \in ToSet(s) : x \in DOMAIN e /\ i < x
        BY <1>10, <3>1, <3>3 DEF SoundIn, s
      <4>2. NoRepeat(z) /\ ToSet(z) = ToSet(s) \union {c} BY <1>2, <1>9, <4>1 DEF PutIn
      <4>3. NoRepeat(e[j].inside) /\ \A x \in ToSet(e[j].inside) : x \in DOMAIN e /\ j < x
        BY <1>10, <1>13, <3>3, <4>1, <4>2
      <4>4. QED BY <4>1, <4>3 DEF SoundIn
    <3>4. QED BY <3>2, <3>3
  <2>2. n \in Nat BY DEF Sound
  <2>3. QED BY <1>10, <2>1, <2>2, SoundIs
<1>16. Adopted(e, d, n, i, c, k) BY <1>10, <1>11, <1>14, <1>15 DEF Adopted, z, s
<1>17. QED BY <1>4, <1>16

\* An element that is inside already stays where it is.
LEMMA StayIs ==
  ASSUME NEW n, NEW d, Sound(d, n), NEW i \in DOMAIN d, NEW c \in ToSet(d[i].inside),
         NEW k \in Int
  PROVE  Makes(d, <<InsertOp(i, c, k)>>, d)
<1>1. d \in Docs /\ i \in Nat BY InsideIs DEF Sound
<1>2. c \in DOMAIN d /\ c \in Nat
  <2>1. c \in DOMAIN d BY DEF Sound
  <2>2. QED BY <1>1, <2>1, InsideIs
<1>3. Encloses(d, i, c) BY EnclosesIs
<1>4. Inserted(InsertChild(d, i, c, k), d, i, c, k) BY <1>1, <1>2, InsertedDoc
<1>5. InsertChild(d, i, c, k) = d BY <1>3, <1>4 DEF Inserted
<1>6. InsertOp(i, c, k) \in Ops /\ Apply(d, InsertOp(i, c, k)) = d
  <2>1. /\ InsertOp(i, c, k) \in Ops
        /\ Apply(d, InsertOp(i, c, k)) = InsertChild(d, i, c, k)
    BY <1>1, <1>2, InsertsAre
  <2>2. QED BY <1>5, <2>1
<1>7. Makes(d, <<InsertOp(i, c, k)>>, Apply(d, InsertOp(i, c, k))) BY <1>1, <1>6, MakesOne
<1>8. QED BY <1>6, <1>7

\* An element is taken out of where it is, and forgotten.
Dropped(e, d, n, c) ==
  /\ Sound(e, n) /\ DOMAIN e = DOMAIN d \ {c}
  /\ \A j \in DOMAIN e :
       /\ e[j] = [shell |-> d[j].shell, text |-> d[j].text, inside |-> RemoveFirst(d[j].inside, c)]
       /\ c \notin ToSet(d[j].inside) => e[j] = d[j]

LEMMA DropIs ==
  ASSUME NEW n, NEW d, Sound(d, n), NEW i \in Nat, NEW c \in Nat
  PROVE  \E e : Makes(d, <<RemoveOp(i, c), DeleteOp(c)>>, e) /\ Dropped(e, d, n, c)
<1> DEFINE a == Detached(d, c)
           e == DeleteNode(a, c)
           b == Detached(a, c)
           rem == RemoveOp(i, c)
           del == DeleteOp(c)
<1>1. d \in Docs BY DEF Sound
<1>2. TakenOut(a, d, c) BY <1>1, DetachedDoc
<1>3. a \in Docs /\ DOMAIN a = DOMAIN d BY <1>2 DEF TakenOut
<1>4. Deleted(e, a, c) BY <1>3, DeletedDoc
<1>5. TakenOut(b, a, c) BY <1>3, DetachedDoc
<1>6. rem \in Ops /\ rem.cmd = "REMOVE_CHILD" /\ rem.child = c
  <2>1. rem \in [cmd : Commands, id : Nat, arg : Components \union Shown, child : Nat, index : Int]
    BY DEF RemoveOp, Opcode, Commands, Shown
  <2>2. rem.cmd = "REMOVE_CHILD" /\ rem.child = c BY DEF RemoveOp, Opcode
  <2>3. QED BY <2>1, <2>2 DEF Ops
<1>7. del \in Ops /\ del.cmd = "DELETE_NODE" /\ del.id = c
  <2>1. del \in [cmd : Commands, id : Nat, arg : Components \union Shown, child : Nat, index : Int]
    BY DEF DeleteOp, Opcode, Commands, Shown
  <2>2. del.cmd = "DELETE_NODE" /\ del.id = c BY DEF DeleteOp, Opcode
  <2>3. QED BY <2>1, <2>2 DEF Ops
<1>8. <<RemoveOp(i, c), DeleteOp(c)>> = <<rem>> \o <<del>> OBVIOUS
<1> HIDE DEF rem, del
<1>9. Apply(d, rem) = a /\ Apply(a, del) = e BY <1>6, <1>7 DEF Apply
<1> HIDE DEF a, e, b
<1>10. Makes(d, <<rem>>, a)
  <2>1. Makes(d, <<rem>>, Apply(d, rem)) BY <1>1, <1>6, MakesOne
  <2>2. QED BY <1>9, <2>1
<1>11. Makes(a, <<del>>, e)
  <2>1. Makes(a, <<del>>, Apply(a, del)) BY <1>3, <1>7, MakesOne
  <2>2. QED BY <1>9, <2>1
<1>12. Makes(d, <<rem>> \o <<del>>, e) BY <1>10, <1>11, MakesThen
<1>13. e \in Docs /\ DOMAIN e = DOMAIN d \ {c} BY <1>3, <1>4 DEF Deleted
<1>14. ASSUME NEW j \in DOMAIN e
       PROVE  /\ e[j] = [shell |-> d[j].shell, text |-> d[j].text,
                         inside |-> RemoveFirst(d[j].inside, c)]
              /\ c \notin ToSet(d[j].inside) => e[j] = d[j]
              /\ SoundIn(e, n, j)
  <2> DEFINE s == d[j].inside
             r == RemoveFirst(s, c)
             z == RemoveFirst(r, c)
  <2>1. SoundIn(d, n, j) /\ j \in DOMAIN d /\ s \in Seq(Nat) /\ d[j] \in Element
    BY <1>1, <1>13, SoundIs, InsideIs
  <2>2. Removed(r, Nat, s, c) BY <2>1, RemovedIs
  <2>3. a[j].shell = d[j].shell /\ a[j].text = d[j].text /\ a[j].inside = r
        /\ (c \notin ToSet(s) => a[j] = d[j])
    BY <1>2, <2>1 DEF TakenOut
  <2>4. e[j] = b[j] BY <1>3, <1>4, <1>13, <2>1 DEF Deleted, b
  <2>5. b[j].shell = a[j].shell /\ b[j].text = a[j].text /\ b[j].inside = RemoveFirst(a[j].inside, c)
    BY <1>3, <1>5, <2>1 DEF TakenOut
  <2>6. e[j].shell = d[j].shell /\ e[j].text = d[j].text /\ e[j].inside = z
    BY <2>3, <2>4, <2>5
  <2>7. NoRepeat(s) /\ \A x \in ToSet(s) : x \in DOMAIN d /\ j < x
    BY <2>1 DEF SoundIn
  <2> HIDE DEF s, r, z
  <2>8. r \in Seq(Nat) /\ NoRepeat(r) /\ ToSet(r) = ToSet(s) \ {c} /\ (c \notin ToSet(s) => r = s)
    BY <2>2, <2>7 DEF Removed
  <2>9. Removed(z, Nat, r, c) BY <2>8, RemovedIs DEF z
  <2>10. z = r BY <2>8, <2>9 DEF Removed
  <2>11. e[j] \in Element BY <1>13, InsideIs
  <2>12. e[j] = [shell |-> d[j].shell, text |-> d[j].text, inside |-> r]
    BY <2>6, <2>10, <2>11 DEF Element
  <2>13. c \notin ToSet(s) => e[j] = d[j]
    <3> SUFFICES ASSUME c \notin ToSet(s) PROVE e[j] = d[j] OBVIOUS
    <3>1. r = s BY <2>8
    <3>2. d[j] = [shell |-> d[j].shell, text |-> d[j].text, inside |-> s] BY <2>1 DEF Element, s
    <3>3. QED BY <2>12, <3>1, <3>2
  <2>14. SoundIn(e, n, j)
    <3>1. j < n BY <2>1 DEF SoundIn
    <3>2. \A x \in ToSet(r) : x \in DOMAIN e /\ j < x BY <1>13, <2>7, <2>8
    <3>3. QED BY <2>6, <2>8, <2>10, <3>1, <3>2 DEF SoundIn
  <2>15. QED BY <2>12, <2>13, <2>14 DEF r, s
<1>15. Sound(e, n)
  <2>1. n \in Nat BY DEF Sound
  <2>2. QED BY <1>13, <1>14, <2>1, SoundIs
<1>16. Dropped(e, d, n, c) BY <1>13, <1>14, <1>15 DEF Dropped
<1>17. QED BY <1>8, <1>12, <1>16

\* A text is written into an element, and takes out what is inside.
Rewritten(e, d, n, i, x) ==
  /\ Sound(e, n) /\ DOMAIN e = DOMAIN d
  /\ \A j \in DOMAIN d : j # i => e[j] = d[j]
  /\ e[i] = [shell |-> d[i].shell, text |-> x, inside |-> <<>>]

LEMMA TextIs ==
  ASSUME NEW i \in Nat, NEW x \in Shown, NEW d \in Docs
  PROVE  \E e : Makes(d, <<TextOp(i, x)>>, e) /\ Written(e, d, i, x)
<1> DEFINE tp == TextOp(i, x)
           e == WriteText(d, i, x)
<1>1. tp \in [cmd : Commands, id : Nat, arg : Components \union Shown, child : Nat, index : Int]
  BY DEF TextOp, Opcode, Commands
<1>2. tp.cmd = "SET_TEXT" /\ tp.id = i /\ tp.arg = x BY DEF TextOp, Opcode
<1> HIDE DEF tp
<1>3. tp \in Ops BY <1>1, <1>2 DEF Ops
<1>4. Apply(d, tp) = e BY <1>2 DEF Apply
<1>5. Makes(d, <<tp>>, Apply(d, tp)) BY <1>3, MakesOne
<1>6. Written(e, d, i, x) BY WrittenDoc
<1> HIDE DEF e
<1>7. QED BY <1>4, <1>5, <1>6 DEF tp

LEMMA RewriteIs ==
  ASSUME NEW n, NEW d, Sound(d, n), NEW i \in DOMAIN d, NEW x \in Shown
  PROVE  \E e : Makes(d, <<TextOp(i, x)>>, e) /\ Rewritten(e, d, n, i, x)
<1>1. d \in Docs /\ i \in Nat BY InsideIs DEF Sound
<1>2. PICK e : Makes(d, <<TextOp(i, x)>>, e) /\ Written(e, d, i, x) BY <1>1, TextIs
<1>3. /\ e \in Docs /\ DOMAIN e = DOMAIN d
      /\ \A j \in DOMAIN d : j # i => e[j] = d[j]
      /\ e[i] = [shell |-> d[i].shell, text |-> x, inside |-> <<>>]
  BY <1>2 DEF Written
<1>4. ASSUME NEW j \in DOMAIN e PROVE SoundIn(e, n, j)
  <2>1. SoundIn(d, n, j) BY <1>3, SoundIs
  <2>2. CASE j # i BY <1>3, <2>1, <2>2 DEF SoundIn
  <2>3. CASE j = i
    <3>1. e[j].inside = <<>> BY <1>3, <2>3
    <3>2. QED BY <2>1, <3>1, EmptyIs DEF SoundIn
  <2>4. QED BY <2>2, <2>3
<1>5. n \in Nat BY DEF Sound
<1>6. Sound(e, n) BY <1>3, <1>4, <1>5, SoundIs
<1>7. Rewritten(e, d, n, i, x) BY <1>3, <1>6 DEF Rewritten
<1>8. QED BY <1>2, <1>7

-----------------------------------------------------------------------------
(* What is made of a node and of those below it.                             *)

\* What a path is given may depend on what those below it are given.
FromBelow(P, A, F) ==
  \A q \in P : \A g, h \in [P -> A] :
    (\A r \in P : IsStrictPrefix(q, r) => g[r] = h[r]) => F[q][g] = F[q][h]

Solved(g, P, F) == \A q \in P : g[q] = F[q][g]

LEMMA PathRecursion ==
  ASSUME NEW P \in SUBSET Paths, IsFiniteSet(P), NEW A, NEW base \in A,
         NEW F \in [P -> [[P -> A] -> A]], FromBelow(P, A, F)
  PROVE  \E g \in [P -> A] : Solved(g, P, F)
<1> DEFINE rank(q) == Cardinality({r \in P : IsStrictPrefix(q, r)})
           Solves(g, m) == \A q \in P : rank(q) < m => g[q] = F[q][g]
           N == {m \in Nat : \E g \in [P -> A] : Solves(g, m)}
<1>1. \A q \in P : IsFiniteSet({r \in P : IsStrictPrefix(q, r)}) BY FS_Subset
<1>2. Cardinality(P) \in Nat BY FS_CardinalityType
<1>3. \A q \in P : rank(q) \in Nat /\ rank(q) < Cardinality(P) + 1
  <2> SUFFICES ASSUME NEW q \in P PROVE rank(q) \in Nat /\ rank(q) < Cardinality(P) + 1 OBVIOUS
  <2> DEFINE B == {r \in P : IsStrictPrefix(q, r)}
  <2>1. IsFiniteSet(B) /\ B \subseteq P BY <1>1
  <2> HIDE DEF B
  <2>2. Cardinality(B) \in Nat /\ Cardinality(B) <= Cardinality(P)
    BY <2>1, FS_CardinalityType, FS_Subset
  <2>3. QED BY <1>2, <2>2 DEF B
<1>4. ASSUME NEW q \in P, NEW r \in P, IsStrictPrefix(q, r) PROVE rank(r) < rank(q)
  <2> DEFINE C == {x \in P : IsStrictPrefix(r, x)}
             B == {x \in P : IsStrictPrefix(q, x)}
  <2>1. C \subseteq B /\ r \in B /\ r \notin C
    BY <1>4, PrefixOrder DEF IsStrictPrefix
  <2>2. IsFiniteSet(B) /\ IsFiniteSet(C) BY <1>1
  <2>3. rank(r) = Cardinality(C) /\ rank(q) = Cardinality(B) OBVIOUS
  <2> HIDE DEF B, C, rank
  <2>4. Cardinality(B) \in Nat /\ Cardinality(C) \in Nat BY <2>2, FS_CardinalityType
  <2>5. Cardinality(C) <= Cardinality(B) /\ Cardinality(C) # Cardinality(B)
    BY <2>1, <2>2, FS_Subset
  <2>6. \A x, y \in Nat : x <= y /\ x # y => x < y OBVIOUS
  <2>7. Cardinality(C) < Cardinality(B) BY <2>4, <2>5, <2>6
  <2>8. QED BY <2>3, <2>7
<1> HIDE DEF rank
<1>5. 0 \in N
  <2> DEFINE g == [q \in P |-> base]
  <2>1. g \in [P -> A] OBVIOUS
  <2>2. Solves(g, 0) BY <1>3
  <2>3. QED BY <2>1, <2>2
<1>6. ASSUME NEW m \in Nat, m \in N PROVE m + 1 \in N
  <2>1. PICK g \in [P -> A] : Solves(g, m) BY <1>6
  <2> DEFINE h == [q \in P |-> IF rank(q) < m + 1 THEN F[q][g] ELSE g[q]]
  <2>2. h \in [P -> A] OBVIOUS
  <2>3. \A q \in P : rank(q) < m + 1 => h[q] = F[q][g] OBVIOUS
  <2>4. \A q \in P : rank(q) < m => h[q] = g[q]
    <3> SUFFICES ASSUME NEW q \in P, rank(q) < m PROVE h[q] = g[q] OBVIOUS
    <3>1. rank(q) < m + 1 BY <1>3
    <3>2. QED BY <2>1, <3>1
  <2> HIDE DEF h
  <2>5. ASSUME NEW q \in P, rank(q) < m + 1 PROVE h[q] = F[q][h]
    <3>1. ASSUME NEW r \in P, IsStrictPrefix(q, r) PROVE h[r] = g[r]
      <4>1. rank(r) < rank(q) BY <1>4, <3>1
      <4>2. rank(r) < m BY <1>3, <2>5, <4>1
      <4>3. QED BY <2>4, <4>2
    <3>2. F[q][h] = F[q][g] BY <2>2, <3>1 DEF FromBelow
    <3>3. QED BY <2>3, <2>5, <3>2
  <2>6. Solves(h, m + 1) BY <2>5
  <2>7. QED BY <2>2, <2>6
<1>7. Nat \subseteq N
  <2> HIDE DEF N
  <2>1. QED BY <1>5, <1>6, Inductive
<1>8. Cardinality(P) + 1 \in N BY <1>2, <1>7
<1>9. PICK g \in [P -> A] : Solves(g, Cardinality(P) + 1) BY <1>8
<1>10. \A q \in P : g[q] = F[q][g] BY <1>3, <1>9
<1>11. QED BY <1>10 DEF Solved

\* The parts of what is made of a node's children.
EmitParts(t, q) ==
  [i \in 1 .. Arity(t, q) |-> EmitNode(t, Nth(q, i)) \o <<InsertOp(t[q].id, t[Nth(q, i)].id, -1)>>]

LEMMA NodeIs ==
  ASSUME NEW t, ShapeOK(t), NEW q \in DOMAIN t
  PROVE  q \in Paths /\ t[q] \in Retained /\ t[q].id \in Nat /\ t[q].component \in Components
BY DEF ShapeOK, Retained

LEMMA HeadTyped ==
  ASSUME NEW node \in Retained
  PROVE  Opening(node) \in Seq(Ops)
<1> DEFINE d == [x \in {} |-> x]
<1>1. d \in Docs
  <2>1. DOMAIN d = {} /\ d = [i_ \in DOMAIN d |-> d[i_]] OBVIOUS
  <2> HIDE DEF d
  <2>2. DOMAIN d \in SUBSET Nat BY <2>1
  <2>3. QED BY <2>1, <2>2, DocIs
<1> HIDE DEF d
<1>2. PICK e : Makes(d, Opening(node), e) BY <1>1, HeadIs
<1>3. QED BY <1>2 DEF Makes

LEMMA Joins ==
  ASSUME NEW S, NEW a \in Seq(S), NEW b \in Seq(S)
  PROVE  a \o b \in Seq(S)
OBVIOUS

LEMMA Flattens ==
  ASSUME NEW n \in Nat, NEW s \in [1 .. n -> Seq(Ops)]
  PROVE  FlattenSeq(s) \in Seq(Ops)
<1> DEFINE d == [x \in {} |-> x]
<1>1. d \in Docs
  <2>1. DOMAIN d = {} /\ d = [i_ \in DOMAIN d |-> d[i_]] OBVIOUS
  <2> HIDE DEF d
  <2>2. DOMAIN d \in SUBSET Nat BY <2>1
  <2>3. QED BY <2>1, <2>2, DocIs
<1> HIDE DEF d
<1>2. PICK D : MadeOf(d, n, s, D) BY <1>1, MakesParts
<1>3. Makes(d, FlattenSeq(s), D[n]) BY <1>2 DEF MadeOf
<1>4. QED BY <1>3 DEF Makes

LEMMA EmitIs ==
  ASSUME NEW t, ShapeOK(t), Siblings(t)
  PROVE  \A q \in DOMAIN t :
           /\ EmitNode(t, q) \in Seq(Ops)
           /\ EmitNode(t, q) = Opening(t[q]) \o FlattenSeq(EmitParts(t, q))
<1> DEFINE P == DOMAIN t
           A == Seq(Ops)
           ins(q, i) == InsertOp(t[q].id, t[Nth(q, i)].id, -1)
           parts(q, g) == [i \in 1 .. Arity(t, q) |-> g[Nth(q, i)] \o <<ins(q, i)>>]
           made(q, g) == Opening(t[q]) \o FlattenSeq(parts(q, g))
           F == [q \in P |-> [g \in [P -> A] |-> made(q, g)]]
           Fix(g) == g = [q \in P |-> made(q, g)]
           f == CHOOSE g : Fix(g)
<1>1. P \in SUBSET Paths /\ IsFiniteSet(P) BY DEF ShapeOK
<1>2. ASSUME NEW q \in P
      PROVE  /\ Arity(t, q) \in Nat
             /\ \A i \in 1 .. Arity(t, q) : Nth(q, i) \in P /\ IsStrictPrefix(q, Nth(q, i))
  <2>1. Arity(t, q) \in Nat /\ \A i \in Nat \ {0} : Nth(q, i) \in P <=> i <= Arity(t, q)
    BY ChildrenIs
  <2>2. \A i \in 1 .. Arity(t, q) : i \in Nat \ {0} /\ i <= Arity(t, q) BY <2>1
  <2>3. q \in Paths BY <1>1
  <2>4. QED BY <2>1, <2>2, <2>3, NthIs
<1>3. ASSUME NEW q \in P, NEW i \in 1 .. Arity(t, q) PROVE ins(q, i) \in Ops
  <2>1. Nth(q, i) \in P BY <1>2
  <2>2. t[q].id \in Nat /\ t[Nth(q, i)].id \in Nat BY <2>1, NodeIs
  <2>3. [x \in {} |-> x] \in Docs
    <3> DEFINE d == [x \in {} |-> x]
    <3>1. DOMAIN d = {} /\ d = [i_ \in DOMAIN d |-> d[i_]] OBVIOUS
    <3> HIDE DEF d
    <3>2. DOMAIN d \in SUBSET Nat BY <3>1
    <3>3. d \in Docs BY <3>1, <3>2, DocIs
    <3>4. QED BY <3>3 DEF d
  <2>4. -1 \in Int OBVIOUS
  <2>5. QED BY <2>2, <2>3, <2>4, InsertsAre
<1> HIDE DEF ins
<1>4. ASSUME NEW q \in P, NEW g \in [P -> A]
      PROVE  parts(q, g) \in [1 .. Arity(t, q) -> A] /\ made(q, g) \in A
  <2>1. ASSUME NEW i \in 1 .. Arity(t, q) PROVE g[Nth(q, i)] \o <<ins(q, i)>> \in A
    <3>1. g[Nth(q, i)] \in A BY <1>2
    <3>2. <<ins(q, i)>> \in A
      <4>1. ins(q, i) \in Ops BY <1>3
      <4> HIDE DEF Ops
      <4>2. QED BY <4>1
    <3>3. QED BY <3>1, <3>2, Joins
  <2>2. parts(q, g) \in [1 .. Arity(t, q) -> A] BY <2>1
  <2> DEFINE s == parts(q, g)
  <2>3. s \in [1 .. Arity(t, q) -> Seq(Ops)] BY <2>2
  <2> HIDE DEF s
  <2>4. FlattenSeq(s) \in Seq(Ops) BY <1>2, <2>3, Flattens
  <2>5. Opening(t[q]) \in Seq(Ops) BY NodeIs, HeadTyped
  <2>6. Opening(t[q]) \o FlattenSeq(s) \in Seq(Ops) BY <2>4, <2>5, Joins
  <2>7. QED BY <2>2, <2>6 DEF s
<1>5. ASSUME NEW q \in P, NEW g, NEW h, \A r \in P : IsStrictPrefix(q, r) => g[r] = h[r]
      PROVE  made(q, g) = made(q, h)
  <2>1. \A i \in 1 .. Arity(t, q) : g[Nth(q, i)] = h[Nth(q, i)] BY <1>2, <1>5
  <2>2. parts(q, g) = parts(q, h) BY <2>1
  <2> HIDE DEF parts
  <2>3. QED BY <2>2
<1> HIDE DEF made
<1>6. \E g \in [P -> A] : \A q \in P : g[q] = made(q, g)
  <2>1. F \in [P -> [[P -> A] -> A]] BY <1>4
  <2>2. \A q \in P : \A g \in [P -> A] : F[q][g] = made(q, g) OBVIOUS
  <2>3. FromBelow(P, A, F) BY <1>5, <2>2 DEF FromBelow
  <2>4. <<>> \in A OBVIOUS
  <2> HIDE DEF F, P, A
  <2>5. \E g \in [P -> A] : Solved(g, P, F) BY <1>1, <2>1, <2>3, <2>4, PathRecursion
  <2>6. QED BY <2>2, <2>5 DEF Solved
<1>7. \E g : Fix(g)
  <2>1. PICK g \in [P -> A] : \A q \in P : g[q] = made(q, g) BY <1>6
  <2>2. g = [q \in P |-> g[q]] OBVIOUS
  <2>3. Fix(g) BY <2>1, <2>2
  <2>4. QED BY <2>3
<1>8. Fix(f) BY <1>7
<1>9. \A q : EmitNode(t, q) = f[q] BY DEF EmitNode, EachChild, Opening, made, parts, ins
<1> HIDE DEF f
<1>10. \A q \in P : f[q] = made(q, f) BY <1>8
<1>11. ASSUME NEW q \in P PROVE made(q, f) = Opening(t[q]) \o FlattenSeq(EmitParts(t, q))
  <2>1. parts(q, f) = EmitParts(t, q) BY <1>9 DEF EmitParts, parts, ins
  <2> HIDE DEF parts
  <2>2. QED BY <2>1 DEF made
<1>12. f \in [P -> A]
  <2> DEFINE Bad == {q \in P : f[q] \notin A}
  <2> SUFFICES ASSUME Bad # {} PROVE FALSE BY <1>8
  <2>1. Bad \in SUBSET Paths /\ IsFiniteSet(Bad)
    <3>1. Bad \subseteq P OBVIOUS
    <3>2. QED BY <1>1, <3>1, FS_Subset
  <2>2. PICK q \in Bad : \A r \in Bad : ~IsStrictPrefix(q, r)
    <3> HIDE DEF Bad
    <3>1. QED BY <2>1, Bottommost
  <2>3. q \in P /\ f[q] \notin A OBVIOUS
  <2> DEFINE g == [r \in P |-> IF f[r] \in A THEN f[r] ELSE <<>>]
  <2>4. g \in [P -> A] OBVIOUS
  <2>5. \A r \in P : IsStrictPrefix(q, r) => f[r] = g[r] BY <2>2
  <2> HIDE DEF g
  <2>6. made(q, f) = made(q, g) BY <1>5, <2>3, <2>5
  <2>7. made(q, g) \in A BY <1>4, <2>3, <2>4
  <2>8. QED BY <1>10, <2>3, <2>6, <2>7
<1>13. QED BY <1>9, <1>10, <1>11, <1>12

-----------------------------------------------------------------------------
(* Elements for nodes.                                                       *)

Kids(t, q) == [i \in 1 .. Arity(t, q) |-> t[Nth(q, i)].id]

ElementOf(t, q) == [shell |-> t[q].component, text |-> TextOf(t[q]), inside |-> Kids(t, q)]

Firsts(s, m) == [i \in 1 .. m |-> s[i]]

LEMMA FirstsIs ==
  ASSUME NEW S, NEW s \in Seq(S)
  PROVE  /\ Firsts(s, 0) = <<>> /\ Firsts(s, Len(s)) = s
         /\ \A m \in 0 .. Len(s) :
              /\ Firsts(s, m) \in Seq(S) /\ Len(Firsts(s, m)) = m
              /\ \A x \in ToSet(Firsts(s, m)) : \E i \in 1 .. m : x = s[i]
         /\ \A m \in 1 .. Len(s) : Firsts(s, m) = Append(Firsts(s, m - 1), s[m])
<1>0. Len(s) \in Nat /\ DOMAIN s = 1 .. Len(s) /\ \A i \in 1 .. Len(s) : s[i] \in S OBVIOUS
<1>1. ASSUME NEW m \in 0 .. Len(s)
      PROVE  /\ Firsts(s, m) \in Seq(S) /\ Len(Firsts(s, m)) = m
             /\ DOMAIN Firsts(s, m) = 1 .. m
             /\ \A x \in ToSet(Firsts(s, m)) : \E i \in 1 .. m : x = s[i]
  <2>1. \A i \in 1 .. m : s[i] \in S BY <1>0
  <2>2. m \in Nat BY <1>0
  <2>3. Firsts(s, m) \in Seq(S) /\ Len(Firsts(s, m)) = m /\ DOMAIN Firsts(s, m) = 1 .. m
    BY <2>1, <2>2 DEF Firsts
  <2>4. \A x \in ToSet(Firsts(s, m)) : \E i \in 1 .. m : x = s[i]
    BY <2>3 DEF Firsts, ToSet
  <2>5. QED BY <2>3, <2>4
<1>2. Firsts(s, 0) = <<>>
  <2>1. Firsts(s, 0) \in Seq(S) /\ Len(Firsts(s, 0)) = 0 BY <1>0, <1>1
  <2>2. QED BY <2>1
<1>3. Firsts(s, Len(s)) = s
  <2>1. s = [i \in 1 .. Len(s) |-> s[i]] BY <1>0
  <2>2. QED BY <2>1 DEF Firsts
<1>4. ASSUME NEW m \in 1 .. Len(s) PROVE Firsts(s, m) = Append(Firsts(s, m - 1), s[m])
  <2> DEFINE f == Firsts(s, m)
             g == Firsts(s, m - 1)
             h == Append(g, s[m])
  <2>1. m \in 0 .. Len(s) /\ m - 1 \in 0 .. Len(s) /\ (m - 1) + 1 = m BY <1>0
  <2>2. f \in Seq(S) /\ Len(f) = m /\ g \in Seq(S) /\ Len(g) = m - 1 /\ s[m] \in S
    BY <1>0, <1>1, <2>1
  <2>3. \A i \in 1 .. m : f[i] = s[i] BY DEF Firsts
  <2>4. \A i \in 1 .. m - 1 : g[i] = s[i] BY DEF Firsts
  <2> HIDE DEF f, g
  <2>5. /\ h \in Seq(S) /\ Len(h) = m /\ h[m] = s[m] /\ \A i \in 1 .. m - 1 : h[i] = g[i]
    BY <2>1, <2>2
  <2>6. \A i \in 1 .. m : h[i] = s[i]
    <3> SUFFICES ASSUME NEW i \in 1 .. m PROVE h[i] = s[i] OBVIOUS
    <3>1. i = m \/ i \in 1 .. m - 1 BY <2>1
    <3>2. QED BY <2>4, <2>5, <3>1
  <2> HIDE DEF h
  <2>7. f = h BY <2>1, <2>2, <2>3, <2>5, <2>6
  <2>8. QED BY <2>7 DEF f, g, h
<1>5. QED BY <1>1, <1>2, <1>3, <1>4

KidsOf(t, q) ==
  /\ Arity(t, q) \in Nat /\ Kids(t, q) \in Seq(Nat) /\ Len(Kids(t, q)) = Arity(t, q)
  /\ \A i \in 1 .. Arity(t, q) :
       /\ i \in Nat \ {0} /\ Nth(q, i) \in DOMAIN t /\ IsStrictPrefix(q, Nth(q, i))
       /\ Kids(t, q)[i] = t[Nth(q, i)].id
  /\ \A i \in Nat \ {0} : Nth(q, i) \in DOMAIN t => i \in 1 .. Arity(t, q)
  /\ \A s \in DOMAIN t : t[s].id \in ToSet(Kids(t, q)) => s # <<>> /\ Front(s) = q
  /\ NoRepeat(Kids(t, q))

LEMMA KidsIs ==
  ASSUME NEW t, ShapeOK(t), Siblings(t), NEW q \in DOMAIN t
  PROVE  KidsOf(t, q)
<1> DEFINE a == Arity(t, q)
           k == Kids(t, q)
<1>1. a \in Nat /\ \A i \in Nat \ {0} : Nth(q, i) \in DOMAIN t <=> i <= a BY ChildrenIs
<1>2. q \in Paths BY NodeIs
<1>3. ASSUME NEW i \in 1 .. a
      PROVE  /\ i \in Nat \ {0} /\ Nth(q, i) \in DOMAIN t /\ IsStrictPrefix(q, Nth(q, i))
             /\ k[i] = t[Nth(q, i)].id /\ t[Nth(q, i)].id \in Nat
             /\ Nth(q, i) # <<>> /\ Front(Nth(q, i)) = q /\ Last(Nth(q, i)) = i
  <2>1. i \in Nat \ {0} /\ i <= a BY <1>1
  <2>2. Nth(q, i) \in DOMAIN t BY <1>1, <2>1
  <2>3. t[Nth(q, i)].id \in Nat BY <2>2, NodeIs
  <2>4. k[i] = t[Nth(q, i)].id BY DEF Kids
  <2>5. QED BY <1>2, <2>1, <2>2, <2>3, <2>4, NthIs
<1>4. k \in Seq(Nat) /\ Len(k) = a /\ DOMAIN k = 1 .. a
  <2> DEFINE x(i) == t[Nth(q, i)].id
  <2>1. \A i \in 1 .. a : x(i) \in Nat BY <1>3
  <2>2. k = [i \in 1 .. a |-> x(i)] BY DEF Kids
  <2> HIDE DEF x, k, a
  <2>3. QED BY <1>1, <2>1, <2>2 DEF a
<1>5. \A i \in Nat \ {0} : Nth(q, i) \in DOMAIN t => i \in 1 .. a BY <1>1
<1>6. ASSUME NEW s \in DOMAIN t, t[s].id \in ToSet(k) PROVE s # <<>> /\ Front(s) = q
  <2>1. PICK i \in 1 .. a : t[s].id = k[i] BY <1>4, <1>6 DEF ToSet
  <2>2. Nth(q, i) \in DOMAIN t /\ t[s].id = t[Nth(q, i)].id BY <1>3, <2>1
  <2>3. s = Nth(q, i) BY <2>2 DEF ShapeOK
  <2>4. QED BY <1>3, <2>3
<1>7. NoRepeat(k)
  <2> SUFFICES ASSUME NEW i \in 1 .. a, NEW j \in 1 .. a, k[i] = k[j] PROVE i = j
    BY <1>4 DEF NoRepeat
  <2>1. Nth(q, i) \in DOMAIN t /\ Nth(q, j) \in DOMAIN t
        /\ t[Nth(q, i)].id = t[Nth(q, j)].id
    BY <1>3
  <2>2. Nth(q, i) = Nth(q, j) BY <2>1 DEF ShapeOK
  <2>3. QED BY <1>3, <2>2
<1> HIDE DEF k, a
<1>8. QED BY <1>1, <1>3, <1>4, <1>5, <1>6, <1>7 DEF KidsOf, k, a

\* A node, and the branches of its first children.
Branches(t, q, m) == {q} \union {r \in DOMAIN t : \E i \in 1 .. m : IsPrefix(Nth(q, i), r)}

BranchesOf(t, q) ==
  /\ Branches(t, q, 0) = {q}
  /\ \A m \in Nat \ {0} :
       /\ Branches(t, q, m) = Branches(t, q, m - 1) \union Under(t, Nth(q, m))
       /\ Branches(t, q, m - 1) \intersect Under(t, Nth(q, m)) = {}
  /\ \A m \in Nat : Branches(t, q, m) \subseteq Under(t, q)
  /\ \A m \in Nat : m >= Arity(t, q) => Branches(t, q, m) = Under(t, q)
  /\ \A m \in Nat : \A r \in Branches(t, q, m) : r \in DOMAIN t /\ (r # q => IsStrictPrefix(q, r))
  /\ \A r \in Under(t, q) : r # q => \E i \in 1 .. Arity(t, q) : r \in Under(t, Nth(q, i))

LEMMA BranchesAre ==
  ASSUME NEW t, ShapeOK(t), Siblings(t), NEW q \in DOMAIN t
  PROVE  BranchesOf(t, q)
<1> DEFINE B(m) == Branches(t, q, m)
           a == Arity(t, q)
<1>1. q \in Paths /\ KidsOf(t, q) /\ DOMAIN t \in SUBSET Paths /\ Rooted(DOMAIN t)
  BY NodeIs, KidsIs DEF ShapeOK
<1>2. a \in Nat /\ \A i \in Nat \ {0} : Nth(q, i) \in DOMAIN t => i \in 1 .. a
  BY <1>1 DEF KidsOf
<1>3. ASSUME NEW i \in Nat \ {0}
      PROVE  Nth(q, i) \in Paths /\ IsStrictPrefix(q, Nth(q, i))
  BY <1>1, NthIs
<1>4. ASSUME NEW i \in Nat \ {0}, NEW r \in DOMAIN t, IsPrefix(Nth(q, i), r)
      PROVE  i \in 1 .. a /\ IsStrictPrefix(q, r)
  <2>1. r \in Paths BY <1>1
  <2>2. Nth(q, i) \in DOMAIN t BY <1>1, <1>3, <1>4 DEF Rooted
  <2>3. QED BY <1>1, <1>2, <1>3, <1>4, <2>1, <2>2, PrefixOrder
<1>5. IsPrefix(q, q) BY <1>1, PrefixOrder
<1>6. B(0) = {q} BY DEF Branches
<1>7. ASSUME NEW m \in Nat \ {0}
      PROVE  B(m) = B(m - 1) \union Under(t, Nth(q, m)) /\ B(m - 1) \intersect Under(t, Nth(q, m)) = {}
  <2>1. 1 .. m = (1 .. m - 1) \union {m} OBVIOUS
  <2>2. B(m) = B(m - 1) \union Under(t, Nth(q, m)) BY <2>1 DEF Branches, Under
  <2>3. ASSUME NEW r \in B(m - 1), r \in Under(t, Nth(q, m)) PROVE FALSE
    <3>1. r \in DOMAIN t /\ IsPrefix(Nth(q, m), r) BY <2>3 DEF Under
    <3>2. r # q BY <1>1, <1>4, <3>1, PrefixOrder
    <3>3. PICK i \in 1 .. m - 1 : IsPrefix(Nth(q, i), r) BY <3>2 DEF Branches
    <3>4. i \in Nat \ {0} /\ i # m OBVIOUS
    <3>5. QED BY <1>1, <3>1, <3>3, <3>4, BranchIs
  <2>4. QED BY <2>2, <2>3
<1>8. ASSUME NEW m \in Nat, NEW r \in B(m)
      PROVE  r \in DOMAIN t /\ (r # q => IsStrictPrefix(q, r)) /\ IsPrefix(q, r)
  <2>1. CASE r = q BY <1>5, <2>1
  <2>2. CASE r # q
    <3>1. PICK i \in 1 .. m : r \in DOMAIN t /\ IsPrefix(Nth(q, i), r) BY <2>2 DEF Branches
    <3>2. i \in Nat \ {0} OBVIOUS
    <3>3. IsStrictPrefix(q, r) BY <1>4, <3>1, <3>2
    <3>4. QED BY <3>1, <3>3 DEF IsStrictPrefix
  <2>3. QED BY <2>1, <2>2
<1>9. \A m \in Nat : B(m) \subseteq Under(t, q) BY <1>8 DEF Under
<1>10. ASSUME NEW r \in Under(t, q), r # q
       PROVE  \E i \in 1 .. a : r \in Under(t, Nth(q, i))
  <2>1. r \in DOMAIN t /\ r \in Paths /\ IsStrictPrefix(q, r) BY <1>1, <1>10 DEF Under, IsStrictPrefix
  <2>2. PICK i \in Nat \ {0} : IsPrefix(Nth(q, i), r) BY <1>1, <2>1, BranchIs
  <2>3. i \in 1 .. a BY <1>4, <2>1, <2>2
  <2>4. QED BY <2>1, <2>2, <2>3 DEF Under
<1>11. ASSUME NEW m \in Nat, m >= a PROVE B(m) = Under(t, q)
  <2>1. ASSUME NEW r \in Under(t, q) PROVE r \in B(m)
    <3>1. CASE r = q BY <3>1 DEF Branches
    <3>2. CASE r # q
      <4>1. PICK i \in 1 .. a : r \in Under(t, Nth(q, i)) BY <1>10, <3>2
      <4>2. i \in 1 .. m BY <1>2, <1>11
      <4>3. QED BY <4>1, <4>2 DEF Branches, Under
    <3>3. QED BY <3>1, <3>2
  <2>2. QED BY <1>9, <2>1
<1> HIDE DEF B, a
<1>12. QED BY <1>6, <1>7, <1>8, <1>9, <1>10, <1>11 DEF BranchesOf, B, a

-----------------------------------------------------------------------------
(* emitNode where nothing of the subtree is there.                           *)

LEMMA MakesSame ==
  ASSUME NEW d, NEW ops, NEW e, NEW f, Makes(d, ops, e), Makes(d, ops, f)
  PROVE  e = f
BY DEF Makes

Lacks(d, t, S) == \A r \in S : t[r].id \notin DOMAIN d
Shows(d, t, S) == \A r \in S : t[r].id \in DOMAIN d /\ d[t[r].id] = ElementOf(t, r)
Ids(t, S) == {t[r].id : r \in S}

Emitted(e, d, n, t, q) ==
  /\ Sound(e, n) /\ DOMAIN e = DOMAIN d \union Ids(t, Under(t, q))
  /\ \A j \in DOMAIN d : e[j] = d[j]
  /\ Shows(e, t, Under(t, q))

Emits(t, n, q) ==
  \A d : Sound(d, n) /\ Lacks(d, t, Under(t, q)) =>
    \E e : Makes(d, EmitNode(t, q), e) /\ Emitted(e, d, n, t, q)

\* The page when the first m children have been made.
HalfEmitted(e, d, n, t, q, m) ==
  /\ Sound(e, n) /\ DOMAIN e = DOMAIN d \union Ids(t, Branches(t, q, m))
  /\ \A j \in DOMAIN d : e[j] = d[j]
  /\ Shows(e, t, Branches(t, q, m) \ {q})
  /\ e[t[q].id] = [shell |-> t[q].component, text |-> TextOf(t[q]), inside |-> Firsts(Kids(t, q), m)]

LEMMA HeadEmitted ==
  ASSUME NEW t, Grown(t), NEW n, IdsBelow(t, n), NEW q \in DOMAIN t,
         NEW d, Sound(d, n), t[q].id \notin DOMAIN d
  PROVE  \E e : Makes(d, Opening(t[q]), e) /\ HalfEmitted(e, d, n, t, q, 0)
<1> DEFINE i == t[q].id
<1>1. ShapeOK(t) /\ Siblings(t) BY DEF Grown
<1>2. t[q] \in Retained /\ i \in Nat BY <1>1, NodeIs
<1>3. d \in Docs /\ n \in Nat BY DEF Sound
<1>4. PICK e : Makes(d, Opening(t[q]), e) /\ Headed(e, d, t[q]) BY <1>2, <1>3, HeadIs
<1>5. /\ e \in Docs /\ DOMAIN e = DOMAIN d \union {i}
      /\ \A j \in DOMAIN d : e[j] = d[j]
      /\ e[i] = [shell |-> t[q].component, text |-> TextOf(t[q]), inside |-> <<>>]
  BY <1>4 DEF Headed
<1>6. ASSUME NEW j \in DOMAIN e PROVE SoundIn(e, n, j)
  <2>1. CASE j \in DOMAIN d
    <3>1. SoundIn(d, n, j) BY <2>1, SoundIs
    <3>2. e[j] = d[j] BY <1>5, <2>1
    <3>3. QED BY <1>5, <3>1, <3>2 DEF SoundIn
  <2>2. CASE j = i
    <3>1. i < n BY DEF IdsBelow
    <3>2. e[j].inside = <<>> BY <1>5, <2>2
    <3>3. QED BY <2>2, <3>1, <3>2, EmptyIs DEF SoundIn
  <2>3. QED BY <1>5, <2>1, <2>2
<1>7. Sound(e, n) BY <1>3, <1>5, <1>6, SoundIs
<1>8. KidsOf(t, q) /\ BranchesOf(t, q) BY <1>1, KidsIs, BranchesAre
<1>9. Branches(t, q, 0) = {q} /\ Ids(t, {q}) = {i} BY <1>8 DEF BranchesOf, Ids
<1>10. Firsts(Kids(t, q), 0) = <<>>
  <2>1. Kids(t, q) \in Seq(Nat) BY <1>8 DEF KidsOf
  <2>2. QED BY <2>1, FirstsIs
<1>11. Shows(e, t, Branches(t, q, 0) \ {q}) BY <1>9 DEF Shows
<1>12. HalfEmitted(e, d, n, t, q, 0) BY <1>5, <1>7, <1>9, <1>10, <1>11 DEF HalfEmitted
<1>13. QED BY <1>4, <1>12

\* Another child.
LEMMA ChildEmitted ==
  ASSUME NEW t, Grown(t), NEW n, IdsBelow(t, n), NEW q \in DOMAIN t,
         \A r \in DOMAIN t : IsStrictPrefix(q, r) => Emits(t, n, r),
         NEW d, Sound(d, n), Lacks(d, t, Under(t, q)),
         NEW m \in 1 .. Arity(t, q), NEW g, HalfEmitted(g, d, n, t, q, m - 1)
  PROVE  \E f : Makes(g, EmitParts(t, q)[m], f) /\ HalfEmitted(f, d, n, t, q, m)
<1> DEFINE c == Nth(q, m)
           i == t[q].id
           x == t[c].id
           ks == Kids(t, q)
           B == Branches(t, q, m - 1)
           U == Under(t, c)
<1>1. ShapeOK(t) /\ Siblings(t) /\ ElderFirst(t) BY DEF Grown
<1>2. KidsOf(t, q) /\ BranchesOf(t, q) BY <1>1, KidsIs, BranchesAre
<1>3. /\ c \in DOMAIN t /\ IsStrictPrefix(q, c) /\ m \in Nat \ {0}
      /\ ks \in Seq(Nat) /\ Len(ks) = Arity(t, q) /\ ks[m] = x /\ NoRepeat(ks)
      /\ Arity(t, q) \in Nat
  BY <1>2 DEF KidsOf
<1>4. q \in Paths /\ c \in Paths /\ i \in Nat /\ x \in Nat BY <1>1, <1>3, NodeIs
<1>5. m - 1 \in Nat /\ m - 1 \in 0 .. Len(ks) /\ m \in 1 .. Len(ks) BY <1>3
<1>6. /\ Branches(t, q, m) = B \union U /\ B \intersect U = {}
      /\ B \subseteq Under(t, q) /\ Branches(t, q, m) \subseteq Under(t, q)
      /\ B \union U \subseteq DOMAIN t
      /\ \A r \in B \union U : r # q => IsStrictPrefix(q, r)
  <2>1. /\ Branches(t, q, m) = B \union U /\ B \intersect U = {}
    BY <1>2, <1>3 DEF BranchesOf
  <2>2. B \subseteq Under(t, q) /\ Branches(t, q, m) \subseteq Under(t, q)
    BY <1>2, <1>3, <1>5 DEF BranchesOf
  <2>3. \A r \in Branches(t, q, m) : r \in DOMAIN t /\ (r # q => IsStrictPrefix(q, r))
    BY <1>2, <1>3 DEF BranchesOf
  <2>4. QED BY <2>1, <2>2, <2>3
<1>7. q \in B /\ c \in U
  <2>1. IsPrefix(c, c) BY <1>4, PrefixOrder
  <2>2. QED BY <1>3, <2>1 DEF Branches, Under
<1>8. \A r, s \in DOMAIN t : t[r].id = t[s].id => r = s BY <1>1 DEF ShapeOK
<1>9. /\ Sound(g, n) /\ DOMAIN g = DOMAIN d \union Ids(t, B)
      /\ \A j \in DOMAIN d : g[j] = d[j]
      /\ Shows(g, t, B \ {q})
      /\ g[i] = [shell |-> t[q].component, text |-> TextOf(t[q]), inside |-> Firsts(ks, m - 1)]
  BY DEF HalfEmitted
<1>10. EmitParts(t, q)[m] = EmitNode(t, c) \o <<InsertOp(i, x, -1)>>
  BY DEF EmitParts
<1> HIDE DEF B, U, c, ks
<1>12. Lacks(g, t, U)
  <2> SUFFICES ASSUME NEW r \in U PROVE t[r].id \notin DOMAIN g BY DEF Lacks
  <2>1. r \in Under(t, q) BY <1>6
  <2>2. t[r].id \notin DOMAIN d BY <2>1 DEF Lacks
  <2>3. t[r].id \notin Ids(t, B) BY <1>6, <1>8 DEF Ids
  <2>4. QED BY <1>9, <2>2, <2>3
<1>13. PICK e : Makes(g, EmitNode(t, c), e) /\ Emitted(e, g, n, t, c)
  <2>1. Emits(t, n, c) BY <1>3
  <2>2. QED BY <1>9, <1>12, <2>1 DEF Emits, U
<1>14. /\ Sound(e, n) /\ DOMAIN e = DOMAIN g \union Ids(t, U)
       /\ \A j \in DOMAIN g : e[j] = g[j]
       /\ Shows(e, t, U)
  BY <1>13 DEF Emitted, U
<1>15. i \in DOMAIN e /\ x \in DOMAIN e /\ e[i] = g[i] /\ i < x
  <2>1. i \in DOMAIN g BY <1>7, <1>9 DEF Ids
  <2>2. x \in Ids(t, U) BY <1>7 DEF Ids
  <2>3. i < x BY <1>1, <1>3 DEF ElderFirst, c
  <2>4. QED BY <1>14, <2>1, <2>2, <2>3
<1>16. Loose(e, x)
  <2> SUFFICES ASSUME NEW j \in DOMAIN e, x \in ToSet(e[j].inside) PROVE FALSE BY DEF Loose
  <2>1. CASE j \in DOMAIN d
    <3>1. e[j] = d[j] BY <1>9, <1>14, <2>1
    <3>2. x \in DOMAIN d BY <2>1, <3>1 DEF Sound
    <3>3. c \in Under(t, q) BY <1>6, <1>7
    <3>4. QED BY <3>2, <3>3 DEF Lacks
  <2>2. CASE j = i
    <3>1. x \in ToSet(Firsts(ks, m - 1)) BY <1>9, <1>15, <2>2
    <3>2. PICK k \in 1 .. m - 1 : x = ks[k] BY <1>3, <1>5, <3>1, FirstsIs
    <3>3. k \in DOMAIN ks /\ m \in DOMAIN ks /\ k # m BY <1>3, <1>5
    <3>4. QED BY <1>3, <3>2, <3>3 DEF NoRepeat
  <2>3. ASSUME NEW r \in (B \union U) \ {q}, j = t[r].id PROVE FALSE
    <3>1. e[j] = ElementOf(t, r)
      <4>1. CASE r \in U BY <1>14, <2>3, <4>1 DEF Shows
      <4>2. CASE r \in B \ {q}
        <5>1. g[j] = ElementOf(t, r) /\ j \in DOMAIN g BY <1>9, <2>3, <4>2 DEF Shows
        <5>2. QED BY <1>14, <5>1
      <4>3. QED BY <4>1, <4>2
    <3>2. x \in ToSet(Kids(t, r)) BY <3>1 DEF ElementOf
    <3>3. KidsOf(t, r) BY <1>1, <1>6, KidsIs
    <3>4. Front(c) = r BY <1>3, <3>2, <3>3 DEF KidsOf
    <3>5. Front(c) = q BY <1>3, <1>4, NthIs DEF c
    <3>6. QED BY <3>4, <3>5
  <2>4. j \in DOMAIN d \union Ids(t, B) \union Ids(t, U) BY <1>9, <1>14
  <2>5. QED BY <2>1, <2>2, <2>3, <2>4 DEF Ids
<1>17. PICK f : Makes(e, <<InsertOp(i, x, -1)>>, f) /\ Adopted(f, e, n, i, x, -1)
  <2>1. -1 \in Int OBVIOUS
  <2>2. QED BY <1>14, <1>15, <1>16, <2>1, AdoptIs
<1>18. Makes(g, EmitParts(t, q)[m], f) BY <1>10, <1>13, <1>17, MakesThen
<1>19. /\ Sound(f, n) /\ DOMAIN f = DOMAIN e
       /\ \A j \in DOMAIN e : j # i => f[j] = e[j]
       /\ f[i] = [shell |-> e[i].shell, text |-> e[i].text,
                  inside |-> InsertedAt(e[i].inside, x, -1)]
  BY <1>17 DEF Adopted
<1>20. f[i] = [shell |-> t[q].component, text |-> TextOf(t[q]), inside |-> Firsts(ks, m)]
  <2> DEFINE w == Firsts(ks, m - 1)
  <2>1. w \in Seq(Nat) /\ Firsts(ks, m) = Append(w, x) BY <1>3, <1>5, FirstsIs
  <2>2. PutIn(InsertedAt(w, x, -1), Nat, w, x, -1)
    <3>1. -1 \in Int OBVIOUS
    <3> HIDE DEF w
    <3>2. QED BY <1>4, <2>1, <3>1, InsertedIs
  <2>3. InsertedAt(w, x, -1) = Append(w, x) BY <2>2 DEF PutIn
  <2>4. e[i].shell = t[q].component /\ e[i].text = TextOf(t[q]) /\ e[i].inside = w
    BY <1>9, <1>15
  <2> HIDE DEF w
  <2>5. QED BY <1>19, <2>1, <2>3, <2>4
<1>21. HalfEmitted(f, d, n, t, q, m)
  <2>1. DOMAIN f = DOMAIN d \union Ids(t, Branches(t, q, m))
    BY <1>6, <1>9, <1>14, <1>19 DEF Ids
  <2>2. i \notin DOMAIN d
    <3>1. q \in Under(t, q) BY <1>6, <1>7
    <3>2. QED BY <3>1 DEF Lacks
  <2>3. \A j \in DOMAIN d : f[j] = d[j] BY <1>9, <1>14, <1>19, <2>2
  <2>4. ASSUME NEW r \in Branches(t, q, m) \ {q}
        PROVE  t[r].id \in DOMAIN f /\ f[t[r].id] = ElementOf(t, r)
    <3>1. t[r].id \in DOMAIN f BY <2>1 DEF Ids
    <3>2. t[r].id # i BY <1>6, <1>8
    <3>3. f[t[r].id] = e[t[r].id] BY <1>19, <3>1, <3>2
    <3>4. e[t[r].id] = ElementOf(t, r)
      <4>1. CASE r \in U BY <1>14, <4>1 DEF Shows
      <4>2. CASE r \in B
        <5>1. g[t[r].id] = ElementOf(t, r) /\ t[r].id \in DOMAIN g BY <1>9, <4>2 DEF Shows
        <5>2. QED BY <1>14, <5>1
      <4>3. QED BY <1>6, <4>1, <4>2
    <3>5. QED BY <3>1, <3>3, <3>4
  <2>5. Shows(f, t, Branches(t, q, m) \ {q}) BY <2>4 DEF Shows
  <2>6. QED BY <1>19, <1>20, <2>1, <2>3, <2>5 DEF HalfEmitted, ks
<1>22. QED BY <1>18, <1>21

LEMMA EmitStep ==
  ASSUME NEW t, Grown(t), NEW n, IdsBelow(t, n), NEW q \in DOMAIN t,
         \A r \in DOMAIN t : IsStrictPrefix(q, r) => Emits(t, n, r)
  PROVE  Emits(t, n, q)
<1> SUFFICES ASSUME NEW d, Sound(d, n), Lacks(d, t, Under(t, q))
             PROVE  \E e : Makes(d, EmitNode(t, q), e) /\ Emitted(e, d, n, t, q)
  BY DEF Emits
<1> DEFINE a == Arity(t, q)
           s == EmitParts(t, q)
           Half(e, m) == HalfEmitted(e, d, n, t, q, m)
<1>1. ShapeOK(t) /\ Siblings(t) BY DEF Grown
<1>2. KidsOf(t, q) /\ BranchesOf(t, q) BY <1>1, KidsIs, BranchesAre
<1>3. a \in Nat /\ Kids(t, q) \in Seq(Nat) /\ Len(Kids(t, q)) = a BY <1>2 DEF KidsOf
<1>4. q \in Under(t, q)
  <2>1. q \in Paths BY <1>1, NodeIs
  <2>2. IsPrefix(q, q) BY <2>1, PrefixOrder
  <2>3. QED BY <2>2 DEF Under
<1>5. PICK e0 : Makes(d, Opening(t[q]), e0) /\ Half(e0, 0)
  <2>1. t[q].id \notin DOMAIN d BY <1>4 DEF Lacks
  <2> HIDE DEF Half
  <2>2. QED BY <2>1, HeadEmitted DEF Half
<1>6. s \in [1 .. a -> Seq(Ops)]
  <2>1. ASSUME NEW i \in 1 .. a
        PROVE  EmitNode(t, Nth(q, i)) \o <<InsertOp(t[q].id, t[Nth(q, i)].id, -1)>> \in Seq(Ops)
    <3>1. Nth(q, i) \in DOMAIN t BY <1>2 DEF KidsOf
    <3>2. EmitNode(t, Nth(q, i)) \in Seq(Ops) BY <1>1, <3>1, EmitIs
    <3>3. t[q].id \in Nat /\ t[Nth(q, i)].id \in Nat /\ -1 \in Int BY <1>1, <3>1, NodeIs
    <3>4. e0 \in Docs BY <1>5 DEF Makes
    <3> DEFINE op == InsertOp(t[q].id, t[Nth(q, i)].id, -1)
    <3>5. op \in Ops BY <3>3, <3>4, InsertsAre
    <3> HIDE DEF op
    <3>6. <<op>> \in Seq(Ops)
      <4> HIDE DEF Ops
      <4>1. QED BY <3>5
    <3>7. EmitNode(t, Nth(q, i)) \o <<op>> \in Seq(Ops) BY <3>2, <3>6, Joins
    <3>8. QED BY <3>7 DEF op
  <2>2. QED BY <2>1 DEF EmitParts
<1> HIDE DEF s, Half, a
<1>7. PICK D : MadeOf(e0, a, s, D)
  <2>1. e0 \in Docs BY <1>5 DEF Makes
  <2>2. QED BY <1>3, <1>6, <2>1, MakesParts
<1>8. /\ D[0] = e0 /\ \A i \in 1 .. a : Makes(D[i - 1], s[i], D[i])
      /\ Makes(e0, FlattenSeq(s), D[a])
  BY <1>7 DEF MadeOf
<1> DEFINE N == {m \in Nat : m <= a => Half(D[m], m)}
<1>9. 0 \in N BY <1>5, <1>8
<1>10. ASSUME NEW m \in Nat, m \in N PROVE m + 1 \in N
  <2> SUFFICES ASSUME m + 1 <= a PROVE Half(D[m + 1], m + 1) OBVIOUS
  <2>1. m + 1 \in 1 .. a /\ (m + 1) - 1 = m BY <1>3
  <2>2. Half(D[m], m) BY <1>3, <1>10, <2>1
  <2>3. HalfEmitted(D[m], d, n, t, q, (m + 1) - 1) BY <2>1, <2>2 DEF Half
  <2> DEFINE k == m + 1
  <2>4. k \in 1 .. Arity(t, q) /\ HalfEmitted(D[m], d, n, t, q, k - 1) BY <2>1, <2>3 DEF a
  <2> HIDE DEF k
  <2>5. PICK f : Makes(D[m], EmitParts(t, q)[k], f) /\ HalfEmitted(f, d, n, t, q, k)
    BY <2>4, ChildEmitted
  <2>6. Makes(D[m], s[k], f) /\ Half(f, k) BY <2>5 DEF s, Half
  <2>7. Makes(D[m], s[k], D[k])
    <3>1. Makes(D[(m + 1) - 1], s[m + 1], D[m + 1]) BY <1>8, <2>1
    <3>2. QED BY <2>1, <3>1 DEF k
  <2>8. D[k] = f BY <2>6, <2>7, MakesSame
  <2>9. QED BY <2>6, <2>8 DEF k
<1>11. Nat \subseteq N
  <2> HIDE DEF N
  <2>1. QED BY <1>9, <1>10, Inductive
<1>12. Half(D[a], a) BY <1>3, <1>11
<1>13. Makes(d, EmitNode(t, q), D[a])
  <2>1. EmitNode(t, q) = Opening(t[q]) \o FlattenSeq(s) BY <1>1, EmitIs DEF s
  <2>2. QED BY <1>5, <1>8, <2>1, MakesThen
<1>14. Emitted(D[a], d, n, t, q)
  <2> DEFINE e == D[a]
  <2>1. /\ Sound(e, n) /\ DOMAIN e = DOMAIN d \union Ids(t, Branches(t, q, a))
        /\ \A j \in DOMAIN d : e[j] = d[j]
        /\ Shows(e, t, Branches(t, q, a) \ {q})
        /\ e[t[q].id] = [shell |-> t[q].component, text |-> TextOf(t[q]),
                         inside |-> Firsts(Kids(t, q), a)]
    BY <1>12 DEF Half, HalfEmitted
  <2>2. Branches(t, q, a) = Under(t, q)
    <3>1. a >= Arity(t, q) BY <1>3 DEF a
    <3>2. QED BY <1>2, <1>3, <3>1 DEF BranchesOf
  <2>3. Firsts(Kids(t, q), a) = Kids(t, q) BY <1>3, FirstsIs
  <2> HIDE DEF e
  <2>4. e[t[q].id] = ElementOf(t, q) /\ t[q].id \in DOMAIN e
    BY <1>4, <2>1, <2>2, <2>3 DEF ElementOf, Ids
  <2>5. Shows(e, t, Under(t, q)) BY <2>1, <2>2, <2>4 DEF Shows
  <2>6. Emitted(e, d, n, t, q) BY <2>1, <2>2, <2>5 DEF Emitted
  <2>7. QED BY <2>6 DEF e
<1>15. QED BY <1>13, <1>14

\* A walk that is right for a node when it is for those below it is right.
LEMMA BottomUp ==
  ASSUME NEW P \in SUBSET Paths, IsFiniteSet(P), NEW G,
         \A q \in P : (\A r \in P : IsStrictPrefix(q, r) => r \in G) => q \in G
  PROVE  P \subseteq G
<1> DEFINE Bad == P \ G
<1> SUFFICES ASSUME Bad # {} PROVE FALSE OBVIOUS
<1>1. Bad \in SUBSET Paths /\ IsFiniteSet(Bad)
  <2>1. Bad \subseteq P OBVIOUS
  <2>2. QED BY <2>1, FS_Subset
<1>2. PICK q \in Bad : \A r \in Bad : ~IsStrictPrefix(q, r)
  <2> HIDE DEF Bad
  <2>1. QED BY <1>1, Bottommost
<1>3. QED BY <1>2

\* emitNode makes an element of every node, as it is, and changes no other.
LEMMA EmitsAll ==
  ASSUME NEW t, Grown(t), NEW n, IdsBelow(t, n), NEW q \in DOMAIN t
  PROVE  Emits(t, n, q)
<1> DEFINE P == DOMAIN t
           G == {r \in P : Emits(t, n, r)}
<1>1. P \in SUBSET Paths /\ IsFiniteSet(P) BY DEF Grown, ShapeOK
<1>2. \A p \in P : (\A r \in P : IsStrictPrefix(p, r) => r \in G) => p \in G
  <2> SUFFICES ASSUME NEW p \in P, \A r \in P : IsStrictPrefix(p, r) => r \in G PROVE p \in G
    OBVIOUS
  <2>1. \A r \in DOMAIN t : IsStrictPrefix(p, r) => Emits(t, n, r) OBVIOUS
  <2>2. Emits(t, n, p) BY <2>1, EmitStep
  <2>3. QED BY <2>2
<1>3. P \subseteq G
  <2> HIDE DEF P, G
  <2>1. QED BY <1>1, <1>2, BottomUp
<1>4. QED BY <1>3

-----------------------------------------------------------------------------
(* emitNode where all of the subtree is there, but for texts.                *)

\* What Alike says of a node.
Likens(d, t, r) ==
  /\ t[r].id \in DOMAIN d /\ d[t[r].id].shell = t[r].component
  /\ d[t[r].id].inside = Kids(t, r)
  /\ TextOf(t[r]) = Blank => d[t[r].id].text = Blank

Reemitted(e, d, n, t, q, S) ==
  /\ Sound(e, n) /\ DOMAIN e = DOMAIN d
  /\ \A j \in DOMAIN d : j \notin Ids(t, S) => e[j] = d[j]
  /\ Shows(e, t, S)

Reemits(t, n, q) ==
  \A d : Sound(d, n) /\ (\A r \in Under(t, q) : Likens(d, t, r)) =>
    \E e : Makes(d, EmitNode(t, q), e) /\ Reemitted(e, d, n, t, q, Under(t, q))

LEMMA NothingBelowText ==
  ASSUME NEW t, Grown(t), NEW q \in DOMAIN t, t[q].text # None
  PROVE  Arity(t, q) = 0 /\ Kids(t, q) = <<>> /\ Under(t, q) = {q}
<1>1. ShapeOK(t) /\ Siblings(t) /\ TextsHoldNothing(t) BY DEF Grown
<1>2. KidsOf(t, q) BY <1>1, KidsIs
<1>3. \A r \in DOMAIN t : ~IsStrictPrefix(q, r) BY <1>1 DEF TextsHoldNothing
<1>4. Arity(t, q) = 0
  <2> SUFFICES ASSUME Arity(t, q) # 0 PROVE FALSE OBVIOUS
  <2>1. 1 \in 1 .. Arity(t, q) BY <1>2 DEF KidsOf
  <2>2. QED BY <1>2, <1>3, <2>1 DEF KidsOf
<1>5. Kids(t, q) = <<>>
  <2>1. Kids(t, q) \in Seq(Nat) /\ Len(Kids(t, q)) = 0 BY <1>2, <1>4 DEF KidsOf
  <2>2. QED BY <2>1
<1>6. Under(t, q) = {q}
  <2>1. q \in Paths /\ DOMAIN t \in SUBSET Paths BY <1>1, NodeIs DEF ShapeOK
  <2>2. IsPrefix(q, q) BY <2>1, PrefixOrder
  <2>3. \A r \in DOMAIN t : IsPrefix(q, r) => r = q BY <1>3, <2>1, PrefixOrder
  <2>4. QED BY <2>2, <2>3 DEF Under
<1>7. QED BY <1>4, <1>5, <1>6

LEMMA HeadReemitted ==
  ASSUME NEW t, Grown(t), NEW n, NEW q \in DOMAIN t, NEW d, Sound(d, n), Likens(d, t, q)
  PROVE  \E e : Makes(d, Opening(t[q]), e) /\ Reemitted(e, d, n, t, q, {q})
<1> DEFINE i == t[q].id
<1>1. ShapeOK(t) /\ Siblings(t) BY DEF Grown
<1>2. t[q] \in Retained /\ i \in Nat BY <1>1, NodeIs
<1>3. d \in Docs /\ n \in Nat BY DEF Sound
<1>4. PICK e : Makes(d, Opening(t[q]), e) /\ Headed(e, d, t[q]) BY <1>2, <1>3, HeadIs
<1>5. i \in DOMAIN d /\ d[i].shell = t[q].component /\ d[i].inside = Kids(t, q)
      /\ (TextOf(t[q]) = Blank => d[i].text = Blank)
  BY DEF Likens
<1>6. /\ e \in Docs /\ DOMAIN e = DOMAIN d
      /\ \A j \in DOMAIN d : j # i => e[j] = d[j]
      /\ e[i] = IF TextOf(t[q]) = Blank THEN d[i]
                ELSE [shell |-> d[i].shell, text |-> TextOf(t[q]), inside |-> <<>>]
  BY <1>4, <1>5 DEF Headed
<1>7. e[i] = ElementOf(t, q)
  <2>1. CASE TextOf(t[q]) = Blank
    <3>1. d[i] \in Element BY <1>3, <1>5, InsideIs
    <3>2. d[i] = [shell |-> d[i].shell, text |-> d[i].text, inside |-> d[i].inside]
      BY <3>1 DEF Element
    <3>3. QED BY <1>5, <1>6, <2>1, <3>2 DEF ElementOf
  <2>2. CASE TextOf(t[q]) # Blank
    <3>1. t[q].text # None BY <2>2 DEF TextOf
    <3>2. Kids(t, q) = <<>> BY <3>1, NothingBelowText
    <3>3. QED BY <1>5, <1>6, <2>2, <3>2 DEF ElementOf
  <2>3. QED BY <2>1, <2>2
<1>8. ASSUME NEW j \in DOMAIN e PROVE SoundIn(e, n, j)
  <2>1. SoundIn(d, n, j) BY <1>6, SoundIs
  <2>2. e[j].inside = d[j].inside
    <3>1. e[i].inside = d[i].inside BY <1>5, <1>7 DEF ElementOf
    <3>2. QED BY <1>6, <3>1
  <2>3. QED BY <1>6, <2>1, <2>2 DEF SoundIn
<1>9. Sound(e, n) BY <1>3, <1>6, <1>8, SoundIs
<1>10. Ids(t, {q}) = {i} BY DEF Ids
<1>11. Shows(e, t, {q}) BY <1>5, <1>6, <1>7 DEF Shows
<1>12. Reemitted(e, d, n, t, q, {q}) BY <1>6, <1>9, <1>10, <1>11 DEF Reemitted
<1>13. QED BY <1>4, <1>12

LEMMA ChildReemitted ==
  ASSUME NEW t, Grown(t), NEW n, NEW q \in DOMAIN t,
         \A r \in DOMAIN t : IsStrictPrefix(q, r) => Reemits(t, n, r),
         NEW d, Sound(d, n), \A r \in Under(t, q) : Likens(d, t, r),
         NEW m \in 1 .. Arity(t, q), NEW g, Reemitted(g, d, n, t, q, Branches(t, q, m - 1))
  PROVE  \E f : Makes(g, EmitParts(t, q)[m], f) /\ Reemitted(f, d, n, t, q, Branches(t, q, m))
<1> DEFINE c == Nth(q, m)
           i == t[q].id
           x == t[c].id
           ks == Kids(t, q)
           B == Branches(t, q, m - 1)
           U == Under(t, c)
<1>1. ShapeOK(t) /\ Siblings(t) BY DEF Grown
<1>2. KidsOf(t, q) /\ BranchesOf(t, q) BY <1>1, KidsIs, BranchesAre
<1>3. /\ c \in DOMAIN t /\ IsStrictPrefix(q, c) /\ m \in Nat \ {0}
      /\ ks \in Seq(Nat) /\ Len(ks) = Arity(t, q) /\ ks[m] = x
      /\ Arity(t, q) \in Nat
  BY <1>2 DEF KidsOf
<1>4. q \in Paths /\ c \in Paths BY <1>1, <1>3, NodeIs
<1>5. m - 1 \in Nat OBVIOUS
<1>6. /\ Branches(t, q, m) = B \union U /\ B \intersect U = {}
      /\ Branches(t, q, m) \subseteq Under(t, q)
      /\ B \union U \subseteq DOMAIN t
  <2>1. /\ Branches(t, q, m) = B \union U /\ B \intersect U = {}
    BY <1>2, <1>3 DEF BranchesOf
  <2>2. Branches(t, q, m) \subseteq Under(t, q) BY <1>2, <1>3 DEF BranchesOf
  <2>3. QED BY <2>1, <2>2 DEF Under
<1>7. q \in B /\ c \in U
  <2>1. IsPrefix(c, c) BY <1>4, PrefixOrder
  <2>2. QED BY <1>3, <2>1 DEF Branches, Under
<1>8. \A r, s \in DOMAIN t : t[r].id = t[s].id => r = s BY <1>1 DEF ShapeOK
<1>9. /\ Sound(g, n) /\ DOMAIN g = DOMAIN d
      /\ \A j \in DOMAIN d : j \notin Ids(t, B) => g[j] = d[j]
      /\ Shows(g, t, B)
  BY DEF Reemitted
<1>10. EmitParts(t, q)[m] = EmitNode(t, c) \o <<InsertOp(i, x, -1)>>
  BY DEF EmitParts
<1> HIDE DEF B, U, c, ks
<1>11. \A r \in U : Likens(g, t, r)
  <2> SUFFICES ASSUME NEW r \in U PROVE Likens(g, t, r) OBVIOUS
  <2>1. Likens(d, t, r) BY <1>6
  <2>2. t[r].id \notin Ids(t, B) BY <1>6, <1>8 DEF Ids
  <2>3. g[t[r].id] = d[t[r].id] BY <1>9, <2>1, <2>2 DEF Likens
  <2>4. QED BY <1>9, <2>1, <2>3 DEF Likens
<1>12. PICK e : Makes(g, EmitNode(t, c), e) /\ Reemitted(e, g, n, t, c, U)
  <2>1. Reemits(t, n, c) BY <1>3
  <2>2. QED BY <1>9, <1>11, <2>1 DEF Reemits, U
<1>13. /\ Sound(e, n) /\ DOMAIN e = DOMAIN g
       /\ \A j \in DOMAIN g : j \notin Ids(t, U) => e[j] = g[j]
       /\ Shows(e, t, U)
  BY <1>12 DEF Reemitted
<1>14. ASSUME NEW r \in B PROVE e[t[r].id] = ElementOf(t, r) /\ t[r].id \in DOMAIN e
  <2>1. t[r].id \notin Ids(t, U) BY <1>6, <1>8 DEF Ids
  <2>2. QED BY <1>9, <1>13, <2>1 DEF Shows
<1>15. Makes(e, <<InsertOp(i, x, -1)>>, e)
  <2>1. i \in DOMAIN e /\ e[i].inside = ks
    <3>1. e[t[q].id] = ElementOf(t, q) /\ t[q].id \in DOMAIN e BY <1>7, <1>14
    <3>2. ElementOf(t, q).inside = ks BY DEF ElementOf, ks
    <3>3. QED BY <3>1, <3>2
  <2>2. x \in ToSet(ks) BY <1>3 DEF ToSet
  <2>3. -1 \in Int OBVIOUS
  <2>4. QED BY <1>13, <2>1, <2>2, <2>3, StayIs
<1>16. Makes(g, EmitParts(t, q)[m], e) BY <1>10, <1>12, <1>15, MakesThen
<1>17. Shows(e, t, B \union U) BY <1>13, <1>14 DEF Shows
<1>18. Reemitted(e, d, n, t, q, B \union U) BY <1>9, <1>13, <1>17 DEF Reemitted, Ids
<1>19. QED BY <1>6, <1>16, <1>18

LEMMA PartsTyped ==
  ASSUME NEW t, ShapeOK(t), Siblings(t), NEW q \in DOMAIN t
  PROVE  EmitParts(t, q) \in [1 .. Arity(t, q) -> Seq(Ops)]
<1>1. KidsOf(t, q) BY KidsIs
<1>2. ASSUME NEW i \in 1 .. Arity(t, q)
      PROVE  EmitNode(t, Nth(q, i)) \o <<InsertOp(t[q].id, t[Nth(q, i)].id, -1)>> \in Seq(Ops)
  <2>1. Nth(q, i) \in DOMAIN t BY <1>1 DEF KidsOf
  <2>2. EmitNode(t, Nth(q, i)) \in Seq(Ops) BY <2>1, EmitIs
  <2>3. t[q].id \in Nat /\ t[Nth(q, i)].id \in Nat /\ -1 \in Int BY <2>1, NodeIs
  <2>4. [x \in {} |-> x] \in Docs
    <3> DEFINE d == [x \in {} |-> x]
    <3>1. DOMAIN d = {} /\ d = [i_ \in DOMAIN d |-> d[i_]] OBVIOUS
    <3> HIDE DEF d
    <3>2. DOMAIN d \in SUBSET Nat BY <3>1
    <3>3. d \in Docs BY <3>1, <3>2, DocIs
    <3>4. QED BY <3>3 DEF d
  <2> DEFINE op == InsertOp(t[q].id, t[Nth(q, i)].id, -1)
  <2>5. op \in Ops BY <2>3, <2>4, InsertsAre
  <2> HIDE DEF op
  <2>6. <<op>> \in Seq(Ops)
    <3> HIDE DEF Ops
    <3>1. QED BY <2>5
  <2>7. EmitNode(t, Nth(q, i)) \o <<op>> \in Seq(Ops) BY <2>2, <2>6, Joins
  <2>8. QED BY <2>7 DEF op
<1>3. QED BY <1>2 DEF EmitParts

LEMMA ReemitStep ==
  ASSUME NEW t, Grown(t), NEW n, NEW q \in DOMAIN t,
         \A r \in DOMAIN t : IsStrictPrefix(q, r) => Reemits(t, n, r)
  PROVE  Reemits(t, n, q)
<1> SUFFICES ASSUME NEW d, Sound(d, n), \A r \in Under(t, q) : Likens(d, t, r)
             PROVE  \E e : Makes(d, EmitNode(t, q), e) /\ Reemitted(e, d, n, t, q, Under(t, q))
  BY DEF Reemits
<1> DEFINE a == Arity(t, q)
           s == EmitParts(t, q)
           Half(e, m) == Reemitted(e, d, n, t, q, Branches(t, q, m))
<1>1. ShapeOK(t) /\ Siblings(t) BY DEF Grown
<1>2. KidsOf(t, q) /\ BranchesOf(t, q) BY <1>1, KidsIs, BranchesAre
<1>3. a \in Nat BY <1>2 DEF KidsOf
<1>4. q \in Under(t, q) /\ Branches(t, q, 0) = {q} /\ Branches(t, q, a) = Under(t, q)
  <2>1. q \in Paths BY <1>1, NodeIs
  <2>2. IsPrefix(q, q) BY <2>1, PrefixOrder
  <2>3. a >= Arity(t, q) BY <1>3
  <2>4. QED BY <1>2, <1>3, <2>2, <2>3 DEF Under, BranchesOf
<1>5. PICK e0 : Makes(d, Opening(t[q]), e0) /\ Reemitted(e0, d, n, t, q, {q})
  BY <1>4, HeadReemitted
<1>6. s \in [1 .. a -> Seq(Ops)] BY <1>1, PartsTyped
<1> HIDE DEF s, a
<1>7. PICK D : MadeOf(e0, a, s, D)
  <2>1. e0 \in Docs BY <1>5 DEF Makes
  <2>2. QED BY <1>3, <1>6, <2>1, MakesParts
<1>8. /\ D[0] = e0 /\ \A i \in 1 .. a : Makes(D[i - 1], s[i], D[i])
      /\ Makes(e0, FlattenSeq(s), D[a])
  BY <1>7 DEF MadeOf
<1>9. Half(e0, 0) BY <1>4, <1>5
<1> HIDE DEF Half
<1> DEFINE N == {m \in Nat : m <= a => Half(D[m], m)}
<1>10. 0 \in N BY <1>8, <1>9
<1>11. ASSUME NEW m \in Nat, m \in N PROVE m + 1 \in N
  <2> SUFFICES ASSUME m + 1 <= a PROVE Half(D[m + 1], m + 1) OBVIOUS
  <2>1. m + 1 \in 1 .. a /\ (m + 1) - 1 = m BY <1>3
  <2>2. Half(D[m], m) BY <1>3, <1>11, <2>1
  <2>3. Reemitted(D[m], d, n, t, q, Branches(t, q, (m + 1) - 1)) BY <2>1, <2>2 DEF Half
  <2> DEFINE k == m + 1
  <2>4. k \in 1 .. Arity(t, q) /\ Reemitted(D[m], d, n, t, q, Branches(t, q, k - 1))
    BY <2>1, <2>3 DEF a
  <2> HIDE DEF k
  <2>5. PICK f : Makes(D[m], EmitParts(t, q)[k], f) /\ Reemitted(f, d, n, t, q, Branches(t, q, k))
    BY <2>4, ChildReemitted
  <2>6. Makes(D[m], s[k], f) /\ Half(f, k) BY <2>5 DEF s, Half
  <2>7. Makes(D[m], s[k], D[k])
    <3>1. Makes(D[(m + 1) - 1], s[m + 1], D[m + 1]) BY <1>8, <2>1
    <3>2. QED BY <2>1, <3>1 DEF k
  <2>8. D[k] = f BY <2>6, <2>7, MakesSame
  <2>9. QED BY <2>6, <2>8 DEF k
<1>12. Nat \subseteq N
  <2> HIDE DEF N
  <2>1. QED BY <1>10, <1>11, Inductive
<1>13. Half(D[a], a) BY <1>3, <1>12
<1>14. Makes(d, EmitNode(t, q), D[a])
  <2>1. EmitNode(t, q) = Opening(t[q]) \o FlattenSeq(s) BY <1>1, EmitIs DEF s
  <2>2. QED BY <1>5, <1>8, <2>1, MakesThen
<1>15. QED BY <1>4, <1>13, <1>14 DEF Half

\* emitNode puts texts right, and leaves all else where it is.
LEMMA ReemitsAll ==
  ASSUME NEW t, Grown(t), NEW n, NEW q \in DOMAIN t
  PROVE  Reemits(t, n, q)
<1> DEFINE P == DOMAIN t
           G == {r \in P : Reemits(t, n, r)}
<1>1. P \in SUBSET Paths /\ IsFiniteSet(P) BY DEF Grown, ShapeOK
<1>2. \A p \in P : (\A r \in P : IsStrictPrefix(p, r) => r \in G) => p \in G
  <2> SUFFICES ASSUME NEW p \in P, \A r \in P : IsStrictPrefix(p, r) => r \in G PROVE p \in G
    OBVIOUS
  <2>1. \A r \in DOMAIN t : IsStrictPrefix(p, r) => Reemits(t, n, r) OBVIOUS
  <2>2. Reemits(t, n, p) BY <2>1, ReemitStep
  <2>3. QED BY <2>2
<1>3. P \subseteq G
  <2> HIDE DEF P, G
  <2>1. QED BY <1>1, <1>2, BottomUp
<1>4. QED BY <1>3

-----------------------------------------------------------------------------
(* What is made of a slot's children.                                        *)

\* The first of a list, all if there are not as many, and those that are left.
Lead(s, m) == IF m <= Len(s) THEN Firsts(s, m) ELSE s
Rest(s, m) == IF m <= Len(s) THEN SubSeq(s, m + 1, Len(s)) ELSE <<>>

LeadsOf(s, S) ==
  /\ Lead(s, 0) = <<>> /\ Rest(s, 0) = s
  /\ \A m \in Nat : Lead(s, m) \in Seq(S) /\ Rest(s, m) \in Seq(S)
  /\ \A m \in Nat : m >= Len(s) => Lead(s, m) = s /\ Rest(s, m) = <<>>
  /\ \A m \in 1 .. Len(s) :
       /\ Lead(s, m) = Append(Lead(s, m - 1), s[m]) /\ Len(Lead(s, m - 1)) = m - 1
       /\ Rest(s, m - 1) = <<s[m]>> \o Rest(s, m)
  /\ \A m \in Nat : \A x \in ToSet(Lead(s, m)) : \E i \in DOMAIN s : i <= m /\ x = s[i]
  /\ \A m \in Nat : \A x \in ToSet(Rest(s, m)) : \E i \in DOMAIN s : i > m /\ x = s[i]

LEMMA TailIs ==
  ASSUME NEW S, NEW s \in Seq(S), NEW m \in 0 .. Len(s),
         NEW r, r = SubSeq(s, m + 1, Len(s))
  PROVE  /\ r \in Seq(S) /\ Len(r) = Len(s) - m
         /\ DOMAIN r = 1 .. Len(s) - m
         /\ \A i \in 1 .. Len(s) - m : r[i] = s[i + m]
<1>1. Len(s) \in Nat /\ m \in Nat /\ m <= Len(s) OBVIOUS
<1>2. CASE m = Len(s)
  <2>1. r = <<>> BY <1>1, <1>2
  <2>2. Len(s) - m = 0 /\ DOMAIN r = {} /\ Len(r) = 0 /\ r \in Seq(S) BY <1>1, <1>2, <2>1
  <2>3. 1 .. Len(s) - m = {} BY <2>2
  <2>4. QED BY <2>2, <2>3
<1>3. CASE m < Len(s)
  <2>1. m + 1 \in 1 .. Len(s) BY <1>1, <1>3
  <2>2. /\ r \in Seq(S) /\ Len(r) = Len(s) - m
        /\ \A i \in 1 .. Len(s) - m : r[i] = s[m + i]
    BY <1>1, <2>1
  <2>3. DOMAIN r = 1 .. Len(s) - m BY <2>2
  <2>4. \A i \in 1 .. Len(s) - m : m + i = i + m BY <1>1
  <2>5. QED BY <2>2, <2>3, <2>4
<1>4. QED BY <1>1, <1>2, <1>3

LEMMA LeadsAre ==
  ASSUME NEW S, NEW s \in Seq(S)
  PROVE  LeadsOf(s, S)
<1> DEFINE n == Len(s)
<1>0. n \in Nat /\ DOMAIN s = 1 .. n /\ \A i \in 1 .. n : s[i] \in S OBVIOUS
<1>1. /\ Firsts(s, 0) = <<>> /\ Firsts(s, n) = s
      /\ \A m \in 0 .. n :
           /\ Firsts(s, m) \in Seq(S) /\ Len(Firsts(s, m)) = m
           /\ \A x \in ToSet(Firsts(s, m)) : \E i \in 1 .. m : x = s[i]
      /\ \A m \in 1 .. n : Firsts(s, m) = Append(Firsts(s, m - 1), s[m])
  BY FirstsIs
<1>2. ASSUME NEW m \in 0 .. n
      PROVE  /\ SubSeq(s, m + 1, n) \in Seq(S) /\ Len(SubSeq(s, m + 1, n)) = n - m
             /\ DOMAIN SubSeq(s, m + 1, n) = 1 .. n - m
             /\ \A i \in 1 .. n - m : SubSeq(s, m + 1, n)[i] = s[i + m]
  <2> DEFINE r == SubSeq(s, m + 1, n)
  <2>1. r = SubSeq(s, m + 1, Len(s)) OBVIOUS
  <2> HIDE DEF r
  <2>2. /\ r \in Seq(S) /\ Len(r) = Len(s) - m
        /\ DOMAIN r = 1 .. Len(s) - m
        /\ \A i \in 1 .. Len(s) - m : r[i] = s[i + m]
    BY <2>1, TailIs
  <2>3. QED BY <2>2 DEF r
<1>3. Lead(s, 0) = <<>> BY <1>0, <1>1 DEF Lead
<1>4. Rest(s, 0) = s
  <2>1. 0 \in 0 .. n BY <1>0
  <2>2. /\ SubSeq(s, 1, n) \in Seq(S) /\ Len(SubSeq(s, 1, n)) = n
        /\ \A i \in 1 .. n : SubSeq(s, 1, n)[i] = s[i]
    BY <1>0
  <2>3. SubSeq(s, 1, n) = s BY <2>2
  <2>4. QED BY <1>0, <2>3 DEF Rest
<1>5. ASSUME NEW m \in Nat
      PROVE  /\ Lead(s, m) \in Seq(S) /\ Rest(s, m) \in Seq(S)
             /\ \A x \in ToSet(Lead(s, m)) : \E i \in DOMAIN s : i <= m /\ x = s[i]
             /\ \A x \in ToSet(Rest(s, m)) : \E i \in DOMAIN s : i > m /\ x = s[i]
  <2>1. CASE m <= n
    <3>1. m \in 0 .. n /\ Lead(s, m) = Firsts(s, m) /\ Rest(s, m) = SubSeq(s, m + 1, n)
      BY <1>0, <2>1 DEF Lead, Rest
    <3>2. Lead(s, m) \in Seq(S) /\ \A x \in ToSet(Lead(s, m)) : \E i \in 1 .. m : x = s[i]
      BY <1>1, <3>1
    <3>3. \A i \in 1 .. m : i \in DOMAIN s /\ i <= m BY <1>0, <2>1
    <3>4. \A x \in ToSet(Lead(s, m)) : \E i \in DOMAIN s : i <= m /\ x = s[i] BY <3>2, <3>3
    <3>5. ASSUME NEW x \in ToSet(Rest(s, m)) PROVE \E i \in DOMAIN s : i > m /\ x = s[i]
      <4> DEFINE b == SubSeq(s, m + 1, n)
      <4>1. DOMAIN b = 1 .. n - m /\ \A i \in 1 .. n - m : b[i] = s[i + m] BY <1>2, <3>1
      <4>2. x \in ToSet(b) BY <3>1
      <4> HIDE DEF b
      <4>3. PICK i \in DOMAIN b : x = b[i] BY <4>2 DEF ToSet
      <4>4. i \in 1 .. n - m /\ x = s[i + m] BY <4>1, <4>3
      <4>5. i + m \in DOMAIN s /\ i + m > m BY <1>0, <2>1, <4>4
      <4>6. QED BY <4>4, <4>5
    <3>6. Rest(s, m) \in Seq(S) BY <1>2, <3>1
    <3>7. QED BY <3>2, <3>4, <3>5, <3>6
  <2>2. CASE ~(m <= n)
    <3>1. Lead(s, m) = s /\ Rest(s, m) = <<>> BY <2>2 DEF Lead, Rest
    <3>2. \A i \in DOMAIN s : i <= m BY <1>0, <2>2
    <3>3. \A x \in ToSet(s) : \E i \in DOMAIN s : x = s[i] BY DEF ToSet
    <3>4. QED BY <3>1, <3>2, <3>3, EmptyIs
  <2>3. QED BY <2>1, <2>2
<1>6. ASSUME NEW m \in Nat, m >= n PROVE Lead(s, m) = s /\ Rest(s, m) = <<>>
  <2>1. CASE m = n
    <3>1. n \in 0 .. n BY <1>0
    <3>3. SubSeq(s, n + 1, n) = <<>> BY <1>0
    <3>4. QED BY <1>0, <1>1, <2>1, <3>3 DEF Lead, Rest
  <2>2. CASE m # n
    <3>1. ~(m <= n)
      <4>1. m >= n /\ m # n /\ n \in Nat /\ m \in Nat BY <1>0, <1>6, <2>2
      <4> HIDE DEF n
      <4>2. QED BY <4>1
    <3>2. QED BY <3>1 DEF Lead, Rest
  <2>3. QED BY <2>1, <2>2
<1>7. ASSUME NEW m \in 1 .. n
      PROVE  /\ Lead(s, m) = Append(Lead(s, m - 1), s[m]) /\ Len(Lead(s, m - 1)) = m - 1
             /\ Rest(s, m - 1) = <<s[m]>> \o Rest(s, m)
  <2>1. /\ m <= n /\ m - 1 <= n /\ m - 1 \in 0 .. n /\ m \in 0 .. n /\ (m - 1) + 1 = m
        /\ s[m] \in S
    BY <1>0
  <2>2. Lead(s, m) = Firsts(s, m) /\ Lead(s, m - 1) = Firsts(s, m - 1) BY <2>1 DEF Lead
  <2>3. Lead(s, m) = Append(Lead(s, m - 1), s[m]) /\ Len(Lead(s, m - 1)) = m - 1
    BY <1>1, <2>1, <2>2
  <2> DEFINE a == SubSeq(s, m, n)
             b == SubSeq(s, m + 1, n)
             c == <<s[m]>> \o b
  <2>4. Rest(s, m - 1) = a /\ Rest(s, m) = b BY <2>1 DEF Rest
  <2>5. a \in Seq(S) /\ Len(a) = n - m + 1 /\ \A i \in 1 .. n - m + 1 : a[i] = s[i + m - 1]
    BY <1>0
  <2>6. b \in Seq(S) /\ Len(b) = n - m /\ \A i \in 1 .. n - m : b[i] = s[i + m]
    BY <1>2, <2>1
  <2> HIDE DEF a, b
  <2>7. /\ c \in Seq(S) /\ Len(c) = n - m + 1 /\ c[1] = s[m]
        /\ \A i \in 2 .. n - m + 1 : c[i] = b[i - 1]
    BY <1>0, <2>1, <2>6
  <2>8. \A i \in 1 .. n - m + 1 : c[i] = s[i + m - 1]
    <3> SUFFICES ASSUME NEW i \in 1 .. n - m + 1 PROVE c[i] = s[i + m - 1] OBVIOUS
    <3>1. CASE i = 1
      <4>1. i + m - 1 = m BY <3>1, <2>1
      <4>2. QED BY <2>7, <3>1, <4>1
    <3>2. CASE i # 1
      <4>1. i \in 2 .. n - m + 1 /\ i - 1 \in 1 .. n - m /\ (i - 1) + m = i + m - 1
        BY <1>0, <3>2
      <4>2. QED BY <2>6, <2>7, <4>1
    <3>3. QED BY <3>1, <3>2
  <2> HIDE DEF c
  <2>9. a = c BY <1>0, <2>1, <2>5, <2>7, <2>8
  <2>10. QED BY <2>3, <2>4, <2>9 DEF c
<1>8. QED BY <1>3, <1>4, <1>5, <1>6, <1>7 DEF LeadsOf

\* The slot's node and those below it that keep their ids.
Stays(t, u, p) == {p} \union Kept(t, u, p)

StaysOf(t, u, p) ==
  /\ Stays(t, u, p) \subseteq DOMAIN t \intersect DOMAIN u
  /\ Stays(t, u, p) \in SUBSET Paths /\ IsFiniteSet(Stays(t, u, p))
  /\ \A q \in Stays(t, u, p) : IsPrefix(p, q)
  /\ \A q \in Kept(t, u, p) : q # p /\ t[q].component = u[q].component
  /\ \A q \in Stays(t, u, p) : \A r \in Paths :
       IsPrefix(p, r) /\ IsPrefix(r, q) => r \in Stays(t, u, p)

LEMMA StaysAre ==
  ASSUME NEW t, ShapeOK(t), NEW u, ShapeOK(u), NEW p \in DOMAIN t, p \in DOMAIN u
  PROVE  StaysOf(t, u, p)
<1> DEFINE K == Kept(t, u, p)
<1>1. /\ DOMAIN t \in SUBSET Paths /\ IsFiniteSet(DOMAIN t) /\ Rooted(DOMAIN t)
      /\ DOMAIN u \in SUBSET Paths /\ Rooted(DOMAIN u) /\ p \in Paths
  BY DEF ShapeOK
<1>2. ASSUME NEW q \in K
      PROVE  /\ q \in DOMAIN t /\ q \in DOMAIN u /\ q \in Paths /\ IsStrictPrefix(p, q)
             /\ \A k \in Len(p) + 1 .. Len(q) :
                  t[SubSeq(q, 1, k)].component = u[SubSeq(q, 1, k)].component
  BY <1>1 DEF Kept, Beneath
<1>3. ASSUME NEW q \in K PROVE q # p /\ t[q].component = u[q].component
  <2>1. Len(p) \in Nat /\ Len(q) \in Nat /\ Len(p) < Len(q) BY <1>1, <1>2, PrefixIs DEF Paths
  <2>2. Len(q) \in Len(p) + 1 .. Len(q) BY <2>1
  <2>3. SubSeq(q, 1, Len(q)) = q BY <1>2 DEF Paths
  <2>4. t[SubSeq(q, 1, Len(q))].component = u[SubSeq(q, 1, Len(q))].component
    BY <1>2, <2>2
  <2>5. t[q].component = u[q].component BY <2>3, <2>4
  <2>6. q # p BY <1>1, <1>2, PrefixOrder
  <2>7. QED BY <2>5, <2>6
<1>4. ASSUME NEW q \in K, NEW r \in Paths, IsStrictPrefix(p, r), IsPrefix(r, q) PROVE r \in K
  <2>1. /\ Len(p) \in Nat /\ Len(q) \in Nat /\ Len(r) \in Nat /\ Len(r) <= Len(q)
        /\ \A k \in 1 .. Len(r) : r[k] = q[k]
    BY <1>1, <1>2, <1>4, PrefixIs DEF Paths
  <2>2. r \in DOMAIN t /\ r \in DOMAIN u BY <1>1, <1>2, <1>4 DEF Rooted
  <2>3. ASSUME NEW k \in Len(p) + 1 .. Len(r)
        PROVE  t[SubSeq(r, 1, k)].component = u[SubSeq(r, 1, k)].component
    <3>1. k \in Len(p) + 1 .. Len(q) /\ k \in 0 .. Len(r) /\ k \in 0 .. Len(q) BY <2>1
    <3> DEFINE a == SubSeq(r, 1, k)
               b == SubSeq(q, 1, k)
    <3>2. a \in Paths /\ Len(a) = k /\ \A i \in 1 .. k : a[i] = r[i] BY <3>1, PrefixOf
    <3>3. b \in Paths /\ Len(b) = k /\ \A i \in 1 .. k : b[i] = q[i] BY <1>2, <3>1, PrefixOf
    <3>4. t[b].component = u[b].component BY <1>2, <3>1
    <3> HIDE DEF a, b
    <3>5. \A i \in 1 .. k : a[i] = b[i] BY <2>1, <3>1, <3>2, <3>3
    <3>6. a = b BY <3>2, <3>3, <3>5 DEF Paths
    <3>7. QED BY <3>4, <3>6 DEF a
  <2>4. QED BY <1>4, <2>2, <2>3 DEF Kept, Beneath
<1>5. IsFiniteSet({p} \union K)
  <2>1. {p} \union K \subseteq DOMAIN t BY <1>2
  <2>2. QED BY <1>1, <2>1, FS_Subset
<1> HIDE DEF K
<1>6. ASSUME NEW q \in {p} \union K, NEW r \in Paths, IsPrefix(p, r), IsPrefix(r, q)
      PROVE  r \in {p} \union K
  <2>1. CASE r = p BY <2>1
  <2>2. CASE r # p
    <3>1. IsStrictPrefix(p, r) BY <1>1, <1>6, <2>2, PrefixOrder
    <3>2. q # p BY <1>1, <1>6, <3>1, PrefixOrder
    <3>3. QED BY <1>4, <1>6, <3>1, <3>2
  <2>3. QED BY <2>1, <2>2
<1>7. \A q \in {p} \union K : IsPrefix(p, q) BY <1>1, <1>2, PrefixOrder DEF IsStrictPrefix
<1>8. /\ {p} \union K \subseteq DOMAIN t \intersect DOMAIN u
      /\ {p} \union K \in SUBSET Paths
  BY <1>1, <1>2
<1>9. QED BY <1>3, <1>5, <1>6, <1>7, <1>8 DEF StaysOf, Stays, K

LEMMA MostIs ==
  ASSUME NEW a \in Nat, NEW b \in Nat
  PROVE  Max({a, b}) \in Nat /\ Max({a, b}) >= a /\ Max({a, b}) >= b
<1> DEFINE Top(x) == x \in {a, b} /\ \A y \in {a, b} : x >= y
<1>1. \E x : Top(x)
  <2>1. CASE a >= b BY <2>1
  <2>2. CASE ~(a >= b)
    <3>1. b >= a /\ b >= b BY <2>2
    <3>2. QED BY <3>1
  <2>3. QED BY <2>1, <2>2
<1>2. Max({a, b}) = CHOOSE x : Top(x) BY DEF Max
<1>3. Top(CHOOSE x : Top(x)) BY <1>1
<1>4. Top(Max({a, b})) BY <1>2, <1>3
<1>5. QED BY <1>4

LEMMA NoPage == \E d : d \in Docs
<1> DEFINE d == [x \in {} |-> x]
<1>1. DOMAIN d = {} /\ d = [i_ \in DOMAIN d |-> d[i_]] OBVIOUS
<1> HIDE DEF d
<1>2. DOMAIN d \in SUBSET Nat BY <1>1
<1>3. d \in Docs BY <1>1, <1>2, DocIs
<1>4. QED BY <1>3

\* What is made of each child of a node that stays.
Most(t, u, q) == Max({Arity(t, q), Arity(u, q)})

Away(t, u, q, i) ==
  IF Nth(q, i) \in DOMAIN t
  THEN <<RemoveOp(u[q].id, t[Nth(q, i)].id), DeleteOp(t[Nth(q, i)].id)>>
  ELSE <<>>

Anew(u, q, i) ==
  IF Nth(q, i) \in DOMAIN u
  THEN Append(EmitNode(u, Nth(q, i)), InsertOp(u[q].id, u[Nth(q, i)].id, i - 1))
  ELSE <<>>

DiffPart(t, u, p, q, i, f) ==
  IF Nth(q, i) \in Kept(t, u, p) THEN NewText(t[Nth(q, i)], u[Nth(q, i)]) \o f[Nth(q, i)]
  ELSE Away(t, u, q, i) \o Anew(u, q, i)

DiffParts(t, u, p, q, f) == [i \in 1 .. Most(t, u, q) |-> DiffPart(t, u, p, q, i, f)]

Diffed(t, u, p, f) ==
  /\ Reconciled(t, u, p) = f[p]
  /\ \A q \in Stays(t, u, p) :
       /\ f[q] \in Seq(Ops) /\ f[q] = FlattenSeq(DiffParts(t, u, p, q, f))
       /\ Most(t, u, q) \in Nat /\ Most(t, u, q) >= Arity(t, q) /\ Most(t, u, q) >= Arity(u, q)
       /\ DiffParts(t, u, p, q, f) \in [1 .. Most(t, u, q) -> Seq(Ops)]

\* The opcodes of a part are opcodes.
LEMMA OpsTyped ==
  ASSUME NEW i \in Nat, NEW c \in Nat, NEW k \in Int, NEW x \in Shown
  PROVE  /\ <<InsertOp(i, c, k)>> \in Seq(Ops) /\ <<TextOp(i, x)>> \in Seq(Ops)
         /\ <<RemoveOp(i, c), DeleteOp(c)>> \in Seq(Ops)
<1> PICK d : d \in Docs BY NoPage
<1>1. InsertOp(i, c, k) \in Ops BY InsertsAre
<1>2. <<TextOp(i, x)>> \in Seq(Ops) BY TextIs DEF Makes
<1>3. RemoveOp(i, c) \in Ops /\ DeleteOp(c) \in Ops
  <2>1. /\ RemoveOp(i, c) \in [cmd : Commands, id : Nat, arg : Components \union Shown,
                                child : Nat, index : Int]
        /\ RemoveOp(i, c).cmd = "REMOVE_CHILD"
    BY DEF RemoveOp, Opcode, Commands, Shown
  <2>2. /\ DeleteOp(c) \in [cmd : Commands, id : Nat, arg : Components \union Shown,
                             child : Nat, index : Int]
        /\ DeleteOp(c).cmd = "DELETE_NODE"
    BY DEF DeleteOp, Opcode, Commands, Shown
  <2>3. QED BY <2>1, <2>2 DEF Ops
<1> HIDE DEF Ops
<1>4. <<InsertOp(i, c, k)>> \in Seq(Ops) BY <1>1
<1>5. <<RemoveOp(i, c), DeleteOp(c)>> \in Seq(Ops) BY <1>3
<1>6. QED BY <1>2, <1>4, <1>5

LEMMA DiffIs ==
  ASSUME NEW t, ShapeOK(t), Siblings(t), NEW u, ShapeOK(u), Siblings(u),
         NEW p \in DOMAIN t, p \in DOMAIN u
  PROVE  \E f : Diffed(t, u, p, f)
<1> DEFINE P == Stays(t, u, p)
           K == Kept(t, u, p)
           A == Seq(Ops)
           n(q) == Most(t, u, q)
           made(q, g) == FlattenSeq(DiffParts(t, u, p, q, g))
           F == [q \in P |-> [g \in [P -> A] |-> made(q, g)]]
           Fix(g) == g = [q \in P |-> made(q, g)]
           f == CHOOSE g : Fix(g)
<1>1. /\ P \in SUBSET Paths /\ IsFiniteSet(P) /\ K \subseteq P /\ p \in P
      /\ \A q \in P : q \in DOMAIN t /\ q \in DOMAIN u
  BY StaysAre DEF StaysOf, Stays
<1>2. ASSUME NEW q \in P
      PROVE  n(q) \in Nat /\ n(q) >= Arity(t, q) /\ n(q) >= Arity(u, q)
  <2>1. Arity(t, q) \in Nat /\ Arity(u, q) \in Nat BY <1>1, ChildrenIs
  <2>2. QED BY <2>1, MostIs DEF Most
<1>3. ASSUME NEW q \in P, NEW i \in 1 .. n(q)
      PROVE  i \in Nat \ {0} /\ IsStrictPrefix(q, Nth(q, i))
  <2>1. q \in Paths /\ n(q) \in Nat BY <1>1, <1>2
  <2> HIDE DEF n
  <2>2. i \in Nat \ {0} BY <2>1
  <2>3. QED BY <2>1, <2>2, NthIs
<1>4. ASSUME NEW q \in P, NEW i \in 1 .. n(q)
      PROVE  Away(t, u, q, i) \in A /\ Anew(u, q, i) \in A
  <2>1. u[q].id \in Nat /\ i - 1 \in Int /\ None \in Shown BY <1>1, <1>2, NodeIs DEF Shown
  <2>2. <<>> \in A OBVIOUS
  <2>3. Away(t, u, q, i) \in A
    <3>1. CASE Nth(q, i) \in DOMAIN t
      <4>1. t[Nth(q, i)].id \in Nat BY <3>1, NodeIs
      <4>2. QED BY <2>1, <3>1, <4>1, OpsTyped DEF Away
    <3>2. CASE Nth(q, i) \notin DOMAIN t BY <2>2, <3>2 DEF Away
    <3>3. QED BY <3>1, <3>2
  <2>4. Anew(u, q, i) \in A
    <3>1. CASE Nth(q, i) \in DOMAIN u
      <4> DEFINE a == EmitNode(u, Nth(q, i))
                 op == InsertOp(u[q].id, u[Nth(q, i)].id, i - 1)
      <4>1. u[Nth(q, i)].id \in Nat /\ a \in A BY <3>1, NodeIs, EmitIs
      <4>2. <<op>> \in A BY <2>1, <4>1, OpsTyped
      <4>3. Anew(u, q, i) = Append(a, op) BY <3>1 DEF Anew
      <4> HIDE DEF a, op, Ops
      <4>4. op \in Ops BY <4>2
      <4>5. QED BY <4>1, <4>3, <4>4
    <3>2. CASE Nth(q, i) \notin DOMAIN u BY <2>2, <3>2 DEF Anew
    <3>3. QED BY <3>1, <3>2
  <2>5. QED BY <2>3, <2>4
<1>5. ASSUME NEW r \in K PROVE NewText(t[r], u[r]) \in A
  <2>1. u[r].id \in Nat /\ u[r].text \in Shown
    <3>1. r \in DOMAIN u BY <1>1
    <3>2. u[r] \in Retained BY <3>1, NodeIs
    <3>3. QED BY <3>2, RetainedFields DEF Optional, Shown
  <2>2. <<TextOp(u[r].id, u[r].text)>> \in A
    <3>1. 0 \in Nat /\ 0 \in Int OBVIOUS
    <3>2. QED BY <2>1, <3>1, OpsTyped
  <2>3. <<>> \in A OBVIOUS
  <2>4. QED BY <2>2, <2>3 DEF NewText
<1> HIDE DEF P, K, A
<1>6. ASSUME NEW q \in P, NEW g \in [P -> A]
      PROVE  DiffParts(t, u, p, q, g) \in [1 .. n(q) -> A] /\ made(q, g) \in A
  <2>1. ASSUME NEW i \in 1 .. n(q) PROVE DiffPart(t, u, p, q, i, g) \in A
    <3>1. CASE Nth(q, i) \in K
      <4>1. g[Nth(q, i)] \in A BY <1>1, <3>1
      <4>2. NewText(t[Nth(q, i)], u[Nth(q, i)]) \o g[Nth(q, i)] \in A
        BY <1>5, <3>1, <4>1, Joins DEF A
      <4>3. QED BY <3>1, <4>2 DEF DiffPart, K
    <3>2. CASE Nth(q, i) \notin K
      <4>1. Away(t, u, q, i) \o Anew(u, q, i) \in A BY <1>4, Joins DEF A
      <4>2. QED BY <3>2, <4>1 DEF DiffPart, K
    <3>3. QED BY <3>1, <3>2
  <2>2. DiffParts(t, u, p, q, g) \in [1 .. n(q) -> A] BY <2>1 DEF DiffParts
  <2>3. QED BY <1>2, <2>2, Flattens DEF A
<1>7. ASSUME NEW q \in P, NEW g, NEW h, \A r \in P : IsStrictPrefix(q, r) => g[r] = h[r]
      PROVE  made(q, g) = made(q, h)
  <2>1. ASSUME NEW i \in 1 .. n(q) PROVE DiffPart(t, u, p, q, i, g) = DiffPart(t, u, p, q, i, h)
    <3>1. CASE Nth(q, i) \in K
      <4>1. g[Nth(q, i)] = h[Nth(q, i)] BY <1>1, <1>3, <1>7, <3>1
      <4>2. QED BY <4>1 DEF DiffPart
    <3>2. CASE Nth(q, i) \notin K BY <3>2 DEF DiffPart, K
    <3>3. QED BY <3>1, <3>2
  <2>2. DiffParts(t, u, p, q, g) = DiffParts(t, u, p, q, h) BY <2>1 DEF DiffParts
  <2>3. QED BY <2>2
<1> HIDE DEF made, n
<1>8. \E g \in [P -> A] : \A q \in P : g[q] = made(q, g)
  <2>1. F \in [P -> [[P -> A] -> A]] BY <1>6
  <2>2. \A q \in P : \A g \in [P -> A] : F[q][g] = made(q, g) OBVIOUS
  <2>3. FromBelow(P, A, F) BY <1>7, <2>2 DEF FromBelow
  <2>4. <<>> \in A BY DEF A
  <2> HIDE DEF F
  <2>5. \E g \in [P -> A] : Solved(g, P, F) BY <1>1, <2>1, <2>3, <2>4, PathRecursion
  <2>6. QED BY <2>2, <2>5 DEF Solved
<1>9. \E g : Fix(g)
  <2>1. PICK g \in [P -> A] : \A q \in P : g[q] = made(q, g) BY <1>8
  <2>2. g = [q \in P |-> g[q]] OBVIOUS
  <2>3. Fix(g) BY <2>1, <2>2
  <2>4. QED BY <2>3
<1>10. Fix(f) BY <1>9
<1>11. Reconciled(t, u, p) = f[p]
  BY DEF Reconciled, EachChild, P, made, DiffParts, DiffPart, Most, Away, Anew, Stays
<1> HIDE DEF f
<1>12. \A q \in P : f[q] = made(q, f) BY <1>10
<1>13. f \in [P -> A]
  <2> DEFINE Bad == {q \in P : f[q] \notin A}
  <2> SUFFICES ASSUME Bad # {} PROVE FALSE BY <1>10
  <2>1. Bad \in SUBSET Paths /\ IsFiniteSet(Bad)
    <3>1. Bad \subseteq P OBVIOUS
    <3>2. QED BY <1>1, <3>1, FS_Subset
  <2>2. PICK q \in Bad : \A r \in Bad : ~IsStrictPrefix(q, r)
    <3> HIDE DEF Bad
    <3>1. QED BY <2>1, Bottommost
  <2>3. q \in P /\ f[q] \notin A OBVIOUS
  <2> DEFINE g == [r \in P |-> IF f[r] \in A THEN f[r] ELSE <<>>]
  <2>4. g \in [P -> A]
    <3>1. <<>> \in A BY DEF A
    <3>2. QED BY <3>1
  <2>5. \A r \in P : IsStrictPrefix(q, r) => f[r] = g[r] BY <2>2
  <2> HIDE DEF g
  <2>6. made(q, f) = made(q, g) BY <1>7, <2>3, <2>5
  <2>7. made(q, g) \in A BY <1>6, <2>3, <2>4
  <2>8. QED BY <1>12, <2>3, <2>6, <2>7
<1>14. ASSUME NEW q \in P
       PROVE  /\ f[q] \in Seq(Ops) /\ f[q] = FlattenSeq(DiffParts(t, u, p, q, f))
              /\ n(q) \in Nat /\ n(q) >= Arity(t, q) /\ n(q) >= Arity(u, q)
              /\ DiffParts(t, u, p, q, f) \in [1 .. n(q) -> Seq(Ops)]
  <2>1. f[q] \in Seq(Ops) BY <1>13 DEF A
  <2>2. f[q] = FlattenSeq(DiffParts(t, u, p, q, f)) BY <1>12 DEF made
  <2>3. DiffParts(t, u, p, q, f) \in [1 .. n(q) -> Seq(Ops)] BY <1>6, <1>13 DEF A
  <2>4. QED BY <1>2, <2>1, <2>2, <2>3
<1>15. Diffed(t, u, p, f) BY <1>11, <1>14 DEF Diffed, P, n
<1>16. QED BY <1>15

-----------------------------------------------------------------------------
(* One child after the other.                                                *)

\* A child of a node, if it has so many, and its branch.
ChildOf(w, q, m) ==
  LET r == Nth(q, m)
      ks == Kids(w, q)
  IN  /\ Branches(w, q, m) = Branches(w, q, m - 1) \union Under(w, r)
      /\ Branches(w, q, m - 1) \intersect Under(w, r) = {}
      /\ Branches(w, q, m) \subseteq Under(w, q) /\ Under(w, r) \subseteq Under(w, q) \ {q}
      /\ q \in Branches(w, q, m - 1) /\ Under(w, q) \subseteq DOMAIN w
      /\ r \in DOMAIN w => /\ r \in Under(w, r) /\ Len(Lead(ks, m - 1)) = m - 1
                           /\ Lead(ks, m) = Append(Lead(ks, m - 1), w[r].id)
                           /\ Rest(ks, m - 1) = <<w[r].id>> \o Rest(ks, m)
                           /\ w[r].id \notin ToSet(Lead(ks, m - 1))
                           /\ w[r].id \notin ToSet(Rest(ks, m))
      /\ r \notin DOMAIN w => /\ Under(w, r) = {}
                              /\ Lead(ks, m) = Lead(ks, m - 1) /\ Rest(ks, m) = Rest(ks, m - 1)
      /\ ks \in Seq(Nat) /\ Lead(ks, m) \in Seq(Nat) /\ Lead(ks, m - 1) \in Seq(Nat)
      /\ Rest(ks, m) \in Seq(Nat) /\ Rest(ks, m - 1) \in Seq(Nat)
      /\ ToSet(Lead(ks, m - 1)) \subseteq ToSet(ks) /\ ToSet(Rest(ks, m)) \subseteq ToSet(ks)
      /\ ToSet(Rest(ks, m - 1)) \subseteq ToSet(ks)

LEMMA ChildIs ==
  ASSUME NEW w, ShapeOK(w), Siblings(w), NEW q \in DOMAIN w, NEW m \in Nat \ {0}
  PROVE  ChildOf(w, q, m)
<1> DEFINE r == Nth(q, m)
           ks == Kids(w, q)
           a == Arity(w, q)
           B == Branches(w, q, m - 1)
<1>1. q \in Paths /\ KidsOf(w, q) /\ BranchesOf(w, q) /\ m - 1 \in Nat
      /\ DOMAIN w \in SUBSET Paths /\ Rooted(DOMAIN w)
  BY NodeIs, KidsIs, BranchesAre DEF ShapeOK
<1>2. r \in Paths /\ IsStrictPrefix(q, r) BY <1>1, NthIs
<1>3. /\ Branches(w, q, m) = B \union Under(w, r) /\ B \intersect Under(w, r) = {}
      /\ Branches(w, q, m) \subseteq Under(w, q)
  BY <1>1 DEF BranchesOf
<1>4. q \in B /\ Under(w, q) \subseteq DOMAIN w BY DEF Branches, Under
<1>5. Under(w, r) \subseteq Under(w, q) \ {q} BY <1>3, <1>4
<1>6. /\ a \in Nat /\ ks \in Seq(Nat) /\ Len(ks) = a /\ NoRepeat(ks)
      /\ \A i \in 1 .. a : ks[i] = w[Nth(q, i)].id
      /\ r \in DOMAIN w => m \in 1 .. a
      /\ m \in 1 .. a => r \in DOMAIN w
  BY <1>1 DEF KidsOf
<1>7. LeadsOf(ks, Nat) BY <1>6, LeadsAre
<1> HIDE DEF ks, r, a, B
<1>8. DOMAIN ks = 1 .. a BY <1>6
<1>9. /\ Lead(ks, m) \in Seq(Nat) /\ Lead(ks, m - 1) \in Seq(Nat)
      /\ Rest(ks, m) \in Seq(Nat) /\ Rest(ks, m - 1) \in Seq(Nat)
      /\ \A x \in ToSet(Lead(ks, m - 1)) : \E i \in DOMAIN ks : i <= m - 1 /\ x = ks[i]
      /\ \A x \in ToSet(Rest(ks, m)) : \E i \in DOMAIN ks : i > m /\ x = ks[i]
      /\ \A x \in ToSet(Rest(ks, m - 1)) : \E i \in DOMAIN ks : i > m - 1 /\ x = ks[i]
  BY <1>1, <1>7 DEF LeadsOf
<1>10. /\ ToSet(Lead(ks, m - 1)) \subseteq ToSet(ks) /\ ToSet(Rest(ks, m)) \subseteq ToSet(ks)
       /\ ToSet(Rest(ks, m - 1)) \subseteq ToSet(ks)
  <2>1. \A i \in DOMAIN ks : ks[i] \in ToSet(ks) BY DEF ToSet
  <2>2. QED BY <1>9, <2>1
<1>11. ASSUME r \in DOMAIN w
       PROVE  /\ r \in Under(w, r) /\ Len(Lead(ks, m - 1)) = m - 1
              /\ Lead(ks, m) = Append(Lead(ks, m - 1), w[r].id)
              /\ Rest(ks, m - 1) = <<w[r].id>> \o Rest(ks, m)
              /\ w[r].id \notin ToSet(Lead(ks, m - 1))
              /\ w[r].id \notin ToSet(Rest(ks, m))
  <2>1. m \in 1 .. a /\ m \in 1 .. Len(ks) /\ m \in DOMAIN ks BY <1>6, <1>8, <1>11
  <2>2. ks[m] = w[r].id BY <1>6, <2>1 DEF r
  <2>3. IsPrefix(r, r) BY <1>2, PrefixOrder
  <2>4. r \in Under(w, r) BY <1>11, <2>3 DEF Under
  <2>5. /\ Len(Lead(ks, m - 1)) = m - 1
        /\ Lead(ks, m) = Append(Lead(ks, m - 1), w[r].id)
        /\ Rest(ks, m - 1) = <<w[r].id>> \o Rest(ks, m)
    BY <1>7, <2>1, <2>2 DEF LeadsOf
  <2>6. \A i \in DOMAIN ks : ks[i] = w[r].id => i = m BY <1>6, <2>1, <2>2 DEF NoRepeat
  <2>7. ~(m <= m - 1) /\ ~(m > m) OBVIOUS
  <2>8. w[r].id \notin ToSet(Lead(ks, m - 1)) /\ w[r].id \notin ToSet(Rest(ks, m))
    BY <1>9, <2>6, <2>7
  <2>9. QED BY <2>4, <2>5, <2>8
<1>12. ASSUME r \notin DOMAIN w
       PROVE  /\ Under(w, r) = {}
              /\ Lead(ks, m) = Lead(ks, m - 1) /\ Rest(ks, m) = Rest(ks, m - 1)
  <2>1. Under(w, r) = {} BY <1>1, <1>2, <1>12 DEF Under, Rooted
  <2>2. m >= Len(ks) /\ m - 1 >= Len(ks)
    <3>1. m \notin 1 .. a BY <1>6, <1>12
    <3>2. QED BY <1>6, <3>1
  <2>3. QED BY <1>1, <1>7, <2>1, <2>2 DEF LeadsOf
<1>13. QED BY <1>3, <1>4, <1>5, <1>6, <1>9, <1>10, <1>11, <1>12 DEF ChildOf, r, ks, B

\* Ids that agree are of one path.
Matched(w, t) == \A q \in DOMAIN w : \A r \in DOMAIN t : w[q].id = t[r].id => q = r

\* What the branch of a path has no part in.
Spared(d, t, q, j) ==
  /\ j \in DOMAIN d /\ j \notin Ids(t, Under(t, q))
  /\ ToSet(d[j].inside) \intersect Ids(t, Under(t, q) \ {q}) = {}

Spares(e, d, t, q) == \A j : Spared(d, t, q, j) => j \in DOMAIN e /\ e[j] = d[j]

LEMMA ApartIs ==
  ASSUME NEW t, ShapeOK(t), NEW w, ShapeOK(w), Siblings(w), Matched(w, t),
         NEW r \in Paths, NEW b \in DOMAIN w, ~IsPrefix(r, b)
  PROVE  /\ w[b].id \notin Ids(t, Under(t, r))
         /\ ToSet(Kids(w, b)) \intersect Ids(t, Under(t, r) \ {r}) = {}
         /\ \A d : Shows(d, w, {b}) => Spared(d, t, r, w[b].id)
<1>1. w[b].id \notin Ids(t, Under(t, r)) BY DEF Ids, Under, Matched
<1>2. ASSUME NEW y \in Under(t, r) \ {r}, t[y].id \in ToSet(Kids(w, b)) PROVE FALSE
  <2>1. KidsOf(w, b) /\ DOMAIN t \in SUBSET Paths /\ b \in Paths
    BY KidsIs, NodeIs DEF ShapeOK
  <2>2. y \in DOMAIN t /\ y \in Paths /\ IsPrefix(r, y) /\ y # r BY <2>1 DEF Under
  <2>3. PICK i \in DOMAIN Kids(w, b) : t[y].id = Kids(w, b)[i] BY <1>2 DEF ToSet
  <2>4. i \in 1 .. Arity(w, b) BY <2>3 DEF Kids
  <2>5. i \in Nat \ {0} /\ Nth(b, i) \in DOMAIN w /\ t[y].id = w[Nth(b, i)].id
    BY <2>1, <2>3, <2>4 DEF KidsOf
  <2>6. y = Nth(b, i) BY <2>2, <2>5 DEF Matched
  <2>7. y # <<>> /\ Front(y) = b BY <2>1, <2>5, <2>6, NthIs
  <2>8. IsStrictPrefix(r, y) BY <2>2 DEF IsStrictPrefix
  <2>9. QED BY <2>2, <2>7, <2>8, FrontIs
<1>3. ToSet(Kids(w, b)) \intersect Ids(t, Under(t, r) \ {r}) = {} BY <1>2 DEF Ids
<1>4. ASSUME NEW d, Shows(d, w, {b}) PROVE Spared(d, t, r, w[b].id)
  <2>1. w[b].id \in DOMAIN d /\ d[w[b].id] = ElementOf(w, b) BY <1>4 DEF Shows
  <2>2. d[w[b].id].inside = Kids(w, b) BY <2>1 DEF ElementOf
  <2>3. QED BY <1>1, <1>3, <2>1, <2>2 DEF Spared
<1>5. QED BY <1>1, <1>3, <1>4

-----------------------------------------------------------------------------
(* reconcileChildren.                                                        *)

\* Two trees, the later of which has below p what is rendered anew: nodes that
\* stay have their ids, and no other has one that was there.
Mends(t, u, p, n) ==
  /\ Grown(t) /\ Grown(u) /\ p \in DOMAIN t /\ p \in DOMAIN u
  /\ IdsBelow(t, n) /\ IdsBelow(u, n) /\ Matched(u, t)
  /\ \A q \in Stays(t, u, p) : u[q].id = t[q].id

\* What both trees have at a node that stays and at its child.
At(t, u, p, q, m) ==
  /\ q \in Paths /\ q \in DOMAIN t /\ q \in DOMAIN u /\ u[q].id = t[q].id /\ t[q].id \in Nat
  /\ Nth(q, m) \in Paths /\ IsStrictPrefix(q, Nth(q, m)) /\ Nth(q, m) # q
  /\ ChildOf(t, q, m) /\ ChildOf(u, q, m)
  /\ Nth(q, m) \in Stays(t, u, p) <=> Nth(q, m) \in Kept(t, u, p)
  /\ Nth(q, m) \notin Stays(t, u, p) => Under(u, Nth(q, m)) \intersect Stays(t, u, p) = {}
  /\ Nth(q, m) \in Stays(t, u, p) =>
       Nth(q, m) \in DOMAIN t /\ Nth(q, m) \in DOMAIN u /\ IsStrictPrefix(q, Nth(q, m))

LEMMA AtIs ==
  ASSUME NEW t, NEW u, NEW p, NEW n, Mends(t, u, p, n), NEW q \in Stays(t, u, p),
         NEW m \in Nat \ {0}
  PROVE  At(t, u, p, q, m)
<1> DEFINE r == Nth(q, m)
<1>1. /\ ShapeOK(t) /\ ShapeOK(u) /\ Siblings(t) /\ Siblings(u) /\ p \in DOMAIN t /\ p \in DOMAIN u
      /\ DOMAIN u \in SUBSET Paths
  BY DEF Mends, Grown, ShapeOK
<1>2. StaysOf(t, u, p) BY <1>1, StaysAre
<1>3. q \in DOMAIN t /\ q \in DOMAIN u /\ IsPrefix(p, q) /\ q \in Paths /\ p \in Paths
  BY <1>1, <1>2, NodeIs DEF StaysOf
<1>4. t[q].id \in Nat /\ u[q].id = t[q].id BY <1>1, <1>3, NodeIs DEF Mends
<1>5. r \in Paths /\ IsStrictPrefix(q, r) BY <1>3, NthIs
<1>6. r # q BY <1>3, <1>5, PrefixOrder
<1>7. ChildOf(t, q, m) /\ ChildOf(u, q, m) BY <1>1, <1>3, ChildIs
<1> HIDE DEF r
<1>8. IsStrictPrefix(p, r) BY <1>3, <1>5, PrefixOrder
<1>9. r # p BY <1>3, <1>8, PrefixOrder
<1>10. r \in Stays(t, u, p) <=> r \in Kept(t, u, p) BY <1>9 DEF Stays
<1>11. ASSUME r \notin Stays(t, u, p), NEW s \in Under(u, r), s \in Stays(t, u, p) PROVE FALSE
  <2>1. IsPrefix(r, s) BY <1>11 DEF Under
  <2>2. IsPrefix(p, r) BY <1>3, <1>5, <1>8, PrefixOrder
  <2>3. QED BY <1>2, <1>5, <1>11, <2>1, <2>2 DEF StaysOf
<1>12. r \in Stays(t, u, p) => r \in DOMAIN t /\ r \in DOMAIN u BY <1>2 DEF StaysOf
<1>13. QED BY <1>3, <1>4, <1>5, <1>6, <1>7, <1>10, <1>11, <1>12 DEF At, r

\* What is made of a child changes nothing beside it.
Beside(e, g, t, r) ==
  \A j : Spared(g, t, r, j) /\ (r \in DOMAIN t => t[r].id \notin ToSet(g[j].inside)) =>
    j \in DOMAIN e /\ e[j] = g[j]

LEMMA OthersIs ==
  ASSUME NEW t, ShapeOK(t), NEW w, ShapeOK(w), Siblings(w), Matched(w, t),
         NEW q \in Paths, NEW m \in Nat \ {0}, NEW b \in DOMAIN w, b # q, ~IsPrefix(Nth(q, m), b),
         NEW e, NEW g, Beside(e, g, t, Nth(q, m)), Shows(g, w, {b})
  PROVE  w[b].id \in DOMAIN e /\ e[w[b].id] = ElementOf(w, b)
<1> DEFINE r == Nth(q, m)
<1>1. r \in Paths /\ Front(r) = q /\ r # <<>> BY NthIs
<1> HIDE DEF r
<1>2. ~IsPrefix(r, b) BY DEF r
<1>3. Spared(g, t, r, w[b].id) BY <1>1, <1>2, ApartIs
<1>4. w[b].id \in DOMAIN g /\ g[w[b].id] = ElementOf(w, b) BY DEF Shows
<1>5. g[w[b].id].inside = Kids(w, b) BY <1>4 DEF ElementOf
<1>6. ASSUME r \in DOMAIN t, t[r].id \in ToSet(Kids(w, b)) PROVE FALSE
  <2>1. KidsOf(w, b) /\ b \in Paths BY KidsIs, NodeIs
  <2>2. PICK i \in DOMAIN Kids(w, b) : t[r].id = Kids(w, b)[i] BY <1>6 DEF ToSet
  <2>3. i \in 1 .. Arity(w, b) BY <2>2 DEF Kids
  <2>4. i \in Nat \ {0} /\ Nth(b, i) \in DOMAIN w /\ t[r].id = w[Nth(b, i)].id
    BY <2>1, <2>2, <2>3 DEF KidsOf
  <2>5. r = Nth(b, i) BY <1>6, <2>4 DEF Matched
  <2>6. Front(r) = b BY <2>1, <2>4, <2>5, NthIs
  <2>7. QED BY <1>1, <2>6
<1>7. w[b].id \in DOMAIN e /\ e[w[b].id] = g[w[b].id] BY <1>3, <1>5, <1>6 DEF Beside, r
<1>8. QED BY <1>4, <1>7

LEMMA BesideKeeps ==
  ASSUME NEW t, NEW u, NEW p, NEW n, Mends(t, u, p, n), NEW q \in Stays(t, u, p),
         NEW m \in Nat \ {0}, NEW d, NEW g, NEW e, Beside(e, g, t, Nth(q, m)),
         Spares(g, d, t, q), Shows(g, u, Branches(u, q, m - 1) \ {q}),
         Shows(g, t, Under(t, q) \ Branches(t, q, m))
  PROVE  /\ Spares(e, d, t, q) /\ Shows(e, u, Branches(u, q, m - 1) \ {q})
         /\ Shows(e, t, Under(t, q) \ Branches(t, q, m))
<1> DEFINE r == Nth(q, m)
<1>1. /\ ShapeOK(t) /\ ShapeOK(u) /\ Siblings(t) /\ Siblings(u) /\ Matched(u, t) /\ Matched(t, t)
  BY DEF Mends, Grown, ShapeOK, Matched
<1>2. At(t, u, p, q, m) BY AtIs
<1>3. q \in Paths /\ r \in Paths /\ ChildOf(t, q, m) /\ ChildOf(u, q, m) BY <1>2 DEF At
<1>4. /\ Under(t, r) \subseteq Under(t, q) \ {q}
      /\ r \in DOMAIN t => r \in Under(t, r)
  BY <1>3 DEF ChildOf
<1>5. Spares(e, d, t, q)
  <2> SUFFICES ASSUME NEW j, Spared(d, t, q, j) PROVE j \in DOMAIN e /\ e[j] = d[j] BY DEF Spares
  <2>1. j \in DOMAIN g /\ g[j] = d[j] BY DEF Spares
  <2>2. /\ j \notin Ids(t, Under(t, q))
        /\ ToSet(d[j].inside) \intersect Ids(t, Under(t, q) \ {q}) = {}
    BY DEF Spared
  <2> HIDE DEF r
  <2>3. Ids(t, Under(t, r)) \subseteq Ids(t, Under(t, q) \ {q}) BY <1>4 DEF Ids
  <2>4. /\ Ids(t, Under(t, r) \ {r}) \subseteq Ids(t, Under(t, r))
        /\ Ids(t, Under(t, q) \ {q}) \subseteq Ids(t, Under(t, q))
    BY DEF Ids
  <2>5. r \in DOMAIN t => t[r].id \in Ids(t, Under(t, r)) BY <1>4 DEF Ids
  <2>6. Spared(g, t, r, j)
    <3>1. j \notin Ids(t, Under(t, r)) BY <2>2, <2>3, <2>4
    <3>2. ToSet(g[j].inside) \intersect Ids(t, Under(t, r) \ {r}) = {} BY <2>1, <2>2, <2>3, <2>4
    <3>3. QED BY <2>1, <3>1, <3>2 DEF Spared
  <2>7. r \in DOMAIN t => t[r].id \notin ToSet(g[j].inside) BY <2>1, <2>2, <2>3, <2>5
  <2>8. j \in DOMAIN e /\ e[j] = g[j] BY <2>6, <2>7 DEF Beside, r
  <2>9. QED BY <2>1, <2>8
<1>6. ASSUME NEW b \in Branches(u, q, m - 1) \ {q}
      PROVE  u[b].id \in DOMAIN e /\ e[u[b].id] = ElementOf(u, b)
  <2>1. b \in DOMAIN u /\ b # q BY <1>3 DEF ChildOf
  <2>2. b \notin Under(u, r) BY <1>3 DEF ChildOf
  <2>3. ~IsPrefix(Nth(q, m), b) BY <2>1, <2>2 DEF Under
  <2>4. Shows(g, u, {b}) BY <1>6 DEF Shows
  <2> HIDE DEF r
  <2>5. ShapeOK(t) /\ ShapeOK(u) /\ Siblings(u) /\ Matched(u, t) /\ q \in Paths BY <1>1, <1>3
  <2>6. QED BY <2>1, <2>3, <2>4, <2>5, OthersIs
<1>7. ASSUME NEW b \in Under(t, q) \ Branches(t, q, m)
      PROVE  t[b].id \in DOMAIN e /\ e[t[b].id] = ElementOf(t, b)
  <2>1. b \in DOMAIN t /\ b # q BY <1>3 DEF ChildOf
  <2>2. b \notin Under(t, r) BY <1>3 DEF ChildOf
  <2>3. ~IsPrefix(Nth(q, m), b) BY <2>1, <2>2 DEF Under
  <2>4. Shows(g, t, {b}) BY <1>7 DEF Shows
  <2> HIDE DEF r
  <2>5. ShapeOK(t) /\ ShapeOK(t) /\ Siblings(t) /\ Matched(t, t) /\ q \in Paths BY <1>1, <1>3
  <2>6. QED BY <2>1, <2>3, <2>4, <2>5, OthersIs, SMTT(60)
<1>8. QED BY <1>5, <1>6, <1>7 DEF Shows

\* What a node that stays is, when its first k new children are there and its
\* first m old ones are not any more.
Lines(x, t, u, q, k, m) ==
  /\ x.shell = u[q].component /\ x.text = TextOf(u[q])
  /\ \/ x.inside = Lead(Kids(u, q), k) \o Rest(Kids(t, q), m)
     \/ x.inside = <<>> /\ Arity(u, q) = 0

Ready(d, t, u, p, q, n) ==
  /\ Sound(d, n) /\ Lacks(d, u, Under(u, q) \ Stays(t, u, p))
  /\ Shows(d, t, Under(t, q) \ {q})
  /\ t[q].id \in DOMAIN d /\ Lines(d[t[q].id], t, u, q, 0, 0)

Halfway(e, d, t, u, p, q, n, k, m) ==
  /\ Sound(e, n) /\ DOMAIN e \subseteq DOMAIN d \union Ids(u, Branches(u, q, k) \ Stays(t, u, p))
  /\ Spares(e, d, t, q)
  /\ Shows(e, u, Branches(u, q, k) \ {q}) /\ Shows(e, t, Under(t, q) \ Branches(t, q, m))
  /\ t[q].id \in DOMAIN e /\ Lines(e[t[q].id], t, u, q, k, m)

Mended(e, d, t, u, p, q, n) ==
  /\ Sound(e, n) /\ DOMAIN e \subseteq DOMAIN d \union Ids(u, Under(u, q) \ Stays(t, u, p))
  /\ Spares(e, d, t, q) /\ Shows(e, u, Under(u, q))

\* No text is taken away.
Whole(ops) == \A i \in DOMAIN ops : ~(ops[i].cmd = "SET_TEXT" /\ ops[i].arg = None)

Diffs(t, u, p, n, f, q) ==
  Whole(f[q]) => \A d : Ready(d, t, u, p, q, n) =>
    \E e : Makes(d, f[q], e) /\ Mended(e, d, t, u, p, q, n)
\* The old child is gone.
LEMMA AwayStep ==
  ASSUME NEW t, NEW u, NEW p, NEW n, Mends(t, u, p, n), NEW q \in Stays(t, u, p),
         NEW m \in Nat \ {0}, NEW d, NEW g,
         Halfway(g, d, t, u, p, q, n, m - 1, m - 1)
  PROVE  \E e : Makes(g, Away(t, u, q, m), e) /\ Halfway(e, d, t, u, p, q, n, m - 1, m)
<1> DEFINE r == Nth(q, m)
           c == t[r].id
           i == t[q].id
<1>1. /\ ShapeOK(t) /\ ShapeOK(u) /\ Siblings(t) /\ Siblings(u) /\ Matched(u, t)
  BY DEF Mends, Grown
<1>2. At(t, u, p, q, m) BY AtIs
<1>3. /\ q \in Paths /\ r \in Paths /\ q \in DOMAIN t /\ q \in DOMAIN u /\ u[q].id = i /\ i \in Nat
      /\ r # q /\ ChildOf(t, q, m) /\ ChildOf(u, q, m)
  BY <1>2 DEF At
<1>4. /\ Sound(g, n)
      /\ DOMAIN g \subseteq DOMAIN d \union Ids(u, Branches(u, q, m - 1) \ Stays(t, u, p))
      /\ Spares(g, d, t, q)
      /\ Shows(g, u, Branches(u, q, m - 1) \ {q}) /\ Shows(g, t, Under(t, q) \ Branches(t, q, m - 1))
      /\ i \in DOMAIN g /\ Lines(g[i], t, u, q, m - 1, m - 1)
  BY DEF Halfway
<1>5. g \in Docs BY <1>4 DEF Sound
<1>6. CASE r \notin DOMAIN t
  <2>1. Away(t, u, q, m) = <<>> BY <1>6 DEF Away
  <2>2. Branches(t, q, m) = Branches(t, q, m - 1) /\ Rest(Kids(t, q), m) = Rest(Kids(t, q), m - 1)
    BY <1>3, <1>6 DEF ChildOf
  <2>3. Lines(g[i], t, u, q, m - 1, m) BY <1>4, <2>2 DEF Lines
  <2>4. Halfway(g, d, t, u, p, q, n, m - 1, m) BY <1>4, <2>2, <2>3 DEF Halfway
  <2>5. Makes(g, <<>>, g) BY <1>5, MakesNothing
  <2>6. QED BY <2>1, <2>4, <2>5
<1>7. CASE r \in DOMAIN t
  <2>1. Away(t, u, q, m) = <<RemoveOp(u[q].id, c), DeleteOp(c)>> BY <1>7 DEF Away
  <2>2. c \in Nat BY <1>1, <1>7, NodeIs
  <2>3. PICK e : Makes(g, <<RemoveOp(u[q].id, c), DeleteOp(c)>>, e) /\ Dropped(e, g, n, c)
    BY <1>3, <1>4, <2>2, DropIs
  <2>4. /\ Sound(e, n) /\ DOMAIN e = DOMAIN g \ {c}
        /\ \A j \in DOMAIN e :
             /\ e[j] = [shell |-> g[j].shell, text |-> g[j].text, inside |-> RemoveFirst(g[j].inside, c)]
             /\ c \notin ToSet(g[j].inside) => e[j] = g[j]
    BY <2>3 DEF Dropped
  <2>5. c \in Ids(t, Under(t, r)) BY <1>3, <1>7 DEF ChildOf, Ids
  <2>6. Beside(e, g, t, r)
    <3> SUFFICES ASSUME NEW j, Spared(g, t, r, j), c \notin ToSet(g[j].inside)
                 PROVE  j \in DOMAIN e /\ e[j] = g[j]
      BY <1>7 DEF Beside
    <3>1. j \in DOMAIN g /\ j # c BY <2>5 DEF Spared
    <3>2. QED BY <2>4, <3>1
  <2>7. Shows(g, t, Under(t, q) \ Branches(t, q, m)) BY <1>3, <1>4 DEF ChildOf, Shows
  <2>8. /\ Spares(e, d, t, q) /\ Shows(e, u, Branches(u, q, m - 1) \ {q})
        /\ Shows(e, t, Under(t, q) \ Branches(t, q, m))
    BY <1>4, <2>6, <2>7, BesideKeeps
  <2>9. i # c BY <1>1, <1>3, <1>7 DEF ShapeOK
  <2>10. i \in DOMAIN e BY <1>4, <2>4, <2>9
  <2> DEFINE s == g[i].inside
             a == Lead(Kids(u, q), m - 1)
             b == Rest(Kids(t, q), m)
  <2>11. /\ e[i].shell = g[i].shell /\ e[i].text = g[i].text
         /\ e[i].inside = RemoveFirst(s, c)
    <3>1. e[i] = [shell |-> g[i].shell, text |-> g[i].text, inside |-> RemoveFirst(g[i].inside, c)]
      BY <2>4, <2>10
    <3> HIDE DEF i, c
    <3>2. QED BY <3>1
  <2>12. c \notin ToSet(a) /\ c \notin ToSet(b) /\ a \in Seq(Nat) /\ b \in Seq(Nat)
         /\ Rest(Kids(t, q), m - 1) = <<c>> \o b
    <3>1. c \notin ToSet(b) /\ a \in Seq(Nat) /\ b \in Seq(Nat) /\ Rest(Kids(t, q), m - 1) = <<c>> \o b
      BY <1>3, <1>7 DEF ChildOf
    <3>2. ToSet(a) \subseteq ToSet(Kids(u, q)) BY <1>3 DEF ChildOf
    <3>3. ASSUME c \in ToSet(a) PROVE FALSE
      <4>1. KidsOf(u, q) BY <1>1, <1>3, KidsIs
      <4>2. c \in ToSet(Kids(u, q)) BY <3>2, <3>3
      <4>3. PICK k \in DOMAIN Kids(u, q) : c = Kids(u, q)[k] BY <4>2 DEF ToSet
      <4>4. k \in 1 .. Arity(u, q) BY <4>3 DEF Kids
      <4>5. Nth(q, k) \in DOMAIN u /\ c = u[Nth(q, k)].id BY <4>1, <4>3, <4>4 DEF KidsOf
      <4>6. r = Nth(q, k) BY <1>1, <1>7, <4>5 DEF Matched
      <4>7. r \in DOMAIN u /\ u[r].id = c BY <4>5, <4>6
      <4>8. QED BY <1>3, <3>3, <4>7 DEF ChildOf
    <3>4. QED BY <3>1, <3>3
  <2>13. Lines(e[i], t, u, q, m - 1, m)
    <3>1. g[i].shell = u[q].component /\ g[i].text = TextOf(u[q])
          /\ (s = a \o Rest(Kids(t, q), m - 1) \/ (s = <<>> /\ Arity(u, q) = 0))
      BY <1>4 DEF Lines
    <3>2. CASE s = a \o Rest(Kids(t, q), m - 1)
      <4>1. RemoveFirst(s, c) = a \o b
        <5> HIDE DEF a, b, c, s
        <5>1. s = a \o (<<c>> \o b) BY <2>12, <3>2
        <5>2. QED BY <2>2, <2>12, <5>1, MiddleIs
      <4>2. e[i].inside = a \o b BY <2>11, <4>1
      <4>3. QED BY <2>11, <3>1, <4>2 DEF Lines
    <3>3. CASE s = <<>> /\ Arity(u, q) = 0
      <4>1. RemoveFirst(<<>>, c) = <<>>
        <5>1. <<>> \in Seq(Nat) /\ c \notin ToSet(<<>>) BY EmptyIs
        <5>2. Removed(RemoveFirst(<<>>, c), Nat, <<>>, c) BY <5>1, RemovedIs
        <5>3. QED BY <5>1, <5>2 DEF Removed
      <4>2. e[i].inside = <<>> BY <2>11, <3>3, <4>1
      <4>3. QED BY <2>11, <3>1, <3>3, <4>2 DEF Lines
    <3>4. QED BY <3>1, <3>2, <3>3
  <2>14. DOMAIN e \subseteq DOMAIN d \union Ids(u, Branches(u, q, m - 1) \ Stays(t, u, p))
    BY <1>4, <2>4
  <2>15. Halfway(e, d, t, u, p, q, n, m - 1, m) BY <2>4, <2>8, <2>10, <2>13, <2>14 DEF Halfway
  <2>16. QED BY <2>1, <2>3, <2>15
<1>8. QED BY <1>6, <1>7

\* The new child is there, at its place.
LEMMA AnewStep ==
  ASSUME NEW t, NEW u, NEW p, NEW n, Mends(t, u, p, n), NEW q \in Stays(t, u, p),
         NEW m \in Nat \ {0}, Nth(q, m) \notin Stays(t, u, p),
         NEW d, Lacks(d, u, Under(u, q) \ Stays(t, u, p)),
         NEW g, Halfway(g, d, t, u, p, q, n, m - 1, m)
  PROVE  \E e : Makes(g, Anew(u, q, m), e) /\ Halfway(e, d, t, u, p, q, n, m, m)
<1> DEFINE r == Nth(q, m)
           c == u[r].id
           i == t[q].id
           P == Stays(t, u, p)
           B == Branches(u, q, m - 1)
           L == Under(t, q) \ Branches(t, q, m)
<1>1. ShapeOK(u) /\ Siblings(u) /\ Grown(u) /\ ElderFirst(u) /\ IdsBelow(u, n) BY DEF Mends, Grown
<1>2. At(t, u, p, q, m) BY AtIs
<1>3. /\ q \in Paths /\ r \in Paths /\ q \in DOMAIN t /\ q \in DOMAIN u /\ u[q].id = i /\ i \in Nat
      /\ r # q /\ ChildOf(t, q, m) /\ ChildOf(u, q, m) /\ Under(u, r) \intersect P = {}
  BY <1>2 DEF At
<1>4. /\ Sound(g, n) /\ DOMAIN g \subseteq DOMAIN d \union Ids(u, B \ P)
      /\ Spares(g, d, t, q) /\ Shows(g, u, B \ {q}) /\ Shows(g, t, L)
      /\ i \in DOMAIN g /\ Lines(g[i], t, u, q, m - 1, m)
  BY DEF Halfway
<1>5. g \in Docs BY <1>4 DEF Sound
<1>6. CASE r \notin DOMAIN u
  <2>1. Anew(u, q, m) = <<>> BY <1>6 DEF Anew
  <2>2. Branches(u, q, m) = B /\ Lead(Kids(u, q), m) = Lead(Kids(u, q), m - 1)
    BY <1>3, <1>6 DEF ChildOf
  <2>3. Lines(g[i], t, u, q, m, m) BY <1>4, <2>2 DEF Lines
  <2>4. Halfway(g, d, t, u, p, q, n, m, m) BY <1>4, <2>2, <2>3 DEF Halfway
  <2>5. Makes(g, <<>>, g) BY <1>5, MakesNothing
  <2>6. QED BY <2>1, <2>4, <2>5
<1>7. CASE r \in DOMAIN u
  <2> DEFINE op == InsertOp(u[q].id, c, m - 1)
             a == Lead(Kids(u, q), m - 1)
             b == Rest(Kids(t, q), m)
  <2>1. Anew(u, q, m) = Append(EmitNode(u, r), op) BY <1>7 DEF Anew
  <2>2. Emits(u, n, r) BY <1>1, <1>7, EmitsAll
  <2>3. /\ Branches(u, q, m) = B \union Under(u, r) /\ B \intersect Under(u, r) = {}
        /\ Under(u, r) \subseteq Under(u, q) \ {q} /\ q \in B /\ Under(u, q) \subseteq DOMAIN u
        /\ Branches(u, q, m) \subseteq Under(u, q) /\ r \in Under(u, r)
        /\ Len(a) = m - 1 /\ Lead(Kids(u, q), m) = Append(a, c)
        /\ a \in Seq(Nat) /\ b \in Seq(Nat)
    BY <1>3, <1>7 DEF ChildOf
  <2>4. \A x, y \in DOMAIN u : u[x].id = u[y].id => x = y BY <1>1 DEF ShapeOK
  <2>5. Lacks(g, u, Under(u, r))
    <3> SUFFICES ASSUME NEW x \in Under(u, r), u[x].id \in DOMAIN g PROVE FALSE BY DEF Lacks
    <3>1. x \in Under(u, q) \ P BY <1>3, <2>3
    <3>2. u[x].id \notin DOMAIN d BY <3>1 DEF Lacks
    <3>3. PICK y \in B \ P : u[x].id = u[y].id BY <1>4, <3>2 DEF Ids
    <3>4. x = y BY <2>3, <2>4, <3>3
    <3>5. QED BY <2>3, <3>3, <3>4
  <2>6. PICK h : Makes(g, EmitNode(u, r), h) /\ Emitted(h, g, n, u, r)
    BY <1>4, <2>2, <2>5 DEF Emits
  <2>7. /\ Sound(h, n) /\ DOMAIN h = DOMAIN g \union Ids(u, Under(u, r))
        /\ \A j \in DOMAIN g : h[j] = g[j]
        /\ Shows(h, u, Under(u, r))
    BY <2>6 DEF Emitted
  <2>8. c \in Ids(u, Under(u, r)) /\ c \in DOMAIN h BY <2>3, <2>7 DEF Ids
  <2>9. Loose(h, c)
    <3> SUFFICES ASSUME NEW j \in DOMAIN h, c \in ToSet(h[j].inside) PROVE FALSE BY DEF Loose
    <3>1. CASE j \in DOMAIN g
      <4>1. c \in DOMAIN g BY <1>4, <2>7, <3>1 DEF Sound
      <4>2. QED BY <2>3, <2>5, <4>1 DEF Lacks
    <3>2. CASE j \in Ids(u, Under(u, r))
      <4>1. PICK x \in Under(u, r) : j = u[x].id BY <3>2 DEF Ids
      <4>2. h[j] = ElementOf(u, x) BY <2>7, <4>1 DEF Shows
      <4>3. h[j].inside = Kids(u, x) BY <4>2 DEF ElementOf
      <4>4. x \in DOMAIN u BY <2>3, <4>1
      <4>5. KidsOf(u, x) BY <1>1, <4>4, KidsIs
      <4>6. Front(r) = x BY <1>7, <4>3, <4>5 DEF KidsOf
      <4>7. Front(r) = q BY <1>3, NthIs
      <4>8. QED BY <2>3, <4>1, <4>6, <4>7
    <3>3. QED BY <2>7, <3>1, <3>2
  <2>10. i < c BY <1>1, <1>3, <1>7 DEF ElderFirst
  <2>11. i \in DOMAIN h /\ h[i] = g[i] BY <1>4, <2>7
  <2>12. PICK e : Makes(h, <<InsertOp(i, c, m - 1)>>, e) /\ Adopted(e, h, n, i, c, m - 1)
    <3>1. m - 1 \in Int OBVIOUS
    <3> HIDE DEF c, i
    <3>2. QED BY <2>7, <2>8, <2>9, <2>10, <2>11, <3>1, AdoptIs
  <2>13. /\ Sound(e, n) /\ DOMAIN e = DOMAIN h
         /\ \A j \in DOMAIN h : j # i => e[j] = h[j]
         /\ e[i] = [shell |-> h[i].shell, text |-> h[i].text, inside |-> InsertedAt(h[i].inside, c, m - 1)]
    BY <2>12 DEF Adopted
  <2>14. Makes(g, Anew(u, q, m), e)
    <3>1. Makes(g, EmitNode(u, r) \o <<op>>, e) BY <1>3, <2>6, <2>12, MakesThen
    <3>2. EmitNode(u, r) \in Seq(Ops) BY <2>6 DEF Makes
    <3>3. <<op>> \in Seq(Ops) BY <1>3, <2>12 DEF Makes
    <3> HIDE DEF op, Ops
    <3>4. Append(EmitNode(u, r), op) = EmitNode(u, r) \o <<op>> BY <3>2, <3>3
    <3>5. QED BY <2>1, <3>1, <3>4
  <2>15. \A j \in DOMAIN g : j # i => j \in DOMAIN e /\ e[j] = g[j] BY <2>7, <2>13
  <2>16. DOMAIN e \subseteq DOMAIN d \union Ids(u, Branches(u, q, m) \ P)
    <3>1. Ids(u, Under(u, r)) \subseteq Ids(u, Branches(u, q, m) \ P) BY <1>3, <2>3 DEF Ids
    <3>2. Ids(u, B \ P) \subseteq Ids(u, Branches(u, q, m) \ P) BY <2>3 DEF Ids
    <3>3. QED BY <1>4, <2>7, <2>13, <3>1, <3>2
  <2>17. Spares(e, d, t, q)
    <3> SUFFICES ASSUME NEW j, Spared(d, t, q, j) PROVE j \in DOMAIN e /\ e[j] = d[j] BY DEF Spares
    <3>1. j \in DOMAIN g /\ g[j] = d[j] BY <1>4 DEF Spares
    <3>2. IsPrefix(q, q) BY <1>3, PrefixOrder
    <3>3. j # i BY <1>3, <3>2 DEF Spared, Ids, Under
    <3>4. QED BY <2>15, <3>1, <3>3
  <2>18. Shows(e, u, Branches(u, q, m) \ {q})
    <3> SUFFICES ASSUME NEW x \in Branches(u, q, m) \ {q}
                 PROVE  u[x].id \in DOMAIN e /\ e[u[x].id] = ElementOf(u, x)
      BY DEF Shows
    <3>1. x \in DOMAIN u /\ u[x].id # i BY <1>3, <2>3, <2>4
    <3>2. u[x].id \in DOMAIN h /\ h[u[x].id] = ElementOf(u, x)
      <4>1. CASE x \in B BY <1>4, <2>7, <4>1 DEF Shows
      <4>2. CASE x \in Under(u, r) BY <2>7, <4>2 DEF Shows
      <4>3. QED BY <2>3, <4>1, <4>2
    <3>3. QED BY <2>13, <3>1, <3>2
  <2>19. Shows(e, t, L)
    <3> SUFFICES ASSUME NEW x \in L
                 PROVE  t[x].id \in DOMAIN e /\ e[t[x].id] = ElementOf(t, x)
      BY DEF Shows
    <3>1. ShapeOK(t) BY DEF Mends, Grown
    <3>2. x \in DOMAIN t /\ x # q BY <1>3 DEF ChildOf
    <3>3. t[x].id # i BY <1>3, <3>1, <3>2 DEF ShapeOK
    <3>4. t[x].id \in DOMAIN g /\ g[t[x].id] = ElementOf(t, x) BY <1>4 DEF Shows
    <3>5. QED BY <2>15, <3>3, <3>4
  <2>20. Lines(e[i], t, u, q, m, m)
    <3> DEFINE s == g[i].inside
    <3>1. g[i].shell = u[q].component /\ g[i].text = TextOf(u[q])
          /\ (s = a \o b \/ (s = <<>> /\ Arity(u, q) = 0))
      BY <1>4 DEF Lines
    <3>2. KidsOf(u, q) BY <1>1, <1>3, KidsIs
    <3>3. Arity(u, q) # 0
      <4>1. m \in 1 .. Arity(u, q) /\ Arity(u, q) \in Nat BY <1>7, <3>2 DEF KidsOf
      <4>2. QED BY <4>1
    <3>4. s = a \o b BY <3>1, <3>3
    <3>5. e[i].shell = g[i].shell /\ e[i].text = g[i].text /\ e[i].inside = InsertedAt(s, c, m - 1)
      <4>1. e[i] = [shell |-> g[i].shell, text |-> g[i].text, inside |-> InsertedAt(s, c, m - 1)]
        BY <2>11, <2>13
      <4> HIDE DEF i, c, s
      <4>2. QED BY <4>1
    <3>6. InsertedAt(s, c, m - 1) = Append(a, c) \o b
      <4>1. c \in Nat BY <1>1, <1>7, NodeIs
      <4>2. a \in Seq(Nat) /\ b \in Seq(Nat) /\ Len(a) = m - 1 BY <2>3
      <4> HIDE DEF a, b, c, s
      <4>3. InsertedAt(a \o b, c, Len(a)) = Append(a, c) \o b BY <4>1, <4>2, MiddleIs
      <4>4. QED BY <3>4, <4>2, <4>3
    <3>7. e[i].inside = Lead(Kids(u, q), m) \o Rest(Kids(t, q), m) BY <2>3, <3>5, <3>6
    <3>8. QED BY <3>1, <3>5, <3>7 DEF Lines
  <2>21. i \in DOMAIN e BY <2>11, <2>13
  <2>22. Halfway(e, d, t, u, p, q, n, m, m)
    BY <2>13, <2>16, <2>17, <2>18, <2>19, <2>20, <2>21 DEF Halfway
  <2>23. QED BY <2>14, <2>22
<1>8. QED BY <1>6, <1>7

\* A node that stays has its new text.
Texted(h, g, n, t, u, r) ==
  /\ Sound(h, n) /\ DOMAIN h = DOMAIN g
  /\ \A j \in DOMAIN g : j # t[r].id => h[j] = g[j]
  /\ Lines(h[t[r].id], t, u, r, 0, 0)

LEMMA TextStep ==
  ASSUME NEW t, ShapeOK(t), Siblings(t), NEW u, Grown(u), NEW n, NEW g, Sound(g, n),
         NEW r \in DOMAIN t, r \in DOMAIN u, u[r].id = t[r].id, t[r].component = u[r].component,
         t[r].id \in DOMAIN g, g[t[r].id] = ElementOf(t, r), Whole(NewText(t[r], u[r]))
  PROVE  \E h : Makes(g, NewText(t[r], u[r]), h) /\ Texted(h, g, n, t, u, r)
<1> DEFINE c == t[r].id
           ks == Kids(t, r)
           ls == Kids(u, r)
<1>1. ShapeOK(u) /\ Siblings(u) BY DEF Grown
<1>2. KidsOf(t, r) /\ KidsOf(u, r) BY <1>1, KidsIs
<1>3. ks \in Seq(Nat) /\ ls \in Seq(Nat) BY <1>2 DEF KidsOf
<1>4. Lead(ls, 0) = <<>> /\ Rest(ks, 0) = ks BY <1>3, LeadsAre DEF LeadsOf
<1>5. <<>> \o ks = ks BY <1>3
<1>6. g[c].shell = u[r].component /\ g[c].text = TextOf(t[r]) /\ g[c].inside = ks
  <2> HIDE DEF ks
  <2>1. ElementOf(t, r) = [shell |-> t[r].component, text |-> TextOf(t[r]), inside |-> ks]
    BY DEF ElementOf, ks
  <2>2. QED BY <2>1
<1>7. CASE t[r].text = u[r].text
  <2>1. NewText(t[r], u[r]) = <<>> BY <1>7 DEF NewText
  <2>2. TextOf(t[r]) = TextOf(u[r]) BY <1>7 DEF TextOf
  <2>3. Lines(g[c], t, u, r, 0, 0) BY <1>4, <1>5, <1>6, <2>2 DEF Lines
  <2>4. Texted(g, g, n, t, u, r) BY <2>3 DEF Texted
  <2>5. g \in Docs BY DEF Sound
  <2>6. Makes(g, <<>>, g) BY <2>5, MakesNothing
  <2>7. QED BY <2>1, <2>4, <2>6
<1>8. CASE t[r].text # u[r].text
  <2> DEFINE x == u[r].text
  <2>1. NewText(t[r], u[r]) = <<TextOp(c, x)>> BY <1>8 DEF NewText
  <2>2. x # None
    <3>1. /\ TextOp(c, x).cmd = "SET_TEXT" /\ TextOp(c, x).arg = x
      BY DEF TextOp, Opcode
    <3>2. 1 \in DOMAIN <<TextOp(c, x)>> /\ <<TextOp(c, x)>>[1] = TextOp(c, x) OBVIOUS
    <3>3. QED BY <2>1, <3>1, <3>2 DEF Whole
  <2>3. x \in Shown
    <3>1. u[r] \in Retained BY <1>1, NodeIs
    <3>2. QED BY <3>1, RetainedFields DEF Optional, Shown
  <2>4. Arity(u, r) = 0 BY <2>2, NothingBelowText
  <2>5. PICK h : Makes(g, <<TextOp(c, x)>>, h) /\ Rewritten(h, g, n, c, x)
    BY <2>3, RewriteIs
  <2>6. /\ Sound(h, n) /\ DOMAIN h = DOMAIN g
        /\ \A j \in DOMAIN g : j # c => h[j] = g[j]
        /\ h[c] = [shell |-> g[c].shell, text |-> x, inside |-> <<>>]
    BY <2>5 DEF Rewritten
  <2>7. h[c].shell = g[c].shell /\ h[c].text = x /\ h[c].inside = <<>>
    <3> HIDE DEF c, x
    <3>1. QED BY <2>6
  <2>8. TextOf(u[r]) = x BY <2>2 DEF TextOf
  <2>9. Lines(h[c], t, u, r, 0, 0) BY <1>6, <2>4, <2>7, <2>8 DEF Lines
  <2>10. Texted(h, g, n, t, u, r) BY <2>6, <2>9 DEF Texted
  <2>11. QED BY <2>1, <2>5, <2>10
<1>9. QED BY <1>7, <1>8

\* A child that stays, and all below it.
LEMMA KeptStep ==
  ASSUME NEW t, NEW u, NEW p, NEW n, Mends(t, u, p, n), NEW q \in Stays(t, u, p),
         NEW m \in Nat \ {0}, Nth(q, m) \in Stays(t, u, p),
         NEW f, Diffs(t, u, p, n, f, Nth(q, m)), Whole(f[Nth(q, m)]),
         Whole(NewText(t[Nth(q, m)], u[Nth(q, m)])),
         NEW d, Lacks(d, u, Under(u, q) \ Stays(t, u, p)),
         NEW g, Halfway(g, d, t, u, p, q, n, m - 1, m - 1)
  PROVE  \E e : /\ Makes(g, NewText(t[Nth(q, m)], u[Nth(q, m)]) \o f[Nth(q, m)], e)
                /\ Halfway(e, d, t, u, p, q, n, m, m)
<1> DEFINE r == Nth(q, m)
           c == t[r].id
           i == t[q].id
           P == Stays(t, u, p)
           B == Branches(u, q, m - 1)
           L == Under(t, q) \ Branches(t, q, m)
           a == Lead(Kids(u, q), m - 1)
           b == Rest(Kids(t, q), m)
<1>1. /\ Grown(t) /\ Grown(u) /\ ShapeOK(t) /\ ShapeOK(u) /\ Siblings(t) /\ Siblings(u)
      /\ Matched(u, t) /\ Matched(t, t) /\ p \in DOMAIN t /\ p \in DOMAIN u
  BY DEF Mends, Grown, ShapeOK, Matched
<1>2. At(t, u, p, q, m) BY AtIs
<1>3. /\ q \in Paths /\ r \in Paths /\ q \in DOMAIN t /\ q \in DOMAIN u /\ u[q].id = i /\ i \in Nat
      /\ r # q /\ ChildOf(t, q, m) /\ ChildOf(u, q, m) /\ IsStrictPrefix(q, r)
      /\ r \in DOMAIN t /\ r \in DOMAIN u /\ r \in Kept(t, u, p)
  BY <1>2 DEF At
<1>4. /\ Sound(g, n) /\ DOMAIN g \subseteq DOMAIN d \union Ids(u, B \ P)
      /\ Spares(g, d, t, q) /\ Shows(g, u, B \ {q})
      /\ Shows(g, t, Under(t, q) \ Branches(t, q, m - 1))
      /\ i \in DOMAIN g /\ Lines(g[i], t, u, q, m - 1, m - 1)
  BY DEF Halfway
<1>5. /\ Branches(u, q, m) = B \union Under(u, r) /\ B \intersect Under(u, r) = {}
      /\ Under(u, r) \subseteq Under(u, q) \ {q} /\ q \in B /\ Under(u, q) \subseteq DOMAIN u
      /\ Branches(u, q, m) \subseteq Under(u, q)
      /\ Lead(Kids(u, q), m) = Append(a, u[r].id)
      /\ a \in Seq(Nat) /\ ToSet(a) \subseteq ToSet(Kids(u, q))
  BY <1>3 DEF ChildOf
<1>6. /\ Branches(t, q, m) = Branches(t, q, m - 1) \union Under(t, r)
      /\ Branches(t, q, m - 1) \intersect Under(t, r) = {}
      /\ Under(t, r) \subseteq Under(t, q) \ {q} /\ Under(t, q) \subseteq DOMAIN t
      /\ r \in Under(t, r) /\ Rest(Kids(t, q), m - 1) = <<c>> \o b
      /\ b \in Seq(Nat) /\ ToSet(Rest(Kids(t, q), m - 1)) \subseteq ToSet(Kids(t, q))
      /\ Rest(Kids(t, q), m - 1) \in Seq(Nat)
  BY <1>3 DEF ChildOf
<1>7. u[r].id = c /\ c \in Nat /\ c # i /\ t[r].component = u[r].component
  <2>1. u[r].id = c BY DEF Mends
  <2>2. c # i BY <1>1, <1>3 DEF ShapeOK
  <2>3. t[r].component = u[r].component BY <1>1, <1>3, StaysAre DEF StaysOf
  <2>4. c \in Nat BY <1>1, <1>3, NodeIs
  <2>5. QED BY <2>1, <2>2, <2>3, <2>4
<1>8. c \in DOMAIN g /\ g[c] = ElementOf(t, r) BY <1>4, <1>6 DEF Shows
<1>9. PICK h : Makes(g, NewText(t[r], u[r]), h) /\ Texted(h, g, n, t, u, r)
  BY <1>1, <1>3, <1>4, <1>7, <1>8, TextStep
<1>10. /\ Sound(h, n) /\ DOMAIN h = DOMAIN g
       /\ \A j \in DOMAIN g : j # c => h[j] = g[j]
       /\ Lines(h[c], t, u, r, 0, 0)
  BY <1>9 DEF Texted
<1>11. \A x, y \in DOMAIN u : u[x].id = u[y].id => x = y BY <1>1 DEF ShapeOK
<1>12. \A x, y \in DOMAIN t : t[x].id = t[y].id => x = y BY <1>1 DEF ShapeOK
<1>13. Ready(h, t, u, p, r, n)
  <2>1. Lacks(h, u, Under(u, r) \ P)
    <3> SUFFICES ASSUME NEW x \in Under(u, r) \ P, u[x].id \in DOMAIN g PROVE FALSE
      BY <1>10 DEF Lacks
    <3>1. u[x].id \notin DOMAIN d BY <1>5 DEF Lacks
    <3>2. PICK y \in B \ P : u[x].id = u[y].id BY <1>4, <3>1 DEF Ids
    <3>3. x \in DOMAIN u /\ y \in DOMAIN u BY <1>5
    <3>4. x = y BY <1>11, <3>2, <3>3
    <3>5. QED BY <1>5, <3>4
  <2>2. Shows(h, t, Under(t, r) \ {r})
    <3> SUFFICES ASSUME NEW x \in Under(t, r) \ {r}
                 PROVE  t[x].id \in DOMAIN h /\ h[t[x].id] = ElementOf(t, x)
      BY DEF Shows
    <3>1. x \in DOMAIN t /\ x \in Under(t, q) \ Branches(t, q, m - 1) BY <1>6
    <3>2. t[x].id # c BY <1>3, <1>12, <3>1
    <3>3. t[x].id \in DOMAIN g /\ g[t[x].id] = ElementOf(t, x) BY <1>4, <3>1 DEF Shows
    <3>4. QED BY <1>10, <3>2, <3>3
  <2>3. c \in DOMAIN h BY <1>8, <1>10
  <2>4. QED BY <1>10, <2>1, <2>2, <2>3 DEF Ready
<1>14. PICK e : Makes(h, f[r], e) /\ Mended(e, h, t, u, p, r, n) BY <1>13 DEF Diffs
<1>15. /\ Sound(e, n) /\ DOMAIN e \subseteq DOMAIN h \union Ids(u, Under(u, r) \ P)
       /\ Spares(e, h, t, r) /\ Shows(e, u, Under(u, r))
  BY <1>14 DEF Mended
<1>16. Makes(g, NewText(t[r], u[r]) \o f[r], e) BY <1>9, <1>14, MakesThen
<1>17. Beside(e, g, t, r)
  <2> SUFFICES ASSUME NEW j, Spared(g, t, r, j) PROVE j \in DOMAIN e /\ e[j] = g[j]
    BY DEF Beside
  <2>1. j \in DOMAIN g /\ j \notin Ids(t, Under(t, r)) BY DEF Spared
  <2>2. c \in Ids(t, Under(t, r)) BY <1>6 DEF Ids
  <2>3. j # c BY <2>1, <2>2
  <2>4. j \in DOMAIN h /\ h[j] = g[j] BY <1>10, <2>1, <2>3
  <2>5. Spared(h, t, r, j) BY <2>4 DEF Spared
  <2>6. QED BY <1>15, <2>4, <2>5 DEF Spares
<1>18. Shows(g, t, L) BY <1>4, <1>6 DEF Shows
<1>19. Spares(e, d, t, q) /\ Shows(e, u, B \ {q}) /\ Shows(e, t, L)
  BY <1>4, <1>17, <1>18, BesideKeeps
<1>20. i \in DOMAIN e /\ e[i] = g[i]
  <2>1. ~IsPrefix(r, q) BY <1>3, PrefixOrder
  <2>2. /\ t[q].id \notin Ids(t, Under(t, r))
        /\ ToSet(Kids(t, q)) \intersect Ids(t, Under(t, r) \ {r}) = {}
    BY <1>1, <1>3, <2>1, ApartIs
  <2>3. ToSet(Kids(u, q)) \intersect Ids(t, Under(t, r) \ {r}) = {}
    BY <1>1, <1>3, <2>1, ApartIs
  <2>4. ToSet(g[i].inside) \subseteq ToSet(Kids(u, q)) \union ToSet(Kids(t, q))
    <3>1. CASE g[i].inside = a \o Rest(Kids(t, q), m - 1)
      <4>1. Both(a, Rest(Kids(t, q), m - 1)) BY <1>5, <1>6, BothIs
      <4>2. QED BY <1>5, <1>6, <3>1, <4>1 DEF Both
    <3>2. CASE g[i].inside = <<>> BY <3>2, EmptyIs
    <3>3. QED BY <1>4, <3>1, <3>2 DEF Lines
  <2>5. Spared(g, t, r, i) BY <1>4, <2>2, <2>3, <2>4 DEF Spared
  <2>6. i \in DOMAIN h /\ h[i] = g[i] BY <1>4, <1>7, <1>10
  <2>7. Spared(h, t, r, i) BY <2>5, <2>6 DEF Spared
  <2>8. QED BY <1>15, <2>6, <2>7 DEF Spares
<1>21. Lines(e[i], t, u, q, m, m)
  <2>1. a \o Rest(Kids(t, q), m - 1) = Lead(Kids(u, q), m) \o b
    <3>1. a \in Seq(Nat) /\ b \in Seq(Nat) /\ c \in Nat BY <1>5, <1>6, <1>7
    <3>2. Lead(Kids(u, q), m) = Append(a, c) /\ Rest(Kids(t, q), m - 1) = <<c>> \o b
      BY <1>5, <1>6, <1>7
    <3> HIDE DEF a, b, c
    <3>3. Shifts(a, b, c) BY <3>1, ShiftIs
    <3>4. QED BY <3>2, <3>3 DEF Shifts
  <2>2. QED BY <1>4, <1>20, <2>1 DEF Lines
<1>22. Shows(e, u, Branches(u, q, m) \ {q}) BY <1>5, <1>15, <1>19 DEF Shows
<1>23. DOMAIN e \subseteq DOMAIN d \union Ids(u, Branches(u, q, m) \ P)
  <2>1. Ids(u, Under(u, r) \ P) \subseteq Ids(u, Branches(u, q, m) \ P) BY <1>5 DEF Ids
  <2>2. Ids(u, B \ P) \subseteq Ids(u, Branches(u, q, m) \ P) BY <1>5 DEF Ids
  <2>3. QED BY <1>4, <1>10, <1>15, <2>1, <2>2
<1>24. Halfway(e, d, t, u, p, q, n, m, m)
  BY <1>15, <1>19, <1>20, <1>21, <1>22, <1>23 DEF Halfway
<1>25. QED BY <1>16, <1>24

LEMMA WholeParts ==
  ASSUME NEW a \in Seq(Ops), NEW b \in Seq(Ops), Whole(a \o b)
  PROVE  Whole(a) /\ Whole(b)
<1> DEFINE bad(op) == op.cmd = "SET_TEXT" /\ op.arg = None
           c == a \o b
<1>0. Len(a) \in Nat /\ Len(b) \in Nat /\ DOMAIN a = 1 .. Len(a) /\ DOMAIN b = 1 .. Len(b) OBVIOUS
<1> HIDE DEF Ops
<1>1. /\ DOMAIN c = 1 .. Len(a) + Len(b)
      /\ \A i \in 1 .. Len(a) : c[i] = a[i]
  BY <1>0
<1>2. ASSUME NEW i \in 1 .. Len(b) PROVE c[Len(a) + i] = b[i]
  <2>1. Len(a) + i \in Len(a) + 1 .. Len(a) + Len(b) /\ (Len(a) + i) - Len(a) = i BY <1>0
  <2>2. QED BY <2>1
<1>3. \A i \in DOMAIN c : ~bad(c[i]) BY DEF Whole
<1> HIDE DEF bad, c
<1>4. ASSUME NEW i \in DOMAIN a PROVE ~bad(a[i])
  <2>1. i \in DOMAIN c /\ c[i] = a[i] BY <1>0, <1>1
  <2>2. QED BY <1>3, <2>1
<1>5. ASSUME NEW i \in DOMAIN b PROVE ~bad(b[i])
  <2>1. Len(a) + i \in DOMAIN c /\ c[Len(a) + i] = b[i] BY <1>0, <1>1, <1>2
  <2>2. QED BY <1>3, <2>1
<1>6. QED BY <1>4, <1>5 DEF Whole, bad

LEMMA WholePart ==
  ASSUME NEW a, NEW b, Whole(b), Occurs(a, b)
  PROVE  Whole(a)
BY DEF Whole, Occurs

LEMMA NewTextTyped ==
  ASSUME NEW old, NEW fresh \in Retained
  PROVE  NewText(old, fresh) \in Seq(Ops)
<1>1. fresh.id \in Nat /\ fresh.text \in Shown BY RetainedFields DEF Optional, Shown
<1>2. 0 \in Nat /\ 0 \in Int OBVIOUS
<1>3. <<TextOp(fresh.id, fresh.text)>> \in Seq(Ops) BY <1>1, <1>2, OpsTyped
<1>4. <<>> \in Seq(Ops) OBVIOUS
<1>5. QED BY <1>3, <1>4 DEF NewText

\* A child, whatever becomes of it.
LEMMA PartStep ==
  ASSUME NEW t, NEW u, NEW p, NEW n, Mends(t, u, p, n), NEW q \in Stays(t, u, p),
         NEW m \in Nat \ {0}, NEW f,
         \A r \in Stays(t, u, p) : IsStrictPrefix(q, r) => Diffs(t, u, p, n, f, r),
         \A r \in Stays(t, u, p) : f[r] \in Seq(Ops),
         Whole(DiffPart(t, u, p, q, m, f)),
         NEW d, Lacks(d, u, Under(u, q) \ Stays(t, u, p)),
         NEW g, Halfway(g, d, t, u, p, q, n, m - 1, m - 1)
  PROVE  \E e : Makes(g, DiffPart(t, u, p, q, m, f), e) /\ Halfway(e, d, t, u, p, q, n, m, m)
<1> DEFINE r == Nth(q, m)
<1>1. At(t, u, p, q, m) BY AtIs
<1>2. /\ r \in Stays(t, u, p) <=> r \in Kept(t, u, p)
      /\ r \in Stays(t, u, p) => r \in DOMAIN u /\ IsStrictPrefix(q, r)
  BY <1>1 DEF At
<1>3. CASE r \in Stays(t, u, p)
  <2> DEFINE a == NewText(t[r], u[r])
             b == f[r]
  <2>1. DiffPart(t, u, p, q, m, f) = a \o b BY <1>2, <1>3 DEF DiffPart
  <2>2. ShapeOK(u) BY DEF Mends, Grown
  <2>3. u[r] \in Retained BY <1>2, <1>3, <2>2, NodeIs
  <2>4. a \in Seq(Ops) BY <2>3, NewTextTyped
  <2>5. b \in Seq(Ops) BY <1>3
  <2>6. Whole(a) /\ Whole(b)
    <3> HIDE DEF a, b
    <3>1. QED BY <2>1, <2>4, <2>5, WholeParts
  <2>7. Diffs(t, u, p, n, f, r) BY <1>2, <1>3
  <2>8. \E e : Makes(g, a \o b, e) /\ Halfway(e, d, t, u, p, q, n, m, m)
    BY <1>3, <2>6, <2>7, KeptStep
  <2>9. QED BY <2>1, <2>8
<1>4. CASE r \notin Stays(t, u, p)
  <2>1. DiffPart(t, u, p, q, m, f) = Away(t, u, q, m) \o Anew(u, q, m) BY <1>2, <1>4 DEF DiffPart
  <2>2. PICK h : Makes(g, Away(t, u, q, m), h) /\ Halfway(h, d, t, u, p, q, n, m - 1, m)
    BY AwayStep
  <2>3. PICK e : Makes(h, Anew(u, q, m), e) /\ Halfway(e, d, t, u, p, q, n, m, m)
    BY <1>4, <2>2, AnewStep
  <2>4. QED BY <2>1, <2>2, <2>3, MakesThen
<1>5. QED BY <1>3, <1>4

\* When the last is made the node is as it is to be.
LEMMA LastStep ==
  ASSUME NEW t, NEW u, NEW p, NEW n, Mends(t, u, p, n), NEW q \in Stays(t, u, p),
         NEW m \in Nat, m >= Arity(t, q), m >= Arity(u, q),
         NEW d, NEW e, Halfway(e, d, t, u, p, q, n, m, m)
  PROVE  Mended(e, d, t, u, p, q, n)
<1> DEFINE i == t[q].id
           ks == Kids(t, q)
           ls == Kids(u, q)
<1>1. /\ ShapeOK(t) /\ ShapeOK(u) /\ Siblings(t) /\ Siblings(u) /\ p \in DOMAIN t /\ p \in DOMAIN u
      /\ u[q].id = i
  BY DEF Mends, Grown
<1>2. q \in DOMAIN t /\ q \in DOMAIN u BY <1>1, StaysAre DEF StaysOf
<1>3. KidsOf(t, q) /\ KidsOf(u, q) /\ BranchesOf(u, q) BY <1>1, <1>2, KidsIs, BranchesAre
<1>4. Branches(u, q, m) = Under(u, q) BY <1>3 DEF BranchesOf
<1>5. /\ ks \in Seq(Nat) /\ ls \in Seq(Nat) /\ Len(ks) = Arity(t, q) /\ Len(ls) = Arity(u, q)
  BY <1>3 DEF KidsOf
<1>6. Lead(ls, m) = ls /\ Rest(ks, m) = <<>>
  <2> HIDE DEF ks, ls
  <2>1. LeadsOf(ks, Nat) /\ LeadsOf(ls, Nat) BY <1>5, LeadsAre
  <2>2. m >= Len(ks) /\ m >= Len(ls) BY <1>5
  <2>3. QED BY <2>1, <2>2 DEF LeadsOf
<1>7. /\ Sound(e, n) /\ DOMAIN e \subseteq DOMAIN d \union Ids(u, Under(u, q) \ Stays(t, u, p))
      /\ Spares(e, d, t, q) /\ Shows(e, u, Under(u, q) \ {q})
      /\ i \in DOMAIN e /\ Lines(e[i], t, u, q, m, m)
  BY <1>4 DEF Halfway
<1>8. e[i].shell = u[q].component /\ e[i].text = TextOf(u[q])
      /\ (e[i].inside = ls \o <<>> \/ (e[i].inside = <<>> /\ Arity(u, q) = 0))
  BY <1>6, <1>7 DEF Lines
<1>9. e[i].inside = ls
  <2> HIDE DEF ls
  <2>1. ls \o <<>> = ls BY <1>5
  <2>2. Arity(u, q) = 0 => ls = <<>> BY <1>5
  <2>3. QED BY <1>8, <2>1, <2>2
<1>10. e[i] = ElementOf(u, q)
  <2>1. e[i] \in Element
    <3>1. e \in Docs BY <1>7 DEF Sound
    <3>2. QED BY <1>7, <3>1, InsideIs
  <2> DEFINE x == e[i]
  <2>2. x \in Element /\ x.shell = u[q].component /\ x.text = TextOf(u[q]) /\ x.inside = ls
    BY <1>8, <1>9, <2>1
  <2> HIDE DEF x, ls
  <2>3. x = [shell |-> x.shell, text |-> x.text, inside |-> x.inside] BY <2>2 DEF Element
  <2>4. x = [shell |-> u[q].component, text |-> TextOf(u[q]), inside |-> ls] BY <2>2, <2>3
  <2>5. QED BY <2>4 DEF x, ls, ElementOf
<1>11. Shows(e, u, Under(u, q)) BY <1>1, <1>7, <1>10 DEF Shows
<1>12. QED BY <1>7, <1>11 DEF Mended

LEMMA DiffStep ==
  ASSUME NEW t, NEW u, NEW p, NEW n, Mends(t, u, p, n), NEW f, Diffed(t, u, p, f),
         NEW q \in Stays(t, u, p),
         \A r \in Stays(t, u, p) : IsStrictPrefix(q, r) => Diffs(t, u, p, n, f, r)
  PROVE  Diffs(t, u, p, n, f, q)
<1> SUFFICES ASSUME Whole(f[q]), NEW d, Ready(d, t, u, p, q, n)
             PROVE  \E e : Makes(d, f[q], e) /\ Mended(e, d, t, u, p, q, n)
  BY DEF Diffs
<1> DEFINE a == Most(t, u, q)
           s == DiffParts(t, u, p, q, f)
           Half(e, m) == Halfway(e, d, t, u, p, q, n, m, m)
<1>1. /\ f[q] = FlattenSeq(s) /\ a \in Nat /\ a >= Arity(t, q) /\ a >= Arity(u, q)
      /\ s \in [1 .. a -> Seq(Ops)]
  BY DEF Diffed
<1>2. \A r \in Stays(t, u, p) : f[r] \in Seq(Ops) BY DEF Diffed
<1>3. /\ Sound(d, n) /\ Lacks(d, u, Under(u, q) \ Stays(t, u, p))
      /\ Shows(d, t, Under(t, q) \ {q})
      /\ t[q].id \in DOMAIN d /\ Lines(d[t[q].id], t, u, q, 0, 0)
  BY DEF Ready
<1>4. /\ ShapeOK(t) /\ ShapeOK(u) /\ Siblings(t) /\ Siblings(u) /\ p \in DOMAIN t /\ p \in DOMAIN u
  BY DEF Mends, Grown
<1>5. q \in DOMAIN t /\ q \in DOMAIN u BY <1>4, StaysAre DEF StaysOf
<1>6. Half(d, 0)
  <2>1. BranchesOf(t, q) /\ BranchesOf(u, q) BY <1>4, <1>5, BranchesAre
  <2>2. Branches(t, q, 0) = {q} /\ Branches(u, q, 0) = {q} BY <2>1 DEF BranchesOf
  <2>3. Spares(d, d, t, q) BY DEF Spares, Spared
  <2>4. Shows(d, u, Branches(u, q, 0) \ {q}) BY <2>2 DEF Shows
  <2>5. DOMAIN d \subseteq DOMAIN d \union Ids(u, Branches(u, q, 0) \ Stays(t, u, p)) OBVIOUS
  <2>6. QED BY <1>3, <2>2, <2>3, <2>4, <2>5 DEF Halfway
<1> HIDE DEF s, Half, a
<1>7. PICK D : MadeOf(d, a, s, D)
  <2>1. d \in Docs BY <1>3 DEF Sound
  <2>2. QED BY <1>1, <2>1, MakesParts
<1>8. /\ D[0] = d /\ \A i \in 1 .. a : Makes(D[i - 1], s[i], D[i])
      /\ Makes(d, FlattenSeq(s), D[a])
  BY <1>7 DEF MadeOf
<1> DEFINE N == {m \in Nat : m <= a => Half(D[m], m)}
<1>9. 0 \in N BY <1>6, <1>8
<1>10. ASSUME NEW m \in Nat, m \in N PROVE m + 1 \in N
  <2> SUFFICES ASSUME m + 1 <= a PROVE Half(D[m + 1], m + 1) OBVIOUS
  <2>1. m + 1 \in 1 .. a /\ (m + 1) - 1 = m /\ m + 1 \in Nat \ {0} BY <1>1
  <2>2. Half(D[m], m) BY <1>1, <1>10, <2>1
  <2>3. Halfway(D[m], d, t, u, p, q, n, (m + 1) - 1, (m + 1) - 1) BY <2>1, <2>2 DEF Half
  <2> DEFINE k == m + 1
  <2>4. /\ k \in Nat \ {0} /\ k \in 1 .. a
        /\ Halfway(D[m], d, t, u, p, q, n, k - 1, k - 1)
    BY <2>1, <2>3
  <2>5. Makes(D[m], s[k], D[k])
    <3>1. Makes(D[(m + 1) - 1], s[m + 1], D[m + 1]) BY <1>8, <2>1
    <3>2. QED BY <2>1, <3>1 DEF k
  <2> HIDE DEF k
  <2>6. s[k] = DiffPart(t, u, p, q, k, f) BY <2>4 DEF s, DiffParts, a
  <2>7. Whole(s[k])
    <3>1. Occurs(s[k], FlattenSeq(s)) BY <1>1, <2>4, PartOccurs
    <3>2. QED BY <1>1, <3>1, WholePart
  <2>8. Whole(DiffPart(t, u, p, q, k, f)) BY <2>6, <2>7
  <2>9. PICK e : Makes(D[m], DiffPart(t, u, p, q, k, f), e) /\ Halfway(e, d, t, u, p, q, n, k, k)
    BY <1>2, <1>3, <2>4, <2>8, PartStep
  <2>10. Makes(D[m], s[k], e) /\ Half(e, k) BY <2>6, <2>9 DEF Half
  <2>11. D[k] = e BY <2>5, <2>10, MakesSame
  <2>12. QED BY <2>10, <2>11 DEF k
<1>11. Nat \subseteq N
  <2> HIDE DEF N
  <2>1. QED BY <1>9, <1>10, Inductive
<1>12. Half(D[a], a) BY <1>1, <1>11
<1>13. Mended(D[a], d, t, u, p, q, n)
  <2>1. Halfway(D[a], d, t, u, p, q, n, a, a) BY <1>12 DEF Half
  <2>2. QED BY <1>1, <2>1, LastStep
<1>14. Makes(d, f[q], D[a]) BY <1>1, <1>8
<1>15. QED BY <1>13, <1>14

\* reconcileChildren makes of the page of one tree that of the other, below a node
\* that stays, and changes nothing beside it.
LEMMA DiffsAll ==
  ASSUME NEW t, NEW u, NEW p, NEW n, Mends(t, u, p, n), NEW f, Diffed(t, u, p, f)
  PROVE  Diffs(t, u, p, n, f, p)
<1> DEFINE P == Stays(t, u, p)
           G == {r \in P : Diffs(t, u, p, n, f, r)}
<1>1. /\ ShapeOK(t) /\ ShapeOK(u) /\ p \in DOMAIN t /\ p \in DOMAIN u BY DEF Mends, Grown
<1>2. P \in SUBSET Paths /\ IsFiniteSet(P) BY <1>1, StaysAre DEF StaysOf
<1>3. \A q \in P : (\A r \in P : IsStrictPrefix(q, r) => r \in G) => q \in G
  <2> SUFFICES ASSUME NEW q \in P, \A r \in P : IsStrictPrefix(q, r) => r \in G PROVE q \in G
    OBVIOUS
  <2>1. \A r \in P : IsStrictPrefix(q, r) => Diffs(t, u, p, n, f, r) OBVIOUS
  <2>2. Diffs(t, u, p, n, f, q) BY <2>1, DiffStep
  <2>3. QED BY <2>2
<1>4. P \subseteq G
  <2> HIDE DEF P, G
  <2>1. QED BY <1>2, <1>3, BottomUp
<1>5. p \in P BY DEF Stays
<1>6. QED BY <1>4, <1>5

-----------------------------------------------------------------------------
(* Trees as they grow.                                                       *)

\* New ids are given in the order of the walk.
LEMMA NumberedOrder ==
  ASSUME NEW fresh, OnPaths(fresh), NEW old, NEW next \in Nat,
         NEW t, t = Numbered(fresh, old, next), NEW q \in DOMAIN fresh \ DOMAIN old
  PROVE  /\ next <= t[q].id
         /\ \A r \in DOMAIN fresh \ DOMAIN old : Before(q, r) => t[q].id < t[r].id
<1> DEFINE N == DOMAIN fresh \ DOMAIN old
           place(r) == Cardinality({s \in DOMAIN fresh \ DOMAIN old : Before(s, r)})
<1>1. N \in SUBSET Paths /\ IsFiniteSet(N) BY FS_Subset DEF OnPaths
<1>2. \A r \in N : t[r].id = next + place(r) BY DEF Numbered, Given
<1>3. ASSUME NEW r \in N
      PROVE  place(r) \in Nat /\ \A s \in N : Before(r, s) => place(r) < place(s)
  BY <1>1, PlaceIs
<1> HIDE DEF place
<1>4. next <= t[q].id
  <2>1. place(q) \in Nat BY <1>3
  <2>2. \A k \in Nat : next <= next + k OBVIOUS
  <2>3. QED BY <1>2, <2>1, <2>2
<1>5. ASSUME NEW r \in N, Before(q, r) PROVE t[q].id < t[r].id
  <2>1. place(q) \in Nat /\ place(r) \in Nat /\ place(q) < place(r) BY <1>3, <1>5
  <2>2. \A k \in Nat, l \in Nat : k < l => next + k < next + l OBVIOUS
  <2>3. QED BY <1>2, <2>1, <2>2
<1>6. QED BY <1>4, <1>5

\* Those that are new below a slot come after all that were there.
Freshly(t2, t, u, p, next) ==
  \A q \in Beneath(u, p) \ Kept(t, u, p) :
    /\ next <= t2[q].id
    /\ \A r \in Beneath(u, p) \ Kept(t, u, p) : Before(q, r) => t2[q].id < t2[r].id

LEMMA RefittedOrder ==
  ASSUME NEW t, NEW p, NEW u, IsTree(u), NEW next \in Nat,
         NEW t2, t2 = Refitted(t, u, p, next)
  PROVE  Freshly(t2, t, u, p, next)
<1> DEFINE B == Beneath(u, p)
           K == Kept(t, u, p)
           O == DOMAIN t \ Beneath(t, p)
           part == Part(u, B)
           old == [q \in K |-> t[q].id]
           n == Numbered(part, old, next)
<1>1. OnPaths(part)
  <2>1. DOMAIN part = B BY DEF Part
  <2>2. B \subseteq DOMAIN u BY DEF Beneath
  <2>3. DOMAIN u \in SUBSET Paths /\ IsFiniteSet(DOMAIN u) BY DEF IsTree
  <2>4. IsFiniteSet(B) BY <2>2, <2>3, FS_Subset
  <2>5. QED BY <2>1, <2>2, <2>3, <2>4 DEF OnPaths
<1>2. DOMAIN part = B /\ DOMAIN old = K BY DEF Part
<1>3. DOMAIN n = B BY <1>2 DEF Numbered
<1>4. t2 = Over(n, Part(t, O)) BY DEF Refitted
<1> HIDE DEF B, K, O, part, old
<1>5. ASSUME NEW q \in B \ K
      PROVE  next <= n[q].id /\ \A r \in B \ K : Before(q, r) => n[q].id < n[r].id
  <2>1. q \in DOMAIN part \ DOMAIN old BY <1>2
  <2>2. n = Numbered(part, old, next) OBVIOUS
  <2> HIDE DEF n
  <2>3. /\ next <= n[q].id
        /\ \A r \in DOMAIN part \ DOMAIN old : Before(q, r) => n[q].id < n[r].id
    BY <1>1, <2>1, <2>2, NumberedOrder
  <2>4. QED BY <1>2, <2>3
<1> HIDE DEF n
<1>6. \A q \in B : t2[q] = n[q] BY <1>3, <1>4 DEF Over
<1>7. QED BY <1>5, <1>6 DEF Freshly, B, K

LEMMA MountedGrown ==
  ASSUME NEW r \in Roots, NEW v \in Valuations, NEW t, t = Numbered(Render[r][v], <<>>, 1),
         ShapeOK(t)
  PROVE  Grown(t)
<1> DEFINE u == Render[r][v]
<1>1. IsTree(u) BY RenderedTree
<1>2. TextsHoldNothing(u) BY RenderAssumption
<1> HIDE DEF u
<1>3. t = Numbered(u, <<>>, 1) BY DEF u
<1>4. OnPaths(u) BY <1>1 DEF IsTree, OnPaths
<1>5. DOMAIN u \ DOMAIN <<>> = DOMAIN u OBVIOUS
<1>6. /\ DOMAIN t = DOMAIN u /\ \A q \in DOMAIN u : Bears(t[q], u[q])
  <2>1. RightlyNumbered(t, u, <<>>, 1, DOMAIN u \ DOMAIN <<>>) BY <1>3, <1>4, NumberedIs
  <2>2. QED BY <2>1 DEF RightlyNumbered
<1>7. \A q \in DOMAIN u : t[q].text = u[q].text /\ t[q].bind = u[q].bind /\ t[q].slot = u[q].slot
  <2> SUFFICES ASSUME NEW q \in DOMAIN u
               PROVE  t[q].text = u[q].text /\ t[q].bind = u[q].bind /\ t[q].slot = u[q].slot
    OBVIOUS
  <2> DEFINE x == t[q]
             y == u[q]
  <2>1. x = Given(y, x.id) BY <1>6 DEF Bears
  <2> HIDE DEF x, y
  <2>2. x.text = y.text /\ x.bind = y.bind /\ x.slot = y.slot
    <3> DEFINE k == x.id
    <3> HIDE DEF k
    <3>1. x = Given(y, k) BY <2>1 DEF k
    <3>2. QED BY <3>1 DEF Given
  <2>3. QED BY <2>2 DEF x, y
<1>8. Siblings(t) BY <1>1, <1>6 DEF Siblings, IsTree
<1>9. ElderFirst(t)
  <2> SUFFICES ASSUME NEW q \in DOMAIN t, NEW i \in Nat \ {0}, Nth(q, i) \in DOMAIN t
               PROVE  t[q].id < t[Nth(q, i)].id
    BY DEF ElderFirst
  <2>1. q \in Paths BY NodeIs
  <2>2. IsStrictPrefix(q, Nth(q, i)) BY <2>1, NthIs
  <2>3. Before(q, Nth(q, i)) BY <2>2 DEF Before
  <2>4. q \in DOMAIN u \ DOMAIN <<>> /\ Nth(q, i) \in DOMAIN u \ DOMAIN <<>> BY <1>5, <1>6
  <2>5. 1 \in Nat OBVIOUS
  <2>6. QED BY <1>3, <1>4, <2>3, <2>4, <2>5, NumberedOrder
<1>10. TextsHoldNothing(t) BY <1>2, <1>6, <1>7 DEF TextsHoldNothing
<1>11. QED BY <1>8, <1>9, <1>10 DEF Grown

LEMMA RefittedSiblings ==
  ASSUME NEW t, Siblings(t), NEW t2, NEW p, NEW u, IsTree(u), Fits(t2, t, p, Beneath(u, p))
  PROVE  Siblings(t2)
<1> SUFFICES ASSUME NEW q \in DOMAIN t2, q # <<>>, Last(q) > 1
             PROVE  Append(Front(q), Last(q) - 1) \in DOMAIN t2
  BY DEF Siblings
<1> DEFINE f == Front(q)
           k == Last(q) - 1
           s == Nth(f, k)
<1>1. /\ DOMAIN t2 \in SUBSET Paths /\ p \in Paths
      /\ \A r : r \in Outside(t, p) <=> r \in DOMAIN t /\ ~IsStrictPrefix(p, r)
      /\ \A r : r \in Outside(t, p) <=> r \in DOMAIN t2 /\ ~IsStrictPrefix(p, r)
      /\ \A r : r \in Beneath(u, p) <=> r \in DOMAIN t2 /\ IsStrictPrefix(p, r)
  BY FitsIs
<1>2. q \in Paths BY <1>1
<1>3. f \in Paths /\ Last(q) \in Nat \ {0} /\ IsStrictPrefix(f, q) BY <1>2, FrontIs
<1>4. k \in Nat \ {0} BY <1>3
<1>5. s \in Paths /\ Front(s) = f /\ IsStrictPrefix(f, s) /\ s # <<>> BY <1>3, <1>4, NthIs
<1>6. s = Append(Front(q), Last(q) - 1) BY DEF Nth
<1> HIDE DEF f, k, s
<1>7. CASE IsStrictPrefix(p, q)
  <2>1. q \in DOMAIN u BY <1>1, <1>7 DEF Beneath
  <2>2. s \in DOMAIN u BY <1>6, <2>1 DEF IsTree
  <2>3. IsPrefix(p, f) BY <1>1, <1>2, <1>7, FrontIs DEF f
  <2>4. IsStrictPrefix(p, s) BY <1>1, <1>3, <1>5, <2>3, PrefixOrder
  <2>5. s \in Beneath(u, p) BY <2>2, <2>4 DEF Beneath
  <2>6. QED BY <1>1, <1>6, <2>5
<1>8. CASE ~IsStrictPrefix(p, q)
  <2>1. q \in DOMAIN t BY <1>1, <1>8
  <2>2. s \in DOMAIN t BY <1>6, <2>1 DEF Siblings
  <2>3. ASSUME IsStrictPrefix(p, s) PROVE FALSE
    <3>1. IsPrefix(p, f) BY <1>1, <1>5, <2>3, FrontIs
    <3>2. IsStrictPrefix(p, q) BY <1>1, <1>2, <1>3, <3>1, PrefixOrder
    <3>3. QED BY <1>8, <3>2
  <2>4. QED BY <1>1, <1>6, <2>2, <2>3
<1>9. QED BY <1>7, <1>8

\* What keeps its id has a parent that does.
LEMMA KeptParent ==
  ASSUME NEW t, ShapeOK(t), NEW u, IsTree(u), NEW p \in DOMAIN t,
         NEW q \in Paths, NEW i \in Nat \ {0}, Nth(q, i) \in Kept(t, u, p)
  PROVE  q = p \/ q \in Kept(t, u, p)
<1> DEFINE r == Nth(q, i)
<1>1. /\ r \in Paths /\ IsStrictPrefix(q, r) /\ Front(r) = q /\ r # <<>> BY NthIs
<1>2. /\ DOMAIN t \in SUBSET Paths /\ Rooted(DOMAIN t) /\ DOMAIN u \in SUBSET Paths
      /\ Rooted(DOMAIN u) /\ p \in Paths
  BY TreeRooted DEF ShapeOK, IsTree
<1> HIDE DEF r
<1>3. /\ r \in DOMAIN t /\ r \in DOMAIN u /\ IsStrictPrefix(p, r)
      /\ \A k \in Len(p) + 1 .. Len(r) :
           t[SubSeq(r, 1, k)].component = u[SubSeq(r, 1, k)].component
  BY DEF Kept, Beneath, r
<1>4. IsPrefix(p, q) BY <1>1, <1>2, <1>3, FrontIs
<1>5. SUFFICES ASSUME q # p PROVE q \in Kept(t, u, p) OBVIOUS
<1>6. IsStrictPrefix(p, q) BY <1>2, <1>4, <1>5, PrefixOrder
<1>7. IsPrefix(q, r) BY <1>1 DEF IsStrictPrefix
<1>8. q \in DOMAIN t /\ q \in DOMAIN u BY <1>2, <1>3, <1>7 DEF Rooted
<1>9. /\ Len(p) \in Nat /\ Len(q) \in Nat /\ Len(r) \in Nat /\ Len(q) <= Len(r)
      /\ \A k \in 1 .. Len(q) : q[k] = r[k]
  BY <1>1, <1>2, <1>7, PrefixIs DEF Paths
<1>10. ASSUME NEW k \in Len(p) + 1 .. Len(q)
       PROVE  t[SubSeq(q, 1, k)].component = u[SubSeq(q, 1, k)].component
  <2>1. k \in Len(p) + 1 .. Len(r) /\ k \in 0 .. Len(r) /\ k \in 0 .. Len(q) BY <1>9
  <2> DEFINE a == SubSeq(q, 1, k)
             b == SubSeq(r, 1, k)
  <2>2. a \in Paths /\ Len(a) = k /\ \A j \in 1 .. k : a[j] = q[j] BY <2>1, PrefixOf
  <2>3. b \in Paths /\ Len(b) = k /\ \A j \in 1 .. k : b[j] = r[j] BY <1>1, <2>1, PrefixOf
  <2>4. t[b].component = u[b].component BY <1>3, <2>1
  <2> HIDE DEF a, b
  <2>5. \A j \in 1 .. k : a[j] = b[j] BY <1>9, <2>1, <2>2, <2>3
  <2>6. a = b BY <2>2, <2>3, <2>5 DEF Paths
  <2>7. QED BY <2>4, <2>6 DEF a
<1>11. QED BY <1>6, <1>8, <1>10 DEF Kept, Beneath

LEMMA RefittedElder ==
  ASSUME NEW t, ShapeOK(t), ElderFirst(t), NEW p \in DOMAIN t, NEW u, IsTree(u), NEW next \in Nat,
         IdsBelow(t, next), NEW t2, NEW n2, Refits(t2, t, u, p, n2), Freshly(t2, t, u, p, next)
  PROVE  ElderFirst(t2)
<1> SUFFICES ASSUME NEW q \in DOMAIN t2, NEW i \in Nat \ {0}, Nth(q, i) \in DOMAIN t2
             PROVE  t2[q].id < t2[Nth(q, i)].id
  BY DEF ElderFirst
<1> DEFINE r == Nth(q, i)
           B == Beneath(u, p)
           K == Kept(t, u, p)
<1>1. /\ Fits(t2, t, p, B) /\ \A x \in K : t2[x].id = t[x].id
  BY DEF Refits
<1>2. /\ DOMAIN t2 \in SUBSET Paths /\ p \in Paths
      /\ \A x : x \in Outside(t, p) <=> x \in DOMAIN t /\ ~IsStrictPrefix(p, x)
      /\ \A x : x \in Outside(t, p) <=> x \in DOMAIN t2 /\ ~IsStrictPrefix(p, x)
      /\ \A x : x \in B <=> x \in DOMAIN t2 /\ IsStrictPrefix(p, x)
  BY <1>1, FitsIs
<1>3. /\ q \in Paths /\ \A x \in Outside(t, p) : t2[x] = t[x] BY <1>1, <1>2 DEF Fits
<1>4. r \in Paths /\ IsStrictPrefix(q, r) /\ Front(r) = q /\ r # <<>> BY <1>3, NthIs
<1>5. Before(q, r) BY <1>4 DEF Before
<1>6. K \subseteq DOMAIN t BY DEF Kept, Beneath
<1>7. \A x \in DOMAIN t : t[x].id \in Nat BY NodeIs
<1>8. ShapeOK(t2) BY <1>1 DEF Fits
<1>9. t2[q].id \in Nat /\ t2[r].id \in Nat BY <1>8, NodeIs
<1>10. ElderFirst(t) /\ r \in DOMAIN t /\ q \in DOMAIN t => t[q].id < t[r].id BY DEF ElderFirst
<1> HIDE DEF r, B, K
<1>11. CASE ~IsStrictPrefix(p, r)
  <2>1. ~IsStrictPrefix(p, q)
    <3>1. IsPrefix(q, r) BY <1>4 DEF IsStrictPrefix
    <3>2. QED BY <1>2, <1>3, <1>4, <1>11, <3>1, PrefixOrder
  <2>2. q \in Outside(t, p) /\ r \in Outside(t, p) BY <1>2, <1>11, <2>1 DEF r
  <2>3. t2[q] = t[q] /\ t2[r] = t[r] /\ q \in DOMAIN t /\ r \in DOMAIN t BY <1>2, <1>3, <2>2
  <2>4. QED BY <1>10, <2>3 DEF r
<1>12. CASE IsStrictPrefix(p, r) /\ r \in K
  <2>1. q = p \/ q \in K BY <1>3, <1>12, KeptParent DEF r, K
  <2>2. q \in DOMAIN t /\ t2[q].id = t[q].id
    <3>1. CASE q \in K BY <1>1, <1>6, <3>1
    <3>2. CASE q = p
      <4>1. ~IsStrictPrefix(p, q) BY <1>2, <3>2, PrefixOrder
      <4>2. QED BY <1>2, <1>3, <4>1
    <3>3. QED BY <2>1, <3>1, <3>2
  <2>3. r \in DOMAIN t /\ t2[r].id = t[r].id BY <1>1, <1>6, <1>12
  <2>4. t[q].id < t[r].id BY <1>10, <2>2, <2>3 DEF r
  <2>5. QED BY <2>2, <2>3, <2>4 DEF r
<1>13. CASE IsStrictPrefix(p, r) /\ r \notin K
  <2>1. r \in B \ K BY <1>2, <1>13 DEF r
  <2>2. next <= t2[r].id BY <2>1 DEF Freshly, B, K
  <2>3. IsPrefix(p, q) BY <1>2, <1>4, <1>13, FrontIs
  <2>4. CASE q \in B \ K BY <1>5, <2>1, <2>4 DEF Freshly, B, K, r
  <2>5. CASE q \notin B \ K
    <3>1. q \in DOMAIN t /\ t2[q].id = t[q].id
      <4>1. CASE q \in K BY <1>1, <1>6, <4>1
      <4>2. CASE q \notin B BY <1>2, <1>3, <4>2
      <4>3. QED BY <2>5, <4>1, <4>2
    <3>2. t[q].id < next BY <3>1 DEF IdsBelow
    <3>3. QED BY <1>9, <2>2, <3>1, <3>2 DEF r
  <2>6. QED BY <2>4, <2>5
<1>14. QED BY <1>11, <1>12, <1>13

LEMMA RefittedTexts ==
  ASSUME NEW t, TextsHoldNothing(t), NEW p, t[p].slot # None, NEW u, TextsHoldNothing(u),
         NEW t2, NEW n2, Refits(t2, t, u, p, n2)
  PROVE  TextsHoldNothing(t2)
<1> SUFFICES ASSUME NEW q \in DOMAIN t2, t2[q].text # None \/ t2[q].bind # None
             PROVE  t2[q].slot = None /\ \A r \in DOMAIN t2 : ~IsStrictPrefix(q, r)
  BY DEF TextsHoldNothing
<1> DEFINE B == Beneath(u, p)
<1>1. Fits(t2, t, p, B) /\ ShowsNow(t2, u, B) BY DEF Refits
<1>2. /\ DOMAIN t2 \in SUBSET Paths /\ p \in Paths
      /\ \A x : x \in Outside(t, p) <=> x \in DOMAIN t /\ ~IsStrictPrefix(p, x)
      /\ \A x : x \in Outside(t, p) <=> x \in DOMAIN t2 /\ ~IsStrictPrefix(p, x)
      /\ \A x : x \in B <=> x \in DOMAIN t2 /\ IsStrictPrefix(p, x)
  BY <1>1, FitsIs
<1>3. B \subseteq DOMAIN u BY DEF Beneath
<1>4. p \in DOMAIN t /\ \A x \in Outside(t, p) : t2[x] = t[x] BY <1>1 DEF Fits
<1> HIDE DEF B
<1>5. CASE q \in B
  <2>1. Stands(t2[q], u[q]) /\ t2[q].text = u[q].text BY <1>1, <1>5 DEF ShowsNow
  <2>2. u[q].text # None \/ u[q].bind # None BY <2>1 DEF Stands
  <2>3. u[q].slot = None /\ \A r \in DOMAIN u : ~IsStrictPrefix(q, r)
    BY <1>3, <1>5, <2>2 DEF TextsHoldNothing
  <2>4. t2[q].slot = None BY <2>1, <2>3 DEF Stands
  <2>5. ASSUME NEW r \in DOMAIN t2, IsStrictPrefix(q, r) PROVE FALSE
    <3>1. IsStrictPrefix(p, q) BY <1>2, <1>5
    <3>2. q \in Paths /\ r \in Paths BY <1>2
    <3>3. IsPrefix(q, r) BY <2>5 DEF IsStrictPrefix
    <3>4. IsStrictPrefix(p, r) BY <1>2, <3>1, <3>2, <3>3, PrefixOrder
    <3>5. r \in DOMAIN u BY <1>2, <1>3, <3>4
    <3>6. QED BY <2>3, <2>5, <3>5
  <2>6. QED BY <2>4, <2>5
<1>6. CASE q \notin B
  <2>1. q \in Outside(t, p) /\ q \in DOMAIN t /\ ~IsStrictPrefix(p, q) BY <1>2, <1>6
  <2>2. t2[q] = t[q] BY <1>4, <2>1
  <2>3. t[q].slot = None /\ \A r \in DOMAIN t : ~IsStrictPrefix(q, r)
    BY <2>1, <2>2 DEF TextsHoldNothing
  <2>4. q # p BY <2>3
  <2>5. ASSUME NEW r \in DOMAIN t2, IsStrictPrefix(q, r) PROVE FALSE
    <3>1. q \in Paths /\ r \in Paths /\ IsPrefix(q, r) BY <1>2, <2>5 DEF IsStrictPrefix
    <3>2. CASE ~IsStrictPrefix(p, r) BY <1>2, <2>3, <2>5, <3>2
    <3>3. CASE IsStrictPrefix(p, r)
      <4>1. IsPrefix(p, r) BY <3>3 DEF IsStrictPrefix
      <4>2. IsPrefix(p, q) \/ IsStrictPrefix(q, p) BY <1>2, <3>1, <4>1, PrefixOrder
      <4>3. ~IsPrefix(p, q) BY <1>2, <2>1, <2>4, <3>1, PrefixOrder
      <4>4. QED BY <1>4, <2>3, <4>2, <4>3
    <3>4. QED BY <3>2, <3>3
  <2>6. QED BY <2>2, <2>3, <2>5
<1>7. QED BY <1>5, <1>6

-----------------------------------------------------------------------------
(* The page of a slot's effect.                                              *)

\* What is kept of the tree is kept of what is rendered.
LEMMA KeptSame ==
  ASSUME NEW t, ShapeOK(t), NEW t2, NEW p, NEW u, IsTree(u), NEW n2, Refits(t2, t, u, p, n2)
  PROVE  Kept(t, t2, p) = Kept(t, u, p)
<1> DEFINE B == Beneath(u, p)
           Same(w, q) == \A k \in Len(p) + 1 .. Len(q) :
                           t[SubSeq(q, 1, k)].component = w[SubSeq(q, 1, k)].component
<1>1. Fits(t2, t, p, B) /\ ShowsNow(t2, u, B) BY DEF Refits
<1>2. /\ DOMAIN t \in SUBSET Paths /\ DOMAIN t2 \in SUBSET Paths /\ p \in Paths
      /\ \A x : x \in B <=> x \in DOMAIN t2 /\ IsStrictPrefix(p, x)
  BY <1>1, FitsIs
<1>3. \A x \in B : t2[x].component = u[x].component BY <1>1 DEF ShowsNow, Stands
<1>4. Rooted(DOMAIN u) /\ DOMAIN u \in SUBSET Paths BY TreeRooted DEF IsTree
<1>5. Beneath(t2, p) = B BY <1>2 DEF Beneath
<1>6. ASSUME NEW q \in Paths, q \in Beneath(u, p), NEW k \in Len(p) + 1 .. Len(q)
      PROVE  t2[SubSeq(q, 1, k)].component = u[SubSeq(q, 1, k)].component
  <2> DEFINE r == SubSeq(q, 1, k)
  <2>1. IsStrictPrefix(p, q) /\ q \in DOMAIN u BY <1>6 DEF Beneath
  <2>2. Len(p) \in Nat /\ Len(q) \in Nat BY <1>2 DEF Paths
  <2>3. k \in 0 .. Len(q) /\ Len(p) < k /\ k \in Nat BY <2>2
  <2>4. r \in Paths /\ IsPrefix(r, q) /\ Len(r) = k BY <2>3, PrefixOf
  <2> HIDE DEF r
  <2>5. r \in DOMAIN u BY <1>4, <2>1, <2>4 DEF Rooted
  <2>6. IsPrefix(p, q) BY <2>1 DEF IsStrictPrefix
  <2>7. IsPrefix(p, r) \/ IsStrictPrefix(r, p) BY <1>2, <2>4, <2>6, PrefixOrder
  <2>8. ~IsPrefix(r, p) BY <1>2, <2>2, <2>3, <2>4, PrefixIs
  <2>9. IsPrefix(p, r) BY <2>7, <2>8 DEF IsStrictPrefix
  <2>10. IsStrictPrefix(p, r) BY <1>2, <2>3, <2>4, <2>9, PrefixIs
  <2>11. r \in Beneath(u, p) BY <2>5, <2>10 DEF Beneath
  <2>12. QED BY <1>3, <2>11 DEF r
<1>7. Kept(t, t2, p) = {q \in Beneath(t, p) \intersect B : Same(t2, q)} BY <1>5 DEF Kept
<1>8. Kept(t, u, p) = {q \in Beneath(t, p) \intersect B : Same(u, q)} BY DEF Kept
<1>9. ASSUME NEW q \in Beneath(t, p) \intersect B PROVE Same(t2, q) <=> Same(u, q)
  <2>1. q \in Paths /\ q \in Beneath(u, p) BY <1>2 DEF Beneath
  <2>2. QED BY <1>6, <2>1
<1> HIDE DEF Same, B
<1>10. QED BY <1>7, <1>8, <1>9

\* Trees before and after, and where they differ.
Turns(t, u, p, m, n) ==
  /\ Mends(t, u, p, n) /\ m \in Nat /\ n \in Nat /\ m <= n /\ IdsBelow(t, m)
  /\ \A q \in DOMAIN t : ~IsStrictPrefix(p, q) => q \in DOMAIN u
  /\ \A q \in DOMAIN u : ~IsStrictPrefix(p, q) => q \in DOMAIN t /\ u[q] = t[q]
  /\ \A q \in DOMAIN u : IsStrictPrefix(p, q) /\ q \notin Stays(t, u, p) => m <= u[q].id

LEMMA TurnsIs ==
  ASSUME NEW t, Grown(t), NEW p \in DOMAIN t, t[p].slot # None,
         NEW u, IsTree(u), TextsHoldNothing(u), NEW m \in Nat, IdsBelow(t, m),
         NEW t2, t2 = Refitted(t, u, p, m),
         NEW n, n = m + Cardinality(Beneath(u, p) \ Kept(t, u, p))
  PROVE  Turns(t, t2, p, m, n)
<1> DEFINE B == Beneath(u, p)
           K == Kept(t, u, p)
<1>1. ShapeOK(t) /\ Siblings(t) /\ ElderFirst(t) /\ TextsHoldNothing(t) BY DEF Grown
<1>2. Refits(t2, t, u, p, n) BY <1>1, RefittedIs
<1>3. /\ Fits(t2, t, p, B) /\ n \in Nat /\ IdsBelow(t2, n) /\ \A q \in K : t2[q].id = t[q].id
  BY <1>2 DEF Refits
<1>4. Freshly(t2, t, u, p, m) BY RefittedOrder
<1>5. ShapeOK(t2) /\ \A q \in Outside(t, p) : t2[q] = t[q] BY <1>3 DEF Fits
<1>6. Grown(t2)
  <2>1. Siblings(t2) BY <1>1, <1>3, RefittedSiblings
  <2>2. ElderFirst(t2) BY <1>1, <1>2, <1>4, RefittedElder
  <2>3. TextsHoldNothing(t2) BY <1>1, <1>2, RefittedTexts
  <2>4. QED BY <1>5, <2>1, <2>2, <2>3 DEF Grown
<1>7. Kept(t, t2, p) = K BY <1>1, <1>2, KeptSame
<1>8. /\ p \in Paths
      /\ \A q : q \in Outside(t, p) <=> q \in DOMAIN t /\ ~IsStrictPrefix(p, q)
      /\ \A q : q \in Outside(t, p) <=> q \in DOMAIN t2 /\ ~IsStrictPrefix(p, q)
      /\ \A q : q \in B <=> q \in DOMAIN t2 /\ IsStrictPrefix(p, q)
  BY <1>3, FitsIs
<1>9. ~IsStrictPrefix(p, p) BY <1>8, PrefixOrder
<1>10. p \in DOMAIN t2 /\ t2[p] = t[p] BY <1>5, <1>8, <1>9
<1>11. m <= n
  <2>1. IsFiniteSet(B \ K)
    <3>1. B \ K \subseteq DOMAIN u BY DEF Beneath
    <3>2. IsFiniteSet(DOMAIN u) BY DEF IsTree
    <3>3. QED BY <3>1, <3>2, FS_Subset
  <2>2. Cardinality(B \ K) \in Nat BY <2>1, FS_CardinalityType
  <2>3. QED BY <2>2
<1>12. K \subseteq DOMAIN t /\ K \subseteq B BY DEF Kept, Beneath
<1> HIDE DEF B, K
<1>13. \A q \in B \ K : m <= t2[q].id BY <1>4 DEF Freshly, B, K
<1>14. IdsBelow(t, n)
  <2>1. \A q \in DOMAIN t : t[q].id \in Nat /\ t[q].id < m BY <1>1, NodeIs DEF IdsBelow
  <2>2. QED BY <1>3, <1>11, <2>1 DEF IdsBelow
<1>15. Matched(t2, t)
  <2> SUFFICES ASSUME NEW q \in DOMAIN t2, NEW r \in DOMAIN t, t2[q].id = t[r].id PROVE q = r
    BY DEF Matched
  <2>1. \A x, y \in DOMAIN t : t[x].id = t[y].id => x = y BY <1>1 DEF ShapeOK
  <2>2. CASE q \in B \ K
    <3>1. m <= t2[q].id /\ t[r].id < m /\ t[r].id \in Nat BY <1>1, <1>13, <2>2, NodeIs DEF IdsBelow
    <3>2. QED BY <3>1
  <2>3. CASE q \notin B \ K
    <3>1. q \in DOMAIN t /\ t2[q].id = t[q].id BY <1>3, <1>5, <1>8, <1>12, <2>3
    <3>2. QED BY <2>1, <3>1
  <2>4. QED BY <2>2, <2>3
<1>16. \A q \in Stays(t, t2, p) : t2[q].id = t[q].id BY <1>3, <1>7, <1>10 DEF Stays
<1>17. Mends(t, t2, p, n) BY <1>3, <1>6, <1>10, <1>14, <1>15, <1>16 DEF Mends
<1>18. /\ \A q \in DOMAIN t : ~IsStrictPrefix(p, q) => q \in DOMAIN t2
       /\ \A q \in DOMAIN t2 : ~IsStrictPrefix(p, q) => q \in DOMAIN t /\ t2[q] = t[q]
  BY <1>5, <1>8
<1>19. \A q \in DOMAIN t2 : IsStrictPrefix(p, q) /\ q \notin Stays(t, t2, p) => m <= t2[q].id
  BY <1>7, <1>8, <1>13 DEF Stays
<1>20. QED BY <1>3, <1>11, <1>17, <1>18, <1>19 DEF Turns

\* What is not below the slot is as it was, and so is its element.
LEMMA SameElement ==
  ASSUME NEW t, NEW u, NEW p, NEW m, NEW n, Turns(t, u, p, m, n),
         NEW q \in DOMAIN u, ~IsPrefix(p, q)
  PROVE  q \in DOMAIN t /\ u[q] = t[q] /\ ElementOf(u, q) = ElementOf(t, q)
<1>1. /\ ShapeOK(t) /\ ShapeOK(u) /\ Siblings(t) /\ Siblings(u) /\ p \in DOMAIN t
      /\ DOMAIN t \in SUBSET Paths /\ DOMAIN u \in SUBSET Paths
  BY DEF Turns, Mends, Grown, ShapeOK
<1>2. /\ \A r \in DOMAIN t : ~IsStrictPrefix(p, r) => r \in DOMAIN u
      /\ \A r \in DOMAIN u : ~IsStrictPrefix(p, r) => r \in DOMAIN t /\ u[r] = t[r]
  BY DEF Turns
<1>3. q \in Paths /\ p \in Paths BY <1>1
<1>4. ~IsStrictPrefix(p, q) BY DEF IsStrictPrefix
<1>5. q \in DOMAIN t /\ u[q] = t[q] BY <1>2, <1>4
<1>6. ASSUME NEW r \in Paths, r # <<>>, Front(r) = q PROVE ~IsStrictPrefix(p, r)
  BY <1>3, <1>6, FrontIs
<1>7. {r \in DOMAIN u : r # <<>> /\ Front(r) = q} = {r \in DOMAIN t : r # <<>> /\ Front(r) = q}
  BY <1>1, <1>2, <1>6
<1>8. Arity(u, q) = Arity(t, q) BY <1>7 DEF Arity
<1>9. ASSUME NEW i \in 1 .. Arity(t, q) PROVE u[Nth(q, i)].id = t[Nth(q, i)].id
  <2>1. KidsOf(t, q) BY <1>1, <1>5, KidsIs
  <2>2. i \in Nat \ {0} /\ Nth(q, i) \in DOMAIN t BY <2>1 DEF KidsOf
  <2>3. Nth(q, i) \in Paths /\ Front(Nth(q, i)) = q /\ Nth(q, i) # <<>> BY <1>3, <2>2, NthIs
  <2>4. ~IsStrictPrefix(p, Nth(q, i)) BY <1>6, <2>3
  <2>5. QED BY <1>2, <2>2, <2>4
<1>10. Kids(u, q) = Kids(t, q) BY <1>8, <1>9 DEF Kids
<1>11. ElementOf(u, q) = ElementOf(t, q) BY <1>5, <1>10 DEF ElementOf
<1>12. QED BY <1>5, <1>11

\* A page that shows a tree.
Pictures(d, t, n) == Sound(d, n) /\ Shows(d, t, DOMAIN t)

LEMMA SlotPictured ==
  ASSUME NEW t, NEW u, NEW p, NEW m, NEW n, Turns(t, u, p, m, n),
         NEW ops, ops = Reconciled(t, u, p), Whole(ops), NEW d, Pictures(d, t, m)
  PROVE  \E e : Makes(d, ops, e) /\ Pictures(e, u, n)
<1>1. /\ ShapeOK(t) /\ ShapeOK(u) /\ Siblings(t) /\ Siblings(u) /\ p \in DOMAIN t /\ p \in DOMAIN u
      /\ Matched(t, t) /\ p \in Paths /\ DOMAIN u \in SUBSET Paths
  BY DEF Turns, Mends, Grown, ShapeOK, Matched
<1>2. /\ m \in Nat /\ n \in Nat /\ m <= n /\ Mends(t, u, p, n)
      /\ \A q \in DOMAIN u : ~IsStrictPrefix(p, q) => q \in DOMAIN t /\ u[q] = t[q]
      /\ \A q \in DOMAIN u : IsStrictPrefix(p, q) /\ q \notin Stays(t, u, p) => m <= u[q].id
  BY DEF Turns
<1>3. Sound(d, m) /\ Shows(d, t, DOMAIN t) BY DEF Pictures
<1>4. PICK f : Diffed(t, u, p, f) BY <1>1, DiffIs
<1>5. ops = f[p] BY <1>4 DEF Diffed
<1>6. Diffs(t, u, p, n, f, p) BY <1>2, <1>4, DiffsAll
<1>7. d \in Docs /\ \A i \in DOMAIN d : i \in Nat /\ i < m
  <2>1. d \in Docs BY <1>3 DEF Sound
  <2>2. QED BY <1>3, <2>1, InsideIs DEF Sound
<1>8. Sound(d, n)
  <2>1. \A i \in DOMAIN d : i < n BY <1>2, <1>7
  <2>2. QED BY <1>2, <1>3, <2>1 DEF Sound
<1>9. Ready(d, t, u, p, p, n)
  <2>1. Lacks(d, u, Under(u, p) \ Stays(t, u, p))
    <3> SUFFICES ASSUME NEW q \in Under(u, p) \ Stays(t, u, p), u[q].id \in DOMAIN d PROVE FALSE
      BY DEF Lacks
    <3>1. q \in DOMAIN u /\ IsPrefix(p, q) /\ q # p BY DEF Under, Stays
    <3>2. IsStrictPrefix(p, q) BY <3>1 DEF IsStrictPrefix
    <3>3. m <= u[q].id /\ u[q].id < m /\ u[q].id \in Nat BY <1>2, <1>7, <3>1, <3>2
    <3>4. QED BY <1>2, <3>3
  <2>2. Shows(d, t, Under(t, p) \ {p}) BY <1>3 DEF Shows, Under
  <2>3. t[p].id \in DOMAIN d /\ d[t[p].id] = ElementOf(t, p) BY <1>1, <1>3 DEF Shows
  <2>4. Lines(d[t[p].id], t, u, p, 0, 0)
    <3> DEFINE x == d[t[p].id]
               ks == Kids(t, p)
               ls == Kids(u, p)
    <3>1. KidsOf(t, p) /\ KidsOf(u, p) BY <1>1, KidsIs
    <3>2. ks \in Seq(Nat) /\ ls \in Seq(Nat) BY <3>1 DEF KidsOf
    <3>3. LeadsOf(ks, Nat) /\ LeadsOf(ls, Nat) BY <3>2, LeadsAre
    <3>4. Rest(ks, 0) = ks /\ Lead(ls, 0) = <<>> BY <3>3 DEF LeadsOf
    <3>5. <<>> \o ks = ks BY <3>2
    <3>6. ~IsStrictPrefix(p, p) BY <1>1, PrefixOrder
    <3>7. u[p] = t[p] BY <1>1, <1>2, <3>6
    <3>8. x = [shell |-> t[p].component, text |-> TextOf(t[p]), inside |-> ks] BY <2>3 DEF ElementOf
    <3>9. x.shell = t[p].component /\ x.text = TextOf(t[p]) /\ x.inside = ks
      <4> HIDE DEF x, ks
      <4>1. QED BY <3>8
    <3>10. QED BY <3>4, <3>5, <3>7, <3>9 DEF Lines
  <2>5. QED BY <1>8, <2>1, <2>2, <2>3, <2>4 DEF Ready
<1>10. PICK e : Makes(d, ops, e) /\ Mended(e, d, t, u, p, p, n)
  <2>1. Whole(f[p]) BY <1>5
  <2>2. QED BY <1>5, <1>6, <1>9, <2>1 DEF Diffs
<1>11. Sound(e, n) /\ Spares(e, d, t, p) /\ Shows(e, u, Under(u, p)) BY <1>10 DEF Mended
<1>12. ASSUME NEW q \in DOMAIN u PROVE u[q].id \in DOMAIN e /\ e[u[q].id] = ElementOf(u, q)
  <2>1. CASE IsPrefix(p, q)
    <3>1. q \in Under(u, p) BY <2>1 DEF Under
    <3>2. QED BY <1>11, <3>1 DEF Shows
  <2>2. CASE ~IsPrefix(p, q)
    <3>1. q \in DOMAIN t /\ u[q] = t[q] /\ ElementOf(u, q) = ElementOf(t, q) BY <2>2, SameElement
    <3>2. Shows(d, t, {q}) BY <1>3, <3>1 DEF Shows
    <3>3. Spared(d, t, p, t[q].id) BY <1>1, <2>2, <3>1, <3>2, ApartIs
    <3>4. t[q].id \in DOMAIN e /\ e[t[q].id] = d[t[q].id] BY <1>11, <3>3 DEF Spares
    <3>5. QED BY <3>1, <3>2, <3>4 DEF Shows
  <2>3. QED BY <2>1, <2>2
<1>13. Pictures(e, u, n) BY <1>11, <1>12 DEF Pictures, Shows
<1>14. QED BY <1>10, <1>13

-----------------------------------------------------------------------------
(* The page of a bound text, of a mount and of a full frame.                 *)

\* A tree with another text at a node.
NewlyTexted(t2, t, q, x) ==
  /\ DOMAIN t2 = DOMAIN t
  /\ \A r \in DOMAIN t : Stands(t2[r], t[r]) /\ t2[r].id = t[r].id /\ (r # q => t2[r] = t[r])
  /\ t2[q].text = x

LEMMA SameKids ==
  ASSUME NEW t, ShapeOK(t), Siblings(t), NEW t2, DOMAIN t2 = DOMAIN t,
         \A r \in DOMAIN t : t2[r].id = t[r].id, NEW q \in DOMAIN t
  PROVE  Kids(t2, q) = Kids(t, q)
<1>1. Arity(t2, q) = Arity(t, q) BY DEF Arity
<1>2. KidsOf(t, q) BY KidsIs
<1>3. \A i \in 1 .. Arity(t, q) : t2[Nth(q, i)].id = t[Nth(q, i)].id BY <1>2 DEF KidsOf
<1>4. QED BY <1>1, <1>3 DEF Kids

LEMMA TextGrown ==
  ASSUME NEW t, Grown(t), NEW q \in DOMAIN t, t[q].bind # None, NEW x, NEW t2,
         ShapeOK(t2), NewlyTexted(t2, t, q, x)
  PROVE  Grown(t2)
<1>1. /\ Siblings(t) /\ ElderFirst(t) /\ TextsHoldNothing(t) /\ DOMAIN t2 = DOMAIN t
      /\ \A r \in DOMAIN t : Stands(t2[r], t[r]) /\ t2[r].id = t[r].id /\ (r # q => t2[r] = t[r])
  BY DEF Grown, NewlyTexted
<1>2. Siblings(t2) BY <1>1 DEF Siblings
<1>3. ElderFirst(t2) BY <1>1 DEF ElderFirst
<1>4. ASSUME NEW r \in DOMAIN t, t2[r].text # None \/ t2[r].bind # None
      PROVE  t2[r].slot = None /\ \A s \in DOMAIN t : ~IsStrictPrefix(r, s)
  <2>1. t[r].text # None \/ t[r].bind # None
    <3>1. CASE r = q BY <3>1
    <3>2. CASE r # q BY <1>1, <1>4, <3>2
    <3>3. QED BY <3>1, <3>2
  <2>2. t[r].slot = None /\ \A s \in DOMAIN t : ~IsStrictPrefix(r, s)
    BY <1>1, <2>1 DEF TextsHoldNothing
  <2>3. t2[r].slot = t[r].slot BY <1>1 DEF Stands
  <2>4. QED BY <2>2, <2>3
<1>5. TextsHoldNothing(t2) BY <1>1, <1>4 DEF TextsHoldNothing
<1>6. QED BY <1>2, <1>3, <1>5 DEF Grown

LEMMA TextPictured ==
  ASSUME NEW t, Grown(t), NEW q \in DOMAIN t, t[q].bind # None, NEW x \in TextValues, NEW t2,
         NewlyTexted(t2, t, q, x), NEW n, NEW d, Pictures(d, t, n)
  PROVE  \E e : Makes(d, <<TextOp(t[q].id, x)>>, e) /\ Pictures(e, t2, n)
<1> DEFINE c == t[q].id
<1>1. /\ ShapeOK(t) /\ Siblings(t) /\ TextsHoldNothing(t) /\ DOMAIN t2 = DOMAIN t
      /\ \A r \in DOMAIN t : Stands(t2[r], t[r]) /\ t2[r].id = t[r].id /\ (r # q => t2[r] = t[r])
      /\ t2[q].text = x
  BY DEF Grown, NewlyTexted
<1>2. Sound(d, n) /\ Shows(d, t, DOMAIN t) BY DEF Pictures
<1>3. c \in DOMAIN d /\ d[c] = ElementOf(t, q) BY <1>2 DEF Shows
<1>4. x \in Shown /\ x # None BY TextAssumption DEF Shown
<1>5. PICK e : Makes(d, <<TextOp(c, x)>>, e) /\ Rewritten(e, d, n, c, x) BY <1>2, <1>3, <1>4, RewriteIs
<1>6. /\ Sound(e, n) /\ DOMAIN e = DOMAIN d
      /\ \A j \in DOMAIN d : j # c => e[j] = d[j]
      /\ e[c] = [shell |-> d[c].shell, text |-> x, inside |-> <<>>]
  BY <1>5 DEF Rewritten
<1>7. ASSUME NEW r \in DOMAIN t PROVE Kids(t2, r) = Kids(t, r) BY <1>1, SameKids
<1>8. Kids(t, q) = <<>>
  <2>1. KidsOf(t, q) BY <1>1, KidsIs
  <2>2. \A s \in DOMAIN t : ~IsStrictPrefix(q, s) BY <1>1 DEF TextsHoldNothing
  <2>3. Arity(t, q) = 0
    <3>1. Arity(t, q) \in Nat BY <2>1 DEF KidsOf
    <3>2. \A i \in 1 .. Arity(t, q) : Nth(q, i) \in DOMAIN t /\ IsStrictPrefix(q, Nth(q, i))
      BY <2>1 DEF KidsOf
    <3>3. 1 \notin 1 .. Arity(t, q) BY <2>2, <3>2
    <3>4. QED BY <3>1, <3>3
  <2>4. Kids(t, q) \in Seq(Nat) /\ Len(Kids(t, q)) = Arity(t, q) BY <2>1 DEF KidsOf
  <2>5. QED BY <2>3, <2>4
<1>9. e[c] = ElementOf(t2, q)
  <2>1. d[c].shell = t[q].component
    <3> DEFINE ks == Kids(t, q)
    <3>1. d[c] = [shell |-> t[q].component, text |-> TextOf(t[q]), inside |-> ks]
      BY <1>3 DEF ElementOf
    <3> HIDE DEF c, ks
    <3>2. QED BY <3>1
  <2>2. t2[q].component = t[q].component /\ TextOf(t2[q]) = x BY <1>1, <1>4 DEF Stands, TextOf
  <2>3. Kids(t2, q) = <<>> BY <1>7, <1>8
  <2>4. QED BY <1>6, <2>1, <2>2, <2>3 DEF ElementOf
<1>10. ASSUME NEW r \in DOMAIN t2 PROVE t2[r].id \in DOMAIN e /\ e[t2[r].id] = ElementOf(t2, r)
  <2>1. CASE r = q BY <1>1, <1>3, <1>6, <1>9, <2>1
  <2>2. CASE r # q
    <3>1. r \in DOMAIN t /\ t2[r] = t[r] BY <1>1, <2>2
    <3>2. t[r].id # c BY <1>1, <2>2, <3>1 DEF ShapeOK
    <3>3. t[r].id \in DOMAIN d /\ d[t[r].id] = ElementOf(t, r) BY <1>2, <3>1 DEF Shows
    <3>4. ElementOf(t2, r) = ElementOf(t, r) BY <1>7, <3>1 DEF ElementOf
    <3>5. QED BY <1>6, <3>1, <3>2, <3>3, <3>4
  <2>3. QED BY <2>1, <2>2
<1>11. Pictures(e, t2, n) BY <1>6, <1>10 DEF Pictures, Shows
<1>12. QED BY <1>5, <1>11

LEMMA MountPictured ==
  ASSUME NEW t, Grown(t), <<>> \in DOMAIN t, NEW n \in Nat, IdsBelow(t, n)
  PROVE  PageOf(t) \in Docs /\ Pictures(PageOf(t), t, n)
<1> DEFINE d == <<>>
<1>1. ShapeOK(t) /\ Siblings(t) BY DEF Grown
<1>2. Under(t, <<>>) = DOMAIN t
  <2>1. \A q \in DOMAIN t : IsPrefix(<<>>, q) BY <1>1, PrefixOrder DEF ShapeOK
  <2>2. QED BY <2>1 DEF Under
<1>3. DOMAIN d = {} /\ d = [i_ \in DOMAIN d |-> d[i_]] OBVIOUS
<1> HIDE DEF d
<1>4. d \in Docs
  <2>1. DOMAIN d \in SUBSET Nat BY <1>3
  <2>2. QED BY <1>3, <2>1, DocIs
<1>5. Sound(d, n) BY <1>3, <1>4 DEF Sound
<1>6. Lacks(d, t, Under(t, <<>>)) BY <1>3 DEF Lacks
<1>7. Emits(t, n, <<>>) BY EmitsAll
<1>8. PICK e : Makes(d, EmitNode(t, <<>>), e) /\ Emitted(e, d, n, t, <<>>)
  BY <1>5, <1>6, <1>7 DEF Emits
<1>9. e = PageOf(t) /\ e \in Docs BY <1>8 DEF Makes, PageOf, FullFrame, d
<1>10. Pictures(e, t, n) BY <1>2, <1>8 DEF Emitted, Pictures
<1>11. QED BY <1>9, <1>10

LEMMA FullPictured ==
  ASSUME NEW t, Grown(t), <<>> \in DOMAIN t, NEW n \in Nat, IdsBelow(t, n), doc \in Docs, Alike(t)
  PROVE  Pictures(ApplyFrame(doc, FullFrame(t)), t, n)
<1>1. ShapeOK(t) /\ Siblings(t) /\ ElderFirst(t) BY DEF Grown
<1>2. Under(t, <<>>) = DOMAIN t
  <2>1. \A q \in DOMAIN t : IsPrefix(<<>>, q) BY <1>1, PrefixOrder DEF ShapeOK
  <2>2. QED BY <2>1 DEF Under
<1>3. DOMAIN doc = IdsOf(t) BY DEF Alike
<1>4. ASSUME NEW q \in DOMAIN t PROVE Likens(doc, t, q)
  <2>1. t[q].id \in DOMAIN doc BY <1>3 DEF IdsOf
  <2>2. /\ doc[t[q].id].shell = t[q].component
        /\ doc[t[q].id].inside = Kids(t, q)
        /\ TextOf(t[q]) = Blank => doc[t[q].id].text = Blank
    BY DEF Alike, Kids
  <2>3. QED BY <2>1, <2>2 DEF Likens
<1>5. Sound(doc, n)
  <2> SUFFICES ASSUME NEW i \in DOMAIN doc
               PROVE  i < n /\ NoRepeat(doc[i].inside)
                      /\ \A c \in ToSet(doc[i].inside) : c \in DOMAIN doc /\ i < c
    BY DEF Sound
  <2>1. PICK q \in DOMAIN t : i = t[q].id BY <1>3 DEF IdsOf
  <2>2. i < n BY <2>1 DEF IdsBelow
  <2>3. KidsOf(t, q) BY <1>1, KidsIs
  <2>4. doc[i].inside = Kids(t, q) BY <1>4, <2>1 DEF Likens
  <2>5. NoRepeat(Kids(t, q)) BY <2>3 DEF KidsOf
  <2>6. ASSUME NEW c \in ToSet(Kids(t, q)) PROVE c \in DOMAIN doc /\ i < c
    <3>1. PICK k \in DOMAIN Kids(t, q) : c = Kids(t, q)[k] BY DEF ToSet
    <3>2. k \in 1 .. Arity(t, q) BY <3>1 DEF Kids
    <3>3. k \in Nat \ {0} /\ Nth(q, k) \in DOMAIN t /\ c = t[Nth(q, k)].id
      BY <2>3, <3>1, <3>2 DEF KidsOf
    <3>4. c \in DOMAIN doc BY <1>3, <3>3 DEF IdsOf
    <3>5. i < c BY <1>1, <2>1, <3>3 DEF ElderFirst
    <3>6. QED BY <3>4, <3>5
  <2>7. QED BY <2>2, <2>4, <2>5, <2>6
<1>6. Reemits(t, n, <<>>) BY ReemitsAll
<1>7. PICK e : Makes(doc, EmitNode(t, <<>>), e) /\ Reemitted(e, doc, n, t, <<>>, Under(t, <<>>))
  BY <1>2, <1>4, <1>5, <1>6 DEF Reemits
<1>8. e = ApplyFrame(doc, FullFrame(t)) BY <1>7 DEF Makes, FullFrame
<1>9. QED BY <1>2, <1>7, <1>8 DEF Reemitted, Pictures

-----------------------------------------------------------------------------
(* The invariant.                                                            *)

PageInv ==
  /\ doc \in Docs /\ <<>> \in DOMAIN tree /\ Siblings(tree)
  /\ ~broken => Grown(tree) /\ (inStep => Pictures(doc, tree, nextId))

LEMMA SentIs ==
  ASSUME doc \in Docs, NEW ops \in Seq(Ops), Send(ops)
  PROVE  doc' \in Docs /\ (inStep' => inStep /\ doc' = ApplyFrame(doc, ops))
<1>1. /\ doc' = IF linked THEN ApplyFrame(doc, ops) ELSE doc
      /\ inStep' => inStep /\ (linked \/ ops = <<>>)
  BY DEF Send
<1>2. ApplyFrame(doc, ops) \in Docs BY MakesSome DEF Makes
<1>3. ApplyFrame(doc, <<>>) = doc BY AppliedNothing
<1>4. QED BY <1>1, <1>2, <1>3

LEMMA PageStart == EmitterInit => PageInv
<1> SUFFICES ASSUME EmitterInit PROVE PageInv OBVIOUS
<1>1. EmitterInv BY StartOK
<1>2. /\ root \in Roots /\ values \in Valuations /\ tree = Numbered(Render[root][values], <<>>, 1)
      /\ doc = PageOf(tree)
  BY DEF EmitterInit, Mounted
<1>3. ShapeOK(tree) /\ nextId \in Nat /\ IdsBelow(tree, nextId)
  BY <1>1 DEF EmitterInv, RetainedOK, IdsBelow
<1>4. Grown(tree) BY <1>2, <1>3, MountedGrown
<1>5. <<>> \in DOMAIN tree
  <2>1. IsTree(Render[root][values]) BY <1>2, RenderedTree
  <2>2. <<>> \in DOMAIN Render[root][values] BY <2>1 DEF IsTree
  <2>3. QED BY <1>2, <2>2 DEF Numbered
<1>6. PageOf(tree) \in Docs /\ Pictures(PageOf(tree), tree, nextId)
  BY <1>3, <1>4, <1>5, MountPictured
<1>7. QED BY <1>2, <1>4, <1>5, <1>6 DEF PageInv, Grown

LEMMA PageReconnect == EmitterInv' /\ PageInv /\ Reconnect => PageInv'
<1> SUFFICES ASSUME EmitterInv', PageInv, Reconnect PROVE PageInv' OBVIOUS
<1>1. /\ root' = root /\ values' \in Valuations /\ doc' = doc /\ inStep' = FALSE
      /\ tree' = Numbered(Render[root][values'], <<>>, 1)
  BY DEF Reconnect, Mount, Mounted
<1>2. root \in Roots /\ values' \in Valuations /\ ShapeOK(tree')
  BY <1>1 DEF EmitterInv, RetainedOK
<1>3. Grown(tree') BY <1>1, <1>2, MountedGrown
<1>4. <<>> \in DOMAIN tree'
  <2>1. IsTree(Render[root][values']) BY <1>2, RenderedTree
  <2>2. <<>> \in DOMAIN Render[root][values'] BY <2>1 DEF IsTree
  <2>3. QED BY <1>1, <2>2 DEF Numbered
<1>5. doc' \in Docs BY <1>1 DEF PageInv
<1>6. QED BY <1>1, <1>3, <1>4, <1>5 DEF PageInv, Grown

LEMMA PageFull == EmitterInv /\ PageInv /\ RenderFull => PageInv'
<1> SUFFICES ASSUME EmitterInv, PageInv, RenderFull PROVE PageInv' OBVIOUS
<1>1. /\ tree' = tree /\ nextId' = nextId /\ broken' = broken /\ inStep' = Alike(tree)
      /\ doc' = ApplyFrame(doc, FullFrame(tree))
  BY DEF RenderFull, treeVars
<1>2. doc \in Docs /\ <<>> \in DOMAIN tree /\ Siblings(tree) /\ (~broken => Grown(tree))
  BY DEF PageInv
<1>3. ShapeOK(tree) /\ nextId \in Nat /\ IdsBelow(tree, nextId)
  BY DEF EmitterInv, RetainedOK, IdsBelow
<1>4. doc' \in Docs
  <2>1. FullFrame(tree) \in Seq(Ops) BY <1>2, <1>3, EmitIs DEF FullFrame
  <2>2. QED BY <1>1, <1>2, <2>1, MakesSome DEF Makes
<1>5. ASSUME ~broken, Alike(tree) PROVE Pictures(doc', tree, nextId)
  BY <1>1, <1>2, <1>3, <1>5, FullPictured
<1>6. QED BY <1>1, <1>2, <1>4, <1>5 DEF PageInv

LEMMA PageText ==
  ASSUME EmitterInv, EmitterInv', PageInv, NEW e \in due, e.kind = "text", RunText(e)
  PROVE  PageInv'
<1> DEFINE x == values[e.on]
           stale == {q \in DOMAIN tree : tree[q].id = e.id /\ tree[q].text # x}
           ops == IF stale = {} THEN <<>> ELSE <<TextOp(e.id, x)>>
<1>1. /\ tree' = [q \in DOMAIN tree |->
                    IF q \in stale THEN [tree[q] EXCEPT !.text = x] ELSE tree[q]]
      /\ Send(ops) /\ nextId' = nextId /\ broken' = broken
  BY DEF RunText
<1>2. /\ ShapeOK(tree) /\ ShapeOK(tree') /\ values \in Valuations
      /\ due \subseteq effects /\ \A a \in effects : a.kind = "text" => a.on \in TextSignals
  BY DEF EmitterInv, RetainedOK
<1>3. x \in TextValues
  <2>1. e.on \in TextSignals BY <1>2
  <2>2. e.on \in Signals /\ ValuesOf[e.on] \subseteq TextValues BY <2>1 DEF TextSignals
  <2>3. values[e.on] \in ValuesOf[e.on] BY <1>2, <2>2 DEF Valuations
  <2>4. QED BY <2>2, <2>3
<1>4. doc \in Docs /\ <<>> \in DOMAIN tree /\ Siblings(tree)
      /\ (~broken => Grown(tree) /\ (inStep => Pictures(doc, tree, nextId)))
  BY DEF PageInv
<1> HIDE DEF x, ops, stale
<1>5. \A q \in stale : q \in DOMAIN tree /\ tree[q].id = e.id BY DEF stale
<1>6. ops \in Seq(Ops)
  <2>1. CASE stale = {} BY <2>1 DEF ops
  <2>2. CASE stale # {}
    <3>1. PICK q \in stale : TRUE BY <2>2
    <3>2. e.id \in Nat BY <1>2, <1>5, <3>1, NodeIs
    <3>3. x \in Shown /\ 0 \in Nat /\ 0 \in Int BY <1>3 DEF Shown
    <3>4. <<TextOp(e.id, x)>> \in Seq(Ops) BY <3>2, <3>3, OpsTyped
    <3>5. QED BY <2>2, <3>4 DEF ops
  <2>3. QED BY <2>1, <2>2
<1>7. doc' \in Docs /\ (inStep' => inStep /\ doc' = ApplyFrame(doc, ops))
  BY <1>1, <1>4, <1>6, SentIs
<1>8. DOMAIN tree' = DOMAIN tree BY <1>1
<1>9. <<>> \in DOMAIN tree' /\ Siblings(tree') BY <1>4, <1>8 DEF Siblings
<1>10. ASSUME ~broken
       PROVE  Grown(tree') /\ (inStep' => Pictures(doc', tree', nextId))
  <2>1. CASE stale = {}
    <3>1. tree' = tree
      <4>1. \A q \in DOMAIN tree : tree'[q] = tree[q] BY <1>1, <2>1
      <4>2. tree = [q \in DOMAIN tree |-> tree[q]] BY <1>2 DEF ShapeOK
      <4>3. tree' = [q \in DOMAIN tree |-> tree[q]] BY <1>1, <2>1
      <4>4. QED BY <4>2, <4>3
    <3>2. ApplyFrame(doc, ops) = doc BY <1>4, <2>1, AppliedNothing DEF ops
    <3>3. QED BY <1>4, <1>7, <1>10, <3>1, <3>2
  <2>2. CASE stale # {}
    <3>1. PICK q \in stale : TRUE BY <2>2
    <3>2. q \in DOMAIN tree /\ tree[q].id = e.id BY <1>5, <3>1
    <3>3. tree[q].bind # None
      <4>1. Wired(tree, effects, due) BY <1>10 DEF EmitterInv, WiredInv
      <4>2. e \in effects BY <1>2
      <4>3. PICK r \in DOMAIN tree : Asks(tree, r, e) BY <4>1, <4>2 DEF Wired
      <4>4. e.id = tree[r].id /\ AsksText(tree, r, e) BY <1>2, <4>3, AskedTyped
      <4>5. r = q BY <1>2, <3>2, <4>4 DEF ShapeOK
      <4>6. QED BY <4>4, <4>5 DEF AsksText
    <3>4. \A r \in stale : r = q BY <1>2, <1>5, <3>2 DEF ShapeOK
    <3>5. NewlyTexted(tree', tree, q, x)
      <4>1. ASSUME NEW n \in Retained
            PROVE  /\ Stands([n EXCEPT !.text = x], n) /\ [n EXCEPT !.text = x].id = n.id
                   /\ [n EXCEPT !.text = x].text = x /\ Stands(n, n)
        BY DEF Retained, Stands
      <4>2. \A r \in DOMAIN tree : tree[r] \in Retained BY <1>2 DEF ShapeOK
      <4>3. tree'[q] = [tree[q] EXCEPT !.text = x] BY <1>1, <3>1, <3>2
      <4>4. \A r \in DOMAIN tree : r # q => tree'[r] = tree[r] BY <1>1, <3>4
      <4>5. Stands(tree'[q], tree[q]) /\ tree'[q].id = tree[q].id /\ tree'[q].text = x
        BY <3>2, <4>1, <4>2, <4>3
      <4>6. ASSUME NEW r \in DOMAIN tree, r # q PROVE Stands(tree'[r], tree[r]) /\ tree'[r].id = tree[r].id
        BY <4>1, <4>2, <4>4, <4>6
      <4>7. QED BY <1>8, <4>4, <4>5, <4>6 DEF NewlyTexted
    <3>6. Grown(tree) BY <1>4, <1>10
    <3>7. Grown(tree') BY <1>2, <3>2, <3>3, <3>5, <3>6, TextGrown
    <3>8. ASSUME inStep' PROVE Pictures(doc', tree', nextId)
      <4>1. Pictures(doc, tree, nextId) /\ doc' = ApplyFrame(doc, ops) BY <1>4, <1>7, <1>10, <3>8
      <4>2. \E d : Makes(doc, <<TextOp(tree[q].id, x)>>, d) /\ Pictures(d, tree', nextId)
        BY <1>3, <3>2, <3>3, <3>5, <3>6, <4>1, TextPictured
      <4>3. ops = <<TextOp(tree[q].id, x)>> BY <2>2, <3>2 DEF ops
      <4>4. QED BY <4>1, <4>2, <4>3 DEF Makes
    <3>9. QED BY <3>7, <3>8
  <2>3. QED BY <2>1, <2>2
<1>11. QED BY <1>1, <1>7, <1>9, <1>10 DEF PageInv

LEMMA PageSlot ==
  ASSUME EmitterInv, EmitterInv', PageInv, NEW e \in due, e.kind = "slot", RunSlot(e)
  PROVE  PageInv'
<1> DEFINE u == Render[root][values]
           frameOf(q) == Reconciled(tree, tree', q)
           fails(q) == \E i \in DOMAIN frameOf(q) :
                         frameOf(q)[i].cmd = "SET_TEXT" /\ frameOf(q)[i].arg = None
           sent(q) == IF fails(q) THEN <<>> ELSE frameOf(q)
<1>1. PICK p \in {q \in DOMAIN tree : tree[q].id = e.id} :
        /\ tree' = Refitted(tree, u, p, nextId)
        /\ nextId' = nextId + Cardinality(Beneath(u, p) \ Kept(tree, u, p))
        /\ broken' = (broken \/ fails(p)) /\ Send(sent(p))
  BY DEF RunSlot
<1> DEFINE ops == frameOf(p)
<1>2. fails(p) \/ Whole(ops) BY DEF Whole
<1> HIDE DEF fails
<1>3. /\ ShapeOK(tree) /\ ShapeOK(tree') /\ root \in Roots /\ values \in Valuations
      /\ nextId \in Nat /\ IdsBelow(tree, nextId) /\ due \subseteq effects
  BY DEF EmitterInv, RetainedOK, IdsBelow
<1>4. IsTree(u) BY <1>3, RenderedTree
<1>5. TextsHoldNothing(u) BY <1>3, RenderAssumption
<1> HIDE DEF u
<1>6. p \in DOMAIN tree /\ tree[p].id = e.id BY <1>1
<1>7. doc \in Docs /\ <<>> \in DOMAIN tree /\ Siblings(tree)
      /\ (~broken => Grown(tree) /\ (inStep => Pictures(doc, tree, nextId)))
  BY DEF PageInv
<1>8. Fits(tree', tree, p, Beneath(u, p))
  <2>1. Refits(tree', tree, u, p, nextId + Cardinality(Beneath(u, p) \ Kept(tree, u, p)))
    BY <1>1, <1>3, <1>4, <1>6, RefittedIs
  <2>2. QED BY <2>1 DEF Refits
<1>9. Siblings(tree') BY <1>4, <1>7, <1>8, RefittedSiblings
<1>10. <<>> \in DOMAIN tree' /\ p \in DOMAIN tree'
  <2>1. /\ p \in Paths /\ \A q : q \in Outside(tree, p) <=> q \in DOMAIN tree /\ ~IsStrictPrefix(p, q)
        /\ \A q : q \in Outside(tree, p) <=> q \in DOMAIN tree' /\ ~IsStrictPrefix(p, q)
    BY <1>8, FitsIs
  <2>2. <<>> \in Paths BY DEF Paths
  <2>3. IsPrefix(<<>>, p) /\ ~IsStrictPrefix(p, p) /\ ~IsStrictPrefix(<<>>, <<>>)
    BY <2>1, <2>2, PrefixOrder
  <2>4. ~IsStrictPrefix(p, <<>>) BY <2>1, <2>2, <2>3, PrefixOrder
  <2>5. QED BY <1>6, <1>7, <2>1, <2>3, <2>4
<1>11. ops \in Seq(Ops)
  <2>1. PICK f : Diffed(tree, tree', p, f) BY <1>3, <1>6, <1>7, <1>9, <1>10, DiffIs
  <2>2. p \in Stays(tree, tree', p) BY DEF Stays
  <2>3. QED BY <2>1, <2>2 DEF Diffed
<1> HIDE DEF ops
<1>12. sent(p) \in Seq(Ops) /\ (~fails(p) => sent(p) = ops)
  <2>1. <<>> \in Seq(Ops) OBVIOUS
  <2>2. QED BY <1>11, <2>1 DEF ops
<1> HIDE DEF sent
<1>13. doc' \in Docs /\ (inStep' => inStep /\ doc' = ApplyFrame(doc, sent(p)))
  BY <1>1, <1>7, <1>12, SentIs
<1>14. ASSUME ~broken'
       PROVE  Grown(tree') /\ (inStep' => Pictures(doc', tree', nextId'))
  <2>1. ~broken /\ ~fails(p) BY <1>1, <1>14
  <2>2. Grown(tree) /\ (inStep => Pictures(doc, tree, nextId)) BY <1>7, <2>1
  <2>3. tree[p].slot # None
    <3>1. Wired(tree, effects, due) BY <2>1 DEF EmitterInv, WiredInv
    <3>2. e \in effects BY <1>3
    <3>3. PICK r \in DOMAIN tree : Asks(tree, r, e) BY <3>1, <3>2 DEF Wired
    <3>4. e.id = tree[r].id /\ AsksSlot(tree, r, e) BY <1>3, <3>3, AskedTyped
    <3>5. r = p BY <1>3, <1>6, <3>4 DEF ShapeOK
    <3>6. QED BY <3>4, <3>5 DEF AsksSlot
  <2>4. Turns(tree, tree', p, nextId, nextId')
    BY <1>1, <1>3, <1>4, <1>5, <1>6, <2>2, <2>3, TurnsIs
  <2>5. Grown(tree') BY <2>4 DEF Turns, Mends
  <2>6. ASSUME inStep' PROVE Pictures(doc', tree', nextId')
    <3>1. Pictures(doc, tree, nextId) /\ doc' = ApplyFrame(doc, ops) BY <1>12, <1>13, <2>1, <2>2, <2>6
    <3>2. Whole(ops) BY <1>2, <2>1
    <3>3. ops = Reconciled(tree, tree', p) BY DEF ops
    <3>4. \E d : Makes(doc, ops, d) /\ Pictures(d, tree', nextId')
      BY <2>4, <3>1, <3>2, <3>3, SlotPictured
    <3>5. QED BY <3>1, <3>4 DEF Makes
  <2>7. QED BY <2>5, <2>6
<1>15. QED BY <1>9, <1>10, <1>13, <1>14 DEF PageInv

LEMMA PageStill ==
  ASSUME PageInv, UNCHANGED <<tree, nextId, broken, doc, inStep>>
  PROVE  PageInv'
BY DEF PageInv

\* The page's invariant: an element of the page lies in older ones only, and the page
\* shows the retained tree where it has had every frame (DomTree's opcodes).
THEOREM PageInductive == EmitterSpec => []PageInv
<1>1. EmitterInv /\ EmitterInv' /\ PageInv /\ [EmitterNext]_emitterVars => PageInv'
  <2> SUFFICES ASSUME EmitterInv, EmitterInv', PageInv, [EmitterNext]_emitterVars PROVE PageInv'
    OBVIOUS
  <2>1. ASSUME NEW e \in due, RunEffect(e) PROVE PageInv'
    <3>1. CASE e.kind = "text" /\ RunText(e) BY <3>1, PageText
    <3>2. CASE e.kind = "slot" /\ RunSlot(e) BY <3>2, PageSlot
    <3>3. QED BY <2>1, <3>1, <3>2 DEF RunEffect
  <2>2. ASSUME NEW s \in Signals, NEW x \in ValuesOf[s], Write(s, x) PROVE PageInv'
    BY <2>2, PageStill DEF Write, treeVars, pageVars
  <2>3. CASE Cut BY <2>3, PageStill DEF Cut, treeVars
  <2>4. CASE Reconnect BY <2>4, PageReconnect
  <2>5. CASE RenderFull BY <2>5, PageFull
  <2>6. CASE UNCHANGED emitterVars BY <2>6, PageStill DEF emitterVars, treeVars, pageVars
  <2>7. QED BY <2>1, <2>2, <2>3, <2>4, <2>5, <2>6 DEF EmitterNext
<1>2. QED BY <1>1, PageStart, EmitterInductive, PTL DEF EmitterSpec

\* The page has the elements of the retained tree's nodes, with their texts and in
\* their order, unless frames were lost or an effect broke: reconcileChildren,
\* emitNode and the bindings of texts say to the page all that they do to the tree.
THEOREM PageCorrect == EmitterSpec => []PageIsTree
<1>1. PageInv => PageIsTree
  <2> SUFFICES ASSUME PageInv, inStep, ~broken, NEW q \in DOMAIN tree
               PROVE  /\ tree[q].id \in DOMAIN doc
                      /\ doc[tree[q].id] =
                           [shell |-> tree[q].component, text |-> TextOf(tree[q]),
                            inside |-> [i \in 1 .. Arity(tree, q) |-> tree[Nth(q, i)].id]]
    BY DEF PageIsTree, PageMatches
  <2>1. Shows(doc, tree, DOMAIN tree) BY DEF PageInv, Pictures
  <2>2. QED BY <2>1 DEF Shows, ElementOf, Kids
<1>2. QED BY <1>1, PageInductive, PTL
=============================================================================
