----------------------------- MODULE ListFacts -----------------------------
(* Induction over the natural numbers, as facts about sets, and the folds of  *)
(* the community modules.                                                     *)
EXTENDS Integers, Sequences, SequencesExt, WellFoundedInduction, TLAPS

\* Every nonempty set of natural numbers has a smallest element.
LEMMA Smallest ==
  ASSUME NEW T \in SUBSET Nat, T # {}
  PROVE  \E n \in T : \A m \in T : n <= m
<1> DEFINE R == {ss \in Nat \X Nat : ss[1] < ss[2]}
<1>1. IsWellFoundedOn(R, Nat)
  BY NatLessThanWellFounded, SMT DEF OpToRel
<1>2. \E x \in T : \A y \in T : ~ (<<y, x>> \in R)
  <2> HIDE DEF R
  <2>1. QED BY <1>1, WFMin
<1>3. PICK n \in T : \A m \in T : ~ (<<m, n>> \in R)
  BY <1>2
<1>4. ASSUME NEW m \in T, m < n PROVE FALSE
  <2>1. <<m, n>> \in R BY <1>4
  <2>2. QED BY <2>1, <1>3
<1>5. QED BY <1>4

\* Induction over the natural numbers, as a fact about a set.
LEMMA Inductive ==
  ASSUME NEW S, 0 \in S, \A n \in Nat : n \in S => n + 1 \in S
  PROVE  Nat \subseteq S
<1> DEFINE T == {n \in Nat : n \notin S}
<1>1. ASSUME T # {} PROVE FALSE
  <2>1. T \in SUBSET Nat OBVIOUS
  <2>2. PICK n \in T : \A m \in T : n <= m
    <3> HIDE DEF T
    <3>1. QED BY <1>1, <2>1, Smallest
  <2>3. n \in Nat /\ n # 0 /\ n - 1 \in Nat OBVIOUS
  <2>4. n - 1 \in S BY <2>2, <2>3
  <2>5. (n - 1) + 1 \in S BY <2>3, <2>4
  <2>6. QED BY <2>3, <2>5
<1>2. QED BY <1>1

LEMMA MaxIs ==
  ASSUME NEW n \in Nat, NEW s \in SUBSET (1 .. n), s # {}
  PROVE  Max(s) \in s /\ \A k \in s : k <= Max(s)
<1>1. \E k \in s : \A m \in s : k >= m
  <2> DEFINE T == {k \in Nat : \A m \in s : k >= m}
  <2>1. n \in T OBVIOUS
  <2>2. PICK k \in T : \A m \in T : k <= m
    <3>1. T \in SUBSET Nat /\ T # {} BY <2>1
    <3> HIDE DEF T
    <3>2. QED BY <3>1, Smallest
  <2>3. CASE k \in s BY <2>2, <2>3
  <2>4. CASE k \notin s
    <3>1. k # 0
      <4>1. PICK m \in s : TRUE OBVIOUS
      <4>2. m \in 1 .. n /\ k >= m BY <4>1
      <4>3. QED BY <4>2
    <3>2. \A m \in s : k - 1 >= m BY <2>2, <2>4
    <3>3. k - 1 \in T BY <3>1, <3>2, <2>2
    <3>4. QED BY <3>3, <2>2
  <2>5. QED BY <2>3, <2>4
<1>2. Max(s) = CHOOSE x \in s : \A y \in s : x >= y BY DEF Max
<1> DEFINE Top(x) == x \in s /\ \A y \in s : x >= y
<1>3. QED BY <1>1, <1>2, Zenon

\* What a fold has made of the elements of each set of places: FoldLeft takes
\* the greatest place last.  The result of step k is F[k] of the one before.
FoldTable(h, base, F, n) ==
  h = [s \in SUBSET (1 .. n) |-> IF s = {} THEN base ELSE F[Max(s)][h[s \ {Max(s)}]]]

\* A fold over 1 .. N is defined, whatever its steps do, and stays in their range.
LEMMA FoldTableExists ==
  ASSUME NEW A, NEW base \in A, NEW N \in Nat, NEW F \in [1 .. N -> [A -> A]]
  PROVE  \E h \in [SUBSET (1 .. N) -> A] : FoldTable(h, base, F, N)
<1> DEFINE Defined(m) == \E h \in [SUBSET (1 .. m) -> A] : FoldTable(h, base, F, m)
           S == {m \in Nat : m <= N => Defined(m)}
<1>1. Defined(0)
  <2>1. SUBSET (1 .. 0) = {{}} OBVIOUS
  <2> DEFINE h == [s \in {{}} |-> base]
  <2>2. h = [s \in SUBSET (1 .. 0) |-> IF s = {} THEN base ELSE F[Max(s)][h[s \ {Max(s)}]]]
    BY <2>1
  <2>3. h \in [SUBSET (1 .. 0) -> A] BY <2>1
  <2>4. QED BY <2>2, <2>3 DEF FoldTable
<1>2. ASSUME NEW m \in Nat, m + 1 <= N, Defined(m) PROVE Defined(m + 1)
  <2> HIDE DEF S
  <2>1. PICK h \in [SUBSET (1 .. m) -> A] : FoldTable(h, base, F, m) BY <1>2
  <2> DEFINE g == [s \in SUBSET (1 .. m + 1) |->
                     IF m + 1 \in s THEN F[m + 1][h[s \ {m + 1}]] ELSE h[s]]
  <2>2. ASSUME NEW s \in SUBSET (1 .. m + 1)
        PROVE  g[s] \in A /\ g[s] = IF s = {} THEN base ELSE F[Max(s)][g[s \ {Max(s)}]]
    <3>1. CASE s = {}
      <4>1. g[s] = h[s] /\ s \in SUBSET (1 .. m) BY <3>1
      <4>2. h[s] = base BY <4>1, <3>1, <2>1 DEF FoldTable
      <4>3. QED BY <3>1, <4>1, <4>2
    <3>2. CASE s # {} /\ m + 1 \in s
      <4>1. Max(s) = m + 1
        <5>1. Max(s) \in s /\ m + 1 <= Max(s)
          <6>1. m + 1 \in Nat OBVIOUS
          <6>2. QED BY <6>1, <3>2, MaxIs
        <5>2. Max(s) \in 1 .. m + 1 BY <5>1
        <5>3. QED BY <5>1, <5>2
      <4>2. s \ {m + 1} \in SUBSET (1 .. m) /\ m + 1 \notin s \ {m + 1} OBVIOUS
      <4>3. s \ {m + 1} \in SUBSET (1 .. m + 1) OBVIOUS
      <4>4. g[s \ {m + 1}] = h[s \ {m + 1}] BY <4>2, <4>3
      <4>5. g[s] = F[m + 1][h[s \ {m + 1}]] BY <3>2
      <4>6. F[m + 1] \in [A -> A] /\ h[s \ {m + 1}] \in A
        <5>1. m + 1 \in 1 .. N BY <1>2
        <5>2. QED BY <5>1, <4>2, <2>1
      <4>7. QED BY <3>2, <4>1, <4>4, <4>5, <4>6
    <3>3. CASE s # {} /\ m + 1 \notin s
      <4>1. s \in SUBSET (1 .. m) /\ Max(s) \in s
        <5>1. s \in SUBSET (1 .. m) BY <3>3
        <5>2. QED BY <5>1, <3>3, MaxIs
      <4>2. g[s] = h[s] BY <3>3
      <4>3. h[s] = F[Max(s)][h[s \ {Max(s)}]]
        BY <4>1, <3>3, <2>1 DEF FoldTable
      <4>4. s \ {Max(s)} \in SUBSET (1 .. m + 1) /\ m + 1 \notin s \ {Max(s)}
        BY <3>3
      <4>5. g[s \ {Max(s)}] = h[s \ {Max(s)}] BY <4>4
      <4>6. h[s] \in A BY <4>1, <2>1
      <4>7. QED BY <3>3, <4>2, <4>3, <4>5, <4>6
    <3>4. QED BY <3>1, <3>2, <3>3
  <2>3. g = [s \in SUBSET (1 .. m + 1) |-> g[s]] OBVIOUS
  <2> HIDE DEF g
  <2>4. FoldTable(g, base, F, m + 1) BY <2>2, <2>3 DEF FoldTable
  <2>5. g \in [SUBSET (1 .. m + 1) -> A] BY <2>2, <2>3
  <2>6. QED BY <2>4, <2>5
<1> HIDE DEF Defined
<1>3. Nat \subseteq S
  <2>1. 0 \in S BY <1>1
  <2>2. ASSUME NEW m \in Nat, m \in S PROVE m + 1 \in S
    BY <2>2, <1>2
  <2> HIDE DEF S
  <2>3. QED BY <2>1, <2>2, Inductive
<1>4. Defined(N) BY <1>3
<1>5. QED BY <1>4 DEF Defined

\* The places up to n, the last of them, and those before it.
LEMMA LastOfRange ==
  ASSUME NEW n \in Nat \ {0}
  PROVE  1 .. n # {} /\ Max(1 .. n) = n /\ (1 .. n) \ {n} = 1 .. n - 1
<1>1. n \in 1 .. n /\ n \in Nat OBVIOUS
<1>2. (1 .. n) \ {n} = 1 .. n - 1 OBVIOUS
<1>3. (1 .. n) \in SUBSET (1 .. n) /\ 1 .. n # {} BY <1>1
<1>4. Max(1 .. n) \in 1 .. n /\ n <= Max(1 .. n) BY <1>1, <1>3, MaxIs
<1>5. Max(1 .. n) = n BY <1>4
<1>6. QED BY <1>1, <1>2, <1>5

\* A function applied again and again, up to N times.
LEMMA IterationExists ==
  ASSUME NEW A, NEW base \in A, NEW N \in Nat, NEW F \in [A -> A]
  PROVE  \E h \in [0 .. N -> A] : h = [d \in 0 .. N |-> IF d = 0 THEN base ELSE F[h[d - 1]]]
<1> DEFINE Iterated(h, n) == h = [d \in 0 .. n |-> IF d = 0 THEN base ELSE F[h[d - 1]]]
           S == {n \in Nat : \E h \in [0 .. n -> A] : Iterated(h, n)}
<1>1. 0 \in S
  <2> DEFINE h == [d \in 0 .. 0 |-> base]
  <2>1. h \in [0 .. 0 -> A] OBVIOUS
  <2>2. Iterated(h, 0) OBVIOUS
  <2>3. QED BY <2>1, <2>2
<1>2. ASSUME NEW n \in Nat, n \in S PROVE n + 1 \in S
  <2>1. PICK h \in [0 .. n -> A] : Iterated(h, n) BY <1>2
  <2> DEFINE g == [d \in 0 .. n + 1 |-> IF d = n + 1 THEN F[h[n]] ELSE h[d]]
  <2>2. n \in 0 .. n /\ h[n] \in A /\ F[h[n]] \in A OBVIOUS
  <2>3. g \in [0 .. n + 1 -> A] BY <2>2
  <2>4. ASSUME NEW d \in 0 .. n + 1 PROVE g[d] = IF d = 0 THEN base ELSE F[g[d - 1]]
    <3>1. CASE d = n + 1
      <4>1. d # 0 /\ d - 1 = n /\ n \in 0 .. n + 1 /\ n # n + 1 BY <3>1
      <4>2. g[n] = h[n] BY <4>1
      <4>3. g[d] = F[h[n]] BY <3>1
      <4>4. QED BY <4>1, <4>2, <4>3
    <3>2. CASE d = 0
      <4>1. d \in 0 .. n /\ d # n + 1 BY <3>2
      <4>2. h[d] = base BY <3>2, <4>1, <2>1
      <4>3. QED BY <3>2, <4>1, <4>2
    <3>3. CASE d # n + 1 /\ d # 0
      <4>1. d \in 0 .. n /\ d - 1 \in 0 .. n + 1 /\ d - 1 # n + 1 BY <3>3
      <4>2. h[d] = F[h[d - 1]] BY <3>3, <4>1, <2>1
      <4>3. g[d] = h[d] /\ g[d - 1] = h[d - 1] BY <3>3, <4>1
      <4>4. QED BY <3>3, <4>2, <4>3
    <3>4. QED BY <3>1, <3>2, <3>3
  <2>5. g = [d \in 0 .. n + 1 |-> g[d]] OBVIOUS
  <2> HIDE DEF g
  <2>6. Iterated(g, n + 1) BY <2>4, <2>5
  <2>7. n + 1 \in Nat OBVIOUS
  <2>8. QED BY <2>3, <2>6, <2>7
<1>3. Nat \subseteq S
  <2> HIDE DEF S
  <2>1. QED BY <1>1, <1>2, Inductive
<1>4. QED BY <1>3
=============================================================================
