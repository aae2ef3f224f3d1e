---------------------------- MODULE SequenceLemmas ----------------------------
(* Induction over the natural numbers for sets of numbers, and by it what FoldLeft *)
(* and FlattenSeq, which unfold to a CHOOSE of a function, compute: FlattenSeq is   *)
(* the sequence of the concatenations so far (Joins), FoldLeft that of the folds    *)
(* of the prefixes (Iterates).                                                     *)
EXTENDS Integers, Sequences, SequencesExt, FiniteSetsExt, SequenceTheorems, WellFoundedInduction, TLAPS

\* A set of numbers that is not empty has a least element.
LEMMA LeastNumber ==
    ASSUME NEW T, T \subseteq Nat, T # {}
    PROVE \E x \in T : \A y \in T : x <= y
<1>1. PICK x \in T : \A y \in Nat : <<y, x>> \in OpToRel(<, Nat) => y \notin T
  BY NatLessThanWellFounded, WFMin
<1>2. \A y \in T : <<y, x>> \notin OpToRel(<, Nat)
  BY <1>1
<1>3. \A y \in T : ~(y < x)
  BY <1>2 DEF OpToRel
<1> QED BY <1>3

\* Induction, of a set of numbers.
LEMMA Induction ==
    ASSUME NEW T, 0 \in T, \A n \in Nat : n \in T => n + 1 \in T
    PROVE \A n \in Nat : n \in T
<1>1. SUFFICES ASSUME Nat \ T # {} PROVE FALSE
  OBVIOUS
<1>2. PICK x \in Nat \ T : \A y \in Nat \ T : x <= y
  BY <1>1, LeastNumber
<1>3. x # 0
  BY <1>2
<1>4. x - 1 \in Nat /\ ~(x <= x - 1)
  BY <1>2, <1>3
<1>5. x - 1 \in T
  BY <1>2, <1>4
<1>6. x - 1 + 1 \in T
  BY <1>4, <1>5
<1> QED BY <1>2, <1>6

\* A function on 0 .. m may be defined by what it is at 0 and how each value follows
\* from the one before.
Iterates(g, m, V, base, h) ==
    /\ g \in [0 .. m -> V]
    /\ g[0] = base
    /\ \A i \in 0 .. m - 1 : g[i + 1] = h[i + 1][g[i]]

\* A function that is defined step by step on 0 .. m exists.
LEMMA Recursion ==
    ASSUME NEW m \in Nat, NEW V, NEW base \in V, NEW h \in [1 .. m -> [V -> V]]
    PROVE \E g : Iterates(g, m, V, base, h)
<1> DEFINE T == {n \in Nat : n <= m => \E g : Iterates(g, n, V, base, h)}
<1>1. 0 \in T
  <2> DEFINE g == [i \in 0 .. 0 |-> base]
  <2>1. Iterates(g, 0, V, base, h)
    BY DEF Iterates
  <2> QED BY <2>1
<1>2. ASSUME NEW n \in Nat, n \in T PROVE n + 1 \in T
  <2>1. SUFFICES ASSUME n + 1 <= m PROVE \E g : Iterates(g, n + 1, V, base, h)
    OBVIOUS
  <2>2. n <= m
    BY <2>1
  <2>3. PICK g : Iterates(g, n, V, base, h)
    BY <1>2, <2>2
  <2> DEFINE next == [i \in 0 .. n + 1 |-> IF i = n + 1 THEN h[n + 1][g[n]] ELSE g[i]]
  <2>4. h[n + 1][g[n]] \in V
    BY <2>1, <2>3 DEF Iterates
  <2>5. next \in [0 .. n + 1 -> V]
    BY <2>3, <2>4 DEF Iterates
  <2>6. next[0] = base
    BY <2>3 DEF Iterates
  <2>7. ASSUME NEW i \in 0 .. n PROVE next[i + 1] = h[i + 1][next[i]]
    <3>1. CASE i = n
      BY <3>1
    <3>2. CASE i # n
      BY <2>3, <3>2 DEF Iterates
    <3> QED BY <3>1, <3>2
  <2> HIDE DEF next
  <2>8. n + 1 - 1 = n
    OBVIOUS
  <2>9. Iterates(next, n + 1, V, base, h)
    BY <2>5, <2>6, <2>7, <2>8 DEF Iterates
  <2> QED BY <2>9
<1> HIDE DEF T
<1>3. m \in T
  BY <1>1, <1>2, Induction
<1> QED BY <1>3 DEF T

--------------------------------------------------------------------------------
\* What FlattenSeq builds is the sequence of the concatenations so far.
Joins(g, seqs, D) ==
    /\ g \in [1 .. Len(seqs) -> Seq(D)]
    /\ g[1] = seqs[1]
    /\ \A i \in 1 .. Len(seqs) - 1 : g[i + 1] = g[i] \o seqs[i + 1]
    /\ FlattenSeq(seqs) = g[Len(seqs)]

\* FlattenSeq is the last of the concatenations so far.
LEMMA FlattenUnfolds ==
    ASSUME NEW D, NEW seqs \in Seq(Seq(D)), Len(seqs) # 0
    PROVE \E g : Joins(g, seqs, D)
<1> DEFINE n == Len(seqs)
           V == Seq(D)
           none == <<>>
           h == [i \in 1 .. n |-> [v \in V |-> v \o seqs[i]]]
<1>1. n \in Nat /\ n > 0 /\ \A i \in 1 .. n : seqs[i] \in V
  OBVIOUS
<1>2. h \in [1 .. n -> [V -> V]]
  BY <1>1
<1>3. none \in V
  OBVIOUS
<1>4. PICK f : Iterates(f, n, V, none, h)
  <2> HIDE DEF h, n, V, none
  <2> QED BY <1>1, <1>2, <1>3, Recursion
<1>5. ASSUME NEW i \in 0 .. n - 1 PROVE f[i] \in V /\ f[i + 1] = f[i] \o seqs[i + 1]
  <2>1. i \in 0 .. n /\ i + 1 \in 1 .. n
    BY <1>1
  <2>2. f[i] \in V
    BY <1>4, <2>1 DEF Iterates
  <2>3. h[i + 1] = [v \in V |-> v \o seqs[i + 1]]
    BY <2>1
  <2>4. h[i + 1][f[i]] = f[i] \o seqs[i + 1]
    <3> HIDE DEF h
    <3> QED BY <2>2, <2>3
  <2> QED BY <1>4, <2>2, <2>4 DEF Iterates
<1> HIDE DEF h
<1>6. f[1] = seqs[1]
  <2>1. 0 \in 0 .. n - 1 /\ 0 + 1 = 1 /\ seqs[1] \in Seq(D)
    BY <1>1
  <2>2. f[1] = f[0] \o seqs[1]
    BY <2>1, <1>5
  <2>3. f[0] = <<>>
    BY <1>4 DEF Iterates
  <2> QED BY <2>1, <2>2, <2>3
<1> DEFINE g == [i \in 1 .. n |-> f[i]]
<1>7. g = [i \in 1 .. n |-> IF i = 1 THEN seqs[i] ELSE g[i - 1] \o seqs[i]]
  <2>1. ASSUME NEW i \in 1 .. n PROVE g[i] = IF i = 1 THEN seqs[i] ELSE g[i - 1] \o seqs[i]
    <3>1. CASE i = 1
      BY <1>6, <3>1
    <3>2. CASE i # 1
      <4>1. i - 1 \in 1 .. n /\ i - 1 \in 0 .. n - 1 /\ i - 1 + 1 = i
        BY <1>1, <3>2
      <4>2. f[i] = f[i - 1] \o seqs[i]
        BY <1>5, <4>1
      <4> QED BY <3>2, <4>1, <4>2
    <3> QED BY <3>1, <3>2
  <2> QED BY <2>1
<1> DEFINE F == CHOOSE f_ : f_ = [i \in 1 .. n |-> IF i = 1 THEN seqs[i] ELSE f_[i - 1] \o seqs[i]]
<1>8. F = [i \in 1 .. n |-> IF i = 1 THEN seqs[i] ELSE F[i - 1] \o seqs[i]]
  <2> HIDE DEF g
  <2> QED BY <1>7
<1>9. FlattenSeq(seqs) = F[n]
  BY DEF FlattenSeq
<1> HIDE DEF F
<1>10. \A i \in 1 .. n : F[i] = IF i = 1 THEN seqs[i] ELSE F[i - 1] \o seqs[i]
  BY <1>8
<1>11. F[1] = seqs[1]
  BY <1>1, <1>10
<1>12. ASSUME NEW i \in 1 .. n - 1 PROVE F[i + 1] = F[i] \o seqs[i + 1]
  <2> DEFINE k == i + 1
  <2>1. k \in 1 .. n /\ k # 1 /\ k - 1 = i
    BY <1>1
  <2> HIDE DEF k
  <2>2. F[k] = F[i] \o seqs[k]
    BY <1>10, <2>1
  <2> QED BY <2>2 DEF k
<1>13. \A i \in Nat : i \in 1 .. n => F[i] \in V
  <2> DEFINE T == {i \in Nat : i \in 1 .. n => F[i] \in V}
  <2>1. 0 \in T
    OBVIOUS
  <2>2. ASSUME NEW i \in Nat, i \in T PROVE i + 1 \in T
    <3>1. SUFFICES ASSUME i + 1 \in 1 .. n PROVE F[i + 1] \in V
      OBVIOUS
    <3>2. CASE i = 0
      BY <1>1, <1>11, <3>2
    <3>3. CASE i # 0
      <4>1. i \in 1 .. n /\ i \in 1 .. n - 1
        BY <1>1, <3>1, <3>3
      <4>2. F[i] \in Seq(D) /\ seqs[i + 1] \in Seq(D)
        BY <2>2, <4>1, <3>1, <1>1
      <4>3. F[i + 1] = F[i] \o seqs[i + 1]
        BY <1>12, <4>1
      <4> QED BY <4>2, <4>3
    <3> QED BY <3>2, <3>3
  <2> HIDE DEF T
  <2>3. \A i \in Nat : i \in T
    BY <2>1, <2>2, Induction
  <2> QED BY <2>3 DEF T
<1>14. F \in [1 .. n -> V]
  BY <1>8, <1>13
<1>15. Joins(F, seqs, D)
  BY <1>9, <1>11, <1>12, <1>14 DEF Joins
<1> QED BY <1>15

\* Nothing, flattened, is nothing.
LEMMA FlattenNone == FlattenSeq(<<>>) = <<>>
  BY DEF FlattenSeq

\* Sequences over a set are flattened to a sequence over it.
LEMMA FlattenTyped ==
    ASSUME NEW D, NEW seqs \in Seq(Seq(D))
    PROVE FlattenSeq(seqs) \in Seq(D)
<1>1. CASE seqs = <<>>
  <2>1. FlattenSeq(seqs) = <<>>
    BY <1>1, FlattenNone
  <2> QED BY <2>1
<1>2. CASE seqs # <<>>
  <2>1. Len(seqs) \in 1 .. Len(seqs)
    BY <1>2
  <2>2. PICK g : Joins(g, seqs, D)
    BY <2>1, FlattenUnfolds
  <2> QED BY <2>1, <2>2 DEF Joins
<1> QED BY <1>1, <1>2

\* One more sequence is one more concatenation.
LEMMA FlattenAppend ==
    ASSUME NEW D, NEW seqs \in Seq(Seq(D)), NEW s \in Seq(D)
    PROVE FlattenSeq(Append(seqs, s)) = FlattenSeq(seqs) \o s
<1> DEFINE n == Len(seqs)
           more == Append(seqs, s)
<1>1. n \in Nat /\ more \in Seq(Seq(D)) /\ Len(more) = n + 1 /\ more[n + 1] = s
      /\ \A i \in 1 .. n : more[i] = seqs[i]
  OBVIOUS
<1> HIDE DEF more
<1>2. PICK g : Joins(g, more, D)
  BY <1>1, FlattenUnfolds
<1>3. CASE n = 0
  <2>1. seqs = <<>>
    BY <1>3
  <2>2. FlattenSeq(more) = s
    BY <1>1, <1>2, <1>3 DEF Joins
  <2> QED BY <2>1, <2>2, FlattenNone DEF more
<1>4. CASE n # 0
  <2>1. PICK f : Joins(f, seqs, D)
    BY <1>4, FlattenUnfolds
  <2> DEFINE T == {i \in Nat : i \in 1 .. n => g[i] = f[i]}
  <2>2. 0 \in T
    OBVIOUS
  <2>3. ASSUME NEW i \in Nat, i \in T PROVE i + 1 \in T
    <3>1. SUFFICES ASSUME i + 1 \in 1 .. n PROVE g[i + 1] = f[i + 1]
      OBVIOUS
    <3>2. CASE i = 0
      BY <1>1, <1>2, <2>1, <3>1, <3>2 DEF Joins
    <3>3. CASE i # 0
      <4>1. i \in 1 .. n /\ i \in 1 .. n - 1 /\ i \in 1 .. Len(more) - 1
        BY <1>1, <3>1, <3>3
      <4>2. g[i + 1] = g[i] \o more[i + 1]
        BY <1>2, <4>1 DEF Joins
      <4>3. f[i + 1] = f[i] \o seqs[i + 1]
        BY <1>1, <2>1, <4>1 DEF Joins
      <4>4. g[i] = f[i] /\ more[i + 1] = seqs[i + 1]
        BY <1>1, <2>3, <3>1, <4>1
      <4> QED BY <4>2, <4>3, <4>4
    <3> QED BY <3>2, <3>3
  <2> HIDE DEF T
  <2>4. n \in T
    BY <1>1, <2>2, <2>3, Induction
  <2>5. g[n] = f[n]
    BY <1>1, <1>4, <2>4 DEF T
  <2>6. n \in 1 .. Len(more) - 1
    BY <1>1, <1>4
  <2>7. g[n + 1] = g[n] \o more[n + 1]
    BY <1>2, <2>6 DEF Joins
  <2>8. FlattenSeq(more) = g[n + 1] /\ FlattenSeq(seqs) = f[n]
    BY <1>1, <1>2, <2>1 DEF Joins
  <2>9. FlattenSeq(more) = FlattenSeq(seqs) \o s
    BY <1>1, <2>5, <2>7, <2>8
  <2> QED BY <2>9 DEF more
<1> QED BY <1>3, <1>4

--------------------------------------------------------------------------------
\* Two functions that are defined alike so far have the same values so far.
LEMMA IteratesUnique ==
    ASSUME NEW m \in Nat, NEW m1 \in Nat, NEW m2 \in Nat, m <= m1, m <= m2, NEW V, NEW base,
           NEW h1, NEW h2, NEW g1, NEW g2,
           Iterates(g1, m1, V, base, h1), Iterates(g2, m2, V, base, h2),
           \A i \in 1 .. m : h1[i] = h2[i]
    PROVE g1[m] = g2[m]
<1> DEFINE T == {n \in Nat : n <= m => g1[n] = g2[n]}
<1>1. 0 \in T
  BY DEF Iterates
<1>2. ASSUME NEW n \in Nat, n \in T PROVE n + 1 \in T
  <2>1. SUFFICES ASSUME n + 1 <= m PROVE g1[n + 1] = g2[n + 1]
    OBVIOUS
  <2>2. n \in 0 .. m1 - 1 /\ n \in 0 .. m2 - 1 /\ n + 1 \in 1 .. m /\ n <= m
    BY <2>1
  <2>3. g1[n + 1] = h1[n + 1][g1[n]] /\ g2[n + 1] = h2[n + 1][g2[n]]
    BY <2>2 DEF Iterates
  <2>4. h1[n + 1] = h2[n + 1] /\ g1[n] = g2[n]
    BY <1>2, <2>2
  <2> QED BY <2>3, <2>4
<1> HIDE DEF T
<1>3. m \in T
  BY <1>1, <1>2, Induction
<1> QED BY <1>3 DEF T

\* The greatest of a set of numbers up to n.
LEMMA MaxFrom0 ==
    ASSUME NEW n \in Nat, NEW s \in SUBSET (0 .. n), s # {}
    PROVE Max(s) \in s /\ \A i \in s : i <= Max(s)
<1> DEFINE T == {n - i : i \in s}
<1>1. T \subseteq Nat /\ T # {}
  <2>1. \A i \in s : n - i \in Nat
    OBVIOUS
  <2>2. PICK i \in s : TRUE
    OBVIOUS
  <2>3. n - i \in T
    BY <2>2
  <2> QED BY <2>1, <2>3
<1> HIDE DEF T
<1>2. PICK x \in T : \A y \in T : x <= y
  BY <1>1, LeastNumber
<1>3. PICK k \in s : x = n - k
  BY <1>2 DEF T
<1>4. \A i \in s : n - i \in T
  BY DEF T
<1>5. \A i \in s : n - k <= n - i
  BY <1>2, <1>3, <1>4
<1>6. \A i \in s : k >= i
  BY <1>5
<1>7. \E j \in s : \A i \in s : j >= i
  BY <1>6
<1>8. Max(s) \in s /\ \A i \in s : Max(s) >= i
  <2> DEFINE M == CHOOSE j \in s : \A i \in s : j >= i
  <2>1. M \in s /\ \A i \in s : M >= i
    BY <1>7
  <2> QED BY <2>1 DEF Max
<1> QED BY <1>8

\* The folds of the library go over sets of indices, from the greatest downwards.
FoldsBack(it, n, V, base, h) ==
    /\ it \in [SUBSET (1 .. n) -> V]
    /\ it[{}] = base
    /\ \A s \in SUBSET (1 .. n) : s # {} => it[s] = h[Max(s)][it[s \ {Max(s)}]]

\* A set of numbers up to n that is not empty has its maximum.
LEMMA MaxOf ==
    ASSUME NEW n \in Nat, NEW s \in SUBSET (1 .. n), s # {}
    PROVE Max(s) \in s /\ \A i \in s : i <= Max(s)
<1>1. s \in SUBSET (0 .. n)
  OBVIOUS
<1> QED BY <1>1, MaxFrom0

\* The function over sets of positions that a fold chooses exists.
LEMMA FoldExists ==
    ASSUME NEW n \in Nat, NEW V, NEW base \in V, NEW h \in [1 .. n -> [V -> V]]
    PROVE \E it : FoldsBack(it, n, V, base, h)
<1> DEFINE Part(s) == [i \in 1 .. n |-> IF i \in s THEN h[i] ELSE [v \in V |-> v]]
           G(s) == CHOOSE g : Iterates(g, n, V, base, Part(s))
           it == [s \in SUBSET (1 .. n) |-> G(s)[n]]
<1>1. ASSUME NEW s \in SUBSET (1 .. n) PROVE Iterates(G(s), n, V, base, Part(s))
  <2>1. Part(s) \in [1 .. n -> [V -> V]]
    OBVIOUS
  <2> HIDE DEF Part
  <2>2. \E g : Iterates(g, n, V, base, Part(s))
    BY <2>1, Recursion
  <2> QED BY <2>2
<1> HIDE DEF G
<1>2. ASSUME NEW s \in SUBSET (1 .. n) PROVE G(s)[n] \in V /\ it[s] = G(s)[n]
  BY <1>1 DEF Iterates
<1>3. \* Behind the greatest element nothing changes.
      ASSUME NEW s \in SUBSET (1 .. n), NEW m \in 0 .. n, \A i \in s : i <= m
      PROVE G(s)[n] = G(s)[m]
  <2> DEFINE T == {j \in Nat : m + j <= n => G(s)[m + j] = G(s)[m]}
  <2>1. 0 \in T
    OBVIOUS
  <2>2. ASSUME NEW j \in Nat, j \in T PROVE j + 1 \in T
    <3>1. SUFFICES ASSUME m + (j + 1) <= n PROVE G(s)[m + (j + 1)] = G(s)[m]
      OBVIOUS
    <3>2. m + j \in 0 .. n - 1 /\ m + (j + 1) = (m + j) + 1 /\ m + j <= n /\ (m + j) + 1 \in 1 .. n
      BY <3>1
    <3>3. (m + j) + 1 \notin s
      BY <1>3
    <3>4. G(s)[(m + j) + 1] = Part(s)[(m + j) + 1][G(s)[m + j]]
      <4> HIDE DEF Part
      <4> QED BY <1>1, <3>2 DEF Iterates
    <3>5. Part(s)[(m + j) + 1] = [v \in V |-> v]
      BY <3>2, <3>3
    <3>6. G(s)[m + j] \in V
      <4> HIDE DEF Part
      <4> QED BY <1>1, <3>2 DEF Iterates
    <3>7. G(s)[m + j] = G(s)[m]
      BY <2>2, <3>2
    <3>8. Part(s)[(m + j) + 1][G(s)[m + j]] = G(s)[m + j]
      <4> HIDE DEF Part
      <4> QED BY <3>5, <3>6
    <3> HIDE DEF Part
    <3> QED BY <3>2, <3>4, <3>7, <3>8
  <2> HIDE DEF T
  <2>3. n - m \in Nat /\ m + (n - m) = n
    OBVIOUS
  <2>4. n - m \in T
    BY <2>1, <2>2, <2>3, Induction
  <2> QED BY <2>3, <2>4 DEF T
<1>4. it \in [SUBSET (1 .. n) -> V]
  BY <1>2
<1>5. it[{}] = base
  <2>1. {} \in SUBSET (1 .. n) /\ 0 \in 0 .. n
    OBVIOUS
  <2>2. G({})[n] = G({})[0]
    BY <1>3, <2>1
  <2>3. G({})[0] = base
    <3> HIDE DEF Part
    <3> QED BY <1>1, <2>1 DEF Iterates
  <2> QED BY <1>2, <2>1, <2>2, <2>3
<1>6. ASSUME NEW s \in SUBSET (1 .. n), s # {}
      PROVE it[s] = h[Max(s)][it[s \ {Max(s)}]]
  <2> DEFINE m == Max(s)
             less == s \ {m}
  <2>1. m \in s /\ m \in 1 .. n /\ \A i \in s : i <= m
    BY <1>6, MaxOf
  <2> HIDE DEF m
  <2>2. less \in SUBSET (1 .. n) /\ \A i \in less : i <= m - 1
    BY <2>1
  <2>3. G(s)[n] = G(s)[m]
    BY <1>3, <2>1
  <2>4. m - 1 \in 0 .. n /\ m - 1 \in 0 .. n - 1 /\ m - 1 + 1 = m /\ m - 1 \in Nat /\ m - 1 <= n
    BY <2>1
  <2>5. G(less)[n] = G(less)[m - 1]
    BY <1>3, <2>2, <2>4
  <2>6. G(s)[m] = Part(s)[m][G(s)[m - 1]]
    <3> DEFINE k == m - 1
    <3> HIDE DEF Part, k
    <3>1. k \in 0 .. n - 1 /\ k + 1 = m
      BY <2>4 DEF k
    <3>2. G(s)[k + 1] = Part(s)[k + 1][G(s)[k]]
      BY <1>1, <3>1 DEF Iterates
    <3> QED BY <3>1, <3>2 DEF k
  <2>7. Part(s)[m] = h[m]
    BY <2>1
  <2>8. \A i \in 1 .. m - 1 : Part(s)[i] = Part(less)[i]
    BY <2>1, <2>4
  <2>9. G(s)[m - 1] = G(less)[m - 1]
    <3> DEFINE k == m - 1
               g1 == G(s)
               g2 == G(less)
               h1 == Part(s)
               h2 == Part(less)
    <3>1. k \in Nat /\ k <= n /\ \A i \in 1 .. k : h1[i] = h2[i]
      BY <2>4, <2>8
    <3>2. Iterates(g1, n, V, base, h1) /\ Iterates(g2, n, V, base, h2)
      BY <1>1, <2>2
    <3> HIDE DEF Part, k, g1, g2, h1, h2
    <3>3. g1[k] = g2[k]
      BY <3>1, <3>2, IteratesUnique
    <3> QED BY <3>3 DEF k, g1, g2
  <2>10. it[s] = G(s)[n] /\ it[less] = G(less)[n]
    BY <1>2, <2>2
  <2> HIDE DEF it, Part, less
  <2>11. it[s] = h[m][it[less]]
    BY <2>3, <2>5, <2>6, <2>7, <2>9, <2>10
  <2> QED BY <2>11 DEF m, less
<1> HIDE DEF it
<1>7. FoldsBack(it, n, V, base, h)
  BY <1>4, <1>5, <1>6 DEF FoldsBack
<1> QED BY <1>7

\* The maximum of an interval, and what is left without it.
LEMMA MaxInterval ==
    ASSUME NEW k \in Nat
    PROVE Max(1 .. k + 1) = k + 1 /\ (1 .. k + 1) \ {k + 1} = 1 .. k
<1> DEFINE s == 1 .. k + 1
           n == k + 1
<1>1. n \in Nat /\ s \in SUBSET (1 .. n) /\ s # {} /\ n \in s
  OBVIOUS
<1> HIDE DEF s, n
<1>2. Max(s) \in s /\ \A i \in s : i <= Max(s)
  BY <1>1, MaxOf
<1>3. Max(s) \in 1 .. n /\ n <= Max(s)
  BY <1>1, <1>2
<1>4. Max(s) = n
  BY <1>1, <1>3
<1>5. (1 .. k + 1) \ {k + 1} = 1 .. k
  OBVIOUS
<1> QED BY <1>4, <1>5 DEF s, n

\* The fold over the first k elements of a sequence.
Unfolds(F, n, V, base, h) ==
    /\ F[{}] = base
    /\ \A k \in 0 .. n - 1 : F[1 .. k] \in V => F[1 .. k + 1] = h[k + 1][F[1 .. k]]

\* What a fold gives for all positions is the last of its results for the prefixes.
LEMMA FoldIterates ==
    ASSUME NEW n \in Nat, NEW V, NEW base \in V, NEW h \in [1 .. n -> [V -> V]], NEW F, Unfolds(F, n, V, base, h)
    PROVE \E g : Iterates(g, n, V, base, h) /\ g[n] = F[1 .. n]
<1>1. PICK g : Iterates(g, n, V, base, h)
  BY Recursion
<1> DEFINE T == {k \in Nat : k <= n => F[1 .. k] = g[k]}
<1>2. 0 \in T
  <2>1. 1 .. 0 = {}
    OBVIOUS
  <2>2. F[1 .. 0] = base
    BY <2>1 DEF Unfolds
  <2> QED BY <1>1, <2>2 DEF Iterates
<1>3. ASSUME NEW k \in Nat, k \in T PROVE k + 1 \in T
  <2>1. SUFFICES ASSUME k + 1 <= n PROVE F[1 .. k + 1] = g[k + 1]
    OBVIOUS
  <2>2. k \in 0 .. n - 1 /\ k \in 0 .. n /\ k <= n
    BY <2>1
  <2>3. F[1 .. k] = g[k]
    BY <1>3, <2>2
  <2>4. g[k] \in V /\ g[k + 1] = h[k + 1][g[k]]
    BY <1>1, <2>2 DEF Iterates
  <2>5. F[1 .. k + 1] = h[k + 1][F[1 .. k]]
    BY <2>2, <2>3, <2>4 DEF Unfolds
  <2> QED BY <2>3, <2>4, <2>5
<1> HIDE DEF T
<1>4. n \in T
  BY <1>2, <1>3, Induction
<1>5. F[1 .. n] = g[n]
  BY <1>4 DEF T
<1> QED BY <1>1, <1>5

\* A sum of numbers is a number.
LEMMA SumTyped ==
    ASSUME NEW base \in Nat, NEW s \in Seq(Nat)
    PROVE FoldLeft(+, base, s) \in Nat
<1> DEFINE n == Len(s)
           h == [i \in 1 .. n |-> [v \in Nat |-> v + s[i]]]
           F == CHOOSE it : it = [d \in SUBSET (DOMAIN s) |->
                    IF d = {} THEN base ELSE it[d \ {Max(d)}] + s[Max(d)]]
<1>1. n \in Nat /\ DOMAIN s = 1 .. n /\ \A i \in 1 .. n : s[i] \in Nat
  OBVIOUS
<1>2. h \in [1 .. n -> [Nat -> Nat]]
  BY <1>1
<1>3. FoldLeft(+, base, s) = F[DOMAIN s]
  BY DEF FoldLeft, MapThenFoldSet
<1>4. ASSUME NEW k \in 1 .. n, NEW v \in Nat PROVE h[k][v] = v + s[k]
  OBVIOUS
<1> HIDE DEF h
<1>5. PICK it : FoldsBack(it, n, Nat, base, h)
  <2> HIDE DEF n
  <2> QED BY <1>1, <1>2, FoldExists
<1>6. it = [d \in SUBSET (1 .. n) |-> IF d = {} THEN base ELSE it[d \ {Max(d)}] + s[Max(d)]]
  <2>1. ASSUME NEW d \in SUBSET (1 .. n), d # {}
        PROVE it[d] = it[d \ {Max(d)}] + s[Max(d)]
    <3>1. Max(d) \in d
      BY <1>1, <2>1, MaxOf
    <3>2. it[d \ {Max(d)}] \in Nat
      BY <1>5 DEF FoldsBack
    <3>3. it[d] = h[Max(d)][it[d \ {Max(d)}]]
      BY <1>5, <2>1 DEF FoldsBack
    <3> QED BY <1>4, <3>1, <3>2, <3>3
  <2>2. it \in [SUBSET (1 .. n) -> Nat] /\ it[{}] = base
    BY <1>5 DEF FoldsBack
  <2> QED BY <2>1, <2>2
<1>7. F = [d \in SUBSET (1 .. n) |-> IF d = {} THEN base ELSE F[d \ {Max(d)}] + s[Max(d)]]
  BY <1>1, <1>6
<1> HIDE DEF F
<1>8. F[{}] = base
  BY <1>7
<1>9. ASSUME NEW k \in 0 .. n - 1, F[1 .. k] \in Nat PROVE F[1 .. k + 1] = h[k + 1][F[1 .. k]]
  <2>1. 1 .. k + 1 \in SUBSET (1 .. n) /\ 1 .. k + 1 # {} /\ k + 1 \in 1 .. n /\ k \in Nat
    <3>1. k \in Nat /\ k + 1 \in 1 .. n /\ k + 1 \in 1 .. k + 1
      BY <1>1
    <3>2. \A i \in 1 .. k + 1 : i \in 1 .. n
      BY <3>1
    <3> QED BY <3>1, <3>2
  <2>2. Max(1 .. k + 1) = k + 1 /\ (1 .. k + 1) \ {k + 1} = 1 .. k
    BY <2>1, MaxInterval
  <2>3. F[1 .. k + 1] = F[1 .. k] + s[k + 1]
    BY <1>7, <2>1, <2>2
  <2> QED BY <1>4, <1>9, <2>1, <2>3
<1>10. Unfolds(F, n, Nat, base, h)
  BY <1>8, <1>9 DEF Unfolds
<1> DEFINE V == Nat
           b == base
<1>11. n \in Nat /\ b \in V /\ h \in [1 .. n -> [V -> V]] /\ Unfolds(F, n, V, b, h)
  BY <1>1, <1>2, <1>10
<1> HIDE DEF n, V, b
<1>12. \E g : Iterates(g, n, V, b, h) /\ g[n] = F[1 .. n]
  BY <1>11, FoldIterates
<1>13. PICK g : Iterates(g, n, V, b, h) /\ g[n] = F[1 .. n]
  BY <1>12
<1>14. g[n] \in V
  BY <1>11, <1>13 DEF Iterates
<1> QED BY <1>1, <1>3, <1>13, <1>14 DEF V

--------------------------------------------------------------------------------
\* One sequence, flattened, is itself.
LEMMA FlattenOne ==
    ASSUME NEW D, NEW s \in Seq(D)
    PROVE FlattenSeq(<<s>>) = s
<1>1. <<>> \in Seq(Seq(D)) /\ Append(<<>>, s) = <<s>>
  OBVIOUS
<1>2. FlattenSeq(Append(<<>>, s)) = FlattenSeq(<<>>) \o s
  BY <1>1, FlattenAppend
<1>3. <<>> \o s = s
  OBVIOUS
<1> QED BY <1>1, <1>2, <1>3, FlattenNone

\* A sequence that is not empty is its front and its last element.
AllButLast(s) == SubSeq(s, 1, Len(s) - 1)

\* A sequence without its last element.
LEMMA FrontProperties ==
    ASSUME NEW D, NEW s \in Seq(D), s # <<>>
    PROVE /\ Len(s) \in Nat /\ Len(s) > 0 /\ s[Len(s)] \in D
          /\ AllButLast(s) \in Seq(D)
          /\ Len(AllButLast(s)) = Len(s) - 1
          /\ \A k \in 1 .. Len(s) - 1 : AllButLast(s)[k] = s[k]
<1> DEFINE m == Len(s) - 1
<1>1. Len(s) \in Nat /\ Len(s) > 0 /\ s[Len(s)] \in D /\ m \in Nat
  OBVIOUS
<1>2. \A i \in 1 .. m : s[i] \in D
  OBVIOUS
<1> HIDE DEF m
<1> DEFINE front == SubSeq(s, 1, m)
<1>3. /\ front \in Seq(D)
      /\ Len(front) = IF 1 <= m THEN m - 1 + 1 ELSE 0
      /\ \A i \in 1 .. m - 1 + 1 : front[i] = s[1 + i - 1]
  BY <1>1, <1>2, SubSeqProperties
<1> HIDE DEF front
<1>4. Len(front) = m /\ \A i \in 1 .. m : front[i] = s[i]
  BY <1>1, <1>3
<1> QED BY <1>1, <1>3, <1>4 DEF front, m, AllButLast

\* A sequence is its front and its last element.
LEMMA FrontLast ==
    ASSUME NEW D, NEW s \in Seq(D), s # <<>>
    PROVE s = Append(AllButLast(s), s[Len(s)])
<1> DEFINE n == Len(s)
           t == Append(AllButLast(s), s[n])
<1>1. n \in Nat /\ n > 0 /\ s[n] \in D
      /\ AllButLast(s) \in Seq(D) /\ Len(AllButLast(s)) = n - 1 /\ \A k \in 1 .. n - 1 : AllButLast(s)[k] = s[k]
  BY FrontProperties
<1>2. t \in Seq(D) /\ Len(t) = n /\ t[n] = s[n] /\ \A k \in 1 .. n - 1 : t[k] = s[k]
  BY <1>1
<1> HIDE DEF t
<1>3. \A k \in 1 .. n : t[k] = s[k]
  <2>1. \A k \in 1 .. n : k = n \/ k \in 1 .. n - 1
    BY <1>1
  <2> QED BY <1>2, <2>1
<1>4. s = t
  BY <1>2, <1>3, SeqEqual
<1> QED BY <1>4 DEF t

\* An element added to the last sequence comes last.
LEMMA FlattenLast ==
    ASSUME NEW D, NEW seqs \in Seq(Seq(D)), seqs # <<>>, NEW e \in D
    PROVE FlattenSeq([seqs EXCEPT ![Len(seqs)] = Append(@, e)]) = Append(FlattenSeq(seqs), e)
<1> DEFINE n == Len(seqs)
           front == AllButLast(seqs)
           last == seqs[n]
           longer == Append(last, e)
           a == [seqs EXCEPT ![n] = longer]
           b == Append(front, longer)
<1>1. n \in Nat /\ n > 0 /\ last \in Seq(D)
      /\ front \in Seq(Seq(D)) /\ Len(front) = n - 1 /\ \A k \in 1 .. n - 1 : front[k] = seqs[k]
  BY FrontProperties
<1>2. seqs = Append(front, last)
  BY FrontLast
<1>3. longer \in Seq(D)
  BY <1>1
<1> HIDE DEF longer, front
<1>4. a \in Seq(Seq(D)) /\ Len(a) = n /\ a[n] = longer /\ \A k \in 1 .. n - 1 : a[k] = seqs[k]
  <2>1. n \in 1 .. Len(seqs)
    BY <1>1
  <2>2. a \in Seq(Seq(D)) /\ Len(a) = n /\ \A j \in 1 .. n : a[j] = IF j = n THEN longer ELSE seqs[j]
    BY <1>3, <2>1, ExceptSeq
  <2> HIDE DEF a
  <2> QED BY <1>1, <2>2
<1>5. b \in Seq(Seq(D)) /\ Len(b) = n /\ b[n] = longer /\ \A k \in 1 .. n - 1 : b[k] = seqs[k]
  BY <1>1, <1>3
<1> HIDE DEF a, b
<1>6. \A k \in 1 .. n : a[k] = b[k]
  <2>1. \A k \in 1 .. n : k = n \/ k \in 1 .. n - 1
    BY <1>1
  <2> QED BY <1>4, <1>5, <2>1
<1>7. a = b
  BY <1>4, <1>5, <1>6, SeqEqual
<1>8. FlattenSeq(front) \in Seq(D)
  BY <1>1, FlattenTyped
<1>9. FlattenSeq(Append(front, longer)) = FlattenSeq(front) \o longer
  BY <1>1, <1>3, FlattenAppend
<1>10. FlattenSeq(Append(front, last)) = FlattenSeq(front) \o last
  BY <1>1, FlattenAppend
<1>11. FlattenSeq(front) \o Append(last, e) = Append(FlattenSeq(front) \o last, e)
  BY <1>1, <1>8
<1>12. FlattenSeq(seqs) = FlattenSeq(front) \o last
  BY <1>2, <1>10
<1>13. FlattenSeq(a) = FlattenSeq(front) \o longer
  BY <1>7, <1>9 DEF b
<1> QED BY <1>11, <1>12, <1>13 DEF a, longer

\* A function on 1 .. n is a sequence.
LEMMA IsSequence ==
    ASSUME NEW D, NEW n \in Nat, NEW f, f = [k \in 1 .. n |-> f[k]], \A k \in 1 .. n : f[k] \in D
    PROVE f \in Seq(D) /\ Len(f) = n
  OBVIOUS

\* The first k elements of a sequence.
LEMMA Prefix ==
    ASSUME NEW D, NEW s \in Seq(D), NEW k \in 0 .. Len(s)
    PROVE /\ SubSeq(s, 1, k) \in Seq(D)
          /\ Len(SubSeq(s, 1, k)) = k
          /\ \A i \in 1 .. k : SubSeq(s, 1, k)[i] = s[i]
<1>1. \A i \in 1 .. k : s[i] \in D
  OBVIOUS
<1> DEFINE t == SubSeq(s, 1, k)
<1>2. /\ t \in Seq(D)
      /\ Len(t) = IF 1 <= k THEN k - 1 + 1 ELSE 0
      /\ \A i \in 1 .. k - 1 + 1 : t[i] = s[1 + i - 1]
  BY <1>1, SubSeqProperties
<1> HIDE DEF t
<1>3. Len(t) = k /\ \A i \in 1 .. k : t[i] = s[i]
  BY <1>2
<1> QED BY <1>2, <1>3 DEF t

\* The first 0 are none.
LEMMA PrefixNone == ASSUME NEW D, NEW s \in Seq(D) PROVE SubSeq(s, 1, 0) = <<>>
  BY SubSeqEmpty

\* The first Len(s) are all.
LEMMA PrefixAll == ASSUME NEW D, NEW s \in Seq(D) PROVE SubSeq(s, 1, Len(s)) = s
<1>1. Len(s) \in 0 .. Len(s)
  OBVIOUS
<1> DEFINE t == SubSeq(s, 1, Len(s))
<1>2. t \in Seq(D) /\ Len(t) = Len(s) /\ \A i \in 1 .. Len(s) : t[i] = s[i]
  BY <1>1, Prefix
<1> HIDE DEF t
<1>3. t = s
  BY <1>2, SeqEqual
<1> QED BY <1>3 DEF t

\* One more of them is the next element.
LEMMA PrefixNext ==
    ASSUME NEW D, NEW s \in Seq(D), NEW k \in 0 .. Len(s) - 1
    PROVE SubSeq(s, 1, k + 1) = Append(SubSeq(s, 1, k), s[k + 1])
<1> DEFINE a == SubSeq(s, 1, k + 1)
           p == SubSeq(s, 1, k)
           b == Append(p, s[k + 1])
<1>1. k \in 0 .. Len(s) /\ k + 1 \in 0 .. Len(s) /\ s[k + 1] \in D
  OBVIOUS
<1>2. a \in Seq(D) /\ Len(a) = k + 1 /\ \A i \in 1 .. k + 1 : a[i] = s[i]
  BY <1>1, Prefix
<1>3. p \in Seq(D) /\ Len(p) = k /\ \A i \in 1 .. k : p[i] = s[i]
  BY <1>1, Prefix
<1> HIDE DEF a, p
<1>4. b \in Seq(D) /\ Len(b) = k + 1 /\ b[k + 1] = s[k + 1] /\ \A i \in 1 .. k : b[i] = s[i]
  BY <1>1, <1>3
<1> HIDE DEF b
<1>5. \A i \in 1 .. k + 1 : a[i] = b[i]
  <2>1. \A i \in 1 .. k + 1 : i = k + 1 \/ i \in 1 .. k
    OBVIOUS
  <2> QED BY <1>2, <1>4, <2>1
<1>6. a = b
  BY <1>2, <1>4, <1>5, SeqEqual
<1> QED BY <1>6 DEF a, b, p

\* A sequence is what its elements make one by one.
LEMMA FlattenSingles ==
    ASSUME NEW D, NEW s \in Seq(D)
    PROVE FlattenSeq([k \in DOMAIN s |-> <<s[k]>>]) = s
<1> DEFINE n == Len(s)
           seqs == [k \in DOMAIN s |-> <<s[k]>>]
<1>1. n \in Nat /\ DOMAIN s = 1 .. n /\ \A k \in 1 .. n : s[k] \in D /\ <<s[k]>> \in Seq(D)
  OBVIOUS
<1>2. seqs \in Seq(Seq(D)) /\ Len(seqs) = n /\ \A k \in 1 .. n : seqs[k] = <<s[k]>>
  BY <1>1
<1> HIDE DEF seqs
<1> DEFINE T == {k \in Nat : k <= n => FlattenSeq(SubSeq(seqs, 1, k)) = SubSeq(s, 1, k)}
<1>3. 0 \in T
  <2>1. SubSeq(seqs, 1, 0) = <<>> /\ SubSeq(s, 1, 0) = <<>>
    BY <1>2, PrefixNone
  <2> QED BY <2>1, FlattenNone
<1>4. ASSUME NEW k \in Nat, k \in T PROVE k + 1 \in T
  <2>1. SUFFICES ASSUME k + 1 <= n PROVE FlattenSeq(SubSeq(seqs, 1, k + 1)) = SubSeq(s, 1, k + 1)
    OBVIOUS
  <2>2. k \in 0 .. Len(seqs) - 1 /\ k \in 0 .. n - 1 /\ k <= n /\ k \in 0 .. Len(seqs) /\ k \in 0 .. n /\ k + 1 \in 1 .. n
    BY <1>1, <1>2, <2>1
  <2> DEFINE a == SubSeq(seqs, 1, k)
             b == SubSeq(s, 1, k)
  <2>3. SubSeq(seqs, 1, k + 1) = Append(a, seqs[k + 1]) /\ SubSeq(s, 1, k + 1) = Append(b, s[k + 1])
    BY <1>2, <2>2, PrefixNext
  <2>4. a \in Seq(Seq(D)) /\ b \in Seq(D)
    BY <1>2, <2>2, Prefix
  <2>5. FlattenSeq(a) = b
    BY <1>4, <2>2
  <2> HIDE DEF a, b
  <2>6. seqs[k + 1] = <<s[k + 1]>> /\ seqs[k + 1] \in Seq(D)
    BY <1>1, <1>2, <2>2
  <2>7. FlattenSeq(Append(a, seqs[k + 1])) = b \o <<s[k + 1]>>
    BY <2>4, <2>5, <2>6, FlattenAppend
  <2>8. b \o <<s[k + 1]>> = Append(b, s[k + 1])
    BY <2>4, <2>6
  <2> QED BY <2>3, <2>7, <2>8
<1> HIDE DEF T
<1>5. n \in T
  BY <1>1, <1>3, <1>4, Induction
<1>6. FlattenSeq(SubSeq(seqs, 1, n)) = SubSeq(s, 1, n)
  BY <1>1, <1>5 DEF T
<1>7. SubSeq(seqs, 1, n) = seqs /\ SubSeq(s, 1, n) = s
  BY <1>2, SubSeqFull
<1> QED BY <1>6, <1>7 DEF seqs

\* Maximum and minimum of two numbers.
LEMMA Pair ==
    ASSUME NEW a \in Int, NEW b \in Int
    PROVE Max({a, b}) = (IF a >= b THEN a ELSE b) /\ Min({a, b}) = (IF a <= b THEN a ELSE b)
  BY DEF Max, Min

\* Integer division, and products in order.
LEMMA Division ==
    ASSUME NEW a \in Nat, NEW n \in Nat \ {0}
    PROVE a \div n \in Nat /\ n * (a \div n) <= a /\ a < n * (a \div n) + n
<1>1. a \in Int /\ n \in Int /\ n > 0
  OBVIOUS
<1>2. a \div n \in Int
  BY <1>1
<1>3. n * (a \div n) <= a /\ a < n * (a \div n) + n
  BY <1>1, SMTT(30)
<1>4. a \div n >= 0
  BY <1>1
<1> QED BY <1>2, <1>3, <1>4

\* Multiplication keeps the order.
LEMMA ProductGrows ==
    ASSUME NEW n \in Nat, NEW i \in Int, NEW j \in Int, i <= j
    PROVE i * n <= j * n
  OBVIOUS

\* One more of n is n more.
LEMMA ProductNext ==
    ASSUME NEW n \in Nat, NEW i \in Int
    PROVE (i + 1) * n = i * n + n /\ i * n \in Int
  OBVIOUS

\* A sequence that is one followed by another.
Follows(s, f, p) ==
    /\ Len(s) = Len(f) + Len(p)
    /\ \A i \in 1 .. Len(f) : s[i] = f[i]
    /\ \A i \in 1 .. Len(p) : s[Len(f) + i] = p[i]

\* The concatenation of two sequences is the one followed by the other.
LEMMA Joined ==
    ASSUME NEW D, NEW f \in Seq(D), NEW p \in Seq(D)
    PROVE f \o p \in Seq(D) /\ Follows(f \o p, f, p)
  BY DEF Follows

\* Sequences of one length w: the elements of the k-th begin behind (k - 1) * w others.
LEMMA FlattenUniform ==
    ASSUME NEW D, NEW e \in Seq(Seq(D)), NEW w \in Nat, \A k \in 1 .. Len(e) : Len(e[k]) = w
    PROVE /\ FlattenSeq(e) \in Seq(D) /\ Len(FlattenSeq(e)) = Len(e) * w
          /\ \A k \in 1 .. Len(e) : \A j \in 1 .. w : FlattenSeq(e)[(k - 1) * w + j] = e[k][j]
<1> DEFINE n == Len(e)
           F(m) == FlattenSeq(SubSeq(e, 1, m))
           Even(m) == /\ F(m) \in Seq(D) /\ Len(F(m)) = m * w
                      /\ \A k \in 1 .. m : \A j \in 1 .. w : F(m)[(k - 1) * w + j] = e[k][j]
           T == {m \in Nat : m <= n => Even(m)}
<1>1. n \in Nat
  OBVIOUS
<1>2. 0 \in T
  <2>1. F(0) = <<>>
    BY PrefixNone, FlattenNone
  <2> HIDE DEF F
  <2>2. F(0) \in Seq(D) /\ Len(F(0)) = 0
    <3>1. <<>> \in Seq(D) /\ Len(<<>>) = 0
      OBVIOUS
    <3> QED BY <2>1, <3>1
  <2>3. 0 * w = 0
    OBVIOUS
  <2> QED BY <2>2, <2>3
<1>3. ASSUME NEW m \in Nat, m \in T PROVE m + 1 \in T
  <2>1. SUFFICES ASSUME m + 1 <= n PROVE Even(m + 1)
    OBVIOUS
  <2>2. m \in 0 .. n - 1 /\ m \in 0 .. n /\ m + 1 \in 1 .. n /\ m <= n
    BY <1>1, <2>1
  <2> DEFINE a == SubSeq(e, 1, m)
             p == e[m + 1]
  <2>3. SubSeq(e, 1, m + 1) = Append(a, p) /\ a \in Seq(Seq(D)) /\ p \in Seq(D) /\ Len(p) = w
    <3>1. SubSeq(e, 1, m + 1) = Append(a, p)
      BY <2>2, PrefixNext
    <3>2. a \in Seq(Seq(D))
      BY <2>2, Prefix
    <3> QED BY <2>2, <3>1, <3>2
  <2>4. Even(m)
    BY <1>3, <2>2
  <2>5. F(m + 1) = F(m) \o p
    <3> HIDE DEF a, p
    <3>1. FlattenSeq(Append(a, p)) = FlattenSeq(a) \o p
      BY <2>3, FlattenAppend
    <3> QED BY <2>3, <3>1 DEF a
  <2> DEFINE f == F(m)
             g == F(m + 1)
             b == m * w
  <2>6. b \in Nat /\ (m + 1) * w = b + w
    <3>1. 0 * w <= m * w /\ 0 * w = 0
      BY ProductGrows
    <3> QED BY <3>1, ProductNext
  <2>7. f \in Seq(D) /\ Len(f) = b /\ \A k \in 1 .. m : \A j \in 1 .. w : f[(k - 1) * w + j] = e[k][j]
    BY <2>4
  <2>8. g = f \o p
    BY <2>5
  <2> HIDE DEF f, g, a, p, b
  <2>9. /\ g \in Seq(D) /\ Len(g) = b + w
        /\ \A i \in 1 .. b : g[i] = f[i]
        /\ \A i \in 1 .. w : g[b + i] = p[i]
    <3>1. f \in Seq(D) /\ p \in Seq(D) /\ Len(f) = b /\ Len(p) = w
      BY <2>3, <2>7
    <3>2. g \in Seq(D) /\ Follows(g, f, p)
      BY <2>8, <3>1, Joined
    <3> QED BY <3>1, <3>2 DEF Follows
  <2>10. ASSUME NEW k \in 1 .. m + 1, NEW j \in 1 .. w PROVE g[(k - 1) * w + j] = e[k][j]
    <3>1. CASE k = m + 1
      <4>1. (k - 1) * w = b
        BY <3>1 DEF b
      <4>2. g[b + j] = p[j]
        BY <2>9
      <4>3. (k - 1) * w + j = b + j
        BY <4>1
      <4> QED BY <3>1, <4>2, <4>3 DEF p
    <3>2. CASE k \in 1 .. m
      <4> DEFINE i == (k - 1) * w
      <4>1. i \in Int /\ 0 <= i /\ i + w <= b
        <5>1. 0 * w <= (k - 1) * w /\ 0 * w = 0
          BY <3>2, ProductGrows
        <5>2. k * w <= m * w
          BY <3>2, ProductGrows
        <5>3. (k - 1 + 1) * w = (k - 1) * w + w /\ (k - 1) * w \in Int /\ k - 1 + 1 = k
          BY <3>2, ProductNext
        <5> QED BY <5>1, <5>2, <5>3 DEF b
      <4>2. f[i + j] = e[k][j]
        BY <2>7, <3>2
      <4> HIDE DEF i
      <4>3. i + j \in 1 .. b
        BY <2>6, <4>1
      <4>4. g[i + j] = f[i + j]
        BY <2>9, <4>3
      <4> QED BY <4>2, <4>4 DEF i
    <3> QED BY <3>1, <3>2
  <2>11. Len(g) = (m + 1) * w
    BY <2>6, <2>9
  <2> QED BY <2>9, <2>10, <2>11 DEF g
<1> HIDE DEF T
<1>4. n \in T
  BY <1>1, <1>2, <1>3, Induction
<1>5. Even(n)
  BY <1>1, <1>4 DEF T
<1>6. F(n) = FlattenSeq(e)
  BY PrefixAll
<1> HIDE DEF F
<1> QED BY <1>5, <1>6

\* What comes first stays first.
LEMMA FlattenPrefix ==
    ASSUME NEW D, NEW e \in Seq(Seq(D)), NEW m \in 0 .. Len(e)
    PROVE LET part == FlattenSeq(SubSeq(e, 1, m))
          IN /\ part \in Seq(D) /\ FlattenSeq(e) \in Seq(D) /\ Len(part) <= Len(FlattenSeq(e))
             /\ \A i \in 1 .. Len(part) : FlattenSeq(e)[i] = part[i]
<1> DEFINE n == Len(e)
           F(k) == FlattenSeq(SubSeq(e, 1, k))
           part == F(m)
           Longer(s) == s \in Seq(D) /\ Len(part) <= Len(s) /\ \A i \in 1 .. Len(part) : s[i] = part[i]
           T == {d \in Nat : m + d <= n => Longer(F(m + d))}
<1>1. n \in Nat /\ m \in Nat /\ m <= n
  OBVIOUS
<1>2. ASSUME NEW k \in 0 .. n PROVE F(k) \in Seq(D)
  BY Prefix, FlattenTyped
<1>3. 0 \in T
  <2>1. m + 0 = m /\ part \in Seq(D)
    BY <1>2
  <2> HIDE DEF F
  <2> QED BY <2>1
<1>4. ASSUME NEW d \in Nat, d \in T PROVE d + 1 \in T
  <2>1. SUFFICES ASSUME m + (d + 1) <= n PROVE Longer(F(m + (d + 1)))
    OBVIOUS
  <2> DEFINE k == m + d
  <2>2. k \in 0 .. n - 1 /\ k \in 0 .. n /\ k + 1 \in 1 .. n /\ k + 1 = m + (d + 1) /\ k <= n
    BY <1>1, <2>1
  <2>3. Longer(F(k))
    BY <1>4, <2>2
  <2> DEFINE p == e[k + 1]
             a == SubSeq(e, 1, k)
  <2>4. SubSeq(e, 1, k + 1) = Append(a, p) /\ a \in Seq(Seq(D)) /\ p \in Seq(D)
    <3>1. SubSeq(e, 1, k + 1) = Append(a, p)
      BY <2>2, PrefixNext
    <3>2. a \in Seq(Seq(D))
      BY <2>2, Prefix
    <3> QED BY <2>2, <3>1, <3>2
  <2>5. F(k + 1) = F(k) \o p
    <3> HIDE DEF a, p
    <3>1. FlattenSeq(Append(a, p)) = FlattenSeq(a) \o p
      BY <2>4, FlattenAppend
    <3> QED BY <2>4, <3>1 DEF a
  <2> DEFINE f == F(k)
             g == F(k + 1)
  <2> HIDE DEF F, k, p, a
  <2>6. f \in Seq(D) /\ p \in Seq(D) /\ g = f \o p
    BY <2>3, <2>4, <2>5
  <2> HIDE DEF f, g, part
  <2>7. g \in Seq(D) /\ Follows(g, f, p)
    BY <2>6, Joined
  <2>8. Len(f) \in Nat /\ Len(p) \in Nat /\ Len(part) <= Len(f) /\ \A i \in 1 .. Len(part) : f[i] = part[i]
    BY <2>3, <2>6 DEF f
  <2>9. Len(part) \in Nat
    BY <1>1, <1>2 DEF part, F
  <2>10. Len(g) >= Len(f) /\ \A i \in 1 .. Len(f) : g[i] = f[i]
    BY <2>7, <2>8 DEF Follows
  <2>11. Longer(g)
    BY <2>7, <2>8, <2>9, <2>10
  <2> QED BY <2>2, <2>11 DEF g
<1> DEFINE d == n - m
<1>5. d \in Nat /\ m + d = n
  BY <1>1
<1>6. SubSeq(e, 1, n) = e
  BY PrefixAll
<1> HIDE DEF T, d
<1>7. d \in T
  BY <1>3, <1>4, <1>5, Induction
<1>8. Longer(F(n))
  <2>1. m + d <= n => Longer(F(m + d))
    BY <1>7 DEF T
  <2> HIDE DEF F, Longer
  <2>2. m + d <= n
    BY <1>1, <1>5
  <2>3. Longer(F(m + d))
    BY <2>1, <2>2
  <2> QED BY <1>5, <2>3
<1>9. part \in Seq(D)
  BY <1>2
<1> HIDE DEF n
<1> QED BY <1>6, <1>8, <1>9

\* An element stays at its place behind single ones.
LEMMA FlattenPlace ==
    ASSUME NEW D, NEW e \in Seq(Seq(D)), NEW t \in 1 .. Len(e), \A u \in 1 .. t - 1 : Len(e[u]) = 1, e[t] # <<>>
    PROVE t \in DOMAIN FlattenSeq(e) /\ FlattenSeq(e)[t] = e[t][1]
<1> DEFINE a == SubSeq(e, 1, t - 1)
           b == SubSeq(e, 1, t)
           p == e[t]
<1>1. t \in 0 .. Len(e) /\ t - 1 \in 0 .. Len(e) /\ t - 1 \in 0 .. Len(e) - 1 /\ t - 1 + 1 = t /\ t \in Nat /\ t - 1 \in Nat
      /\ p \in Seq(D) /\ Len(p) >= 1
  <2>1. p \in Seq(D)
    OBVIOUS
  <2>2. Len(p) >= 1
    <3> HIDE DEF p
    <3>1. p # <<>>
      BY DEF p
    <3> QED BY <2>1, <3>1
  <2> QED BY <2>1, <2>2
<1>2. a \in Seq(Seq(D)) /\ Len(a) = t - 1 /\ \A u \in 1 .. t - 1 : a[u] = e[u]
  BY <1>1, Prefix
<1>3. b = Append(a, p)
  <2>1. SubSeq(e, 1, t - 1 + 1) = Append(a, e[t - 1 + 1])
    BY <1>1, PrefixNext
  <2> QED BY <1>1, <2>1
<1> HIDE DEF a, b, p
<1>4. FlattenSeq(a) \in Seq(D) /\ Len(FlattenSeq(a)) = t - 1
  <2>1. \A u \in 1 .. Len(a) : Len(a[u]) = 1
    BY <1>2
  <2>2. FlattenSeq(a) \in Seq(D) /\ Len(FlattenSeq(a)) = Len(a) * 1
    BY <1>2, <2>1, FlattenUniform
  <2> QED BY <1>1, <1>2, <2>2
<1>5. FlattenSeq(b) = FlattenSeq(a) \o p
  BY <1>1, <1>2, <1>3, FlattenAppend
<1> DEFINE f == FlattenSeq(a)
           g == FlattenSeq(b)
           h == FlattenSeq(e)
<1>6. g \in Seq(D) /\ h \in Seq(D) /\ Len(g) <= Len(h) /\ \A i \in 1 .. Len(g) : h[i] = g[i]
  BY <1>1, FlattenPrefix DEF b
<1>7. g \in Seq(D) /\ Follows(g, f, p)
  BY <1>1, <1>4, <1>5, Joined
<1> HIDE DEF f, g, h
<1>8. t \in 1 .. Len(g) /\ g[t] = p[1]
  <2>1. Len(g) = t - 1 + Len(p) /\ Len(p) \in Nat /\ g[t - 1 + 1] = p[1]
    BY <1>1, <1>4, <1>7 DEF Follows, f
  <2> QED BY <1>1, <2>1
<1>9. t \in DOMAIN h /\ h[t] = p[1]
  BY <1>6, <1>8
<1> QED BY <1>9 DEF h, p
================================================================================
