--------------------------- MODULE Operators_proofs ---------------------------
(***************************************************************************)
(* What the operators compute that keep no state, for any arguments: those *)
(* of RequestBuilder, of Nav, and the folds they are made of.  Facts about *)
(* folds go by induction on a set of numbers, and a recursive function is  *)
(* shown to exist by iterating a function (Iteration), so that no fact is  *)
(* about an operator argument.                                             *)
(***************************************************************************)
EXTENDS Nav, RequestBuilder, SequenceTheorems, WellFoundedInduction, TLAPS

\* A set of natural numbers that is not empty has a least member, and Min is it.
LEMMA MinIsLeast ==
    ASSUME NEW S \in SUBSET Nat, S # {}
    PROVE  Min(S) \in S /\ \A x \in S : Min(S) <= x
<1>1. PICK m \in S : \A x \in S : ~ (<<x, m>> \in OpToRel(<, Nat))
  BY NatLessThanWellFounded, WFMin
<1>2. \A x \in S : ~ (x < m)
  BY <1>1 DEF OpToRel
<1>3. \A x \in S : m <= x
  BY <1>2
<1> QED
  BY <1>3 DEF Min

\* Induction: a set that has 0 and with each number the next one has all up to n.
LEMMA Induction ==
    ASSUME NEW n \in Nat, NEW S, 0 \in S, \A i \in 0..(n - 1) : i \in S => i + 1 \in S
    PROVE  \A i \in 0..n : i \in S
<1> DEFINE bad == {i \in 0..n : i \notin S}
<1> SUFFICES ASSUME bad # {} PROVE FALSE
  OBVIOUS
<1>1. bad \in SUBSET Nat
  OBVIOUS
<1> DEFINE m == Min(bad)
<1>2. m \in bad /\ \A i \in bad : m <= i
  BY <1>1, MinIsLeast
<1> HIDE DEF m
<1>3. m \in 0..n /\ m \notin S /\ m # 0
  BY <1>2
<1>4. m - 1 \in 0..(n - 1) /\ m - 1 \notin bad
  BY <1>2, <1>3
<1>5. m - 1 \in S
  BY <1>3, <1>4
<1>6. (m - 1) + 1 \in S
  BY <1>4, <1>5
<1> QED
  BY <1>3, <1>6

\* A set that is known by its greatest member.
LEMMA MaxIsGreatest ==
    ASSUME NEW S \in SUBSET Int, NEW m \in S, \A x \in S : x <= m
    PROVE  Max(S) = m
<1>1. m \in S /\ \A y \in S : m >= y
  OBVIOUS
<1>2. Max(S) \in S /\ \A y \in S : Max(S) >= y
  BY <1>1 DEF Max
<1>3. Max(S) >= m /\ Max(S) <= m /\ Max(S) \in Int
  BY <1>2
<1> QED
  BY <1>3

-----------------------------------------------------------------------------
(* Iteration: functions g[1], ..., g[n] on T are applied one after the other *)

Maps(n, T) == [1..n -> [T -> T]]

\* F[i] is what g[1], ..., g[i] make of b.
Iterates(F, n, T, b, g) ==
    F \in [0..n -> T] /\ F[0] = b /\ \A i \in 1..n : F[i] = g[i][F[i - 1]]

\* h[s] is what the g[i] with i in s make of b, the one with the greatest i last.
IteratesOnSets(h, n, T, b, g) ==
    /\ h \in [SUBSET (1..n) -> T] /\ h[{}] = b
    /\ \A s \in SUBSET (1..n) : s # {} => h[s] = g[Max(s)][h[s \ {Max(s)}]]

LEMMA Iteration ==
    ASSUME NEW n \in Nat, NEW T, NEW b \in T, NEW g \in Maps(n, T)
    PROVE  \E F : Iterates(F, n, T, b, g)
<1> DEFINE S == {m \in 0..n : \E F : Iterates(F, m, T, b, g)}
<1>1. 0 \in S
  <2>1. Iterates([i \in 0..0 |-> b], 0, T, b, g)
    BY DEF Iterates
  <2> QED
    BY <2>1
<1>2. ASSUME NEW m \in 0..(n - 1), m \in S
      PROVE  m + 1 \in S
  <2>1. PICK F : Iterates(F, m, T, b, g)
    BY <1>2
  <2> DEFINE H == [i \in 0..(m + 1) |-> IF i = m + 1 THEN g[m + 1][F[m]] ELSE F[i]]
  <2>2. m \in 0..m /\ m + 1 \in 1..n /\ g[m + 1] \in [T -> T] /\ F[m] \in T
    BY <2>1 DEF Maps, Iterates
  <2>3. g[m + 1][F[m]] \in T
    BY <2>2
  <2>4. H \in [0..(m + 1) -> T] /\ H[0] = b
    BY <2>1, <2>3 DEF Iterates
  <2>5. ASSUME NEW i \in 1..(m + 1)
        PROVE  H[i] = g[i][H[i - 1]]
    <3>1. CASE i = m + 1
      BY <3>1
    <3>2. CASE i # m + 1
      <4>1. i \in 1..m /\ i - 1 \in 0..m
        BY <3>2
      <4> QED
        BY <2>1, <4>1 DEF Iterates
    <3> QED
      BY <3>1, <3>2
  <2> HIDE DEF H
  <2>6. Iterates(H, m + 1, T, b, g)
    BY <2>4, <2>5 DEF Iterates
  <2> QED
    BY <2>2, <2>6
<1> HIDE DEF S
<1>3. \A i \in 0..(n - 1) : i \in S => i + 1 \in S
  BY <1>2
<1>4. \A i \in 0..n : i \in S
  BY <1>1, <1>3, Induction
<1>5. n \in S
  BY <1>4
<1> QED
  BY <1>5 DEF S

LEMMA SetIteration ==
    ASSUME NEW n \in Nat, NEW T, NEW b \in T, NEW g \in Maps(n, T)
    PROVE  \E h : IteratesOnSets(h, n, T, b, g)
<1> DEFINE S == {m \in 0..n : \E h : IteratesOnSets(h, m, T, b, g)}
<1>1. 0 \in S
  <2> DEFINE h == [s \in SUBSET (1..0) |-> b]
  <2>1. h \in [SUBSET (1..0) -> T] /\ \A s \in SUBSET (1..0) : s = {}
    OBVIOUS
  <2>2. IteratesOnSets(h, 0, T, b, g)
    BY <2>1 DEF IteratesOnSets
  <2> QED
    BY <2>2
<1>2. ASSUME NEW m \in 0..(n - 1), m \in S
      PROVE  m + 1 \in S
  <2>1. PICK h : IteratesOnSets(h, m, T, b, g)
    BY <1>2
  <2> DEFINE k == m + 1
             H == [s \in SUBSET (1..k) |-> IF k \in s THEN g[k][h[s \ {k}]] ELSE h[s]]
  <2>2. k \in 1..n /\ g[k] \in [T -> T] /\ m \in Nat
    BY DEF Maps
  <2>3. \A s \in SUBSET (1..k) : s \ {k} \in SUBSET (1..m) /\ (k \notin s => s \in SUBSET (1..m))
    OBVIOUS
  <2>4. H \in [SUBSET (1..k) -> T]
    <3>1. \A s \in SUBSET (1..m) : h[s] \in T
      BY <2>1 DEF IteratesOnSets
    <3>2. \A s \in SUBSET (1..k) : (IF k \in s THEN g[k][h[s \ {k}]] ELSE h[s]) \in T
      BY <2>2, <2>3, <3>1
    <3> QED
      BY <3>2
  <2>5. H[{}] = b
    BY <2>1, <2>3 DEF IteratesOnSets
  <2>6. ASSUME NEW s \in SUBSET (1..k), s # {}
        PROVE  H[s] = g[Max(s)][H[s \ {Max(s)}]]
    <3>1. CASE k \in s
      <4>1. Max(s) = k
        BY <3>1, MaxIsGreatest
      <4> QED
        BY <2>3, <3>1, <4>1
    <3>2. CASE k \notin s
      <4>1. s \in SUBSET (1..m) /\ H[s] = h[s]
        BY <2>3, <3>2
      <4>2. h[s] = g[Max(s)][h[s \ {Max(s)}]]
        BY <2>1, <2>6, <4>1 DEF IteratesOnSets
      <4>3. s \ {Max(s)} \in SUBSET (1..m) /\ k \notin s \ {Max(s)}
        BY <3>2, <4>1
      <4>4. H[s \ {Max(s)}] = h[s \ {Max(s)}]
        BY <2>3, <4>3
      <4> QED
        BY <4>1, <4>2, <4>4
    <3> QED
      BY <3>1, <3>2
  <2> HIDE DEF H
  <2>7. IteratesOnSets(H, k, T, b, g)
    BY <2>4, <2>5, <2>6 DEF IteratesOnSets
  <2> QED
    BY <2>2, <2>7
<1> HIDE DEF S
<1>3. \A i \in 0..(n - 1) : i \in S => i + 1 \in S
  BY <1>2
<1>4. \A i \in 0..n : i \in S
  BY <1>1, <1>3, Induction
<1>5. n \in S
  BY <1>4
<1> QED
  BY <1>5 DEF S

-----------------------------------------------------------------------------
(* FlattenSeq *)

\* F[i] is what the first i of the lists make together.
Flattens(F, seqs, S) ==
    /\ F \in [0..Len(seqs) -> Seq(S)] /\ F[0] = <<>>
    /\ \A i \in 1..Len(seqs) : F[i] = F[i - 1] \o seqs[i]

\* A list of lists is flattened one list after the other.
LEMMA FlattenSteps ==
    ASSUME NEW S, NEW seqs \in Seq(Seq(S))
    PROVE  \E F : Flattens(F, seqs, S) /\ FlattenSeq(seqs) = F[Len(seqs)]
<1> DEFINE n == Len(seqs)
           T == Seq(S)
           g == [i \in 1..n |-> [x \in T |-> x \o seqs[i]]]
           H(f, i) == IF i = 1 THEN seqs[i] ELSE f[i - 1] \o seqs[i]
           flatten == CHOOSE f : f = [i \in 1..n |-> H(f, i)]
<1>1. n \in Nat /\ <<>> \in T /\ \A i \in 1..n : seqs[i] \in T
  OBVIOUS
<1>2. g \in Maps(n, T)
  BY DEF Maps
<1>3. \A x \in T : <<>> \o x = x
  OBVIOUS
<1> HIDE DEF g, n, T, H, flatten
<1>4. PICK F : Iterates(F, n, T, <<>>, g)
  BY <1>1, <1>2, Iteration
<1>5. \A i \in 1..n : i - 1 \in 0..n /\ F[i - 1] \in T
  BY <1>1, <1>4 DEF Iterates
<1>6. F[0] = <<>> /\ \A i \in 1..n : F[i] = F[i - 1] \o seqs[i]
  BY <1>1, <1>4, <1>5 DEF g, Iterates
<1>7. Flattens(F, seqs, S)
  BY <1>4, <1>6 DEF Flattens, Iterates, n, T
<1>8. CASE n = 0
  BY <1>6, <1>7, <1>8 DEF FlattenSeq, n
<1>9. ASSUME n # 0 PROVE F[1] = seqs[1]
  <2>1. 1 \in 1..n /\ 1 - 1 = 0
    BY <1>1, <1>9
  <2>2. F[1] = F[0] \o seqs[1] /\ seqs[1] \in Seq(S)
    BY <1>1, <1>6, <2>1 DEF T
  <2>3. <<>> \o seqs[1] = seqs[1]
    BY <2>2
  <2> QED
    BY <1>6, <2>2, <2>3
<1>10. CASE n # 0
  <2> DEFINE f == [i \in 1..n |-> F[i]]
  <2>1. ASSUME NEW i \in 1..n
        PROVE  F[i] = IF i = 1 THEN seqs[i] ELSE f[i - 1] \o seqs[i]
    <3>1. CASE i = 1
      BY <1>9, <1>10, <3>1
    <3>2. CASE i # 1
      <4>1. i - 1 \in 1..n
        BY <1>1, <3>2
      <4> QED
        BY <1>6, <3>2, <4>1
    <3> QED
      BY <3>1, <3>2
  <2>2. f = [i \in 1..n |-> H(f, i)]
    BY <2>1 DEF H
  <2>3. flatten = [i \in 1..n |-> H(flatten, i)]
    <3> HIDE DEF f
    <3> QED
      BY <2>2 DEF flatten
  <2>4. \A i \in 1..n : flatten[i] = H(flatten, i)
    BY <2>3
  <2> DEFINE same == {0} \cup {i \in 1..n : flatten[i] = F[i]}
  <2>5. ASSUME NEW i \in 0..(n - 1), i \in same
        PROVE  i + 1 \in same
    <3>1. i + 1 \in 1..n /\ (i + 1) - 1 = i
      BY <1>1
    <3>2. flatten[i + 1] = IF i + 1 = 1 THEN seqs[i + 1] ELSE flatten[i] \o seqs[i + 1]
      BY <2>4, <3>1 DEF H
    <3>3. F[i + 1] = F[i] \o seqs[i + 1] /\ seqs[i + 1] \in T
      BY <1>1, <1>6, <3>1
    <3>4. CASE i = 0
      <4>1. flatten[1] = F[1]
        BY <1>9, <1>10, <3>2, <3>4
      <4> QED
        BY <3>1, <3>4, <4>1
    <3>5. CASE i # 0
      <4>1. flatten[i] = F[i] /\ i + 1 # 1
        BY <2>5, <3>5
      <4>2. flatten[i + 1] = F[i + 1]
        BY <3>2, <3>3, <4>1
      <4> QED
        BY <3>1, <4>2
    <3> QED
      BY <3>4, <3>5
  <2> HIDE DEF same
  <2>6. 0 \in same /\ \A i \in 0..(n - 1) : i \in same => i + 1 \in same
    BY <2>5 DEF same
  <2>7. \A i \in 0..n : i \in same
    BY <1>1, <2>6, Induction
  <2>8. flatten[n] = F[n]
    BY <1>1, <1>10, <2>7 DEF same
  <2>9. FlattenSeq(seqs) = flatten[n]
    BY <1>10 DEF FlattenSeq, flatten, H, n
  <2> QED
    BY <1>7, <2>8, <2>9 DEF n
<1> QED
  BY <1>8, <1>10

\* What the lists are made of is what the list is made of.
LEMMA FlattenType ==
    ASSUME NEW S, NEW seqs \in Seq(Seq(S))
    PROVE  FlattenSeq(seqs) \in Seq(S)
<1>1. PICK F : Flattens(F, seqs, S) /\ FlattenSeq(seqs) = F[Len(seqs)]
  BY FlattenSteps
<1>2. Len(seqs) \in 0..Len(seqs)
  OBVIOUS
<1> QED
  BY <1>1, <1>2 DEF Flattens

LEMMA FlattenFew ==
    /\ FlattenSeq(<<>>) = <<>>
    /\ \A S : \A x \in Seq(S) : FlattenSeq(<<x>>) = x
<1>1. FlattenSeq(<<>>) = <<>>
  BY DEF FlattenSeq
<1>2. ASSUME NEW S, NEW x \in Seq(S)
      PROVE  FlattenSeq(<<x>>) = x
  <2>1. <<x>> \in Seq(Seq(S)) /\ Len(<<x>>) = 1
    OBVIOUS
  <2>2. PICK F : Flattens(F, <<x>>, S) /\ FlattenSeq(<<x>>) = F[1]
    BY <2>1, FlattenSteps
  <2>3. 1 \in 1..1 /\ 1 - 1 = 0 /\ <<x>>[1] = x
    OBVIOUS
  <2>4. F[1] = F[0] \o x /\ F[0] = <<>>
    BY <2>1, <2>2, <2>3 DEF Flattens
  <2>5. <<>> \o x = x
    OBVIOUS
  <2> QED
    BY <2>2, <2>4, <2>5
<1> QED
  BY <1>1, <1>2

\* The greatest member of a set of numbers up to n.
LEMMA MaxUpTo ==
    ASSUME NEW n \in Nat, NEW s \in SUBSET (1..n), s # {}
    PROVE  Max(s) \in s
<1> DEFINE down == {n - x : x \in s}
<1>1. down \in SUBSET Nat /\ down # {}
  <2>1. \A x \in s : x \in Nat /\ n - x \in Nat
    OBVIOUS
  <2> QED
    BY <2>1
<1>2. Min(down) \in down /\ \A y \in down : Min(down) <= y
  BY <1>1, MinIsLeast
<1>3. PICK m \in s : Min(down) = n - m
  BY <1>2
<1>4. ASSUME NEW x \in s
      PROVE  x <= m
  <2>1. n - x \in down /\ x \in Nat /\ m \in Nat
    OBVIOUS
  <2>2. n - m <= n - x
    BY <1>2, <1>3, <2>1
  <2> QED
    BY <2>1, <2>2
<1>5. s \in SUBSET Int
  OBVIOUS
<1> QED
  BY <1>4, <1>5, MaxIsGreatest

\* The numbers up to i without their greatest.
LEMMA UpTo ==
    ASSUME NEW i \in Nat, i # 0
    PROVE  1..i # {} /\ Max(1..i) = i /\ (1..i) \ {i} = 1..(i - 1)
<1>1. 1..i \in SUBSET Int /\ i \in 1..i /\ \A x \in 1..i : x <= i
  OBVIOUS
<1>2. Max(1..i) = i
  BY <1>1, MaxIsGreatest
<1>3. \A x : x \in (1..i) \ {i} <=> x \in 1..(i - 1)
  OBVIOUS
<1> QED
  BY <1>1, <1>2, <1>3

\* A function that goes on as the g[i] say is their iteration.
LEMMA FoldIterates ==
    ASSUME NEW n \in Nat, NEW T, NEW b \in T, NEW g \in Maps(n, T), NEW iter, iter[{}] = b,
           \A i \in 1..n : iter[1..(i - 1)] \in T => iter[1..i] = g[i][iter[1..(i - 1)]]
    PROVE  \E F : Iterates(F, n, T, b, g) /\ iter[1..n] = F[n]
<1>1. PICK F : Iterates(F, n, T, b, g)
  BY Iteration
<1> DEFINE same == {i \in 0..n : iter[1..i] = F[i]}
<1>2. 0 \in same
  <2>1. 1..0 = {}
    OBVIOUS
  <2> QED
    BY <1>1, <2>1 DEF Iterates
<1>3. ASSUME NEW i \in 0..(n - 1), i \in same
      PROVE  i + 1 \in same
  <2>1. i + 1 \in 1..n /\ (i + 1) - 1 = i /\ i \in 0..n
    OBVIOUS
  <2>2. F[i] \in T /\ F[i + 1] = g[i + 1][F[i]]
    BY <1>1, <2>1 DEF Iterates
  <2>3. iter[1..i] = F[i]
    BY <1>3
  <2>4. iter[1..(i + 1)] = g[i + 1][iter[1..i]]
    BY <2>1, <2>2, <2>3
  <2> QED
    BY <2>2, <2>3, <2>4
<1> HIDE DEF same
<1>4. \A i \in 0..(n - 1) : i \in same => i + 1 \in same
  BY <1>3
<1>5. \A i \in 0..n : i \in same
  BY <1>2, <1>4, Induction
<1>6. iter[1..n] = F[n]
  BY <1>5 DEF same
<1> QED
  BY <1>1, <1>6

-----------------------------------------------------------------------------
(* Only *)

\* F[i] is what is kept of the first i members.
Keeps(F, s, keep, S) ==
    /\ F \in [0..Len(s) -> Seq(S)] /\ F[0] = <<>>
    /\ \A i \in 1..Len(s) : F[i] = IF s[i] \in keep THEN Append(F[i - 1], s[i]) ELSE F[i - 1]

LEMMA OnlySteps ==
    ASSUME NEW S, NEW s \in Seq(S), NEW keep
    PROVE  \E F : Keeps(F, s, keep, S) /\ Only(s, keep) = F[Len(s)]
<1> DEFINE n == Len(s)
           T == Seq(S)
           g == [i \in 1..n |-> [x \in T |-> IF s[i] \in keep THEN Append(x, s[i]) ELSE x]]
           H(f, e) == IF e = {} THEN <<>>
                      ELSE IF s[Max(e)] \in keep THEN Append(f[e \ {Max(e)}], s[Max(e)])
                      ELSE f[e \ {Max(e)}]
           iter == CHOOSE f : f = [e \in SUBSET DOMAIN s |-> H(f, e)]
<1>1. n \in Nat /\ DOMAIN s = 1..n /\ <<>> \in T
  OBVIOUS
<1>2. g \in Maps(n, T)
  BY DEF Maps
<1>3. Only(s, keep) = iter[DOMAIN s]
  BY DEF Only, FoldLeft, MapThenFoldSet
<1> HIDE DEF n, T, g, iter, H
<1>4. PICK h : IteratesOnSets(h, n, T, <<>>, g)
  BY <1>1, <1>2, SetIteration
<1>5. ASSUME NEW e \in SUBSET (1..n)
      PROVE  h[e] = H(h, e)
  <2>1. CASE e = {}
    BY <1>4, <2>1 DEF IteratesOnSets, H
  <2>2. CASE e # {}
    <3>1. Max(e) \in 1..n
      BY <1>1, <2>2, MaxUpTo
    <3>2. e \ {Max(e)} \in SUBSET (1..n)
      OBVIOUS
    <3>3. h[e \ {Max(e)}] \in T /\ h[e] = g[Max(e)][h[e \ {Max(e)}]]
      BY <1>4, <2>2, <3>2 DEF IteratesOnSets
    <3> QED
      BY <2>2, <3>1, <3>3 DEF g, H
  <2> QED
    BY <2>1, <2>2
<1>6. h = [e \in SUBSET DOMAIN s |-> H(h, e)]
  BY <1>1, <1>4, <1>5 DEF IteratesOnSets
<1>7. iter = [e \in SUBSET DOMAIN s |-> H(iter, e)]
  BY <1>6 DEF iter
<1>8. iter[{}] = <<>>
  BY <1>7 DEF H
<1>9. ASSUME NEW i \in 1..n, iter[1..(i - 1)] \in T
      PROVE  iter[1..i] = g[i][iter[1..(i - 1)]]
  <2>1. 1..i # {} /\ Max(1..i) = i /\ (1..i) \ {i} = 1..(i - 1)
    <3>1. i \in Nat /\ i # 0
      BY <1>1
    <3> QED
      BY <3>1, UpTo
  <2>2. 1..i \in SUBSET DOMAIN s
    BY <1>1
  <2>3. iter[1..i] = H(iter, 1..i)
    BY <1>7, <2>2
  <2> QED
    BY <1>9, <2>1, <2>3 DEF g, H
<1>10. PICK F : Iterates(F, n, T, <<>>, g) /\ iter[1..n] = F[n]
  BY <1>1, <1>2, <1>8, <1>9, FoldIterates
<1>11. \A i \in 1..n : F[i] = IF s[i] \in keep THEN Append(F[i - 1], s[i]) ELSE F[i - 1]
  <2>1. \A i \in 1..n : i - 1 \in 0..n
    BY <1>1
  <2>2. \A i \in 1..n : F[i - 1] \in T /\ F[i] = g[i][F[i - 1]]
    BY <1>10, <2>1 DEF Iterates
  <2> QED
    BY <2>2 DEF g
<1>12. Keeps(F, s, keep, S)
  BY <1>10, <1>11 DEF Keeps, Iterates, n, T
<1> QED
  BY <1>1, <1>3, <1>10, <1>12 DEF n

\* What is kept was there, and is to be kept.
LEMMA OnlyType ==
    ASSUME NEW S, NEW s \in Seq(S), NEW keep
    PROVE  Only(s, keep) \in Seq(S \cap keep)
<1> DEFINE n == Len(s)
           K == S \cap keep
<1>1. PICK F : Keeps(F, s, keep, S) /\ Only(s, keep) = F[n]
  BY OnlySteps
<1>2. F[0] = <<>> /\ \A i \in 1..n : F[i] = IF s[i] \in keep THEN Append(F[i - 1], s[i]) ELSE F[i - 1]
  BY <1>1 DEF Keeps
<1>3. n \in Nat /\ \A i \in 1..n : s[i] \in S
  OBVIOUS
<1> DEFINE good == {i \in 0..n : F[i] \in Seq(K)}
<1> HIDE DEF n
<1>4. ASSUME NEW i \in 0..(n - 1), i \in good
      PROVE  i + 1 \in good
  <2>1. i + 1 \in 1..n /\ (i + 1) - 1 = i /\ F[i] \in Seq(K)
    BY <1>3, <1>4
  <2>2. F[i + 1] = IF s[i + 1] \in keep THEN Append(F[i], s[i + 1]) ELSE F[i]
    BY <1>2, <2>1
  <2>3. s[i + 1] \in keep => s[i + 1] \in K
    BY <1>3, <2>1
  <2> HIDE DEF K
  <2>4. F[i + 1] \in Seq(K)
    BY <2>1, <2>2, <2>3
  <2> QED
    BY <1>3, <2>1, <2>4
<1>5. 0 \in good
  <2> HIDE DEF K
  <2>1. <<>> \in Seq(K)
    OBVIOUS
  <2>2. 0 \in 0..n
    BY <1>3
  <2> QED
    BY <1>2, <2>1, <2>2
<1> HIDE DEF good
<1>6. \A i \in 0..n : i \in good
  BY <1>3, <1>4, <1>5, Induction
<1>7. F[n] \in Seq(K)
  <2> HIDE DEF K
  <2>1. n \in 0..n
    BY <1>3
  <2> QED
    BY <1>6, <2>1 DEF good
<1> QED
  BY <1>1, <1>7

LEMMA ConcatAppend ==
    ASSUME NEW S, NEW a \in Seq(S), NEW b \in Seq(S), NEW x \in S
    PROVE  a \o Append(b, x) = Append(a \o b, x)
<1> DEFINE e == <<x>>
<1>1. e \in Seq(S)
  OBVIOUS
<1>2. Append(b, x) = b \o e
  BY AppendIsConcat
<1>3. a \o b \in Seq(S)
  BY ConcatProperties
<1>4. Append(a \o b, x) = (a \o b) \o e
  BY <1>3, AppendIsConcat
<1> HIDE DEF e
<1>5. (a \o b) \o e = a \o (b \o e)
  BY <1>1, ConcatAssociative
<1> QED
  BY <1>2, <1>4, <1>5

LEMMA ConcatParts ==
    ASSUME NEW S, NEW a \in Seq(S), NEW b \in Seq(S)
    PROVE  /\ a \o b \in Seq(S) /\ Len(a \o b) = Len(a) + Len(b)
           /\ \A i \in 1..Len(a) : (a \o b)[i] = a[i]
           /\ \A i \in 1..Len(b) : (a \o b)[Len(a) + i] = b[i]
<1> DEFINE n == Len(a)
           m == Len(b)
           s == a \o b
<1>1. /\ s \in Seq(S) /\ Len(s) = n + m
      /\ (\A i \in 1..n : s[i] = a[i]) /\ \A i \in 1..m : s[n + i] = b[i]
  OBVIOUS
<1> QED
  BY <1>1

LEMMA ConcatMembers ==
    ASSUME NEW S, NEW a \in Seq(S), NEW b \in Seq(S)
    PROVE  a \o b \in Seq(S) /\ ToSet(a \o b) = ToSet(a) \cup ToSet(b)
<1> DEFINE n == Len(a)
           m == Len(b)
           s == a \o b
<1>1. /\ s \in Seq(S) /\ n \in Nat /\ m \in Nat /\ DOMAIN s = 1..(n + m)
      /\ (\A i \in 1..n : s[i] = a[i]) /\ \A i \in 1..m : s[n + i] = b[i]
  OBVIOUS
<1>2. /\ ToSet(a) = {a[i] : i \in 1..n} /\ ToSet(b) = {b[i] : i \in 1..m}
      /\ ToSet(s) = {s[i] : i \in 1..(n + m)}
  BY <1>1 DEF ToSet
<1> HIDE DEF n, m, s
<1>3. ASSUME NEW i \in 1..(n + m)
      PROVE  s[i] \in ToSet(a) \cup ToSet(b)
  <2>1. CASE i <= n
    <3>1. i \in 1..n
      BY <1>1, <2>1
    <3> QED
      BY <1>1, <1>2, <3>1
  <2>2. CASE ~ (i <= n)
    <3>1. i - n \in 1..m /\ n + (i - n) = i
      BY <1>1, <2>2
    <3> QED
      BY <1>1, <1>2, <3>1
  <2> QED
    BY <2>1, <2>2
<1>4. (\A i \in 1..n : i \in 1..(n + m)) /\ \A i \in 1..m : n + i \in 1..(n + m)
  BY <1>1
<1>5. ToSet(s) = ToSet(a) \cup ToSet(b)
  BY <1>1, <1>2, <1>3, <1>4
<1> QED
  BY <1>1, <1>5 DEF s

\* Two lists are gone through one after the other.
LEMMA OnlyConcat ==
    ASSUME NEW S, NEW a \in Seq(S), NEW b \in Seq(S), NEW keep
    PROVE  Only(a \o b, keep) = Only(a, keep) \o Only(b, keep)
<1> DEFINE s == a \o b
           n == Len(a)
           m == Len(b)
<1>1. /\ s \in Seq(S) /\ n \in Nat /\ m \in Nat /\ Len(s) = n + m
      /\ (\A i \in 1..n : s[i] = a[i]) /\ \A i \in 1..m : s[n + i] = b[i]
  <2>1. n \in Nat /\ m \in Nat
    OBVIOUS
  <2> QED
    BY <2>1, ConcatParts
<1> HIDE DEF n, m, s
<1>2. PICK F : Keeps(F, s, keep, S) /\ Only(s, keep) = F[n + m]
  <2>1. s \in Seq(S)
    BY <1>1
  <2>2. \E F : Keeps(F, s, keep, S) /\ Only(s, keep) = F[Len(s)]
    BY <2>1, OnlySteps
  <2> QED
    BY <1>1, <2>2
<1>3. PICK A : Keeps(A, a, keep, S) /\ Only(a, keep) = A[n]
  BY OnlySteps DEF n
<1>4. PICK B : Keeps(B, b, keep, S) /\ Only(b, keep) = B[m]
  BY OnlySteps DEF m
<1>5. F[0] = <<>> /\ \A i \in 1..(n + m) : F[i] = IF s[i] \in keep THEN Append(F[i - 1], s[i]) ELSE F[i - 1]
  BY <1>1, <1>2 DEF Keeps
<1>6. /\ A[0] = <<>> /\ A[n] \in Seq(S)
      /\ \A i \in 1..n : A[i] = IF a[i] \in keep THEN Append(A[i - 1], a[i]) ELSE A[i - 1]
  <2>1. /\ A \in [0..n -> Seq(S)] /\ A[0] = <<>>
        /\ \A i \in 1..n : A[i] = IF a[i] \in keep THEN Append(A[i - 1], a[i]) ELSE A[i - 1]
    BY <1>3 DEF Keeps, n
  <2>2. n \in 0..n
    BY <1>1
  <2> QED
    BY <2>1, <2>2
<1>7. /\ B[0] = <<>> /\ \A i \in 0..m : B[i] \in Seq(S)
      /\ \A i \in 1..m : b[i] \in S /\ B[i] = IF b[i] \in keep THEN Append(B[i - 1], b[i]) ELSE B[i - 1]
  <2>1. B \in [0..m -> Seq(S)] /\ B[0] = <<>>
    BY <1>4 DEF Keeps, m
  <2>2. \A i \in 1..m : B[i] = IF b[i] \in keep THEN Append(B[i - 1], b[i]) ELSE B[i - 1]
    BY <1>4 DEF Keeps, m
  <2>3. \A i \in 1..m : b[i] \in S
    BY DEF m
  <2> QED
    BY <2>1, <2>2, <2>3
<1> DEFINE first == {i \in 0..n : F[i] = A[i]}
           second == {i \in 0..m : F[n + i] = A[n] \o B[i]}
<1>8. ASSUME NEW i \in 0..(n - 1), i \in first
      PROVE  i + 1 \in first
  <2>1. i + 1 \in 1..n /\ i + 1 \in 1..(n + m) /\ (i + 1) - 1 = i /\ s[i + 1] = a[i + 1]
    BY <1>1
  <2>2. F[i + 1] = A[i + 1]
    BY <1>5, <1>6, <1>8, <2>1
  <2> QED
    BY <1>1, <2>1, <2>2
<1>9. 0 \in first
  BY <1>1, <1>5, <1>6
<1> HIDE DEF first
<1>10. \A i \in 0..n : i \in first
  BY <1>1, <1>8, <1>9, Induction
<1>11. F[n] = A[n]
  BY <1>1, <1>10 DEF first
<1>12. ASSUME NEW i \in 0..(m - 1), i \in second
       PROVE  i + 1 \in second
  <2>1. /\ i + 1 \in 1..m /\ i + 1 \in 0..m /\ (n + (i + 1)) \in 1..(n + m) /\ (n + (i + 1)) - 1 = n + i /\ i \in 0..m
        /\ (i + 1) - 1 = i /\ s[n + (i + 1)] = b[i + 1]
    BY <1>1
  <2>2. F[n + (i + 1)] = IF b[i + 1] \in keep THEN Append(F[n + i], b[i + 1]) ELSE F[n + i]
    BY <1>5, <2>1
  <2>3. B[i + 1] = IF b[i + 1] \in keep THEN Append(B[i], b[i + 1]) ELSE B[i]
    BY <1>7, <2>1
  <2>4. F[n + i] = A[n] \o B[i] /\ B[i] \in Seq(S) /\ b[i + 1] \in S
    BY <1>7, <1>12, <2>1
  <2>5. (A[n] \o Append(B[i], b[i + 1])) = Append(A[n] \o B[i], b[i + 1])
    <3>1. ASSUME NEW e \in Seq(S), NEW f \in Seq(S), NEW x \in S
          PROVE  e \o Append(f, x) = Append(e \o f, x)
      BY ConcatAppend
    <3>2. A[n] \in Seq(S) /\ B[i] \in Seq(S) /\ b[i + 1] \in S
      BY <1>6, <2>4
    <3> QED
      BY <3>1, <3>2
  <2>6. F[n + (i + 1)] = A[n] \o B[i + 1]
    BY <2>2, <2>3, <2>4, <2>5
  <2> QED
    BY <2>1, <2>6
<1>13. 0 \in second
  <2>1. A[n] \o <<>> = A[n] /\ n + 0 = n /\ 0 \in 0..m
    BY <1>1, <1>6
  <2> QED
    BY <1>7, <1>11, <2>1
<1> HIDE DEF second
<1>14. \A i \in 0..m : i \in second
  BY <1>1, <1>12, <1>13, Induction
<1>15. F[n + m] = A[n] \o B[m]
  <2>1. m \in 0..m
    BY <1>1
  <2> QED
    BY <1>14, <2>1 DEF second
<1> QED
  BY <1>2, <1>3, <1>4, <1>15 DEF s

ThreeLists(h, a, b, c) == h = (a \o b) \o c

LEMMA OnlyThree ==
    ASSUME NEW S, NEW a \in Seq(S), NEW b \in Seq(S), NEW c \in Seq(S), NEW h, ThreeLists(h, a, b, c),
           NEW keep
    PROVE  Only(h, keep) = (Only(a, keep) \o Only(b, keep)) \o Only(c, keep)
<1> DEFINE d == a \o b
<1>1. d \in Seq(S)
  BY ConcatProperties
<1>2. Only(d, keep) = Only(a, keep) \o Only(b, keep)
  BY OnlyConcat
<1>3. h = d \o c
  BY DEF ThreeLists
<1> HIDE DEF d
<1>4. Only(d \o c, keep) = Only(d, keep) \o Only(c, keep)
  BY <1>1, OnlyConcat, SMTT(20)
<1> QED
  BY <1>2, <1>3, <1>4

\* A list of which nothing is kept, and one that is kept.
LEMMA OnlyNone ==
    ASSUME NEW S, NEW s \in Seq(S), NEW keep, \A i \in 1..Len(s) : s[i] \notin keep
    PROVE  Only(s, keep) = <<>>
<1> DEFINE n == Len(s)
<1>1. PICK F : Keeps(F, s, keep, S) /\ Only(s, keep) = F[n]
  BY OnlySteps
<1>2. n \in Nat /\ F[0] = <<>> /\ \A i \in 1..n : F[i] = F[i - 1]
  BY <1>1 DEF Keeps
<1> DEFINE same == {i \in 0..n : F[i] = <<>>}
<1> HIDE DEF n
<1>3. \A i \in 0..(n - 1) : i \in same => i + 1 \in same
  <2> SUFFICES ASSUME NEW i \in 0..(n - 1), i \in same PROVE i + 1 \in same
    OBVIOUS
  <2>1. i + 1 \in 1..n /\ (i + 1) - 1 = i
    BY <1>2
  <2> QED
    BY <1>2, <2>1
<1>4. 0 \in same
  BY <1>2
<1> HIDE DEF same
<1>5. \A i \in 0..n : i \in same
  BY <1>2, <1>3, <1>4, Induction
<1> QED
  BY <1>1, <1>2, <1>5 DEF same

LEMMA OnlyAll ==
    ASSUME NEW S, NEW s \in Seq(S), NEW keep, \A i \in 1..Len(s) : s[i] \in keep
    PROVE  Only(s, keep) = s
<1> DEFINE n == Len(s)
<1>1. PICK F : Keeps(F, s, keep, S) /\ Only(s, keep) = F[n]
  BY OnlySteps
<1>2. n \in Nat /\ F[0] = <<>> /\ \A i \in 1..n : F[i] = Append(F[i - 1], s[i])
  <2>1. n \in Nat /\ F[0] = <<>>
    BY <1>1 DEF Keeps
  <2>2. \A i \in 1..n : F[i] = IF s[i] \in keep THEN Append(F[i - 1], s[i]) ELSE F[i - 1]
    BY <1>1 DEF Keeps
  <2> QED
    BY <2>1, <2>2
<1> DEFINE same == {i \in 0..n : F[i] \in Seq(S) /\ Len(F[i]) = i /\ \A j \in 1..i : F[i][j] = s[j]}
<1>3. ASSUME NEW i \in 0..(n - 1), i \in same
      PROVE  i + 1 \in same
  <2>1. i + 1 \in 1..n /\ (i + 1) - 1 = i /\ i \in Nat
    BY <1>2
  <2>6. s[i + 1] \in S
    BY <2>1
  <2>2. F[i + 1] = Append(F[i], s[i + 1])
    BY <1>2, <2>1
  <2>3. F[i] \in Seq(S) /\ Len(F[i]) = i /\ \A j \in 1..i : F[i][j] = s[j]
    BY <1>3
  <2>4. F[i + 1] \in Seq(S) /\ Len(F[i + 1]) = i + 1 /\ \A j \in 1..(i + 1) : F[i + 1][j] = s[j]
    BY <2>1, <2>2, <2>3, <2>6
  <2>5. i + 1 \in 0..n
    BY <2>1
  <2> HIDE DEF n
  <2> QED
    BY <2>4, <2>5, SMTT(20)
<1>4. 0 \in same
  <2>1. <<>> \in Seq(S) /\ Len(<<>>) = 0 /\ 1..0 = {} /\ 0 \in 0..n
    BY <1>2
  <2> QED
    BY <1>2, <2>1
<1> HIDE DEF same, n
<1>5. \A i \in 0..n : i \in same
  BY <1>2, <1>3, <1>4, Induction
<1>6. F[n] \in Seq(S) /\ Len(F[n]) = n /\ \A j \in 1..n : F[n][j] = s[j]
  BY <1>2, <1>5 DEF same
<1>7. F[n] = s
  BY <1>6 DEF n
<1> QED
  BY <1>1, <1>7

LEMMA OnlyOne ==
    ASSUME NEW x, NEW keep
    PROVE  Only(<<x>>, keep) = IF x \in keep THEN <<x>> ELSE <<>>
<1>1. <<x>> \in Seq({x}) /\ Len(<<x>>) = 1 /\ \A i \in 1..1 : <<x>>[i] = x
  OBVIOUS
<1> QED
  BY <1>1, OnlyNone, OnlyAll

-----------------------------------------------------------------------------
(* Nav: which contribution assertNavContributions stops at, and what it has *)
(* accepted when it stops at none                                          *)

\* What it means that a contribution is not accepted.
LEMMA FailingIsUnknown ==
    ASSUME NEW items, NEW registry, NEW permissive \in BOOLEAN, NEW i \in DOMAIN items
    PROVE  i \in Failing(items, registry, permissive) <=>
             items[i] \notin registry /\ ~(registry = {} /\ permissive)
  BY DEF Failing, ValidateNavContribution

\* assertNavContributions stops at the first contribution whose group the host does not
\* know; in a permissive host that knows no group at all it stops at none.
THEOREM StopsAtFirstUnknown ==
    ASSUME NEW items, DOMAIN items \subseteq Nat \ {0}, NEW registry, NEW permissive \in BOOLEAN
    PROVE  LET bad == AssertNavContributions(items, registry, permissive) IN
           /\ bad \in Nat
           /\ bad # 0 => /\ bad \in DOMAIN items /\ items[bad] \notin registry
                         /\ \A j \in DOMAIN items : j < bad => items[j] \in registry
           /\ bad = 0 <=> \A i \in DOMAIN items : items[i] \in registry \/ (registry = {} /\ permissive)
<1> DEFINE failing == Failing(items, registry, permissive)
           bad == AssertNavContributions(items, registry, permissive)
<1>1. failing \subseteq DOMAIN items /\ failing \in SUBSET Nat
  BY DEF Failing
<1>2. CASE failing = {}
  BY <1>2, FailingIsUnknown DEF AssertNavContributions
<1>3. CASE failing # {}
  <2>1. bad = Min(failing)
    BY <1>3 DEF AssertNavContributions
  <2>2. bad \in failing /\ \A x \in failing : bad <= x
    BY <1>1, <1>3, <2>1, MinIsLeast
  <2> HIDE DEF failing, bad
  <2>3. bad \in DOMAIN items /\ bad \in Nat /\ bad # 0
    BY <1>1, <2>2
  <2>4. items[bad] \notin registry /\ ~(registry = {} /\ permissive)
    BY <2>2, <2>3, FailingIsUnknown DEF failing
  <2>5. \A j \in DOMAIN items : j < bad => j \notin failing
    BY <1>1, <2>2, <2>3
  <2>6. \A j \in DOMAIN items : j < bad => items[j] \in registry
    BY <2>4, <2>5, FailingIsUnknown DEF failing
  <2> QED
    BY <2>3, <2>4, <2>6 DEF bad
<1> QED
  BY <1>2, <1>3

\* What passes a strict check passes a permissive one: the doctor's verdict holds for the
\* shell, whichever of the two it is.
THEOREM StrictIsStricter ==
    ASSUME NEW items, DOMAIN items \subseteq Nat \ {0}, NEW registry, NEW permissive \in BOOLEAN,
           AssertNavContributions(items, registry, FALSE) = 0
    PROVE  AssertNavContributions(items, registry, permissive) = 0
  BY StopsAtFirstUnknown, Zenon

\* A contribution that is accepted without a warning is in a group the host knows.
LEMMA AcceptedOrWarned ==
    ASSUME NEW items, DOMAIN items \subseteq Nat \ {0}, NEW registry, NEW permissive \in BOOLEAN,
           AssertNavContributions(items, registry, permissive) = 0, NEW i \in DOMAIN items
    PROVE  \/ items[i] \in registry
           \/ ValidateNavContribution(items[i], registry, permissive) = "warned"
<1>1. items[i] \in registry \/ (registry = {} /\ permissive)
  BY StopsAtFirstUnknown
<1> QED
  BY <1>1 DEF ValidateNavContribution

-----------------------------------------------------------------------------
(* Texts *)

\* Characters as they are, or encoded once, and texts of them.
Letters == STRING \cup Reserved \cup {".", "[", "]"}
Codes == {Ch(x) : x \in Letters} \cup {<<x, 1>> : x \in Reserved}
Coded == Seq(Codes)

\* A sequence is the function of its places, and such a function is a sequence.
LEMMA SeqIsFunction ==
    ASSUME NEW S, NEW s \in Seq(S)
    PROVE  DOMAIN s = 1..Len(s) /\ Len(s) \in Nat /\ s = [i \in 1..Len(s) |-> s[i]]
  OBVIOUS

LEMMA FunctionIsSeq ==
    ASSUME NEW S, NEW n \in Nat, NEW f, f = [i \in 1..n |-> f[i]], \A i \in 1..n : f[i] \in S
    PROVE  f \in Seq(S) /\ Len(f) = n /\ DOMAIN f = 1..n
<1>1. f \in [1..n -> S]
  OBVIOUS
<1> QED
  BY <1>1

\* What becomes of a character.
LEMMA Characters ==
    \A x : /\ EncodeChar(Ch(x)) = IF x \in Reserved THEN <<x, 1>> ELSE Ch(x)
           /\ DecodeChar(Ch(x)) = Ch(x) /\ DecodeChar(<<x, 1>>) = Ch(x)
           /\ UnescapeChar(Ch(x)) = Ch(x)
           /\ UnescapeChar(<<x, 1>>) = IF x \in {"=", ";", ","} THEN Ch(x) ELSE <<x, 1>>
           /\ x \in Reserved => DecodeChar(EncodeChar(<<x, 1>>)) = <<x, 1>>
<1> TAKE x
<1>1. EncodeChar(Ch(x)) = IF x \in Reserved THEN <<x, 1>> ELSE Ch(x)
  BY DEF EncodeChar, Ch
<1>2. DecodeChar(Ch(x)) = Ch(x) /\ DecodeChar(<<x, 1>>) = Ch(x)
  BY DEF DecodeChar, Ch
<1>3. UnescapeChar(Ch(x)) = Ch(x)
  BY DEF UnescapeChar, Ch
<1>4. UnescapeChar(<<x, 1>>) = IF x \in {"=", ";", ","} THEN Ch(x) ELSE <<x, 1>>
  BY DEF UnescapeChar, Ch
<1>5. ASSUME x \in Reserved
      PROVE  DecodeChar(EncodeChar(<<x, 1>>)) = <<x, 1>>
  <2>1. EncodeChar(<<x, 1>>) = <<x, 2>>
    BY <1>5 DEF EncodeChar
  <2>2. DecodeChar(<<x, 2>>) = <<x, 1>>
    BY DEF DecodeChar
  <2> QED
    BY <2>1, <2>2
<1> QED
  BY <1>1, <1>2, <1>3, <1>4, <1>5

\* What a path makes of a character, and what a server makes of that.
PathChar(c) == UnescapeChar(EncodeChar(c))

LEMMA PathCharacters ==
    \A x : /\ PathChar(Ch(x)) = IF x \in Reserved \ {"=", ";", ","} THEN <<x, 1>> ELSE Ch(x)
           /\ DecodeChar(PathChar(Ch(x))) = Ch(x)
<1> TAKE x
<1>1. {"=", ";", ","} \subseteq Reserved
  BY DEF Reserved
<1>2. PathChar(Ch(x)) = IF x \in Reserved \ {"=", ";", ","} THEN <<x, 1>> ELSE Ch(x)
  BY <1>1, Characters DEF PathChar
<1> QED
  BY <1>2, Characters

LEMMA CharTypes ==
    /\ \A x \in STRING : Ch(x) \in STRING \X {0}
    /\ \A c \in STRING \X {0} : \E x \in STRING : c = Ch(x)
    /\ \A x, y : <<x, 1>> # Ch(y) /\ (Ch(x) = Ch(y) => x = y)
<1>1. ASSUME NEW x \in STRING
      PROVE  Ch(x) \in STRING \X {0}
  BY DEF Ch
<1>2. ASSUME NEW c \in STRING \X {0}
      PROVE  c[1] \in STRING /\ c = Ch(c[1])
  BY DEF Ch
<1>3. ASSUME NEW x, NEW y, NEW c, NEW d, c = <<x, 1>>, d = <<y, 0>>, c = d
      PROVE  FALSE
  <2>1. c[2] = 1
    BY <1>3
  <2>2. d[2] = 0
    BY <1>3
  <2> QED
    BY <1>3, <2>1, <2>2
<1>4. ASSUME NEW x, NEW y
      PROVE  <<x, 1>> # Ch(y) /\ (Ch(x) = Ch(y) => x = y)
  <2>1. <<x, 1>> # <<y, 0>>
    BY <1>3
  <2>2. <<x, 0>> = <<y, 0>> => x = y
    OBVIOUS
  <2> QED
    BY <2>1, <2>2 DEF Ch
<1> QED
  BY <1>1, <1>2, <1>4

LEMMA RawText ==
    ASSUME NEW t \in Unencoded
    PROVE  /\ t \in Coded /\ DOMAIN t = 1..Len(t) /\ Len(t) \in Nat /\ t = [i \in DOMAIN t |-> t[i]]
           /\ \A i \in DOMAIN t : \E x \in STRING : t[i] = Ch(x)
<1>1. t \in Seq(STRING \X {0}) /\ DOMAIN t = 1..Len(t) /\ Len(t) \in Nat /\ t = [i \in DOMAIN t |-> t[i]]
  BY SeqIsFunction DEF Unencoded
<1>2. \A i \in DOMAIN t : \E x \in STRING : t[i] = Ch(x)
  BY <1>1, CharTypes
<1>3. \A i \in 1..Len(t) : t[i] \in Codes
  BY <1>1, <1>2 DEF Codes, Letters
<1>4. t \in Coded
  BY <1>1, <1>3, FunctionIsSeq DEF Coded
<1> QED
  BY <1>1, <1>2, <1>4

\* A server reads a text of the query as it was before it was encoded.
LEMMA DecodeEncode ==
    ASSUME NEW t \in Coded
    PROVE  Decode(Encode(t)) = t
<1>1. DOMAIN Encode(t) = DOMAIN t
  BY DEF Encode
<1>2. Decode(Encode(t)) = [i \in DOMAIN t |-> DecodeChar(EncodeChar(t[i]))]
  BY <1>1 DEF Encode, Decode
<1>3. ASSUME NEW i \in DOMAIN t
      PROVE  DecodeChar(EncodeChar(t[i])) = t[i]
  <2>1. t[i] \in Codes
    BY SeqIsFunction DEF Coded
  <2>2. CASE \E x : t[i] = Ch(x)
    BY <2>2, Characters
  <2>3. CASE \E x \in Reserved : t[i] = <<x, 1>>
    BY <2>3, Characters
  <2> QED
    BY <2>1, <2>2, <2>3 DEF Codes
<1>4. t = [i \in DOMAIN t |-> t[i]]
  BY SeqIsFunction DEF Coded
<1> QED
  BY <1>2, <1>3, <1>4

\* A path keeps three of the encoded characters as they are, which decoding leaves alone;
\* a slash stays encoded, and the text stays one segment.
LEMMA DecodePathText ==
    ASSUME NEW t \in Unencoded
    PROVE  LET e == Unescape(Encode(t)) IN
           /\ Decode(e) = t /\ e = [i \in DOMAIN t |-> PathChar(t[i])]
           /\ e \in Coded /\ DOMAIN e = DOMAIN t /\ Len(e) = Len(t)
           /\ Ch("/") \notin ToSet(e)
<1> DEFINE e == Unescape(Encode(t))
<1>1. DOMAIN Encode(t) = DOMAIN t
  BY DEF Encode
<1>2. e = [i \in DOMAIN t |-> PathChar(t[i])]
  BY <1>1 DEF Encode, Unescape, PathChar
<1> HIDE DEF e
<1>3. Decode(e) = [i \in DOMAIN t |-> DecodeChar(PathChar(t[i]))]
  BY <1>2 DEF Decode
<1>4. ASSUME NEW i \in DOMAIN t
      PROVE  DecodeChar(PathChar(t[i])) = t[i]
  <2>1. PICK x : t[i] = Ch(x)
    BY RawText
  <2> QED
    BY <2>1, PathCharacters
<1>5. Decode(e) = t
  BY <1>3, <1>4, RawText
<1>6. ASSUME NEW i \in DOMAIN t
      PROVE  e[i] \in Codes /\ e[i] # Ch("/")
  <2>1. PICK x \in STRING : t[i] = Ch(x)
    BY RawText
  <2>2. e[i] = IF x \in Reserved \ {"=", ";", ","} THEN <<x, 1>> ELSE Ch(x)
    BY <1>2, <2>1, PathCharacters
  <2>3. "/" \in Reserved \ {"=", ";", ","}
    BY DEF Reserved
  <2>4. CASE x \in Reserved \ {"=", ";", ","}
    <3>1. <<x, 1>> \in Codes
      BY <2>4 DEF Codes
    <3> QED
      BY <2>2, <2>4, <3>1, CharTypes
  <2>5. CASE x \notin Reserved \ {"=", ";", ","}
    <3>1. e[i] = Ch(x) /\ x # "/" /\ Ch(x) # Ch("/")
      BY <2>2, <2>3, <2>5, CharTypes
    <3>2. Ch(x) \in Codes
      BY DEF Codes, Letters
    <3> QED
      BY <3>1, <3>2
  <2> QED
    BY <2>4, <2>5
<1>7. e \in Coded /\ Len(e) = Len(t)
  <2>1. DOMAIN t = 1..Len(t) /\ Len(t) \in Nat
    BY RawText
  <2>2. e = [i \in 1..Len(t) |-> e[i]] /\ \A i \in 1..Len(t) : e[i] \in Codes
    BY <1>2, <1>6, <2>1
  <2> QED
    BY <2>1, <2>2, FunctionIsSeq DEF Coded
<1>8. Ch("/") \notin ToSet(e)
  BY <1>2, <1>6 DEF ToSet
<1> QED
  BY <1>2, <1>5, <1>7, <1>8 DEF e

Dot == Ch(".")

\* One dot or two.
LEMMA IsDots ==
    ASSUME NEW S, NEW u \in Seq(S)
    PROVE  u \in DotSegments <=> Len(u) \in {1, 2} /\ \A i \in 1..Len(u) : u[i] = Dot
<1> DEFINE one == <<Dot>>
           two == <<Dot, Dot>>
<1>1. Len(one) = 1 /\ one[1] = Dot /\ Len(two) = 2 /\ two[1] = Dot /\ two[2] = Dot
  OBVIOUS
<1>2. u \in DotSegments <=> u = one \/ u = two
  BY DEF DotSegments, Dot
<1>3. ASSUME Len(u) = 1, u[1] = Dot PROVE u = one
  BY <1>3
<1>4. ASSUME Len(u) = 2, u[1] = Dot, u[2] = Dot PROVE u = two
  BY <1>4
<1>5. \A i \in 1..1 : one[i] = Dot
  BY <1>1
<1>6. \A i \in 1..2 : two[i] = Dot
  BY <1>1
<1> HIDE DEF one, two
<1>7. ASSUME Len(u) \in {1, 2}, \A i \in 1..Len(u) : u[i] = Dot PROVE u = one \/ u = two
  BY <1>3, <1>4, <1>7
<1> QED
  BY <1>1, <1>2, <1>5, <1>6, <1>7

\* A path leaves dots as they are, and makes none.
LEMMA DotsStay ==
    ASSUME NEW t \in Unencoded, NEW e, e = Unescape(Encode(t))
    PROVE  /\ e \in Coded /\ t \in Coded /\ Len(e) = Len(t) /\ Len(t) \in Nat
           /\ \A i \in 1..Len(t) : e[i] = Dot <=> t[i] = Dot
<1>1. e \in Coded /\ Len(e) = Len(t) /\ e = [i \in DOMAIN t |-> PathChar(t[i])]
  BY DecodePathText
<1>2. t \in Coded /\ DOMAIN t = 1..Len(t) /\ Len(t) \in Nat /\ \A i \in DOMAIN t : \E x \in STRING : t[i] = Ch(x)
  BY RawText
<1>3. ASSUME NEW i \in 1..Len(t) PROVE e[i] = Dot <=> t[i] = Dot
  <2>1. PICK x : t[i] = Ch(x)
    BY <1>2
  <2>2. e[i] = IF x \in Reserved \ {"=", ";", ","} THEN <<x, 1>> ELSE Ch(x)
    BY <1>1, <1>2, <2>1, PathCharacters
  <2>3. "." \notin Reserved
    BY DEF Reserved
  <2>4. x = "." => e[i] = Dot /\ t[i] = Dot
    BY <2>1, <2>2, <2>3 DEF Dot
  <2>5. x # "." => e[i] # Dot /\ t[i] # Dot
    BY <2>1, <2>2, CharTypes DEF Dot
  <2> QED
    BY <2>4, <2>5
<1> QED
  BY <1>1, <1>2, <1>3

-----------------------------------------------------------------------------
(* Maps of parameters, and the path they fill *)

\* A parameter with a new name is the last one; one whose name is there takes its place.
LEMMA PutNew ==
    ASSUME NEW S, NEW params \in Seq(S), NEW p, \A i \in 1..Len(params) : params[i].name # p.name
    PROVE  Put(params, p) = Append(params, p)
<1>1. {i \in 1..Len(params) : params[i].name = p.name} = {}
  OBVIOUS
<1>2. SelectInSeq(params, LAMBDA q : q.name = p.name) = 0
  BY <1>1 DEF SelectInSeq
<1> QED
  BY <1>2 DEF Put

LEMMA PutFirst == \A p : Put(<<>>, p) = <<p>>
<1> TAKE p
<1>1. <<>> \in Seq({p}) /\ 1..Len(<<>>) = {} /\ Append(<<>>, p) = <<p>>
  OBVIOUS
<1> QED
  BY <1>1, PutNew

\* A second and a third parameter come after those that are there.
LEMMA PutSecond ==
    ASSUME NEW x, NEW y, x.name # y.name
    PROVE  Put(<<x>>, y) = <<x, y>>
<1> DEFINE q == <<x>>
<1>1. q \in Seq({x}) /\ \A i \in 1..Len(q) : q[i].name # y.name
  OBVIOUS
<1>2. Append(q, y) = <<x, y>>
  <2> DEFINE a == Append(q, y)
  <2>1. a \in Seq({x, y}) /\ Len(a) = 2 /\ a[1] = x /\ a[2] = y
    OBVIOUS
  <2> HIDE DEF a
  <2>2. a = <<x, y>>
    BY <2>1
  <2> QED
    BY <2>2 DEF a
<1> HIDE DEF q
<1>3. Put(q, y) = Append(q, y)
  BY <1>1, PutNew
<1> QED
  BY <1>2, <1>3 DEF q

LEMMA PutThird ==
    ASSUME NEW x, NEW y, NEW z, x.name # z.name, y.name # z.name
    PROVE  Put(<<x, y>>, z) = <<x, y, z>>
<1> DEFINE q == <<x, y>>
<1>1. q \in Seq({x, y}) /\ \A i \in 1..Len(q) : q[i].name # z.name
  OBVIOUS
<1>2. Append(q, z) = <<x, y, z>>
  <2> DEFINE a == Append(q, z)
  <2>1. a \in Seq({x, y, z}) /\ Len(a) = 3 /\ a[1] = x /\ a[2] = y /\ a[3] = z
    OBVIOUS
  <2> HIDE DEF a
  <2>2. a = <<x, y, z>>
    BY <2>1
  <2> QED
    BY <2>2 DEF a
<1> HIDE DEF q
<1>3. Put(q, z) = Append(q, z)
  BY <1>1, PutNew
<1> QED
  BY <1>2, <1>3 DEF q

LEMMA MinOfOne ==
    ASSUME NEW n \in Nat
    PROVE  Min({n}) = n
<1>1. {n} \in SUBSET Nat /\ {n} # {}
  OBVIOUS
<1>2. Min({n}) \in {n}
  BY <1>1, MinIsLeast
<1> QED
  BY <1>2

LEMMA PutAgain ==
    ASSUME NEW old, NEW p, old.name = p.name
    PROVE  Put(<<old>>, p) = <<p>>
<1>1. {i \in 1..Len(<<old>>) : <<old>>[i].name = p.name} = {1}
  OBVIOUS
<1>2. SelectInSeq(<<old>>, LAMBDA q : q.name = p.name) = 1
  BY <1>1, MinOfOne DEF SelectInSeq
<1>3. Put(<<old>>, p) = IF 1 = 0 THEN Append(<<old>>, p) ELSE [<<old>> EXCEPT ![1] = p]
  BY <1>2, Zenon DEF Put
<1> QED
  BY <1>3

\* A placeholder that may only be the last piece of a path is filled there.
LEMMA FillLast ==
    ASSUME NEW S, NEW path \in Seq(S), path # <<>>, NEW hole, NEW t,
           \A i \in 1..(Len(path) - 1) : path[i] # hole
    PROVE  Fill(path, hole, t) = IF path[Len(path)] = hole THEN [path EXCEPT ![Len(path)] = Literal(t)]
                                 ELSE path
<1> DEFINE n == Len(path)
           at == {i \in 1..n : path[i] = hole}
<1>1. n \in Nat /\ n # 0 /\ n \in 1..n
  OBVIOUS
<1>2. CASE path[n] = hole
  <2>1. at = {n}
    BY <1>1, <1>2
  <2>2. Min({n}) = n
    BY <1>1, MinOfOne
  <2>3. SelectInSeq(path, LAMBDA piece : piece = hole) = n
    BY <2>1, <2>2 DEF SelectInSeq
  <2> QED
    BY <1>1, <1>2, <2>3 DEF Fill
<1>3. CASE path[n] # hole
  <2>1. at = {}
    BY <1>1, <1>3
  <2>2. SelectInSeq(path, LAMBDA piece : piece = hole) = 0
    BY <2>1 DEF SelectInSeq
  <2> QED
    BY <1>3, <2>2 DEF Fill
<1> QED
  BY <1>2, <1>3

\* A parameter fills the last piece if that is one of its two placeholders.
LEMMA AppendPathLast ==
    ASSUME NEW S, NEW path \in Seq(S), path # <<>>, NEW p,
           \A i \in 1..(Len(path) - 1) : path[i].kind # "placeholder" \/ path[i].name # p.name
    PROVE  AppendPath(path, p) =
             IF path[Len(path)] \in {Placeholder(p.name, <<>>, FALSE),
                                     Placeholder(p.name, PathPrefix(p), p.explode)}
             THEN [path EXCEPT ![Len(path)] = Literal(PathPrefix(p) \o PathBody(p))]
             ELSE path
<1> DEFINE t == PathPrefix(p) \o PathBody(p)
           n == Len(path)
           one == Placeholder(p.name, <<>>, FALSE)
           two == Placeholder(p.name, PathPrefix(p), p.explode)
           filled == [path EXCEPT ![n] = Literal(t)]
<1>1. AppendPath(path, p) = Fill(Fill(path, one, t), two, t)
  BY DEF AppendPath
<1>2. /\ one.kind = "placeholder" /\ one.name = p.name /\ two.kind = "placeholder" /\ two.name = p.name
      /\ Literal(t).kind = "literal"
  BY DEF Placeholder, Literal
<1> HIDE DEF t, one, two
<1>3. n \in 1..n /\ \A i \in 1..(n - 1) : path[i] # one /\ path[i] # two
  BY <1>2
<1>4. Fill(path, one, t) = IF path[n] = one THEN filled ELSE path
  BY <1>3, FillLast
<1>5. CASE path[n] = one
  <2>1. filled \in Seq(S \cup {Literal(t)}) /\ Len(filled) = n /\ filled # <<>> /\ filled[n] = Literal(t)
    BY <1>3
  <2>2. \A i \in 1..(n - 1) : filled[i] = path[i]
    BY <1>3
  <2> HIDE DEF filled
  <2>3. \A i \in 1..(Len(filled) - 1) : filled[i] # two
    BY <1>3, <2>1, <2>2
  <2>4. filled[Len(filled)] # two
    BY <1>2, <2>1
  <2>5. Fill(filled, two, t) = filled
    BY <2>1, <2>3, <2>4, FillLast
  <2> QED
    BY <1>1, <1>4, <1>5, <2>5 DEF t, one, two, filled
<1>6. CASE path[n] # one
  <2>1. Fill(path, two, t) = IF path[n] = two THEN filled ELSE path
    BY <1>3, FillLast
  <2> QED
    BY <1>1, <1>4, <1>6, <2>1 DEF t, one, two
<1> QED
  BY <1>5, <1>6

\* A path without parameters is as it was, and one parameter is appended to it.
LEMMA NothingAppended ==
    ASSUME NEW path
    PROVE  FoldLeft(AppendPath, path, <<>>) = path
<1> DEFINE H(f, s) == IF s = {} THEN path
                      ELSE AppendPath(f[s \ {Max(s)}], <<>>[Max(s)])
           iter == CHOOSE f : f = [s \in SUBSET {} |-> H(f, s)]
           g == [s \in SUBSET {} |-> path]
<1>1. g = [s \in SUBSET {} |-> H(g, s)]
  OBVIOUS
<1>2. iter = [s \in SUBSET {} |-> H(iter, s)]
  <2> HIDE DEF H
  <2> QED
  BY <1>1
<1>3. iter[{}] = path
  BY <1>2
<1>4. FoldLeft(AppendPath, path, <<>>) = iter[{}]
  BY DEF FoldLeft, MapThenFoldSet
<1> QED
  BY <1>3, <1>4

LEMMA OneAppended ==
    ASSUME NEW path, NEW p
    PROVE  FoldLeft(AppendPath, path, <<p>>) = AppendPath(path, p)
<1> DEFINE H(f, s) == IF s = {} THEN path
                      ELSE AppendPath(f[s \ {Max(s)}], <<p>>[Max(s)])
           iter == CHOOSE f : f = [s \in SUBSET DOMAIN <<p>> |-> H(f, s)]
           g == [s \in SUBSET {1} |-> IF s = {} THEN path ELSE AppendPath(path, p)]
<1>1. DOMAIN <<p>> = {1} /\ <<p>>[1] = p /\ Max({1}) = 1 /\ {1} \ {1} = {}
  BY MaxIsGreatest
<1>2. ASSUME NEW s \in SUBSET {1}
      PROVE  g[s] = H(g, s)
  <2>1. s = {} \/ s = {1}
    OBVIOUS
  <2> QED
    BY <1>1, <2>1
<1>3. g = [s \in SUBSET DOMAIN <<p>> |-> H(g, s)]
  BY <1>1, <1>2
<1>4. iter = [s \in SUBSET DOMAIN <<p>> |-> H(iter, s)]
  <2> HIDE DEF H, g
  <2> QED
    BY <1>3
<1>5. FoldLeft(AppendPath, path, <<p>>) = iter[DOMAIN <<p>>]
  BY DEF FoldLeft, MapThenFoldSet
<1> HIDE DEF iter
<1>6. iter[{1}] = AppendPath(iter[{}], p) /\ iter[{}] = path
  BY <1>1, <1>4
<1> QED
  BY <1>1, <1>5, <1>6

-----------------------------------------------------------------------------
(* Lists of what is there *)

Results(g, S) == {g[x] : x \in S}

\* g of each member of s.
Each(g, s) == [i \in DOMAIN s |-> g[s[i]]]

LEMMA EachType ==
    ASSUME NEW S, NEW g, NEW s \in Seq(S)
    PROVE  Each(g, s) \in Seq(Results(g, S)) /\ Len(Each(g, s)) = Len(s)
<1> DEFINE R == Results(g, S)
<1>1. DOMAIN s = 1..Len(s) /\ Len(s) \in Nat /\ \A i \in 1..Len(s) : g[s[i]] \in R
  BY DEF Results
<1> HIDE DEF R
<1>2. Each(g, s) \in Seq(R) /\ Len(Each(g, s)) = Len(s) /\ \A i \in 1..Len(s) : Each(g, s)[i] = g[s[i]]
  <2>1. Each(g, s) = [i \in 1..Len(s) |-> Each(g, s)[i]] /\ \A i \in 1..Len(s) : Each(g, s)[i] = g[s[i]]
    BY <1>1 DEF Each
  <2>2. \A i \in 1..Len(s) : Each(g, s)[i] \in R
    BY <1>1, <2>1
  <2> QED
    BY <1>1, <2>1, <2>2, FunctionIsSeq
<1> QED
  BY <1>2 DEF R

LEMMA EachFew ==
    \A g : Each(g, <<>>) = <<>> /\ \A x : Each(g, <<x>>) = <<g[x]>>
  BY DEF Each

LEMMA EachAppend ==
    ASSUME NEW S, NEW g, NEW s \in Seq(S), NEW x \in S
    PROVE  Each(g, Append(s, x)) = Each(g, s) \o <<g[x]>>
<1> DEFINE k == Len(s) + 1
           a == Append(s, x)
           e == Each(g, s)
           o == e \o <<g[x]>>
           R == Results(g, S)
<1>1. a \in Seq(S) /\ DOMAIN a = 1..k /\ a[k] = x /\ \A i \in 1..Len(s) : a[i] = s[i]
  OBVIOUS
<1>2. Len(s) \in Nat /\ e \in Seq(R) /\ Len(e) = Len(s) /\ \A i \in 1..Len(s) : e[i] = g[s[i]]
  <2>1. e \in Seq(R) /\ Len(e) = Len(s)
    BY EachType
  <2>2. \A i \in 1..Len(s) : e[i] = g[s[i]]
    BY DEF Each
  <2> QED
    BY <2>1, <2>2
<1>3. Each(g, a) = [i \in 1..k |-> g[a[i]]]
  BY <1>1 DEF Each
<1> HIDE DEF a, e
<1>4. g[x] \in R
  BY DEF Results
<1> HIDE DEF R
<1>5. o \in Seq(R) /\ Len(o) = k /\ o[k] = g[x] /\ \A i \in 1..Len(s) : o[i] = e[i]
  BY <1>2, <1>4
<1>6. o = [i \in 1..k |-> o[i]]
  BY <1>5
<1> HIDE DEF o
<1>7. ASSUME NEW i \in 1..k
      PROVE  o[i] = g[a[i]]
  <2>1. CASE i = k
    BY <1>1, <1>5, <2>1
  <2>2. CASE i # k
    <3>1. i \in 1..Len(s)
      BY <1>2, <2>2
    <3> QED
      BY <1>1, <1>2, <1>5, <3>1
  <2> QED
    BY <2>1, <2>2
<1>8. Each(g, a) = o
  BY <1>3, <1>6, <1>7
<1> QED
  BY <1>8 DEF a, o, e

Mappings(S, R) == [S -> R]

\* seqs has a list of one for each member of s that is in keep, and an empty one for others.
OneOrNone(seqs, s, keep, g) == seqs = [i \in 1..Len(s) |-> IF s[i] \in keep THEN <<g[s[i]]>> ELSE <<>>]

\* Lists of one or none, put together, are one list of those that are there.
LEMMA FlattenOnly ==
    ASSUME NEW S, NEW R, NEW s \in Seq(S), NEW keep, NEW g \in Mappings(S, R), NEW seqs,
           OneOrNone(seqs, s, keep, g)
    PROVE  /\ FlattenSeq(seqs) = Each(g, Only(s, keep)) /\ FlattenSeq(seqs) \in Seq(R)
           /\ Only(s, keep) \in Seq(S)
<1> DEFINE n == Len(s)
<1>1. n \in Nat /\ \A i \in 1..n : s[i] \in S /\ g[s[i]] \in R
  BY DEF Mappings
<1>0. ASSUME NEW e \in Seq(S), NEW x \in S
      PROVE  Each(g, Append(e, x)) = Each(g, e) \o <<g[x]>>
  BY EachAppend
<1>2. seqs \in Seq(Seq(R)) /\ Len(seqs) = n
  <2>1. \A i \in 1..n : seqs[i] \in Seq(R)
    BY <1>1 DEF OneOrNone
  <2>2. seqs = [i \in 1..n |-> seqs[i]]
    BY DEF OneOrNone
  <2> HIDE DEF n
  <2> QED
    BY <1>1, <2>1, <2>2, FunctionIsSeq
<1>3. PICK F : Flattens(F, seqs, R) /\ FlattenSeq(seqs) = F[n]
  BY <1>2, FlattenSteps
<1>4. PICK K : Keeps(K, s, keep, S) /\ Only(s, keep) = K[n]
  BY OnlySteps
<1>5. /\ F \in [0..n -> Seq(R)] /\ F[0] = <<>>
      /\ \A i \in 1..n : F[i] = F[i - 1] \o seqs[i]
  BY <1>2, <1>3 DEF Flattens
<1>6. /\ K \in [0..n -> Seq(S)] /\ K[0] = <<>>
      /\ \A i \in 1..n : K[i] = IF s[i] \in keep THEN Append(K[i - 1], s[i]) ELSE K[i - 1]
  BY <1>4 DEF Keeps
<1> DEFINE same == {i \in 0..n : F[i] = Each(g, K[i])}
<1>7. \A i \in 1..n : seqs[i] = IF s[i] \in keep THEN <<g[s[i]]>> ELSE <<>>
  BY DEF OneOrNone
<1> HIDE DEF n
<1>8. ASSUME NEW i \in 0..(n - 1), i \in same
      PROVE  i + 1 \in same
  <2>1. i + 1 \in 1..n /\ (i + 1) - 1 = i /\ i \in 0..n
    BY <1>1
  <2>2. F[i + 1] = F[i] \o seqs[i + 1] /\ F[i] \in Seq(R) /\ K[i] \in Seq(S) /\ F[i] = Each(g, K[i])
    BY <1>5, <1>6, <1>8, <2>1
  <2>3. K[i + 1] = IF s[i + 1] \in keep THEN Append(K[i], s[i + 1]) ELSE K[i]
    BY <1>6, <2>1
  <2> SUFFICES F[i + 1] = Each(g, K[i + 1])
    BY <2>1
  <2>4. CASE s[i + 1] \in keep
    <3>1. seqs[i + 1] = <<g[s[i + 1]]>> /\ s[i + 1] \in S /\ K[i + 1] = Append(K[i], s[i + 1])
      BY <1>1, <1>7, <2>1, <2>3, <2>4
    <3>2. Each(g, K[i + 1]) = Each(g, K[i]) \o <<g[s[i + 1]]>>
      BY <2>2, <3>1, <1>0
    <3> QED
      BY <2>1, <2>2, <3>1, <3>2
  <2>5. CASE s[i + 1] \notin keep
    <3>1. seqs[i + 1] = <<>> /\ K[i + 1] = K[i]
      BY <1>7, <2>1, <2>3, <2>5
    <3>2. F[i] \o <<>> = F[i]
      BY <2>2
    <3> QED
      BY <2>1, <2>2, <3>1, <3>2
  <2> QED
    BY <2>4, <2>5
<1>9. 0 \in same
  BY <1>1, <1>5, <1>6 DEF Each
<1> HIDE DEF same
<1>10. \A i \in 0..n : i \in same
  BY <1>1, <1>8, <1>9, Induction
<1>11. F[n] = Each(g, K[n]) /\ F[n] \in Seq(R) /\ K[n] \in Seq(S)
  BY <1>1, <1>5, <1>6, <1>10 DEF same
<1> QED
  BY <1>3, <1>4, <1>11

LEMMA EachConcat ==
    ASSUME NEW S, NEW g, NEW a \in Seq(S), NEW b \in Seq(S)
    PROVE  Each(g, a \o b) = Each(g, a) \o Each(g, b)
<1> DEFINE n == Len(a)
           m == Len(b)
           ab == a \o b
           R == Results(g, S)
           ea == Each(g, a)
           eb == Each(g, b)
           l == Each(g, ab)
           r == ea \o eb
<1>1. /\ ab \in Seq(S) /\ n \in Nat /\ m \in Nat /\ Len(ab) = n + m
      /\ (\A i \in 1..n : ab[i] = a[i]) /\ \A i \in 1..m : ab[n + i] = b[i]
  OBVIOUS
<1> HIDE DEF ab, R
<1>2. ea \in Seq(R) /\ Len(ea) = n /\ eb \in Seq(R) /\ Len(eb) = m /\ l \in Seq(R) /\ Len(l) = n + m
  BY <1>1, EachType DEF R
<1>3. /\ \A i \in 1..n : ea[i] = g[a[i]]
      /\ \A i \in 1..m : eb[i] = g[b[i]]
      /\ \A i \in 1..(n + m) : l[i] = g[ab[i]]
  BY <1>1 DEF Each
<1> HIDE DEF ea, eb, l, n, m
<1>4. /\ r \in Seq(R) /\ Len(r) = n + m
      /\ (\A i \in 1..n : r[i] = ea[i]) /\ \A i \in 1..m : r[n + i] = eb[i]
  <2> HIDE DEF R
  <2>1. r \in Seq(R) /\ Len(r) = n + m
    BY <1>1, <1>2
  <2>2. \A i \in 1..n : r[i] = ea[i]
    BY <1>1, <1>2
  <2>3. \A i \in 1..m : r[n + i] = eb[i]
    BY <1>1, <1>2
  <2> QED
    BY <2>1, <2>2, <2>3
<1> HIDE DEF r
<1>5. \A i \in 1..(n + m) : l[i] = r[i]
  <2> TAKE i \in 1..(n + m)
  <2>1. CASE i <= n
    <3>1. i \in 1..n
      BY <1>1, <2>1
    <3> QED
      BY <1>1, <1>3, <1>4, <3>1
  <2>2. CASE ~ (i <= n)
    <3>1. i - n \in 1..m /\ n + (i - n) = i
      BY <1>1, <2>2
    <3>2. ab[i] = b[i - n] /\ r[i] = eb[i - n]
      BY <1>1, <1>4, <3>1
    <3> QED
      BY <1>3, <3>1, <3>2
  <2> QED
    BY <2>1, <2>2
<1>6. l = r
  BY <1>2, <1>4, <1>5
<1> QED
  BY <1>6 DEF l, r, ab, ea, eb

\* es has g of each member of each list of seqs.
EachOfEach(es, g, seqs) == es = [i \in 1..Len(seqs) |-> Each(g, seqs[i])]

\* g of each member of a list that was put together is put together from g of each member.
LEMMA FlattenEach ==
    ASSUME NEW S, NEW R, NEW g \in Mappings(S, R), NEW seqs \in Seq(Seq(S)), NEW es,
           EachOfEach(es, g, seqs)
    PROVE  /\ FlattenSeq(es) = Each(g, FlattenSeq(seqs)) /\ FlattenSeq(es) \in Seq(R)
           /\ FlattenSeq(seqs) \in Seq(S)
<1> DEFINE n == Len(seqs)
<1>1. n \in Nat /\ \A i \in 1..n : seqs[i] \in Seq(S)
  OBVIOUS
<1>0. ASSUME NEW a \in Seq(S), NEW b \in Seq(S)
      PROVE  Each(g, a \o b) = Each(g, a) \o Each(g, b)
  BY EachConcat
<1>2. ASSUME NEW s \in Seq(S)
      PROVE  Each(g, s) \in Seq(R)
  <2>1. Results(g, S) \subseteq R
    BY DEF Mappings, Results
  <2>2. Each(g, s) \in Seq(Results(g, S))
    BY EachType
  <2> QED
    BY <2>1, <2>2
<1>3. es \in Seq(Seq(R)) /\ Len(es) = n
  <2>1. es = [i \in 1..n |-> es[i]] /\ \A i \in 1..n : es[i] \in Seq(R)
    BY <1>1, <1>2 DEF EachOfEach
  <2> HIDE DEF n
  <2> QED
    BY <1>1, <2>1, FunctionIsSeq
<1>4. PICK F : Flattens(F, seqs, S) /\ FlattenSeq(seqs) = F[n]
  BY FlattenSteps
<1>5. PICK E : Flattens(E, es, R) /\ FlattenSeq(es) = E[n]
  BY <1>3, FlattenSteps
<1>6. /\ F[0] = <<>> /\ \A i \in 0..n : F[i] \in Seq(S)
      /\ \A i \in 1..n : F[i] = F[i - 1] \o seqs[i]
  BY <1>4 DEF Flattens
<1>7. /\ E[0] = <<>> /\ \A i \in 0..n : E[i] \in Seq(R)
      /\ \A i \in 1..n : E[i] = E[i - 1] \o Each(g, seqs[i])
  BY <1>3, <1>5 DEF Flattens, EachOfEach
<1> DEFINE same == {i \in 0..n : E[i] = Each(g, F[i])}
<1> HIDE DEF n
<1>8. ASSUME NEW i \in 0..(n - 1), i \in same
      PROVE  i + 1 \in same
  <2>1. i + 1 \in 1..n /\ (i + 1) - 1 = i /\ i \in 0..n
    BY <1>1
  <2>2. F[i] \in Seq(S) /\ seqs[i + 1] \in Seq(S) /\ E[i] = Each(g, F[i])
    BY <1>1, <1>6, <1>8, <2>1
  <2>3. F[i + 1] = F[i] \o seqs[i + 1] /\ E[i + 1] = E[i] \o Each(g, seqs[i + 1])
    BY <1>6, <1>7, <2>1
  <2>4. Each(g, F[i] \o seqs[i + 1]) = Each(g, F[i]) \o Each(g, seqs[i + 1])
    BY <2>2, <1>0
  <2>5. E[i + 1] = Each(g, F[i + 1])
    BY <2>2, <2>3, <2>4
  <2> QED
    BY <1>1, <2>1, <2>5
<1>9. 0 \in same
  BY <1>1, <1>6, <1>7, EachFew
<1> HIDE DEF same
<1>10. \A i \in 0..n : i \in same
  BY <1>1, <1>8, <1>9, Induction
<1>11. n \in 0..n
  BY <1>1
<1> QED
  BY <1>4, <1>5, <1>6, <1>7, <1>10, <1>11 DEF same

-----------------------------------------------------------------------------
(* What is built *)

Pairs == [name : Coded, text : Coded]

\* The pairs of a query arrive as they were before they were encoded.
LEMMA PairsDecoded ==
    ASSUME NEW pairs \in Seq(Pairs)
    PROVE  LET e == EncodePairs(pairs) IN
           [i \in DOMAIN e |-> Pair(Decode(e[i].name), Decode(e[i].text))] = pairs
<1> DEFINE e == EncodePairs(pairs)
           d == [i \in DOMAIN e |-> Pair(Decode(e[i].name), Decode(e[i].text))]
<1>1. pairs = [i \in DOMAIN pairs |-> pairs[i]] /\ \A i \in DOMAIN pairs : pairs[i] \in Pairs
  BY SeqIsFunction
<1>2. DOMAIN e = DOMAIN pairs
  BY DEF EncodePairs
<1>3. ASSUME NEW i \in DOMAIN pairs
      PROVE  Pair(Decode(e[i].name), Decode(e[i].text)) = pairs[i]
  <2>1. e[i].name = Encode(pairs[i].name) /\ e[i].text = Encode(pairs[i].text)
    BY DEF EncodePairs, Pair
  <2>2. pairs[i].name \in Coded /\ pairs[i].text \in Coded
        /\ pairs[i] = [name |-> pairs[i].name, text |-> pairs[i].text]
    BY <1>1 DEF Pairs
  <2> HIDE DEF e
  <2>3. Decode(e[i].name) = pairs[i].name /\ Decode(e[i].text) = pairs[i].text
    BY <2>1, <2>2, DecodeEncode
  <2> QED
    BY <2>2, <2>3 DEF Pair
<1> QED
  BY <1>1, <1>2, <1>3

\* A request takes its method and its body from the builder, and its path from the one
\* parameter there is, if there is one.
LEMMA BuiltUrl ==
    ASSUME NEW b, NEW accept
    PROVE  /\ Build(b, accept).method = b.method /\ Build(b, accept).body = b.bodyContent
           /\ b.path = <<>> => Build(b, accept).url = <<Literal(b.rootUrl)>> \o b.operationPath
           /\ \A p : b.path = <<p>> =>
                Build(b, accept).url = <<Literal(b.rootUrl)>> \o AppendPath(b.operationPath, p)
<1>1. /\ Build(b, accept).method = b.method /\ Build(b, accept).body = b.bodyContent
      /\ Build(b, accept).url = <<Literal(b.rootUrl)>> \o FoldLeft(AppendPath, b.operationPath, b.path)
  BY DEF Build
<1>2. b.path = <<>> => FoldLeft(AppendPath, b.operationPath, b.path) = b.operationPath
  BY NothingAppended
<1>3. ASSUME NEW p, b.path = <<p>>
      PROVE  FoldLeft(AppendPath, b.operationPath, b.path) = AppendPath(b.operationPath, p)
  BY <1>3, OneAppended
<1> QED
  BY <1>1, <1>2, <1>3

\* Its query is the pairs of its one parameter, or empty.
LEMMA BuiltParams ==
    ASSUME NEW b, NEW accept
    PROVE  /\ b.query = <<>> => Build(b, accept).params = <<>>
           /\ \A p : b.query = <<p>> /\ QueryPairs(p) \in Seq(Pairs) =>
                Build(b, accept).params = EncodePairs(QueryPairs(p))
<1>1. Build(b, accept).params =
        EncodePairs(FlattenSeq([i \in DOMAIN b.query |-> QueryPairs(b.query[i])]))
  BY DEF Build
<1>2. ASSUME b.query = <<>>
      PROVE  Build(b, accept).params = <<>>
  <2>1. [i \in DOMAIN b.query |-> QueryPairs(b.query[i])] = <<>>
    BY <1>2
  <2>2. EncodePairs(<<>>) = <<>>
    BY DEF EncodePairs
  <2> QED
    BY <1>1, <2>1, <2>2, FlattenFew
<1>3. ASSUME NEW p, b.query = <<p>>, QueryPairs(p) \in Seq(Pairs)
      PROVE  Build(b, accept).params = EncodePairs(QueryPairs(p))
  <2>1. DOMAIN b.query = 1..1 /\ b.query[1] = p
    BY <1>3
  <2>2. [i \in DOMAIN b.query |-> QueryPairs(b.query[i])] = <<QueryPairs(p)>>
    BY <2>1
  <2> QED
    BY <1>1, <1>3, <2>2, FlattenFew
<1> QED
  BY <1>2, <1>3

\* What is kept as it is in a path is kept again.
LEMMA UnescapedOnce ==
    ASSUME NEW t \in Unencoded
    PROVE  Unescape(Unescape(Encode(t))) = Unescape(Encode(t))
<1> DEFINE e == Unescape(Encode(t))
<1>1. e = [i \in DOMAIN t |-> PathChar(t[i])]
  BY DecodePathText
<1> HIDE DEF e
<1>2. Unescape(e) = [i \in DOMAIN t |-> UnescapeChar(e[i])]
  BY <1>1 DEF Unescape
<1>3. ASSUME NEW i \in DOMAIN t
      PROVE  UnescapeChar(e[i]) = e[i]
  <2>1. PICK x \in STRING : t[i] = Ch(x)
    BY RawText
  <2>2. e[i] = IF x \in Reserved \ {"=", ";", ","} THEN <<x, 1>> ELSE Ch(x)
    BY <1>1, <2>1, PathCharacters
  <2> QED
    BY <2>2, Characters
<1> QED
  BY <1>1, <1>2, <1>3 DEF e

LEMMA Concatenated ==
    /\ \A x, y, z : <<x>> \o <<y, z>> = <<x, y, z>>
    /\ \A x, y, z, u : <<x>> \o <<y, z, u>> = <<x, y, z, u>>
<1>1. ASSUME NEW x, NEW y, NEW z
      PROVE  <<x>> \o <<y, z>> = <<x, y, z>>
  <2> DEFINE S == {x, y, z}
             o == <<x>> \o <<y, z>>
  <2>1. <<x>> \in Seq(S) /\ <<y, z>> \in Seq(S) /\ Len(<<x>>) = 1 /\ Len(<<y, z>>) = 2
    OBVIOUS
  <2>2. o \in Seq(S) /\ Len(o) = 3 /\ o[1] = x /\ o[2] = y /\ o[3] = z
    BY <2>1
  <2> HIDE DEF o
  <2>3. o = <<x, y, z>>
    BY <2>2
  <2> QED
    BY <2>3 DEF o
<1>2. ASSUME NEW x, NEW y, NEW z, NEW u
      PROVE  <<x>> \o <<y, z, u>> = <<x, y, z, u>>
  <2> DEFINE S == {x, y, z, u}
             o == <<x>> \o <<y, z, u>>
  <2>1. <<x>> \in Seq(S) /\ <<y, z, u>> \in Seq(S) /\ Len(<<x>>) = 1 /\ Len(<<y, z, u>>) = 3
    OBVIOUS
  <2>2. o \in Seq(S) /\ Len(o) = 4 /\ o[1] = x /\ o[2] = y /\ o[3] = z /\ o[4] = u
    BY <2>1
  <2> HIDE DEF o
  <2>3. o = <<x, y, z, u>>
    BY <2>2
  <2> QED
    BY <2>3 DEF o
<1> QED
  BY <1>1, <1>2

-----------------------------------------------------------------------------
(* The fields of a builder *)

BuilderFields == {"rootUrl", "operationPath", "method", "path", "query", "header", "bodyContent", "bodyContentType"}
IsBuilder(b) == DOMAIN b = BuilderFields

\* What the constructors of the three subclasses make.
PathParameter(name, v, o)   == Param(name, v, o, "simple", FALSE)
QueryParameter(name, v, o)  == Param(name, v, o, "form", TRUE)
HeaderParameter(name, v, o) == Param(name, v, o, "simple", FALSE)

LEMMA NewFields ==
    ASSUME NEW root, NEW path, NEW method, NEW b, b = NewBuilder(root, path, method)
    PROVE  /\ IsBuilder(b) /\ b.rootUrl = root /\ b.operationPath = path /\ b.method = method
           /\ b.path = <<>> /\ b.query = <<>> /\ b.header = <<>> /\ b.bodyContent = NullValue
           /\ b.bodyContentType = Null
  BY DEF NewBuilder, IsBuilder, BuilderFields

\* Each method changes its own fields only.
LEMMA PathFields ==
    ASSUME NEW b, IsBuilder(b), NEW name, NEW v, NEW o, NEW c,
           c = PathParam(b, name, v, o)
    PROVE  /\ IsBuilder(c) /\ c.rootUrl = b.rootUrl /\ c.operationPath = b.operationPath
           /\ c.method = b.method /\ c.query = b.query /\ c.header = b.header
           /\ c.bodyContent = b.bodyContent /\ c.bodyContentType = b.bodyContentType
           /\ c.path = Put(b.path, PathParameter(name, v, o))
  BY DEF PathParam, PathParameter, IsBuilder, BuilderFields

LEMMA QueryFields ==
    ASSUME NEW b, IsBuilder(b), NEW name, NEW v, NEW o, NEW c,
           c = QueryParam(b, name, v, o)
    PROVE  /\ IsBuilder(c) /\ c.rootUrl = b.rootUrl /\ c.operationPath = b.operationPath
           /\ c.method = b.method /\ c.path = b.path /\ c.header = b.header
           /\ c.bodyContent = b.bodyContent /\ c.bodyContentType = b.bodyContentType
           /\ c.query = Put(b.query, QueryParameter(name, v, o))
  BY DEF QueryParam, QueryParameter, IsBuilder, BuilderFields

LEMMA HeaderFields ==
    ASSUME NEW b, IsBuilder(b), NEW name, NEW v, NEW o, NEW c,
           c = HeaderParam(b, name, v, o)
    PROVE  /\ IsBuilder(c) /\ c.rootUrl = b.rootUrl /\ c.operationPath = b.operationPath
           /\ c.method = b.method /\ c.path = b.path /\ c.query = b.query
           /\ c.bodyContent = b.bodyContent /\ c.bodyContentType = b.bodyContentType
           /\ c.header = Put(b.header, HeaderParameter(name, v, o))
  BY DEF HeaderParam, HeaderParameter, IsBuilder, BuilderFields

LEMMA BodyFields ==
    ASSUME NEW b, IsBuilder(b), NEW value, NEW contentType, NEW c, c = SetBody(b, value, contentType),
           NEW type, type = IF value.kind = "blob" THEN value.type ELSE contentType
    PROVE  /\ IsBuilder(c) /\ c.rootUrl = b.rootUrl /\ c.operationPath = b.operationPath
           /\ c.method = b.method /\ c.path = b.path /\ c.query = b.query /\ c.header = b.header
           /\ c.bodyContent = BodyContent(value, type) /\ c.bodyContentType = type
  BY DEF SetBody, IsBuilder, BuilderFields

=============================================================================
