----------------------------- MODULE SigV4Proofs -----------------------------
(***************************************************************************)
(* Theorems of SigV4Server, for every request: what the signer writes is   *)
(* what a service makes of it.  One part of a request after another is     *)
(* followed from the signer's loops to the server's definitions: texts and *)
(* their escapes, the path, the values of headers, the sorted query, the   *)
(* headers and their names, and then the signature and the URL.  Loops are *)
(* folds over sequences, so that induction over a sequence is stated once, *)
(* of a set of sequences (SeqInd).                                         *)
(***************************************************************************)
EXTENDS SigV4Server, SequenceTheorems, FiniteSetTheorems, NaturalsInduction, WellFoundedInduction, TLAPS

-----------------------------------------------------------------------------
(* Induction, and what a loop over a sequence leaves                       *)

\* A set of natural numbers that is not empty has a least element.
LEMMA LeastNat ==
  ASSUME NEW T \in SUBSET Nat, T # {}
  PROVE  \E m \in T : \A k \in T : m <= k
<1>1. PICK x \in T : \A y \in T : ~(<<y, x>> \in OpToRel(<, Nat))
  BY NatLessThanWellFounded, WFMin, Zenon
<1>2. \A y \in T : y < x => <<y, x>> \in OpToRel(<, Nat)
  BY DEF OpToRel
<1>3. \A y \in T : ~(y < x)
  BY <1>1, <1>2, Zenon
<1> QED BY <1>3

\* What holds of 0, and of the successor of each number it holds of, holds up
\* to n.
LEMMA Upwards ==
  ASSUME NEW n \in Nat, NEW S, 0 \in S, \A i \in 0..(n - 1) : i \in S => i + 1 \in S
  PROVE  \A i \in 0..n : i \in S
<1> DEFINE Bad == {k \in 0..n : k \notin S}
<1>1. ASSUME NEW k \in Bad, \A j \in Bad : k <= j PROVE FALSE
  <2>1. k \in 0..n /\ k \notin S /\ k # 0
    OBVIOUS
  <2>2. k - 1 \in 0..(n - 1) /\ k - 1 \in 0..n /\ (k - 1) + 1 = k /\ ~(k <= k - 1)
    BY <2>1
  <2> HIDE DEF Bad
  <2>3. k - 1 \notin Bad
    BY <1>1, <2>2
  <2>4. k - 1 \in S
    BY <2>2, <2>3 DEF Bad
  <2> QED BY <2>1, <2>2, <2>4
<1>2. Bad = {}
  <2>1. Bad \in SUBSET Nat
    OBVIOUS
  <2> HIDE DEF Bad
  <2> QED BY <1>1, <2>1, LeastNat
<1> QED BY <1>2
\* What holds of the empty sequence, and stays when an element is appended, holds
\* of every sequence.
LEMMA SeqInd ==
  ASSUME NEW S, NEW G, <<>> \in G,
         \A u \in Seq(S) : \A x \in S : u \in G => Append(u, x) \in G
  PROVE  \A s \in Seq(S) : s \in G
<1> SUFFICES ASSUME NEW s \in Seq(S), s \notin G PROVE FALSE
  OBVIOUS
<1> DEFINE Bad == {n \in Nat : \E t \in Seq(S) : t \notin G /\ Len(t) = n}
<1>1. Bad \in SUBSET Nat /\ Len(s) \in Bad
  OBVIOUS
<1>2. PICK n \in Bad : \A k \in Bad : n <= k
  <2> HIDE DEF Bad
  <2> QED BY <1>1, LeastNat
<1>3. PICK t \in Seq(S) : t \notin G /\ Len(t) = n
  OBVIOUS
<1>4. t # <<>>
  BY <1>3
<1>5. PICK u \in Seq(S), x \in S : t = Append(u, x)
  BY <1>4, SequenceEmptyOrAppend
<1>6. Len(u) \in Nat /\ Len(u) = n - 1 /\ n \in Nat
  BY <1>3, <1>5
<1>7. u \in G
  <2>1. ~(n <= Len(u))
    BY <1>6
  <2> QED BY <1>2, <1>6, <2>1
<1> QED BY <1>3, <1>5, <1>7

\* A sequence and the one with an element more.
LEMMA Grown ==
  ASSUME NEW S, NEW s \in Seq(S), NEW x \in S
  PROVE  /\ Append(s, x) \in Seq(S) /\ Append(s, x) # <<>>
         /\ Len(s) \in Nat /\ Len(Append(s, x)) = Len(s) + 1
         /\ \A i \in 1..Len(s) : Append(s, x)[i] = s[i] /\ s[i] \in S
         /\ Append(s, x)[Len(s) + 1] = x
         /\ Append(s, x) = s \o <<x>> /\ <<x>> \in Seq(S)
<1>1. Append(s, x) = s \o <<x>>
  BY AppendIsConcat
<1> QED BY <1>1, AppendProperties

\* f runs through the values of a loop over s.
Follows(f, V, base, step, s) ==
    /\ f[0] = base
    /\ \A i \in 1..Len(s) : f[i - 1] \in V => f[i] = step[<<f[i - 1], s[i]>>]

Folded(V, base, step, s) ==
    (CHOOSE f \in [0..Len(s) -> V] : Follows(f, V, base, step, s))[Len(s)]

\* The values of a loop exist.
LEMMA FoldSteps ==
  ASSUME NEW V, NEW E, NEW base \in V, NEW step \in [V \X E -> V], NEW s \in Seq(E)
  PROVE  \E f \in [0..Len(s) -> V] : Follows(f, V, base, step, s)
<1> DEFINE G == {t \in Seq(E) : \E f \in [0..Len(t) -> V] : Follows(f, V, base, step, t)}
<1>1. <<>> \in G
  <2> DEFINE f == [i \in 0..0 |-> base]
  <2>1. f \in [0..Len(<<>>) -> V] /\ Follows(f, V, base, step, <<>>)
    BY DEF Follows
  <2> QED BY <2>1
<1>2. ASSUME NEW u \in Seq(E), NEW x \in E, u \in G PROVE Append(u, x) \in G
  <2>1. PICK f \in [0..Len(u) -> V] : Follows(f, V, base, step, u)
    BY <1>2
  <2> DEFINE n == Len(u)
             t == Append(u, x)
             g == [i \in 0..n + 1 |-> IF i = n + 1 THEN step[<<f[n], x>>] ELSE f[i]]
  <2>2. n \in Nat /\ t \in Seq(E) /\ Len(t) = n + 1 /\ t[n + 1] = x /\ \A i \in 1..n : t[i] = u[i]
    BY Grown
  <2> HIDE DEF t
  <2>3. f[n] \in V /\ step[<<f[n], x>>] \in V
    <3> HIDE DEF g, n
    <3>1. f[n] \in V
      BY <2>2 DEF n
    <3> QED BY <3>1
  <2>4. g \in [0..Len(t) -> V] /\ g[0] = base
    BY <2>1, <2>2, <2>3 DEF Follows
  <2>5. ASSUME NEW i \in 1..Len(t) PROVE g[i] = step[<<g[i - 1], t[i]>>]
    <3> HIDE DEF n
    <3>1. CASE i = n + 1
      <4>1. i - 1 = n /\ n \in 0..n + 1 /\ n + 1 \in 0..n + 1 /\ n # n + 1
        BY <2>2, <3>1
      <4>2. g[i - 1] = f[n] /\ t[i] = x /\ g[i] = step[<<f[n], x>>]
        BY <2>2, <3>1, <4>1
      <4> QED BY <4>2
    <3>2. CASE i # n + 1
      <4>1. i \in 1..n /\ i \in 0..n + 1 /\ i - 1 \in 0..n + 1 /\ i - 1 # n + 1 /\ i - 1 \in 0..n
        BY <2>2, <3>2
      <4>2. g[i] = f[i] /\ g[i - 1] = f[i - 1] /\ t[i] = u[i]
        BY <2>2, <3>2, <4>1
      <4>3. f[i] = step[<<f[i - 1], u[i]>>]
        BY <2>1, <4>1 DEF Follows, n
      <4> QED BY <4>2, <4>3
    <3> QED BY <3>1, <3>2
  <2>6. Follows(g, V, base, step, t)
    BY <2>4, <2>5 DEF Follows
  <2> HIDE DEF g, n
  <2> QED BY <2>2, <2>4, <2>6 DEF t
<1> HIDE DEF G
<1>3. \A t \in Seq(E) : t \in G
  BY <1>1, <1>2, SeqInd
<1> QED BY <1>3 DEF G

\* Whatever runs through them ends with one value.
LEMMA FoldMade ==
  ASSUME NEW V, NEW E, NEW base \in V, NEW step \in [V \X E -> V], NEW s \in Seq(E),
         NEW f, Follows(f, V, base, step, s)
  PROVE  f[Len(s)] = Folded(V, base, step, s) /\ f[Len(s)] \in V
<1> DEFINE Is(g) == g \in [0..Len(s) -> V] /\ Follows(g, V, base, step, s)
           g == CHOOSE h \in [0..Len(s) -> V] : Follows(h, V, base, step, s)
           n == Len(s)
           Itself == {i \in 0..n : f[i] = g[i]}
<1>1. Is(g)
  BY FoldSteps
<1>2. n \in Nat
  OBVIOUS
<1> HIDE DEF g
<1>3. 0 \in Itself
  BY <1>1, <1>2 DEF Follows
<1>4. ASSUME NEW i \in 0..(n - 1), i \in Itself PROVE i + 1 \in Itself
  <2>1. f[i] = g[i] /\ i + 1 \in 1..n /\ (i + 1) - 1 = i /\ i + 1 \in 0..n /\ i \in 0..n
    BY <1>2, <1>4
  <2>2. g[i] \in V /\ f[i] \in V
    BY <1>1, <2>1
  <2>3. g[i + 1] = step[<<g[i], s[i + 1]>>] /\ f[i + 1] = step[<<f[i], s[i + 1]>>]
    BY <1>1, <2>1, <2>2 DEF Follows
  <2> QED BY <2>1, <2>3
<1> HIDE DEF Itself
<1>5. \A i \in 0..n : i \in Itself
  BY <1>2, <1>3, <1>4, Upwards
<1>6. f[n] = g[n] /\ g[n] \in V
  BY <1>1, <1>2, <1>5 DEF Itself
<1> QED BY <1>6 DEF Folded, g

\* A loop over nothing leaves what it begins with.
LEMMA FoldEmpty ==
  ASSUME NEW V, NEW E, NEW base \in V, NEW step \in [V \X E -> V]
  PROVE  Folded(V, base, step, <<>>) = base
<1> DEFINE e == <<>>
<1>1. e \in Seq(E) /\ Len(e) = 0
  OBVIOUS
<1> HIDE DEF e
<1>2. PICK f \in [0..Len(e) -> V] : Follows(f, V, base, step, e)
  BY <1>1, FoldSteps
<1>3. f[Len(e)] = Folded(V, base, step, e)
  BY <1>1, <1>2, FoldMade
<1> QED BY <1>1, <1>2, <1>3 DEF Follows, e

FoldsOn(V, base, step, s, x) ==
    /\ Folded(V, base, step, s) \in V
    /\ Folded(V, base, step, Append(s, x)) \in V
    /\ Folded(V, base, step, Append(s, x)) = step[<<Folded(V, base, step, s), x>>]

\* The value of a loop, an element at a time.
LEMMA FoldGrows ==
  ASSUME NEW V, NEW E, NEW base \in V, NEW step \in [V \X E -> V], NEW s \in Seq(E), NEW x \in E
  PROVE  FoldsOn(V, base, step, s, x)
<1> DEFINE t == Append(s, x)
           n == Len(s)
<1>1. n \in Nat /\ t \in Seq(E) /\ Len(t) = n + 1 /\ t[n + 1] = x /\ \A i \in 1..n : t[i] = s[i]
  BY Grown
<1> HIDE DEF t
<1>2. PICK f \in [0..Len(t) -> V] : Follows(f, V, base, step, t)
  BY <1>1, FoldSteps
<1>3. Follows(f, V, base, step, s)
  BY <1>1, <1>2 DEF Follows
<1>4. f[n] = Folded(V, base, step, s) /\ f[n] \in V
  BY <1>3, FoldMade
<1>5. f[n + 1] = Folded(V, base, step, t) /\ f[n + 1] \in V
  <2>1. f[Len(t)] = Folded(V, base, step, t) /\ f[Len(t)] \in V
    BY <1>1, <1>2, FoldMade
  <2> QED BY <1>1, <2>1
<1>6. n + 1 \in 1..Len(t) /\ (n + 1) - 1 = n
  BY <1>1
<1>7. f[n + 1] = step[<<f[n], x>>]
  BY <1>1, <1>2, <1>4, <1>6 DEF Follows
<1> QED BY <1>4, <1>5, <1>7, Zenon DEF t, FoldsOn

\* What a loop leaves.
LEMMA FoldIn ==
  ASSUME NEW V, NEW E, NEW base \in V, NEW step \in [V \X E -> V], NEW s \in Seq(E)
  PROVE  Folded(V, base, step, s) \in V
<1>1. PICK f \in [0..Len(s) -> V] : Follows(f, V, base, step, s)
  BY FoldSteps
<1> QED BY <1>1, FoldMade

-----------------------------------------------------------------------------
(* Sequences joined in one                                                 *)

Associates(x, y, z) == (x \o y) \o z = x \o (y \o z)

\* What is joined to a joined sequence.
LEMMA JoinsAssoc ==
  ASSUME NEW S, NEW x \in Seq(S), NEW y \in Seq(S), NEW z \in Seq(S)
  PROVE  Associates(x, y, z)
BY ConcatAssociative DEF Associates

Cat(V) == [p \in Seq(V) \X Seq(V) |-> p[1] \o p[2]]

\* Cat joins two.
LEMMA CatIs ==
  ASSUME NEW V
  PROVE  /\ Cat(V) \in [Seq(V) \X Seq(V) -> Seq(V)]
         /\ \A x, y \in Seq(V) : Cat(V)[<<x, y>>] = x \o y
<1>1. ASSUME NEW p \in Seq(V) \X Seq(V) PROVE p[1] \o p[2] \in Seq(V)
  BY ConcatProperties
<1> QED BY <1>1 DEF Cat

\* FlattenSeq joins one sequence after another.
LEMMA FlattenIs ==
  ASSUME NEW V, NEW g \in Seq(Seq(V))
  PROVE  FlattenSeq(g) = Folded(Seq(V), <<>>, Cat(V), g)
<1> DEFINE n == Len(g)
           e == <<>>
           Made(k) == k = [i \in 1..n |-> IF i = 1 THEN g[i] ELSE k[i - 1] \o g[i]]
           k == CHOOSE h : Made(h)
           f == [i \in 0..n |-> IF i = 0 THEN e ELSE k[i]]
<1>1. e \in Seq(V) /\ n \in Nat /\ DOMAIN g = 1..n /\ \A i \in 1..n : g[i] \in Seq(V)
  OBVIOUS
<1>2. Cat(V) \in [Seq(V) \X Seq(V) -> Seq(V)]
      /\ \A x, y \in Seq(V) : Cat(V)[<<x, y>>] = x \o y
  BY CatIs
<1>3. \A x \in Seq(V) : e \o x = x
  BY ConcatEmptySeq
<1>4. CASE n = 0
  <2>1. g = e
    BY <1>1, <1>4
  <2>2. FlattenSeq(g) = e
    BY <1>4, <2>1 DEF FlattenSeq
  <2> HIDE DEF e
  <2>3. Folded(Seq(V), e, Cat(V), e) = e
    BY <1>1, <1>2, FoldEmpty, Zenon DEF e
  <2> QED BY <2>1, <2>2, <2>3 DEF e
<1>5. CASE n # 0
  <2> HIDE DEF e, n
  <2>1. PICK v \in [0..n -> Seq(V)] : Follows(v, Seq(V), e, Cat(V), g)
    BY <1>1, <1>2, FoldSteps DEF n
  <2>2. v[0] = e /\ \A i \in 1..n : v[i - 1] \in Seq(V) /\ v[i] = v[i - 1] \o g[i]
    <3>1. ASSUME NEW i \in 1..n PROVE v[i - 1] \in Seq(V) /\ v[i] = v[i - 1] \o g[i]
      <4>1. i - 1 \in 0..n
        BY <1>1
      <4>2. v[i - 1] \in Seq(V)
        BY <4>1
      <4>3. v[i] = Cat(V)[<<v[i - 1], g[i]>>]
        BY <2>1, <4>2 DEF Follows, n
      <4> QED BY <1>1, <1>2, <4>2, <4>3
    <3> QED BY <2>1, <3>1 DEF Follows
  <2>3. Made([i \in 1..n |-> v[i]])
    <3>1. ASSUME NEW i \in 1..n
          PROVE  v[i] = IF i = 1 THEN g[i] ELSE [j \in 1..n |-> v[j]][i - 1] \o g[i]
      <4>1. CASE i = 1
        <5>0. i - 1 = 0 /\ v[0] = e
          BY <2>2, <4>1
        <5>1. v[i - 1] = e /\ g[i] \in Seq(V) /\ v[i] = v[i - 1] \o g[i]
          BY <1>1, <2>2, <5>0
        <5> QED BY <1>3, <4>1, <5>1
      <4>2. CASE i # 1
        <5>1. i - 1 \in 1..n
          BY <1>1, <4>2
        <5>2. [j \in 1..n |-> v[j]][i - 1] = v[i - 1]
          BY <5>1
        <5> QED BY <2>2, <4>2, <5>2
      <4> QED BY <4>1, <4>2
    <3> QED BY <3>1
  <2>4. Made(k)
    <3> HIDE DEF Made
    <3> QED BY <2>3
  <2> HIDE DEF k
  <2>5. Follows(f, Seq(V), e, Cat(V), g)
    <3>1. f[0] = e
      BY <1>1
    <3>2. ASSUME NEW i \in 1..n, f[i - 1] \in Seq(V) PROVE f[i] = Cat(V)[<<f[i - 1], g[i]>>]
      <4>1. i # 0 /\ f[i] = k[i] /\ k[i] = IF i = 1 THEN g[i] ELSE k[i - 1] \o g[i]
        <5>1. i # 0 /\ i \in 0..n /\ f[i] = k[i]
          BY <1>1
        <5> HIDE DEF f
        <5> QED BY <2>4, <5>1
      <4>2. i = 1 => f[i - 1] = e
        BY <3>1
      <4>3. i # 1 => f[i - 1] = k[i - 1]
        BY <1>1
      <4> HIDE DEF f
      <4>4. f[i] = f[i - 1] \o g[i]
        BY <1>1, <1>3, <4>1, <4>2, <4>3
      <4> QED BY <1>1, <1>2, <3>2, <4>4
    <3> HIDE DEF f
    <3> QED BY <3>1, <3>2 DEF Follows, n
  <2>6. f[n] = Folded(Seq(V), e, Cat(V), g)
    <3> HIDE DEF f
    <3>1. /\ e \in Seq(V) /\ Cat(V) \in [Seq(V) \X Seq(V) -> Seq(V)] /\ g \in Seq(Seq(V))
          /\ Follows(f, Seq(V), e, Cat(V), g)
      BY <1>1, <1>2, <2>5
    <3>2. f[Len(g)] = Folded(Seq(V), e, Cat(V), g) /\ f[Len(g)] \in Seq(V)
      BY <3>1, FoldMade, Zenon
    <3> QED BY <3>2 DEF n
  <2>7. f[n] = k[n]
    BY <1>1, <1>5
  <2>8. FlattenSeq(g) = k[n]
    BY <1>5 DEF FlattenSeq, k, n
  <2> QED BY <2>6, <2>7, <2>8 DEF e
<1> QED BY <1>4, <1>5

\* Nothing joined is nothing.
LEMMA FlattenEmpty == FlattenSeq(<<>>) = <<>>
BY DEF FlattenSeq

\* U is T with one sequence more.
Longer(T, U) == Len(U) = Len(T) + 1 /\ \A i \in 1..Len(T) : U[i] = T[i]

Flattens(V, T, U) == /\ FlattenSeq(T) \in Seq(V)
                     /\ FlattenSeq(U) = FlattenSeq(T) \o U[Len(T) + 1]

\* The last of the sequences comes last.
LEMMA FlattenGrows ==
  ASSUME NEW V, NEW T \in Seq(Seq(V)), NEW U \in Seq(Seq(V)), Longer(T, U)
  PROVE  Flattens(V, T, U)
<1> DEFINE x == U[Len(T) + 1]
           e == <<>>
<1>1. Len(T) \in Nat /\ Len(U) \in Nat /\ Len(T) + 1 \in 1..Len(U) /\ x \in Seq(V)
  BY DEF Longer
<1>2. U = Append(T, x)
  <2> DEFINE A == Append(T, x)
  <2>1. A \in Seq(Seq(V)) /\ Len(A) = Len(T) + 1
        /\ (\A i \in 1..Len(T) : A[i] = T[i]) /\ A[Len(T) + 1] = x
    <3> HIDE DEF x
    <3> QED BY <1>1, Grown
  <2> HIDE DEF A
  <2>2. Len(A) = Len(U)
    BY <2>1 DEF Longer
  <2>3. ASSUME NEW i \in 1..Len(U) PROVE U[i] = A[i]
    <3>1. i \in 1..Len(T) \/ i = Len(T) + 1
      BY <1>1 DEF Longer
    <3> QED BY <2>1, <3>1 DEF Longer
  <2> QED BY <2>1, <2>2, <2>3, SeqEqual DEF A
<1> HIDE DEF x
<1>3. e \in Seq(V) /\ Cat(V) \in [Seq(V) \X Seq(V) -> Seq(V)]
      /\ \A y, z \in Seq(V) : Cat(V)[<<y, z>>] = y \o z
  BY CatIs, EmptySeq
<1>4. FlattenSeq(T) = Folded(Seq(V), e, Cat(V), T) /\ FlattenSeq(U) = Folded(Seq(V), e, Cat(V), U)
  BY FlattenIs
<1> HIDE DEF e
<1>5. FoldsOn(Seq(V), e, Cat(V), T, x)
  BY <1>1, <1>3, FoldGrows
<1> QED BY <1>1, <1>2, <1>3, <1>4, <1>5 DEF Flattens, FoldsOn, x

\* The sequences g gives for the elements of s, joined.
Mapped(s, g) == FlattenSeq([i \in DOMAIN s |-> g[s[i]]])

MapsOn(V, s, x, g) == /\ Mapped(<<>>, g) = <<>>
                      /\ Mapped(s, g) \in Seq(V)
                      /\ Mapped(Append(s, x), g) \in Seq(V)
                      /\ Mapped(Append(s, x), g) = Mapped(s, g) \o g[x]
                      /\ g[x] \in Seq(V)

\* Nothing maps to nothing.
LEMMA MappedEmpty == \A g : Mapped(<<>>, g) = <<>>
<1> DEFINE T(g) == [i \in DOMAIN <<>> |-> g[<<>>[i]]]
<1>1. \A g : T(g) = <<>>
  OBVIOUS
<1> QED BY <1>1, FlattenEmpty DEF Mapped

\* An element more adds what it maps to.
LEMMA MappedGrows ==
  ASSUME NEW E, NEW V, NEW g \in [E -> Seq(V)], NEW s \in Seq(E), NEW x \in E
  PROVE  MapsOn(V, s, x, g)
<1> DEFINE n == Len(s)
           t == Append(s, x)
           T == [i \in 1..n |-> g[s[i]]]
           U == [i \in 1..n + 1 |-> g[t[i]]]
<1>1. n \in Nat /\ t \in Seq(E) /\ Len(t) = n + 1 /\ t[n + 1] = x
      /\ \A i \in 1..n : t[i] = s[i] /\ s[i] \in E
  BY Grown
<1> HIDE DEF t, n
<1>2. \A i \in 1..n + 1 : t[i] \in E
  BY <1>1
<1>3. T \in Seq(Seq(V)) /\ Len(T) = n
  <2>1. \A i \in 1..n : g[s[i]] \in Seq(V)
    BY <1>1
  <2> QED BY <1>1, <2>1
<1>4. U \in Seq(Seq(V)) /\ Len(U) = n + 1
  <2>1. \A i \in 1..n + 1 : g[t[i]] \in Seq(V)
    BY <1>2
  <2> QED BY <1>1, <2>1
<1>5. Longer(T, U) /\ U[n + 1] = g[x]
  <2>1. ASSUME NEW i \in 1..n PROVE U[i] = T[i]
    <3>1. i \in 1..n + 1 /\ t[i] = s[i]
      BY <1>1
    <3> QED BY <3>1
  <2>2. n + 1 \in 1..n + 1
    BY <1>1
  <2>3. U[n + 1] = g[x]
    BY <1>1, <2>2
  <2> HIDE DEF T, U
  <2> QED BY <1>3, <1>4, <2>1, <2>3 DEF Longer
<1>6. Mapped(s, g) = FlattenSeq(T) /\ Mapped(t, g) = FlattenSeq(U)
  <2>1. DOMAIN s = 1..n /\ DOMAIN t = 1..n + 1
    BY <1>1 DEF n
  <2> QED BY <2>1 DEF Mapped
<1> HIDE DEF T, U
<1>7. Flattens(V, T, U)
  BY <1>3, <1>4, <1>5, FlattenGrows
<1>8. Mapped(s, g) \in Seq(V) /\ Mapped(t, g) = Mapped(s, g) \o g[x] /\ g[x] \in Seq(V)
  BY <1>3, <1>5, <1>6, <1>7 DEF Flattens
<1>9. Mapped(t, g) \in Seq(V)
  BY <1>8, ConcatProperties
<1> QED BY <1>8, <1>9, MappedEmpty DEF MapsOn, t

\* What a sequence maps to is a sequence.
LEMMA MappedIn ==
  ASSUME NEW E, NEW V, NEW g \in [E -> Seq(V)], NEW s \in Seq(E)
  PROVE  Mapped(s, g) \in Seq(V)
<1> DEFINE e == <<>>
<1>1. CASE s = <<>>
  <2>1. e \in Seq(V)
    OBVIOUS
  <2> QED BY <1>1, <2>1, MappedEmpty
<1>2. CASE s # <<>>
  <2>1. s[1] \in E
    BY <1>2
  <2> QED BY <2>1, MappedGrows, Zenon DEF MapsOn
<1> QED BY <1>1, <1>2

MapsApart(V, s, t, g) == Mapped(s \o t, g) = Mapped(s, g) \o Mapped(t, g)

\* Joined sequences map to joined ones.
LEMMA MappedConcat ==
  ASSUME NEW E, NEW V, NEW g \in [E -> Seq(V)], NEW s \in Seq(E), NEW t \in Seq(E)
  PROVE  MapsApart(V, s, t, g)
<1> DEFINE e == <<>>
           G == {u \in Seq(E) : MapsApart(V, s, u, g)}
<1>1. e \in G
  <2>1. e \in Seq(E) /\ s \o e = s /\ Mapped(s, g) \in Seq(V) /\ Mapped(e, g) = <<>>
    BY ConcatEmptySeq, MappedIn, MappedEmpty
  <2>2. Mapped(s, g) \o <<>> = Mapped(s, g)
    BY <2>1, ConcatEmptySeq
  <2> HIDE DEF e
  <2> QED BY <2>1, <2>2 DEF MapsApart
<1> HIDE DEF e
<1>2. ASSUME NEW u \in Seq(E), NEW x \in E, u \in G PROVE Append(u, x) \in G
  <2> DEFINE a == Mapped(s, g)
             b == Mapped(u, g)
             c == g[x]
  <2>1. Append(u, x) \in Seq(E) /\ s \o u \in Seq(E) /\ s \o Append(u, x) = Append(s \o u, x)
    <3>1. Append(u, x) = u \o <<x>> /\ <<x>> \in Seq(E) /\ s \o u \in Seq(E)
      BY Grown, ConcatProperties
    <3>2. Append(s \o u, x) = (s \o u) \o <<x>>
      BY <3>1, AppendIsConcat
    <3>3. (s \o u) \o <<x>> = s \o (u \o <<x>>)
      BY <3>1, ConcatAssociative
    <3> QED BY <3>1, <3>2, <3>3, Grown
  <2>2. MapsOn(V, s \o u, x, g) /\ MapsOn(V, u, x, g) /\ a \in Seq(V)
    BY <2>1, MappedGrows, MappedIn
  <2>3. Mapped(s \o u, g) = a \o b
    BY <1>2 DEF MapsApart
  <2>4. b \in Seq(V) /\ c \in Seq(V) /\ Mapped(Append(u, x), g) = b \o c
        /\ Mapped(Append(s \o u, x), g) = (a \o b) \o c
    BY <2>2, <2>3, Zenon DEF MapsOn
  <2> HIDE DEF a, b, c
  <2>5. (a \o b) \o c = a \o (b \o c)
    <3>1. Associates(a, b, c)
      BY <2>2, <2>4, JoinsAssoc
    <3> QED BY <3>1 DEF Associates
  <2>6. Mapped(s \o Append(u, x), g) = a \o Mapped(Append(u, x), g)
    BY <2>1, <2>4, <2>5, Zenon
  <2> QED BY <2>1, <2>6, Zenon DEF MapsApart, a
<1> HIDE DEF G
<1>3. \A u \in Seq(E) : u \in G
  BY <1>1, <1>2, SeqInd DEF e
<1> QED BY <1>3 DEF G

-----------------------------------------------------------------------------
(* Symbols and texts                                                       *)

Symbol == ToSet(Order)
Text == Seq(Symbol)

\* How many there are.
LEMMA OrderIs == Len(Order) = 43 /\ DOMAIN Order = 1..43
BY DEF Order

\* Each is a symbol.
LEMMA SymbolsAre == \A i \in 1..43 : Order[i] \in Symbol
BY OrderIs DEF Symbol, ToSet

\* The characters, their digits and the words are symbols.
LEMMA Signs == {" ", "%", "&", "+", "-", ".", "/", ";", "=", "{", "~"} \subseteq Symbol
<1>1. Order[1] = " " /\ Order[2] = "%" /\ Order[3] = "&" /\ Order[4] = "+"
  BY DEF Order
<1>2. Order[5] = "-" /\ Order[6] = "." /\ Order[7] = "/" /\ Order[16] = ";"
  BY DEF Order
<1>3. Order[17] = "=" /\ Order[42] = "{" /\ Order[43] = "~"
  BY DEF Order
<1>4. Order[1] \in Symbol /\ Order[2] \in Symbol /\ Order[3] \in Symbol /\ Order[4] \in Symbol
  BY SymbolsAre
<1>5. Order[5] \in Symbol /\ Order[6] \in Symbol /\ Order[7] \in Symbol /\ Order[16] \in Symbol
  BY SymbolsAre
<1>6. Order[17] \in Symbol /\ Order[42] \in Symbol /\ Order[43] \in Symbol
  BY SymbolsAre
<1> HIDE DEF Symbol
<1>7. {" ", "%", "&", "+"} \subseteq Symbol
  BY <1>1, <1>4
<1>8. {"-", ".", "/", ";"} \subseteq Symbol
  BY <1>2, <1>5
<1>9. {"=", "{", "~"} \subseteq Symbol
  BY <1>3, <1>6
<1> QED BY <1>7, <1>8, <1>9

\* Likewise.
LEMMA Digits == {"20", "25", "26", "2B", "2F", "3B", "3D", "7B"} \subseteq Symbol
<1>1. Order[8] = "20" /\ Order[9] = "25" /\ Order[10] = "26" /\ Order[11] = "2B"
  BY DEF Order
<1>2. Order[12] = "2F" /\ Order[13] = "3B" /\ Order[14] = "3D" /\ Order[15] = "7B"
  BY DEF Order
<1>3. Order[8] \in Symbol /\ Order[9] \in Symbol /\ Order[10] \in Symbol /\ Order[11] \in Symbol
  BY SymbolsAre
<1>4. Order[12] \in Symbol /\ Order[13] \in Symbol /\ Order[14] \in Symbol /\ Order[15] \in Symbol
  BY SymbolsAre
<1> QED BY <1>1, <1>2, <1>3, <1>4

\* Likewise.
LEMMA Words == {"AWS4", "UNSIGNED", "a", "authorization", "aws4_request", "b", "hash", "host", "key",
                "now", "region", "s3", "seconds", "service"} \subseteq Symbol
<1>1. Order[18] = "AWS4" /\ Order[19] = "UNSIGNED" /\ Order[27] = "a" /\ Order[28] = "authorization"
  BY DEF Order
<1>2. Order[29] = "aws4_request" /\ Order[30] = "b" /\ Order[31] = "hash" /\ Order[32] = "host"
  BY DEF Order
<1>3. Order[33] = "key" /\ Order[34] = "now" /\ Order[35] = "region" /\ Order[36] = "s3"
  BY DEF Order
<1>4. Order[37] = "seconds" /\ Order[38] = "service"
  BY DEF Order
<1>5. Order[18] \in Symbol /\ Order[19] \in Symbol /\ Order[27] \in Symbol /\ Order[28] \in Symbol
  BY SymbolsAre
<1>6. Order[29] \in Symbol /\ Order[30] \in Symbol /\ Order[31] \in Symbol /\ Order[32] \in Symbol
  BY SymbolsAre
<1>7. Order[33] \in Symbol /\ Order[34] \in Symbol /\ Order[35] \in Symbol /\ Order[36] \in Symbol
  BY SymbolsAre
<1>8. Order[37] \in Symbol /\ Order[38] \in Symbol
  BY SymbolsAre
<1> QED BY <1>1, <1>2, <1>3, <1>4, <1>5, <1>6, <1>7, <1>8

\* Likewise.
LEMMA HeaderNames == {"X-Algorithm", "X-Credential", "X-Date", "X-Expires", "X-Security-Token", "X-Signature",
                "X-SignedHeaders", "x-amz-content-sha256", "x-amz-date", "x-amz-security-token"}
               \subseteq Symbol
<1>1. Order[20] = "X-Algorithm" /\ Order[21] = "X-Credential" /\ Order[22] = "X-Date" /\ Order[23] = "X-Expires"
  BY DEF Order
<1>2. Order[24] = "X-Security-Token" /\ Order[25] = "X-Signature" /\ Order[26] = "X-SignedHeaders" /\ Order[39] = "x-amz-content-sha256"
  BY DEF Order
<1>3. Order[40] = "x-amz-date" /\ Order[41] = "x-amz-security-token"
  BY DEF Order
<1>4. Order[20] \in Symbol /\ Order[21] \in Symbol /\ Order[22] \in Symbol /\ Order[23] \in Symbol
  BY SymbolsAre
<1>5. Order[24] \in Symbol /\ Order[25] \in Symbol /\ Order[26] \in Symbol /\ Order[39] \in Symbol
  BY SymbolsAre
<1>6. Order[40] \in Symbol /\ Order[41] \in Symbol
  BY SymbolsAre
<1> QED BY <1>1, <1>2, <1>3, <1>4, <1>5, <1>6

\* A symbol stands in its place.
LEMMA Ranks == \A c \in Symbol : Rank[c] \in 1..43 /\ Order[Rank[c]] = c
<1> SUFFICES ASSUME NEW c \in Symbol PROVE Rank[c] \in 1..43 /\ Order[Rank[c]] = c
  OBVIOUS
<1>1. \E i \in DOMAIN Order : Order[i] = c
  BY DEF Symbol, ToSet
<1>2. Rank[c] = CHOOSE i \in DOMAIN Order : Order[i] = c
  BY DEF Rank, Symbol
<1> QED BY <1>1, <1>2, OrderIs

Escaped == {" ", "%", "&", "+", "/", ";", "=", "{"}

\* The digits of an escape are symbols that need none.
LEMMA HexIs ==
  /\ DOMAIN Hex = Escaped /\ Escaped \subseteq Symbol
  /\ Hex["%"] = "25"
  /\ \A c \in Escaped : Hex[c] \in Symbol /\ Hex[c] \notin Escaped
<1>1. ASSUME NEW c \in Escaped
      PROVE  Hex[c] \in {"20", "25", "26", "2B", "2F", "3B", "3D", "7B"}
  BY DEF Hex, Escaped
<1>2. \A x \in {"20", "25", "26", "2B", "2F", "3B", "3D", "7B"} : x \notin Escaped
  BY DEF Escaped
<1>3. DOMAIN Hex = Escaped /\ Escaped \subseteq Symbol /\ Hex["%"] = "25"
  BY Signs DEF Hex, Escaped
<1> HIDE DEF Escaped
<1> QED BY <1>1, <1>2, <1>3, Digits

\* They tell the characters apart.
LEMMA HexOwn == \A c, d \in Escaped : Hex[c] = Hex[d] => c = d
BY DEF Hex, Escaped

\* Sequences of one and of two.
LEMMA Two ==
  ASSUME NEW S, NEW a \in S, NEW b \in S
  PROVE  /\ <<a>> \in Seq(S) /\ <<a, b>> \in Seq(S)
         /\ <<a>> = Append(<<>>, a) /\ <<a, b>> = Append(<<a>>, b) /\ <<a, b>> = <<a>> \o <<b>>
<1>1. <<a>> \in Seq(S)
  OBVIOUS
<1>2. <<a, b>> \in Seq(S)
  OBVIOUS
<1>3. <<a>> = Append(<<>>, a)
  OBVIOUS
<1>4. <<a, b>> = Append(<<a>>, b)
  OBVIOUS
<1>5. Append(<<a>>, b) = <<a>> \o <<b>>
  BY <1>1, AppendIsConcat, Zenon
<1>6. <<a, b>> = <<a>> \o <<b>>
  BY <1>4, <1>5, Zenon
<1> QED BY <1>1, <1>2, <1>3, <1>4, <1>6, Zenon

\* Three.
LEMMA Three ==
  ASSUME NEW S, NEW a \in S, NEW b \in S, NEW c \in S
  PROVE  <<a, b, c>> \in Seq(S) /\ <<a, b, c>> = <<a, b>> \o <<c>>
<1>1. <<a, b, c>> = Append(<<a, b>>, c) /\ <<a, b, c>> \in Seq(S)
  OBVIOUS
<1>2. <<a, b>> \in Seq(S)
  OBVIOUS
<1>3. Append(<<a, b>>, c) = <<a, b>> \o <<c>>
  BY <1>2, AppendIsConcat, Zenon
<1> QED BY <1>1, <1>3, Zenon

\* Two more.
LEMMA TwoMore ==
  ASSUME NEW S, NEW s \in Seq(S), NEW a \in S, NEW b \in S
  PROVE  s \o <<a, b>> = Append(Append(s, a), b)
<1>1. <<a>> \in Seq(S) /\ <<b>> \in Seq(S) /\ <<a, b>> = <<a>> \o <<b>>
  BY Two
<1>2. Append(s, a) = s \o <<a>> /\ Append(s, a) \in Seq(S)
  BY Grown
<1>3. Append(Append(s, a), b) = Append(s, a) \o <<b>>
  BY <1>2, AppendIsConcat
<1>4. Associates(s, <<a>>, <<b>>)
  BY <1>1, JoinsAssoc
<1> QED BY <1>1, <1>2, <1>3, <1>4 DEF Associates

-----------------------------------------------------------------------------
(* Encoding, and reading back                                              *)

Enc(keepSlash, twice) == [c \in Symbol |-> EncodedSymbol(c, keepSlash, twice)]

\* A symbol is encoded as it is, or as an escape.
LEMMA EncIs ==
  ASSUME NEW c \in Symbol, NEW k \in BOOLEAN, NEW t \in BOOLEAN
  PROVE  /\ EncodedSymbol(c, k, t) \in Text
         /\ c \notin Escaped \/ (k /\ c = "/") => EncodedSymbol(c, k, t) = <<c>>
         /\ ~(c \notin Escaped \/ (k /\ c = "/")) =>
                EncodedSymbol(c, k, t) = IF t THEN <<"%", "25", Hex[c]>> ELSE <<"%", Hex[c]>>
<1>1. DOMAIN Hex = Escaped /\ (c \in Escaped => Hex[c] \in Symbol) /\ "%" \in Symbol /\ "25" \in Symbol
  BY HexIs, Signs, Digits
<1> HIDE DEF Symbol, Escaped
<1> QED BY <1>1 DEF EncodedSymbol, Text

\* What is encoded is a text.
LEMMA EncAre ==
  ASSUME NEW k \in BOOLEAN, NEW t \in BOOLEAN
  PROVE  Enc(k, t) \in [Symbol -> Text]
<1> HIDE DEF Symbol, Text
<1> QED BY EncIs DEF Enc

\* A text is encoded symbol by symbol.
LEMMA EncodedIs ==
  ASSUME NEW s \in Text, NEW k \in BOOLEAN, NEW t \in BOOLEAN
  PROVE  Encoded(s, k, t) = Mapped(s, Enc(k, t))
<1> DEFINE T == [i \in DOMAIN s |-> EncodedSymbol(s[i], k, t)]
           U == [i \in DOMAIN s |-> Enc(k, t)[s[i]]]
<1>1. \A i \in DOMAIN s : s[i] \in Symbol
  BY DEF Text
<1> HIDE DEF Symbol
<1>2. \A i \in DOMAIN s : EncodedSymbol(s[i], k, t) = Enc(k, t)[s[i]]
  BY <1>1 DEF Enc
<1>3. T = U
  BY <1>2
<1> QED BY <1>3 DEF Encoded, Mapped

EncodesOn(s, x, k, t) == /\ Encoded(<<>>, k, t) = <<>>
                         /\ Encoded(s, k, t) \in Text
                         /\ Encoded(Append(s, x), k, t) \in Text
                         /\ Encoded(Append(s, x), k, t) = Encoded(s, k, t) \o EncodedSymbol(x, k, t)

\* A symbol more.
LEMMA EncodedGrows ==
  ASSUME NEW s \in Text, NEW x \in Symbol, NEW k \in BOOLEAN, NEW t \in BOOLEAN
  PROVE  EncodesOn(s, x, k, t)
<1> DEFINE e == <<>>
           g == Enc(k, t)
<1>1. e \in Text /\ Append(s, x) \in Text
  BY DEF Text
<1>2. g \in [Symbol -> Seq(Symbol)]
  BY EncAre DEF Text
<1>3. g[x] = EncodedSymbol(x, k, t)
  BY DEF Enc
<1> HIDE DEF e, g
<1>4. MapsOn(Symbol, s, x, g)
  BY <1>2, MappedGrows DEF Text
<1>5. Encoded(e, k, t) = Mapped(e, g) /\ Encoded(s, k, t) = Mapped(s, g)
      /\ Encoded(Append(s, x), k, t) = Mapped(Append(s, x), g)
  BY <1>1, EncodedIs DEF g
<1> QED BY <1>3, <1>4, <1>5, Zenon DEF EncodesOn, MapsOn, e, Text

\* The encoding of a text is a text.
LEMMA EncodedText ==
  ASSUME NEW s \in Text, NEW k \in BOOLEAN, NEW t \in BOOLEAN
  PROVE  Encoded(s, k, t) \in Text
<1>1. "%" \in Symbol
  BY Signs
<1> QED BY <1>1, EncodedGrows DEF EncodesOn

\* The encoding of nothing is nothing.
LEMMA EncodedNone == \A k, t : Encoded(<<>>, k, t) = <<>>
<1> DEFINE T(k, t) == [i \in DOMAIN <<>> |-> EncodedSymbol(<<>>[i], k, t)]
<1>1. \A k, t : T(k, t) = <<>>
  OBVIOUS
<1> QED BY <1>1, FlattenEmpty DEF Encoded

EncodesApart(s, u, k, t) == Encoded(s \o u, k, t) = Encoded(s, k, t) \o Encoded(u, k, t)

\* Joined texts are encoded apart.
LEMMA EncodedConcat ==
  ASSUME NEW s \in Text, NEW u \in Text, NEW k \in BOOLEAN, NEW t \in BOOLEAN
  PROVE  EncodesApart(s, u, k, t)
<1> DEFINE g == Enc(k, t)
<1>1. g \in [Symbol -> Seq(Symbol)] /\ s \o u \in Text
  BY EncAre, ConcatProperties DEF Text
<1> HIDE DEF g
<1>2. MapsApart(Symbol, s, u, g)
  BY <1>1, MappedConcat DEF Text
<1>3. Encoded(s, k, t) = Mapped(s, g) /\ Encoded(u, k, t) = Mapped(u, g)
      /\ Encoded(s \o u, k, t) = Mapped(s \o u, g)
  BY <1>1, EncodedIs DEF g
<1> QED BY <1>2, <1>3 DEF MapsApart, EncodesApart

\* A text of one symbol.
LEMMA EncodedOne ==
  ASSUME NEW x \in Symbol, NEW k \in BOOLEAN, NEW t \in BOOLEAN
  PROVE  Encoded(<<x>>, k, t) = EncodedSymbol(x, k, t)
<1> DEFINE e == <<>>
           y == EncodedSymbol(x, k, t)
<1>1. e \in Text /\ <<x>> = Append(e, x) /\ y \in Text
  BY EncIs DEF Text
<1>2. e \o y = y
  BY <1>1, ConcatEmptySeq DEF Text
<1> HIDE DEF e
<1>3. EncodesOn(e, x, k, t)
  BY <1>1, EncodedGrows
<1> HIDE DEF y
<1>4. Encoded(Append(e, x), k, t) = e \o y
  BY <1>3, Zenon DEF EncodesOn, e, y
<1> QED BY <1>1, <1>2, <1>4, Zenon DEF y

\* Encoding what is encoded is encoding twice.
LEMMA EncodedTwice ==
  ASSUME NEW s \in Text
  PROVE  Encoded(Encoded(s, TRUE, FALSE), TRUE, FALSE) = Encoded(s, TRUE, TRUE)
<1> DEFINE e == <<>>
           G == {u \in Text : Encoded(Encoded(u, TRUE, FALSE), TRUE, FALSE) = Encoded(u, TRUE, TRUE)}
<1>1. e \in G
  <2>1. e \in Text
    BY DEF Text
  <2> HIDE DEF e
  <2>2. Encoded(e, TRUE, FALSE) = e /\ Encoded(e, TRUE, TRUE) = e
    BY EncodedNone DEF e
  <2> QED BY <2>1, <2>2
<1>2. ASSUME NEW u \in Text, NEW x \in Symbol, u \in G PROVE Append(u, x) \in G
  <2> DEFINE y == EncodedSymbol(x, TRUE, FALSE)
             a == Encoded(u, TRUE, FALSE)
  <2>1. y \in Text /\ a \in Text /\ Append(u, x) \in Text
    <3>1. Append(u, x) \in Text
      BY DEF Text
    <3> QED BY <3>1, EncIs, EncodedText
  <2>2. Encoded(y, TRUE, FALSE) = EncodedSymbol(x, TRUE, TRUE)
    <3>1. CASE x \notin Escaped \/ x = "/"
      <4>1. y = <<x>> /\ EncodedSymbol(x, TRUE, TRUE) = <<x>> /\ EncodedSymbol(x, TRUE, FALSE) = <<x>>
        BY <3>1, EncIs
      <4> QED BY <4>1, EncodedOne
    <3>2. CASE ~(x \notin Escaped \/ x = "/")
      <4>1. y = <<"%", Hex[x]>> /\ EncodedSymbol(x, TRUE, TRUE) = <<"%", "25", Hex[x]>>
        BY <3>2, EncIs
      <4>2. Hex[x] \in Symbol /\ Hex[x] \notin Escaped /\ "%" \in Symbol /\ "%" \in Escaped
            /\ Hex["%"] = "25" /\ "%" # "/"
        BY <3>2, HexIs, Signs DEF Escaped
      <4> DEFINE h == Hex[x]
      <4> HIDE DEF h
      <4>3. EncodedSymbol("%", TRUE, FALSE) = <<"%", "25">> /\ EncodedSymbol(h, TRUE, FALSE) = <<h>>
        BY <4>2, EncIs DEF h
      <4>4. <<"%">> \in Text /\ <<h>> \in Text /\ <<"%", h>> = <<"%">> \o <<h>>
        BY <4>2 DEF h, Text
      <4>5. EncodesApart(<<"%">>, <<h>>, TRUE, FALSE)
        BY <4>4, EncodedConcat
      <4>6. Encoded(<<"%">>, TRUE, FALSE) = <<"%", "25">> /\ Encoded(<<h>>, TRUE, FALSE) = <<h>>
        BY <4>2, <4>3, EncodedOne DEF h
      <4>7. <<"%", "25">> \o <<h>> = <<"%", "25", h>>
        <5>1. "%" \in Symbol /\ "25" \in Symbol /\ h \in Symbol
          BY <4>2, Digits DEF h
        <5> HIDE DEF Symbol
        <5> QED BY <5>1, Three, Zenon
      <4> QED BY <4>1, <4>4, <4>5, <4>6, <4>7 DEF h, EncodesApart
    <3> QED BY <3>1, <3>2
  <2>3. EncodesOn(u, x, TRUE, FALSE) /\ EncodesOn(u, x, TRUE, TRUE)
    BY EncodedGrows
  <2> HIDE DEF y, a
  <2>4. EncodesApart(a, y, TRUE, FALSE)
    BY <2>1, EncodedConcat
  <2>5. Encoded(Append(u, x), TRUE, FALSE) = a \o y
    BY <2>3 DEF EncodesOn, a, y
  <2>6. Encoded(a, TRUE, FALSE) = Encoded(u, TRUE, TRUE)
    BY <1>2 DEF a
  <2>7. Encoded(a \o y, TRUE, FALSE) = Encoded(Append(u, x), TRUE, TRUE)
    BY <2>2, <2>3, <2>4, <2>6 DEF EncodesOn, EncodesApart
  <2> QED BY <2>1, <2>5, <2>7
<1> HIDE DEF G, e
<1>3. \A u \in Seq(Symbol) : u \in G
  BY <1>1, <1>2, SeqInd DEF e, Text
<1> QED BY <1>3 DEF G, Text

\* What is read at the end of t, where x follows.
ReadAt(t, x) == CASE x = "%" -> <<>>
                  [] t # <<>> /\ t[Len(t)] = "%" -> <<CHOOSE c \in DOMAIN Hex : Hex[c] = x>>
                  [] OTHER -> <<x>>

Readable == Symbol \cup {CHOOSE c \in DOMAIN Hex : Hex[c] = x : x \in Symbol}

ReadsOn(t, x) == /\ Decoded(t) \in Seq(Readable)
                 /\ Decoded(Append(t, x)) = Decoded(t) \o ReadAt(t, x)

\* A symbol more is read.
LEMMA DecodedGrows ==
  ASSUME NEW s \in Text, NEW x \in Symbol
  PROVE  ReadsOn(s, x)
<1> DEFINE n == Len(s)
           t == Append(s, x)
           Char(u, i) == CASE u[i] = "%" -> <<>>
                     [] i > 1 /\ u[i - 1] = "%" -> <<CHOOSE c \in DOMAIN Hex : Hex[c] = u[i]>>
                     [] OTHER -> <<u[i]>>
           T == [i \in 1..n |-> Char(s, i)]
           U == [i \in 1..n + 1 |-> Char(t, i)]
<1>1. n \in Nat /\ t \in Text /\ Len(t) = n + 1 /\ t[n + 1] = x
      /\ \A i \in 1..n : t[i] = s[i] /\ s[i] \in Symbol
  BY Grown DEF Text
<1>2. DOMAIN s = 1..n /\ DOMAIN t = 1..n + 1
  BY <1>1 DEF Text
<1> HIDE DEF t, n
<1>3. ASSUME NEW u \in Text, NEW i \in 1..Len(u) PROVE Char(u, i) \in Seq(Readable)
  <2>1. u[i] \in Symbol /\ u[i] \in Readable
    BY DEF Text, Readable
  <2>2. (CHOOSE c \in DOMAIN Hex : Hex[c] = u[i]) \in Readable
    BY <2>1, Zenon DEF Readable
  <2> DEFINE r == CHOOSE c \in DOMAIN Hex : Hex[c] = u[i]
             e == <<>>
  <2>3. e \in Seq(Readable)
    OBVIOUS
  <2> HIDE DEF r, Readable, Symbol
  <2>4. <<r>> \in Seq(Readable) /\ <<u[i]>> \in Seq(Readable)
    BY <2>1, <2>2, Two DEF r
  <2> HIDE DEF e
  <2>5. Char(u, i) \in {e, <<r>>, <<u[i]>>}
    BY DEF r, e
  <2> QED BY <2>3, <2>4, <2>5
<1> HIDE DEF Char
<1>4. T \in Seq(Seq(Readable)) /\ Len(T) = n /\ U \in Seq(Seq(Readable)) /\ Len(U) = n + 1
  <2>1. \A i \in 1..n : Char(s, i) \in Seq(Readable)
    BY <1>3 DEF n
  <2>2. \A i \in 1..n + 1 : Char(t, i) \in Seq(Readable)
    BY <1>1, <1>3
  <2> QED BY <1>1, <2>1, <2>2
<1>5. ASSUME NEW i \in 1..n PROVE Char(t, i) = Char(s, i)
  <2>1. t[i] = s[i] /\ (i > 1 => t[i - 1] = s[i - 1])
    BY <1>1
  <2> QED BY <2>1, Zenon DEF Char
<1>6. Char(t, n + 1) = ReadAt(s, x)
  <2>1. (n + 1 > 1 /\ t[n] = "%") <=> (s # <<>> /\ s[Len(s)] = "%")
    <3>1. CASE n = 0
      <4>1. s = <<>>
        BY <3>1 DEF n, Text
      <4> QED BY <3>1, <4>1
    <3>2. CASE n # 0
      <4>1. s # <<>> /\ n \in 1..n /\ n + 1 > 1
        BY <1>1, <3>2 DEF n
      <4> QED BY <1>1, <4>1 DEF n
    <3> QED BY <3>1, <3>2
  <2>2. (n + 1) - 1 = n
    BY <1>1
  <2> QED BY <1>1, <2>1, <2>2, Zenon DEF Char, ReadAt
<1>7. Longer(T, U) /\ U[n + 1] = ReadAt(s, x)
  <2>1. \A i \in 1..n : U[i] = T[i]
    BY <1>1, <1>5
  <2>2. U[n + 1] = Char(t, n + 1)
    BY <1>1
  <2> HIDE DEF T, U
  <2> QED BY <1>4, <1>6, <2>1, <2>2 DEF Longer
<1>8. Decoded(s) = FlattenSeq(T) /\ Decoded(t) = FlattenSeq(U)
  BY <1>2, Zenon DEF Decoded, Char
<1> HIDE DEF T, U
<1>9. Flattens(Readable, T, U)
  BY <1>4, <1>7, FlattenGrows
<1> QED BY <1>4, <1>7, <1>8, <1>9 DEF Flattens, ReadsOn, t

\* Escapes are read back as what they stand for.
LEMMA DecodedEncoded ==
  ASSUME NEW s \in Text, NEW k \in BOOLEAN
  PROVE  Decoded(Encoded(s, k, FALSE)) = s
<1> DEFINE e == <<>>
           Whole(t) == t = <<>> \/ t[Len(t)] # "%"
           G == {u \in Text : /\ Decoded(Encoded(u, k, FALSE)) = u
                              /\ Whole(Encoded(u, k, FALSE))}
<1>1. e \in G
  <2>1. Decoded(e) = e
    <3> DEFINE T == [i \in DOMAIN e |-> CASE e[i] = "%" -> <<>>
                     [] i > 1 /\ e[i - 1] = "%" -> <<CHOOSE c \in DOMAIN Hex : Hex[c] = e[i]>>
                     [] OTHER -> <<e[i]>>]
    <3>1. DOMAIN e = {}
      OBVIOUS
    <3>2. T = e
      BY <3>1
    <3> HIDE DEF e
    <3> HIDE DEF e
    <3>3. Decoded(e) = FlattenSeq(T)
      BY DEF Decoded
    <3> HIDE DEF T
    <3> QED BY <3>2, <3>3, FlattenEmpty DEF e
  <2>2. e \in Text
    BY DEF Text
  <2> HIDE DEF e
  <2>3. Encoded(e, k, FALSE) = e
    BY EncodedNone DEF e
  <2> QED BY <2>1, <2>2, <2>3 DEF e
<1>2. ASSUME NEW u \in Text, NEW x \in Symbol, u \in G PROVE Append(u, x) \in G
  <2> DEFINE t == Encoded(u, k, FALSE)
             y == EncodedSymbol(x, k, FALSE)
  <2>1. t \in Text /\ Decoded(t) = u /\ Whole(t) /\ Append(u, x) \in Text
    <3>1. Append(u, x) \in Text
      BY DEF Text
    <3> HIDE DEF Whole
    <3> QED BY <1>2, <3>1, EncodedText
  <2>2. Encoded(Append(u, x), k, FALSE) = t \o y
    BY EncodedGrows DEF EncodesOn
  <2> HIDE DEF t
  <2>3. CASE x \notin Escaped \/ (k /\ x = "/")
    <3>1. x # "%" /\ y = <<x>>
      BY <2>3, EncIs, HexIs DEF Escaped
    <3>2. t \o y = Append(t, x)
      BY <2>1, <3>1, AppendIsConcat DEF Text
    <3>3. ReadsOn(t, x) /\ ReadAt(t, x) = <<x>>
      <4>1. ReadAt(t, x) = <<x>>
        BY <2>1, <3>1, Zenon DEF ReadAt
      <4> QED BY <2>1, <4>1, DecodedGrows
    <3>4. Decoded(Append(t, x)) = Append(u, x)
      BY <2>1, <3>3, AppendIsConcat DEF ReadsOn, Text
    <3>5. Whole(Append(t, x))
      BY <2>1, <3>1, Grown DEF Text
    <3> HIDE DEF Whole
    <3> QED BY <2>1, <2>2, <3>2, <3>4, <3>5
  <2>4. CASE ~(x \notin Escaped \/ (k /\ x = "/"))
    <3> DEFINE h == Hex[x]
               w == Append(t, "%")
    <3>1. y = <<"%", h>> /\ h \in Symbol /\ h \notin Escaped /\ "%" \in Symbol /\ "%" \in Escaped
          /\ x \in Escaped
      BY <2>4, EncIs, HexIs, Signs DEF Escaped
    <3>2. (CHOOSE c \in DOMAIN Hex : Hex[c] = h) = x
      BY <3>1, HexIs, HexOwn
    <3> HIDE DEF h
    <3>3. w \in Text /\ w # <<>> /\ w[Len(w)] = "%" /\ t \o y = Append(w, h)
      <4>0. t \in Seq(Symbol)
        BY <2>1 DEF Text
      <4>1. w \in Seq(Symbol) /\ w # <<>> /\ w[Len(w)] = "%"
        <5> HIDE DEF Symbol
        <5> QED BY <3>1, <4>0
      <4>2. t \o <<"%", h>> = Append(w, h)
        BY <2>1, <3>1, TwoMore DEF Text
      <4> HIDE DEF w
      <4> QED BY <3>1, <4>1, <4>2 DEF Text
    <3>4. ReadAt(t, "%") = <<>>
      BY <2>1, Zenon DEF ReadAt
    <3>5. ReadAt(w, h) = <<x>>
      <4>1. h # "%"
        BY <3>1
      <4> HIDE DEF w
      <4> QED BY <3>2, <3>3, <4>1, Zenon DEF ReadAt
    <3>6. Decoded(w) = u
      <4>1. ReadsOn(t, "%")
        BY <2>1, <3>1, DecodedGrows
      <4>2. Decoded(w) = u \o <<>>
        BY <2>1, <3>4, <4>1, Zenon DEF ReadsOn
      <4> QED BY <4>2, ConcatEmptySeq DEF Text
    <3> HIDE DEF w
    <3>7. Decoded(Append(w, h)) = Append(u, x)
      <4>1. ReadsOn(w, h)
        BY <3>1, <3>3, DecodedGrows
      <4> QED BY <3>5, <3>6, <4>1, AppendIsConcat DEF ReadsOn, Text
    <3>8. Whole(Append(w, h))
      <4>1. h # "%"
        BY <3>1
      <4> QED BY <3>1, <3>3, <4>1, Grown DEF Text
    <3> HIDE DEF Whole
    <3> QED BY <2>1, <2>2, <3>3, <3>7, <3>8
  <2> QED BY <2>3, <2>4
<1> HIDE DEF G, e
<1>3. \A u \in Seq(Symbol) : u \in G
  BY <1>1, <1>2, SeqInd DEF e, Text
<1> QED BY <1>3 DEF G, Text

-----------------------------------------------------------------------------
(* Texts split in parts                                                    *)

\* All but the last, and the last.
LEMMA FrontLast ==
  ASSUME NEW S, NEW s \in Seq(S), NEW x \in S
  PROVE  Front(Append(s, x)) = s /\ Last(Append(s, x)) = x
<1> DEFINE t == Append(s, x)
<1>1. t \in Seq(S) /\ Len(t) = Len(s) + 1 /\ Len(s) \in Nat /\ t[Len(s) + 1] = x
      /\ \A i \in 1..Len(s) : t[i] = s[i]
  BY Grown
<1> HIDE DEF t
<1>2. Last(t) = x
  BY <1>1 DEF Last
<1>3. Front(t) = s
  <2> DEFINE f == SubSeq(t, 1, Len(s))
  <2>1. \A i \in 1..Len(s) : t[i] \in S
    BY <1>1
  <2>2. f \in Seq(S) /\ Len(f) = Len(s) /\ \A i \in 1..Len(s) : f[i] = s[i]
    BY <1>1, <2>1, SubSeqProperties
  <2> HIDE DEF f
  <2>3. f = s
    BY <2>2, SeqEqual
  <2>4. Front(t) = f
    BY <1>1 DEF Front, f
  <2> QED BY <2>3, <2>4
<1> QED BY <1>2, <1>3 DEF t

Lists == {p \in Seq(Text) : p # <<>>}

\* A list of texts has a last one.
LEMMA ListEnds ==
  ASSUME NEW p \in Lists
  PROVE  \E f \in Seq(Text), z \in Text : p = Append(f, z)
<1>1. p \in Seq(Text) /\ p # <<>>
  BY DEF Lists
<1> QED BY <1>1, SequenceEmptyOrAppend

Extends(p, z, at, c) ==
    /\ Extended(Append(p, z), at, c) \in Lists
    /\ Extended(Append(p, z), at, c) = IF c = at THEN Append(Append(p, z), <<>>)
                                       ELSE Append(p, Append(z, c))

\* A separator begins a part; any other symbol goes to the last.
LEMMA ExtendedIs ==
  ASSUME NEW p \in Seq(Text), NEW z \in Text, NEW at, NEW c \in Symbol
  PROVE  Extends(p, z, at, c)
<1> DEFINE q == Append(p, z)
           e == <<>>
<1>1. Front(q) = p /\ Last(q) = z
  BY FrontLast
<1>2. e \in Text /\ Append(z, c) \in Text
  BY DEF Text
<1>3. q \in Seq(Text)
  OBVIOUS
<1> HIDE DEF q, e
<1>4. Append(q, e) \in Lists /\ Append(p, Append(z, c)) \in Lists
  BY <1>2, <1>3, Grown DEF Lists
<1>5. Extended(q, at, c) = IF c = at THEN Append(q, e) ELSE Append(p, Append(z, c))
  BY <1>1 DEF Extended, e
<1>6. Extended(q, at, c) \in Lists
  BY <1>4, <1>5
<1> QED BY <1>5, <1>6, Zenon DEF Extends, q, e

SplitStep(at) == [q \in Lists \X Symbol |-> Extended(q[1], at, q[2])]

\* It keeps to lists of texts.
LEMMA SplitSteps == \A at : SplitStep(at) \in [Lists \X Symbol -> Lists] /\ << <<>> >> \in Lists
<1>1. ASSUME NEW at, NEW q \in Lists \X Symbol PROVE Extended(q[1], at, q[2]) \in Lists
  <2>1. q[1] \in Lists /\ q[2] \in Symbol
    OBVIOUS
  <2>2. PICK f \in Seq(Text), z \in Text : q[1] = Append(f, z)
    BY <2>1, ListEnds
  <2> QED BY <2>1, <2>2, ExtendedIs DEF Extends
<1>2. << <<>> >> \in Lists
  <2> DEFINE e == <<>>
  <2>1. e \in Text
    BY DEF Text
  <2> HIDE DEF e, Text
  <2>2. <<e>> \in Seq(Text) /\ Len(<<e>>) = 1
    BY <2>1
  <2>3. <<e>> # <<>>
    BY <2>2
  <2> QED BY <2>2, <2>3 DEF Lists, e
<1> HIDE DEF Lists
<1> QED BY <1>1, <1>2 DEF SplitStep

\* A text is split symbol by symbol.
LEMMA SplitIs ==
  ASSUME NEW s \in Text, NEW at
  PROVE  Split(s, at) = Folded(Lists, << <<>> >>, SplitStep(at), s)
<1> DEFINE n == Len(s)
           b == << <<>> >>
           Made(f) == f = [i \in 0..n |-> IF i = 0 THEN b ELSE Extended(f[i - 1], at, s[i])]
           f == CHOOSE h : Made(h)
           F == Folded(Lists, b, SplitStep(at), s)
<1>1. n \in Nat /\ s \in Seq(Symbol) /\ (\A i \in 1..n : s[i] \in Symbol)
      /\ SplitStep(at) \in [Lists \X Symbol -> Lists] /\ b \in Lists
  <2>1. s \in Seq(Symbol)
    BY DEF Text
  <2>2. SplitStep(at) \in [Lists \X Symbol -> Lists] /\ b \in Lists
    BY SplitSteps
  <2> HIDE DEF b
  <2> QED BY <2>1, <2>2
<1>2. \A p \in Lists, c \in Symbol : SplitStep(at)[<<p, c>>] = Extended(p, at, c)
  BY DEF SplitStep
<1> HIDE DEF b, F, n
<1>3. PICK g \in [0..n -> Lists] : Follows(g, Lists, b, SplitStep(at), s)
  BY <1>1, FoldSteps DEF n
<1>4. Made(g)
  <2>1. ASSUME NEW i \in 0..n PROVE g[i] = IF i = 0 THEN b ELSE Extended(g[i - 1], at, s[i])
    <3>1. CASE i = 0
      BY <1>3, <3>1 DEF Follows
    <3>2. CASE i # 0
      <4>1. i \in 1..n /\ i - 1 \in 0..n
        BY <1>1, <3>2
      <4>2. g[i - 1] \in Lists
        BY <4>1
      <4>3. g[i] = SplitStep(at)[<<g[i - 1], s[i]>>]
        BY <1>3, <4>1, <4>2 DEF Follows, n
      <4> QED BY <1>1, <1>2, <3>2, <4>1, <4>2, <4>3
    <3> QED BY <3>1, <3>2
  <2> QED BY <2>1
<1>5. Made(f)
  <2> HIDE DEF Made
  <2> QED BY <1>4
<1>6. f[n] = Split(s, at)
  BY DEF Split, n, b
<1> HIDE DEF f
<1>7. Follows(f, Lists, b, SplitStep(at), s)
  <2>1. f[0] = b
    BY <1>1, <1>5
  <2>2. ASSUME NEW i \in 1..n, f[i - 1] \in Lists PROVE f[i] = SplitStep(at)[<<f[i - 1], s[i]>>]
    <3>1. i \in 0..n /\ i # 0 /\ s[i] \in Symbol
      BY <1>1
    <3>2. f[i] = Extended(f[i - 1], at, s[i])
      BY <1>5, <3>1
    <3> QED BY <1>2, <2>2, <3>1, <3>2
  <2> QED BY <2>1, <2>2 DEF Follows, n
<1>8. f[Len(s)] = Folded(Lists, b, SplitStep(at), s) /\ f[Len(s)] \in Lists
  BY <1>1, <1>7, FoldMade, Zenon
<1> QED BY <1>6, <1>8 DEF n, b

SplitsOn(s, c, at) == /\ Split(s, at) \in Lists
                      /\ Split(Append(s, c), at) = Extended(Split(s, at), at, c)

\* A symbol more.
LEMMA SplitGrows ==
  ASSUME NEW s \in Text, NEW c \in Symbol, NEW at
  PROVE  SplitsOn(s, c, at)
<1> DEFINE b == << <<>> >>
           F(t) == Folded(Lists, b, SplitStep(at), t)
<1>1. SplitStep(at) \in [Lists \X Symbol -> Lists] /\ b \in Lists /\ s \in Seq(Symbol)
      /\ Append(s, c) \in Text
  <2>1. s \in Seq(Symbol) /\ Append(s, c) \in Text
    BY DEF Text
  <2>2. SplitStep(at) \in [Lists \X Symbol -> Lists] /\ b \in Lists
    BY SplitSteps
  <2> HIDE DEF b
  <2> QED BY <2>1, <2>2
<1> HIDE DEF b
<1>2. FoldsOn(Lists, b, SplitStep(at), s, c)
  BY <1>1, FoldGrows
<1>3. Split(s, at) = F(s) /\ Split(Append(s, c), at) = F(Append(s, c))
  BY <1>1, SplitIs DEF b
<1>4. F(s) \in Lists /\ F(Append(s, c)) = SplitStep(at)[<<F(s), c>>]
  BY <1>2 DEF FoldsOn
<1> HIDE DEF F
<1>5. SplitStep(at)[<<F(s), c>>] = Extended(F(s), at, c)
  BY <1>4 DEF SplitStep
<1> QED BY <1>3, <1>4, <1>5 DEF SplitsOn

\* Nothing is one part with nothing in it.
LEMMA SplitNone == \A at : Split(<<>>, at) = << <<>> >>
<1> DEFINE b == << <<>> >>
           e == <<>>
<1> SUFFICES ASSUME NEW at PROVE Split(e, at) = b
  OBVIOUS
<1>1. e \in Text
  BY DEF Text
<1>2. SplitStep(at) \in [Lists \X Symbol -> Lists] /\ b \in Lists
  BY SplitSteps
<1> HIDE DEF b
<1>3. Folded(Lists, b, SplitStep(at), <<>>) = b
  BY <1>2, FoldEmpty
<1> HIDE DEF e
<1>4. Split(e, at) = Folded(Lists, b, SplitStep(at), e)
  BY <1>1, SplitIs DEF b
<1> QED BY <1>3, <1>4 DEF e

\* What a text is split in.
LEMMA SplitAre ==
  ASSUME NEW s \in Text, NEW at
  PROVE  Split(s, at) \in Lists
<1>1. "%" \in Symbol
  BY Signs
<1> QED BY <1>1, SplitGrows DEF SplitsOn

Without(t, at) == \A i \in DOMAIN t : t[i] # at

SplitsAcross(s, t, at, p, z) == Split(s \o t, at) = Append(p, z \o t)

\* A text without a separator goes to the last part.
LEMMA SplitAfter ==
  ASSUME NEW s \in Text, NEW t \in Text, NEW at, Without(t, at),
         NEW p \in Seq(Text), NEW z \in Text, Split(s, at) = Append(p, z)
  PROVE  SplitsAcross(s, t, at, p, z)
<1> DEFINE e == <<>>
           G == {u \in Text : Without(u, at) => SplitsAcross(s, u, at, p, z)}
<1>1. e \in G
  <2>1. e \in Text /\ s \o e = s /\ z \o e = z
    BY ConcatEmptySeq DEF Text
  <2> HIDE DEF e
  <2> QED BY <2>1 DEF SplitsAcross
<1>2. ASSUME NEW u \in Text, NEW x \in Symbol, u \in G PROVE Append(u, x) \in G
  <2>1. Append(u, x) \in Text /\ s \o u \in Text /\ z \o u \in Text
    BY ConcatProperties DEF Text
  <2>2. Append(u, x) = u \o <<x>> /\ <<x>> \in Text
    BY Grown DEF Text
  <2>3. s \o Append(u, x) = Append(s \o u, x) /\ z \o Append(u, x) = Append(z \o u, x)
    <3>1. Associates(s, u, <<x>>) /\ Associates(z, u, <<x>>)
      BY <2>2, JoinsAssoc DEF Text
    <3>2. Append(s \o u, x) = (s \o u) \o <<x>> /\ Append(z \o u, x) = (z \o u) \o <<x>>
      BY <2>1, AppendIsConcat DEF Text
    <3> QED BY <2>2, <3>1, <3>2 DEF Associates
  <2>4. ASSUME Without(Append(u, x), at) PROVE SplitsAcross(s, Append(u, x), at, p, z)
    <3>1. Without(u, at) /\ x # at
      <4>1. DOMAIN u = 1..Len(u) /\ DOMAIN Append(u, x) = 1..Len(u) + 1 /\ Len(u) \in Nat
            /\ Append(u, x)[Len(u) + 1] = x /\ \A i \in 1..Len(u) : Append(u, x)[i] = u[i]
        BY Grown, LenProperties DEF Text
      <4>2. Len(u) + 1 \in DOMAIN Append(u, x) /\ DOMAIN u \subseteq DOMAIN Append(u, x)
        BY <4>1
      <4> QED BY <2>4, <4>1, <4>2 DEF Without
    <3>2. Split(s \o u, at) = Append(p, z \o u)
      BY <1>2, <3>1 DEF SplitsAcross
    <3>3. SplitsOn(s \o u, x, at)
      BY <2>1, SplitGrows
    <3>4. Extends(p, z \o u, at, x)
      BY <2>1, ExtendedIs
    <3>5. Split(Append(s \o u, x), at) = Append(p, Append(z \o u, x))
      BY <3>1, <3>2, <3>3, <3>4, Zenon DEF SplitsOn, Extends
    <3> QED BY <2>3, <3>5 DEF SplitsAcross
  <2> QED BY <2>1, <2>4
<1> HIDE DEF G, e
<1>3. \A u \in Seq(Symbol) : u \in G
  BY <1>1, <1>2, SeqInd DEF e, Text
<1> QED BY <1>3 DEF G, Text

\* A separator begins a part.
LEMMA SplitAt ==
  ASSUME NEW s \in Text, NEW at \in Symbol
  PROVE  Split(Append(s, at), at) = Append(Split(s, at), <<>>)
<1>1. SplitsOn(s, at, at)
  BY SplitGrows
<1>2. PICK p \in Seq(Text), z \in Text : Split(s, at) = Append(p, z)
  BY SplitAre, ListEnds
<1>3. Extends(p, z, at, at)
  BY ExtendedIs
<1> QED BY <1>1, <1>2, <1>3 DEF SplitsOn, Extends

-----------------------------------------------------------------------------
(* Paths                                                                   *)

InPath(seg) == Encoded(seg, TRUE, FALSE)
EncodedAll(p) == [i \in DOMAIN p |-> InPath(p[i])]

AllGrow(p, z) == /\ EncodedAll(p) \in Seq(Text) /\ Len(EncodedAll(p)) = Len(p)
                 /\ EncodedAll(Append(p, z)) = Append(EncodedAll(p), InPath(z))

\* A part more.
LEMMA EncodedAllGrows ==
  ASSUME NEW p \in Seq(Text), NEW z \in Text
  PROVE  AllGrow(p, z)
<1> DEFINE n == Len(p)
           q == Append(p, z)
           A == [i \in 1..n |-> InPath(p[i])]
           B == [i \in 1..n + 1 |-> InPath(q[i])]
           D == Append(A, InPath(z))
<1>0. \A t \in Text : InPath(t) \in Text
  BY EncodedText DEF InPath
<1> HIDE DEF Text
<1>1. n \in Nat /\ q \in Seq(Text) /\ Len(q) = n + 1 /\ q[n + 1] = z
      /\ \A i \in 1..n : q[i] = p[i] /\ p[i] \in Text
  BY Grown
<1>2. DOMAIN p = 1..n /\ DOMAIN q = 1..n + 1
  BY <1>1
<1> HIDE DEF q, n
<1>3. \A i \in 1..n : InPath(p[i]) \in Text
  BY <1>0, <1>1
<1>4. A \in Seq(Text) /\ Len(A) = n /\ InPath(z) \in Text
  BY <1>0, <1>1, <1>3
<1>5. D \in Seq(Text) /\ Len(D) = n + 1 /\ D[n + 1] = InPath(z) /\ \A i \in 1..n : D[i] = A[i]
  <2> HIDE DEF A
  <2> QED BY <1>4, Grown
<1>6. \A i \in 1..n + 1 : q[i] \in Text
  BY <1>1
<1>7. \A i \in 1..n + 1 : InPath(q[i]) \in Text
  BY <1>0, <1>6
<1>8. B \in Seq(Text) /\ Len(B) = n + 1
  BY <1>1, <1>7
<1>9. ASSUME NEW i \in 1..n + 1 PROVE B[i] = D[i]
  <2>1. CASE i = n + 1
    <3> HIDE DEF D
    <3> QED BY <1>1, <1>5, <2>1
  <2>2. CASE i # n + 1
    <3>1. i \in 1..n
      BY <1>1, <2>2
    <3>2. D[i] = A[i] /\ A[i] = InPath(p[i]) /\ B[i] = InPath(q[i]) /\ q[i] = p[i]
      BY <1>1, <1>5, <3>1
    <3> QED BY <3>2
  <2> QED BY <2>1, <2>2
<1>10. EncodedAll(p) = A /\ EncodedAll(q) = B
  BY <1>2 DEF EncodedAll
<1> HIDE DEF A, B
<1>11. B = D
  <2> HIDE DEF D
  <2> QED BY <1>5, <1>8, <1>9, SeqEqual
<1> QED BY <1>4, <1>10, <1>11 DEF AllGrow, q, n

\* The parts of an encoded text are encoded parts.
LEMMA SplitEncoded ==
  ASSUME NEW s \in Text
  PROVE  Split(InPath(s), "/") = EncodedAll(Split(s, "/"))
<1> DEFINE e == <<>>
           G == {u \in Text : Split(InPath(u), "/") = EncodedAll(Split(u, "/"))}
<1>0. "/" \in Symbol /\ "/" \in Escaped /\ e \in Text /\ InPath(e) = e
  <2>1. "/" \in Symbol /\ "/" \in Escaped
    BY Signs DEF Escaped
  <2>2. e \in Text
    BY DEF Text
  <2> HIDE DEF e
  <2>3. InPath(e) = e
    BY EncodedNone DEF InPath, e
  <2> QED BY <2>1, <2>2, <2>3
<1>1. e \in G
  <2> DEFINE b == <<e>>
  <2>1. EncodedAll(b) = b
    <3>1. DOMAIN b = 1..1 /\ b[1] = e
      OBVIOUS
    <3>2. EncodedAll(b) = [i \in 1..1 |-> e]
      BY <1>0, <3>1 DEF EncodedAll
    <3> QED BY <3>2
  <2>2. Split(e, "/") = b
    BY SplitNone
  <2> HIDE DEF e, b
  <2> QED BY <1>0, <2>1, <2>2
<1>2. ASSUME NEW u \in Text, NEW x \in Symbol, u \in G PROVE Append(u, x) \in G
  <2> DEFINE t == InPath(u)
             y == EncodedSymbol(x, TRUE, FALSE)
  <2>1. t \in Text /\ y \in Text /\ Append(u, x) \in Text
    <3>1. Append(u, x) \in Text
      BY DEF Text
    <3> QED BY <3>1, EncIs, EncodedText DEF InPath
  <2>2. InPath(Append(u, x)) = t \o y
    <3>1. EncodesOn(u, x, TRUE, FALSE)
      BY EncodedGrows
    <3> QED BY <3>1 DEF EncodesOn, InPath
  <2>3. PICK p \in Seq(Text), z \in Text : Split(u, "/") = Append(p, z)
    BY SplitAre, ListEnds
  <2> HIDE DEF t, y, e
  <2>4. Split(t, "/") = EncodedAll(Append(p, z)) /\ EncodedAll(Append(p, z)) = Append(EncodedAll(p), InPath(z))
        /\ EncodedAll(p) \in Seq(Text) /\ InPath(z) \in Text
    BY <1>2, <2>3, EncodedAllGrows, EncodedText DEF AllGrow, t, InPath
  <2>5. CASE x = "/"
    <3>1. y = <<"/">> /\ t \o y = Append(t, "/")
      <4>1. y = <<"/">>
        BY <1>0, <2>5, EncIs DEF y
      <4> QED BY <1>0, <2>1, <4>1, AppendIsConcat DEF Text
    <3>2. Split(t \o y, "/") = Append(Split(t, "/"), e)
      BY <1>0, <2>1, <3>1, SplitAt DEF e
    <3>3. Split(Append(u, x), "/") = Append(Split(u, "/"), e)
      BY <1>0, <2>5, SplitAt DEF e
    <3>4. Append(p, z) \in Seq(Text)
      BY Grown
    <3>5. EncodedAll(Append(Append(p, z), e)) = Append(EncodedAll(Append(p, z)), e)
      BY <1>0, <3>4, EncodedAllGrows DEF AllGrow
    <3> QED BY <2>1, <2>2, <2>3, <2>4, <3>2, <3>3, <3>5
  <2>6. CASE x # "/"
    <3>1. Without(y, "/")
      <4>1. CASE x \notin Escaped
        <5>1. y = <<x>>
          BY <4>1, EncIs DEF y
        <5> QED BY <2>6, <5>1 DEF Without
      <4>2. CASE x \in Escaped
        <5> DEFINE h == Hex[x]
        <5>1. y = <<"%", h>> /\ h \notin Escaped
          BY <2>6, <4>2, EncIs, HexIs DEF y
        <5>2. h # "/" /\ "%" # "/"
          BY <1>0, <5>1
        <5> HIDE DEF h
        <5> QED BY <5>1, <5>2 DEF Without
      <4> QED BY <4>1, <4>2
    <3>2. SplitsAcross(t, y, "/", EncodedAll(p), InPath(z))
      BY <2>1, <2>4, <3>1, SplitAfter
    <3>3. Split(Append(u, x), "/") = Append(p, Append(z, x))
      <4>1. SplitsOn(u, x, "/") /\ Extends(p, z, "/", x)
        BY SplitGrows, ExtendedIs
      <4> QED BY <2>3, <2>6, <4>1 DEF SplitsOn, Extends
    <3>4. InPath(Append(z, x)) = InPath(z) \o y /\ Append(z, x) \in Text
      <4>1. EncodesOn(z, x, TRUE, FALSE)
        BY EncodedGrows
      <4>2. Append(z, x) \in Text
        BY DEF Text
      <4> QED BY <4>1, <4>2 DEF EncodesOn, InPath, y
    <3>5. EncodedAll(Append(p, Append(z, x))) = Append(EncodedAll(p), InPath(Append(z, x)))
      BY <3>4, EncodedAllGrows DEF AllGrow
    <3> QED BY <2>1, <2>2, <3>2, <3>3, <3>4, <3>5 DEF SplitsAcross
  <2> QED BY <2>5, <2>6
<1> HIDE DEF G, e
<1>3. \A u \in Seq(Symbol) : u \in G
  BY <1>1, <1>2, SeqInd DEF e, Text
<1> QED BY <1>3 DEF G, Text

Stacks == Seq(Text)
WalkStep == [q \in Stacks \X Text |-> Walked(q[1], q[2])]
Walk(segs) == Folded(Stacks, <<>>, WalkStep, segs)

Dot == <<".">>
DotDot == <<".", ".">>

Walks(st, seg) ==
    /\ Walked(st, seg) \in Stacks
    /\ seg \in {<<>>, Dot} => Walked(st, seg) = st
    /\ seg \notin {<<>>, Dot, DotDot} => Walked(st, seg) = Append(st, seg)
    /\ seg = DotDot /\ st = <<>> => Walked(st, seg) = <<>>
    /\ \A f \in Stacks, z \in Text : seg = DotDot /\ st = Append(f, z) => Walked(st, seg) = f

\* The three kinds of segment differ.
LEMMA Dots == Dot # <<>> /\ DotDot # <<>> /\ DotDot # Dot /\ Dot \in Text /\ DotDot \in Text
<1>1. Len(Dot) = 1 /\ Len(DotDot) = 2 /\ Len(<<>>) = 0
  BY DEF Dot, DotDot
<1>2. "." \in Symbol
  BY Signs
<1> HIDE DEF Symbol
<1>3. Dot \in Text /\ DotDot \in Text
  BY <1>2 DEF Dot, DotDot, Text
<1> QED BY <1>1, <1>3

\* A step of the walk.
LEMMA WalkedIs ==
  ASSUME NEW st \in Stacks, NEW seg \in Text
  PROVE  Walks(st, seg)
<1>1. Walked(st, seg) = IF seg \in {<<>>, Dot} THEN st ELSE IF seg # DotDot THEN Append(st, seg)
                        ELSE IF st = <<>> THEN st ELSE Front(st)
  BY DEF Walked, Dot, DotDot
<1>2. ASSUME NEW f \in Stacks, NEW z \in Text, st = Append(f, z) PROVE Front(st) = f /\ st # <<>>
  BY <1>2, FrontLast, Grown DEF Stacks
<1>3. Append(st, seg) \in Stacks
  BY DEF Stacks
<1>4. ASSUME st # <<>> PROVE Front(st) \in Stacks
  <2>1. PICK f \in Stacks, z \in Text : st = Append(f, z)
    BY <1>4, SequenceEmptyOrAppend DEF Stacks
  <2> QED BY <1>2, <2>1
<1>5. Walked(st, seg) \in Stacks
  BY <1>1, <1>3, <1>4
<1> QED BY <1>1, <1>2, <1>5, Dots DEF Walks

\* The walk keeps to stacks of texts.
LEMMA WalkSteps == WalkStep \in [Stacks \X Text -> Stacks] /\ <<>> \in Stacks
<1>1. \A q \in Stacks \X Text : Walked(q[1], q[2]) \in Stacks
  BY WalkedIs DEF Walks
<1>2. <<>> \in Stacks
  BY DEF Stacks
<1> HIDE DEF Stacks, Text
<1> QED BY <1>1, <1>2 DEF WalkStep

WalksOn(s, seg) == /\ Walk(<<>>) = <<>>
                   /\ Walk(s) \in Stacks
                   /\ Walk(Append(s, seg)) = Walked(Walk(s), seg)

\* A segment more.
LEMMA WalkGrows ==
  ASSUME NEW s \in Seq(Text), NEW seg \in Text
  PROVE  WalksOn(s, seg)
<1> DEFINE b == <<>>
<1>1. WalkStep \in [Stacks \X Text -> Stacks] /\ b \in Stacks
  BY WalkSteps
<1> HIDE DEF b, Stacks, Text
<1>2. FoldsOn(Stacks, b, WalkStep, s, seg)
  BY <1>1, FoldGrows
<1>3. Folded(Stacks, b, WalkStep, <<>>) = b
  BY <1>1, FoldEmpty
<1>4. Walk(s) \in Stacks /\ Walk(Append(s, seg)) = WalkStep[<<Walk(s), seg>>] /\ Walk(<<>>) = b
  BY <1>2, <1>3 DEF FoldsOn, Walk, b
<1> HIDE DEF Walk
<1>5. WalkStep[<<Walk(s), seg>>] = Walked(Walk(s), seg)
  BY <1>4 DEF WalkStep
<1> QED BY <1>4, <1>5, Zenon DEF WalksOn, b

\* A walk leaves a stack.
LEMMA WalkIn == \A s \in Seq(Text) : Walk(s) \in Stacks
<1> SUFFICES ASSUME NEW s \in Seq(Text) PROVE Walk(s) \in Stacks
  OBVIOUS
<1>1. WalksOn(s, Dot)
  BY WalkGrows, Dots
<1> QED BY <1>1 DEF WalksOn

\* The server's loop is this walk.
LEMMA WalkIs ==
  ASSUME NEW s \in Seq(Text)
  PROVE  (CHOOSE f : f = [n \in 0..Len(s) |-> IF n = 0 THEN <<>> ELSE Walked(f[n - 1], s[n])])[Len(s)]
         = Walk(s)
<1> DEFINE n == Len(s)
           b == <<>>
           Made(f) == f = [i \in 0..n |-> IF i = 0 THEN b ELSE Walked(f[i - 1], s[i])]
           f == CHOOSE h : Made(h)
<1>1. n \in Nat /\ \A i \in 1..n : s[i] \in Text
  OBVIOUS
<1>2. WalkStep \in [Stacks \X Text -> Stacks] /\ b \in Stacks
  BY WalkSteps
<1> HIDE DEF b, n, Stacks, Text
<1>3. \A p \in Stacks, c \in Text : WalkStep[<<p, c>>] = Walked(p, c)
  BY DEF WalkStep
<1>4. PICK g \in [0..n -> Stacks] : Follows(g, Stacks, b, WalkStep, s)
  BY <1>2, FoldSteps DEF n
<1>5. Made(g)
  <2>1. ASSUME NEW i \in 0..n PROVE g[i] = IF i = 0 THEN b ELSE Walked(g[i - 1], s[i])
    <3>1. CASE i = 0
      BY <1>4, <3>1 DEF Follows
    <3>2. CASE i # 0
      <4>1. i \in 1..n /\ i - 1 \in 0..n
        BY <1>1, <3>2
      <4>2. g[i - 1] \in Stacks
        BY <4>1
      <4>3. g[i] = WalkStep[<<g[i - 1], s[i]>>]
        BY <1>4, <4>1, <4>2 DEF Follows, n
      <4> QED BY <1>1, <1>3, <3>2, <4>1, <4>2, <4>3
    <3> QED BY <3>1, <3>2
  <2> QED BY <2>1
<1>6. Made(f)
  <2> HIDE DEF Made
  <2> QED BY <1>5
<1>7. f[n] = (CHOOSE h : h = [i \in 0..Len(s) |-> IF i = 0 THEN <<>> ELSE Walked(h[i - 1], s[i])])[Len(s)]
  BY DEF n, b
<1> HIDE DEF f
<1>8. Follows(f, Stacks, b, WalkStep, s)
  <2>1. f[0] = b
    BY <1>1, <1>6
  <2>2. ASSUME NEW i \in 1..n, f[i - 1] \in Stacks PROVE f[i] = WalkStep[<<f[i - 1], s[i]>>]
    <3>1. i \in 0..n /\ i # 0 /\ s[i] \in Text
      BY <1>1
    <3>2. f[i] = Walked(f[i - 1], s[i])
      BY <1>6, <3>1
    <3> QED BY <1>3, <2>2, <3>1, <3>2
  <2> QED BY <2>1, <2>2 DEF Follows, n
<1>9. f[Len(s)] = Folded(Stacks, b, WalkStep, s) /\ f[Len(s)] \in Stacks
  BY <1>2, <1>8, FoldMade, Zenon
<1> QED BY <1>7, <1>9 DEF n, b, Walk

\* A segment is encoded as a text of its own kind.
LEMMA KindsEncoded ==
  ASSUME NEW seg \in Text
  PROVE  /\ InPath(seg) \in Text
         /\ \A w \in {<<>>, Dot, DotDot} : InPath(w) = w /\ (InPath(seg) = w => seg = w)
<1>1. ASSUME NEW x \in Text PROVE InPath(x) \in Text /\ Decoded(InPath(x)) = x
  BY EncodedText, DecodedEncoded DEF InPath
<1>2. "." \in Symbol /\ "." \notin Escaped
  BY Signs DEF Escaped
<1>3. InPath(Dot) = Dot
  BY <1>2, EncodedOne, EncIs DEF InPath, Dot
<1>4. InPath(DotDot) = DotDot
  <2>1. DotDot = Dot \o Dot
    BY <1>2, Two, Zenon DEF Dot, DotDot
  <2>2. EncodesApart(Dot, Dot, TRUE, FALSE)
    BY Dots, EncodedConcat
  <2> QED BY <1>3, <2>1, <2>2 DEF EncodesApart, InPath
<1>5. InPath(<<>>) = <<>>
  BY EncodedNone DEF InPath
<1> DEFINE e == <<>>
<1>6. e \in Text
  BY DEF Text
<1> HIDE DEF e
<1>7. \A w \in {e, Dot, DotDot} : w \in Text /\ InPath(w) = w
  BY <1>3, <1>4, <1>5, <1>6, Dots DEF e
<1>8. \A w \in {e, Dot, DotDot} : InPath(seg) = w => seg = w
  BY <1>1, <1>7
<1> QED BY <1>1, <1>7, <1>8 DEF e

\* The walk over encoded segments leaves the encoded ones.
LEMMA WalkEncoded ==
  ASSUME NEW s \in Seq(Text)
  PROVE  Walk(EncodedAll(s)) = EncodedAll(Walk(s))
<1> DEFINE e == <<>>
           G == {u \in Seq(Text) : Walk(EncodedAll(u)) = EncodedAll(Walk(u))}
<1>0. e \in Seq(Text) /\ EncodedAll(e) = e /\ Walk(e) = e
  <2>1. e \in Seq(Text) /\ EncodedAll(e) = e
    BY DEF EncodedAll
  <2>2. Walk(e) = e
    BY <2>1, Dots, WalkGrows DEF WalksOn
  <2> QED BY <2>1, <2>2
<1> HIDE DEF e
<1>1. e \in G
  BY <1>0
<1>2. ASSUME NEW u \in Seq(Text), NEW x \in Text, u \in G PROVE Append(u, x) \in G
  <2> DEFINE st == Walk(u)
             y == InPath(x)
  <2>1. EncodedAll(Append(u, x)) = Append(EncodedAll(u), y) /\ EncodedAll(u) \in Seq(Text)
        /\ Append(u, x) \in Seq(Text)
    BY EncodedAllGrows DEF AllGrow
  <2>2. y \in Text /\ \A w \in {e, Dot, DotDot} : InPath(w) = w /\ (y = w => x = w)
    BY KindsEncoded DEF e
  <2>3. st \in Stacks /\ Walk(Append(u, x)) = Walked(st, x)
    BY WalkGrows DEF WalksOn
  <2> HIDE DEF y
  <2>4. Walk(Append(EncodedAll(u), y)) = Walked(Walk(EncodedAll(u)), y)
    BY <2>1, <2>2, WalkGrows DEF WalksOn
  <2> HIDE DEF st
  <2>5. Walk(EncodedAll(u)) = EncodedAll(st) /\ EncodedAll(st) \in Stacks
        /\ EncodedAll(Append(st, x)) = Append(EncodedAll(st), y)
    BY <1>2, <2>3, EncodedAllGrows DEF AllGrow, Stacks, st, y
  <2>6. Walks(st, x) /\ Walks(EncodedAll(st), y)
    BY <2>2, <2>3, <2>5, WalkedIs
  <2>7. Walked(EncodedAll(st), y) = EncodedAll(Walked(st, x))
    <3>1. CASE x \in {e, Dot}
      BY <2>2, <2>6, <3>1 DEF Walks, e, y
    <3>2. CASE x \notin {e, Dot, DotDot}
      <4>1. y \notin {e, Dot, DotDot}
        BY <2>2, <3>2
      <4> QED BY <2>5, <2>6, <3>2, <4>1 DEF Walks, e
    <3>3. CASE x = DotDot
      <4>1. y = DotDot
        BY <2>2, <3>3 DEF y
      <4>2. CASE st = e
        BY <1>0, <2>6, <3>3, <4>1, <4>2 DEF Walks, e
      <4>3. CASE st # e
        <5>1. PICK f \in Stacks, z \in Text : st = Append(f, z)
          BY <2>3, <4>3, SequenceEmptyOrAppend DEF Stacks, e
        <5>2. EncodedAll(st) = Append(EncodedAll(f), InPath(z)) /\ EncodedAll(f) \in Stacks
          BY <5>1, EncodedAllGrows DEF AllGrow, Stacks
        <5>3. InPath(z) \in Text
          BY KindsEncoded
        <5> QED BY <2>6, <3>3, <4>1, <5>1, <5>2, <5>3 DEF Walks
      <4> QED BY <4>2, <4>3
    <3> QED BY <3>1, <3>2, <3>3
  <2> QED BY <2>1, <2>3, <2>4, <2>5, <2>7
<1> HIDE DEF G
<1>3. \A u \in Seq(Text) : u \in G
  BY <1>1, <1>2, SeqInd DEF e
<1> QED BY <1>3 DEF G

PathText(st) == FlattenSeq([i \in DOMAIN st |-> <<"/">> \o st[i]])

AddsText(st, x) == /\ PathText(<<>>) = <<>>
                   /\ PathText(st) \in Text
                   /\ PathText(Append(st, x)) \in Text
                   /\ PathText(Append(st, x)) = PathText(st) \o (<<"/">> \o x)
                   /\ PathText(Append(st, x)) # <<>>
                   /\ <<"/">> \o x \in Text

\* The text of a stack with one part more.
LEMMA PathTextGrows ==
  ASSUME NEW st \in Stacks, NEW x \in Text
  PROVE  AddsText(st, x)
<1> DEFINE g == [t \in Text |-> <<"/">> \o t]
           s == <<"/">>
<1>1. s \in Text /\ Len(s) = 1
  <2>1. "/" \in Symbol
    BY Signs
  <2> HIDE DEF Symbol
  <2> QED BY <2>1 DEF Text
<1> HIDE DEF s
<1>2. ASSUME NEW t \in Text PROVE s \o t \in Text /\ Len(s \o t) = 1 + Len(t) /\ Len(t) \in Nat
  <2>1. s \in Seq(Symbol) /\ t \in Seq(Symbol)
    BY <1>1 DEF Text
  <2>2. s \o t \in Seq(Symbol) /\ Len(s \o t) = Len(s) + Len(t)
    BY <2>1, ConcatProperties
  <2> QED BY <1>1, <2>1, <2>2 DEF Text
<1> HIDE DEF Text
<1>3. g \in [Text -> Text] /\ \A t \in Text : g[t] = s \o t
  BY <1>2 DEF s
<1> HIDE DEF g
<1>4. MapsOn(Symbol, st, x, g)
  BY <1>3, MappedGrows DEF Text, Stacks
<1>5. ASSUME NEW u \in Stacks PROVE PathText(u) = Mapped(u, g)
  <2>1. \A i \in DOMAIN u : s \o u[i] = g[u[i]]
    <3>1. \A i \in DOMAIN u : u[i] \in Text
      BY DEF Stacks
    <3> QED BY <1>3, <3>1, Zenon
  <2>2. [i \in DOMAIN u |-> s \o u[i]] = [i \in DOMAIN u |-> g[u[i]]]
    BY <2>1
  <2> QED BY <2>2 DEF PathText, Mapped, s
<1>6. Append(st, x) \in Stacks
  BY DEF Stacks
<1>7. PathText(st) \in Text /\ PathText(Append(st, x)) = PathText(st) \o (s \o x)
  BY <1>3, <1>4, <1>5, <1>6, Zenon DEF MapsOn, Text
<1>8. PathText(Append(st, x)) \in Text /\ PathText(Append(st, x)) # <<>>
  <2> DEFINE a == PathText(st)
             b == s \o x
  <2>1. a \in Text /\ b \in Text /\ Len(b) \in Nat \ {0}
    BY <1>2, <1>7
  <2> HIDE DEF a, b
  <2>2. a \o b \in Text /\ Len(a \o b) = Len(a) + Len(b) /\ Len(a) \in Nat
    BY <2>1, ConcatProperties DEF Text
  <2>3. a \o b # <<>>
    BY <2>1, <2>2
  <2> QED BY <1>7, <2>2, <2>3 DEF a, b
<1>9. PathText(<<>>) = <<>>
  BY <1>5, WalkSteps, MappedEmpty
<1> QED BY <1>2, <1>7, <1>8, <1>9, Zenon DEF AddsText, s

\* A stack's text is a text.
LEMMA PathTextIn == \A st \in Stacks : PathText(st) \in Text /\ (PathText(st) = <<>> <=> st = <<>>)
<1> SUFFICES ASSUME NEW st \in Stacks
             PROVE  PathText(st) \in Text /\ (PathText(st) = <<>> <=> st = <<>>)
  OBVIOUS
<1>1. AddsText(st, Dot)
  BY PathTextGrows, Dots
<1>2. ASSUME st # <<>> PROVE PathText(st) # <<>>
  <2>1. PICK f \in Stacks, z \in Text : st = Append(f, z)
    BY <1>2, SequenceEmptyOrAppend DEF Stacks
  <2> QED BY <2>1, PathTextGrows DEF AddsText
<1> QED BY <1>1, <1>2 DEF AddsText

\* The text of encoded parts is the encoded text.
LEMMA PathTextEncoded ==
  ASSUME NEW st \in Stacks
  PROVE  PathText(EncodedAll(st)) = InPath(PathText(st))
<1> DEFINE e == <<>>
           G == {u \in Stacks : PathText(EncodedAll(u)) = InPath(PathText(u))}
<1>0. e \in Stacks /\ EncodedAll(e) = e /\ PathText(e) = e /\ InPath(e) = e
  <2>1. e \in Stacks /\ EncodedAll(e) = e
    BY DEF EncodedAll, Stacks
  <2>2. PathText(e) = e
    BY <2>1, PathTextIn
  <2>3. InPath(e) = e
    BY EncodedNone DEF InPath
  <2> QED BY <2>1, <2>2, <2>3
<1> HIDE DEF e
<1>1. e \in G
  BY <1>0
<1>2. ASSUME NEW u \in Stacks, NEW x \in Text, u \in G PROVE Append(u, x) \in G
  <2> DEFINE s == <<"/">>
             y == s \o x
             a == PathText(u)
  <2>0. s \in Text /\ InPath(s) = s
    <3>1. "/" \in Symbol
      BY Signs
    <3>2. s \in Text
      <4> HIDE DEF Symbol
      <4> QED BY <3>1 DEF Text
    <3>3. EncodedSymbol("/", TRUE, FALSE) = s
      BY <3>1, EncIs
    <3> QED BY <3>1, <3>2, <3>3, EncodedOne DEF InPath
  <2>1. AddsText(u, x) /\ Append(u, x) \in Stacks
    BY PathTextGrows DEF Stacks
  <2>2. EncodedAll(Append(u, x)) = Append(EncodedAll(u), InPath(x)) /\ EncodedAll(u) \in Stacks
        /\ InPath(x) \in Text
    BY EncodedAllGrows, KindsEncoded DEF AllGrow, Stacks
  <2>3. AddsText(EncodedAll(u), InPath(x))
    BY <2>2, PathTextGrows
  <2>4. PathText(EncodedAll(Append(u, x))) = InPath(a) \o (s \o InPath(x))
    BY <1>2, <2>2, <2>3 DEF AddsText
  <2>5. a \in Text /\ y \in Text /\ PathText(Append(u, x)) = a \o y
    BY <2>1 DEF AddsText
  <2> HIDE DEF s, y, a
  <2>6. EncodesApart(a, y, TRUE, FALSE) /\ EncodesApart(s, x, TRUE, FALSE)
    BY <2>0, <2>5, EncodedConcat
  <2>7. InPath(a \o y) = InPath(a) \o (s \o InPath(x))
    BY <2>0, <2>6 DEF EncodesApart, InPath, y
  <2> QED BY <2>1, <2>4, <2>5, <2>7
<1> HIDE DEF G
<1>3. \A u \in Seq(Text) : u \in G
  BY <1>1, <1>2, SeqInd DEF e, Stacks
<1> QED BY <1>3 DEF G, Stacks

EndsIn(text, c) == text[Len(text)] = c

\* A path ends in a slash when it does so encoded.
LEMMA LastEncoded ==
  ASSUME NEW s \in Text, s # <<>>
  PROVE  /\ InPath(s) # <<>>
         /\ EndsIn(InPath(s), "/") <=> EndsIn(s, "/")
<1>1. PICK u \in Text, x \in Symbol : s = Append(u, x)
  BY SequenceEmptyOrAppend DEF Text
<1> DEFINE t == InPath(u)
           y == EncodedSymbol(x, TRUE, FALSE)
<1>2. t \in Text /\ y \in Text /\ InPath(s) = t \o y
  BY <1>1, EncodedGrows, EncIs DEF EncodesOn, InPath
<1>3. s[Len(s)] = x
  BY <1>1, Grown DEF Text
<1>4. y # <<>> /\ (y[Len(y)] = "/" <=> x = "/")
  <2>1. CASE x \notin Escaped \/ x = "/"
    <3>1. y = <<x>>
      BY <2>1, EncIs
    <3> HIDE DEF y
    <3> QED BY <3>1
  <2>2. CASE ~(x \notin Escaped \/ x = "/")
    <3> DEFINE h == Hex[x]
    <3>1. y = <<"%", h>> /\ h \notin Escaped
      BY <2>2, EncIs, HexIs
    <3>2. h # "/"
      BY <3>1 DEF Escaped
    <3> HIDE DEF y, h
    <3>3. Len(y) = 2 /\ y[2] = h
      BY <3>1
    <3> QED BY <2>2, <3>2, <3>3
  <2> QED BY <2>1, <2>2
<1> HIDE DEF t, y
<1>5. Len(y) \in Nat \ {0} /\ Len(t) \in Nat
  BY <1>2, <1>4 DEF Text
<1>6. Len(t \o y) = Len(t) + Len(y) /\ (t \o y)[Len(t) + Len(y)] = y[Len(y)]
  <2>1. Len(t \o y) = Len(t) + Len(y)
        /\ \A i \in 1..Len(t) + Len(y) : (t \o y)[i] = IF i <= Len(t) THEN t[i] ELSE y[i - Len(t)]
    BY <1>2, ConcatProperties DEF Text
  <2>2. Len(t) + Len(y) \in 1..Len(t) + Len(y) /\ ~(Len(t) + Len(y) <= Len(t))
        /\ (Len(t) + Len(y)) - Len(t) = Len(y)
    BY <1>5
  <2> QED BY <2>1, <2>2
<1>7. t \o y # <<>>
  BY <1>2, <1>5, <1>6
<1> QED BY <1>2, <1>3, <1>4, <1>6, <1>7 DEF EndsIn

RootSlash(st, path) == IF st = <<>> \/ EndsIn(path, "/") THEN <<"/">> ELSE <<>>

\* The path a server takes a path for.
LEMMA ServerPathIs ==
  ASSUME NEW path \in Text
  PROVE  ServerPath(path) = PathText(Walk(Split(path, "/"))) \o RootSlash(Walk(Split(path, "/")), path)
<1> DEFINE segs == Split(path, "/")
           W == (CHOOSE f : f = [n \in 0..Len(segs) |-> IF n = 0 THEN <<>> ELSE Walked(f[n - 1], segs[n])])[Len(segs)]
<1>1. segs \in Seq(Text)
  BY SplitAre DEF Lists
<1> HIDE DEF segs
<1>2. W = Walk(segs)
  BY <1>1, WalkIs
<1>3. ServerPath(path) = PathText(W) \o RootSlash(W, path)
  BY Zenon DEF ServerPath, PathText, RootSlash, EndsIn, segs
<1> QED BY <1>2, <1>3 DEF segs

PathEncoded(path) == /\ ServerPath(path) \in Text
                     /\ ServerPath(InPath(path)) = InPath(ServerPath(path))

\* The server takes an encoded path for the encoded path.
LEMMA ServerPathEncoded ==
  ASSUME NEW path \in Text, path # <<>>
  PROVE  PathEncoded(path)
<1> DEFINE st == Walk(Split(path, "/"))
           t == RootSlash(st, path)
           e == <<>>
           s == <<"/">>
<1>1. InPath(path) \in Text
  BY EncodedText DEF InPath
<1>2. st \in Stacks
  BY SplitAre, WalkIn DEF Lists
<1>3. Walk(Split(InPath(path), "/")) = EncodedAll(st)
  BY SplitEncoded, WalkEncoded, SplitAre DEF Lists
<1> HIDE DEF st
<1>4. (EncodedAll(st) = <<>> <=> st = <<>>) /\ EncodedAll(st) \in Stacks
  <2>1. EncodedAll(st) \in Seq(Text) /\ Len(EncodedAll(st)) = Len(st)
    BY <1>2, EncodedAllGrows, Dots DEF Stacks, AllGrow
  <2> QED BY <1>2, <2>1 DEF Stacks
<1>5. RootSlash(EncodedAll(st), InPath(path)) = t
  BY <1>4, LastEncoded DEF RootSlash
<1>6. t \in Text /\ InPath(t) = t
  <2>1. "/" \in Symbol
    BY Signs
  <2>2. EncodedSymbol("/", TRUE, FALSE) = s
    BY <2>1, EncIs
  <2>3. InPath(s) = s
    BY <2>1, <2>2, EncodedOne DEF InPath
  <2>4. InPath(e) = e
    BY EncodedNone DEF InPath
  <2>5. s \in Text /\ e \in Text
    <3> HIDE DEF Symbol
    <3> QED BY <2>1 DEF Text
  <2>6. t = s \/ t = e
    BY DEF RootSlash
  <2> HIDE DEF e, s, t
  <2> QED BY <2>3, <2>4, <2>5, <2>6
<1> HIDE DEF t
<1> DEFINE a == PathText(st)
<1>7. a \in Text /\ ServerPath(path) = a \o t
  BY <1>2, ServerPathIs, PathTextIn DEF st, t
<1>8. ServerPath(InPath(path)) = InPath(a) \o t
  BY <1>1, <1>2, <1>3, <1>5, ServerPathIs, PathTextEncoded
<1> HIDE DEF a
<1>9. EncodesApart(a, t, TRUE, FALSE) /\ a \o t \in Text
  BY <1>6, <1>7, EncodedConcat, ConcatProperties DEF Text
<1> QED BY <1>6, <1>7, <1>8, <1>9 DEF EncodesApart, InPath, PathEncoded

-----------------------------------------------------------------------------
(* The signer's path, which looks ahead instead of keeping a stack         *)

Counted(S, i, j, kind) == {k \in i..j : Kind(S[k]) = kind}

CountsOn(S, i, j, kind) ==
    /\ Count(S, i, j, kind) \in Nat
    /\ j < i => Count(S, i, j, kind) = 0
    /\ Kind(S[j + 1]) = kind => Count(S, i, j + 1, kind) = Count(S, i, j, kind) + 1
    /\ Kind(S[j + 1]) # kind => Count(S, i, j + 1, kind) = Count(S, i, j, kind)

\* Counting one segment more.
LEMMA CountIs ==
  ASSUME NEW S, NEW i \in Nat, NEW j \in Nat, i <= j + 1, NEW kind
  PROVE  CountsOn(S, i, j, kind)
<1> DEFINE A == Counted(S, i, j, kind)
           B == Counted(S, i, j + 1, kind)
<1>1. IsFiniteSet(A)
  <2>1. i \in Int /\ j \in Int
    OBVIOUS
  <2>2. IsFiniteSet(i..j)
    BY <2>1, FS_Interval
  <2>3. A \subseteq i..j
    BY DEF Counted
  <2> HIDE DEF A
  <2> QED BY <2>2, <2>3, FS_Subset
<1>2. j + 1 \notin A
  BY DEF Counted
<1>3. Kind(S[j + 1]) = kind => B = A \cup {j + 1}
  BY DEF Counted
<1>4. Kind(S[j + 1]) # kind => B = A
  <2>1. i..j + 1 = (i..j) \cup {j + 1}
    OBVIOUS
  <2> QED BY <2>1 DEF Counted
<1>5. j < i => A = {}
  BY DEF Counted
<1>6. Count(S, i, j, kind) = Cardinality(A) /\ Count(S, i, j + 1, kind) = Cardinality(B)
  BY DEF Count, Counted
<1> HIDE DEF A, B
<1>7. Cardinality(A) \in Nat /\ Cardinality(A \cup {j + 1}) = Cardinality(A) + 1
  BY <1>1, <1>2, FS_CardinalityType, FS_AddElement
<1>8. j < i => Cardinality(A) = 0
  BY <1>5, FS_EmptySet
<1> QED BY <1>3, <1>4, <1>6, <1>7, <1>8 DEF CountsOn

\* A count is of the segments it goes over.
LEMMA CountSame ==
  ASSUME NEW S, NEW R, NEW i \in Nat, NEW j \in Nat, \A k \in i..j : S[k] = R[k], NEW kind
  PROVE  Count(S, i, j, kind) = Count(R, i, j, kind)
<1>1. {k \in i..j : Kind(S[k]) = kind} = {k \in i..j : Kind(R[k]) = kind}
  OBVIOUS
<1> QED BY <1>1 DEF Count

\* The kind of a segment.
LEMMA KindIs ==
  ASSUME NEW seg
  PROVE  /\ seg \in {<<>>, Dot} => Kind(seg) = "none"
         /\ seg = DotDot => Kind(seg) = "dot_dot"
         /\ seg \notin {<<>>, Dot, DotDot} => Kind(seg) = "name"
<1>1. seg = DotDot => seg \notin {<<>>, <<".">>}
  BY Dots DEF Dot
<1> QED BY <1>1, Zenon DEF Kind, Dot, DotDot

\* The i-th segment is left after the walk over S and m names more removed.
Survives(S, i, m) ==
    /\ Kind(S[i]) = "name" /\ ~RemovedLater(S, i)
    /\ Count(S, i + 1, Len(S), "dot_dot") + m <= Count(S, i + 1, Len(S), "name")

SurvivesSo(S, x, i, m) ==
    LET R == Append(S, x)
    IN  /\ Kind(x) = "none" => (Survives(R, i, m) <=> Survives(S, i, m))
        /\ Kind(x) = "name" => (Survives(R, i, m + 1) <=> Survives(S, i, m))
        /\ Kind(x) = "name" => (Survives(R, i, 0) <=> Survives(S, i, 0))
        /\ Kind(x) = "dot_dot" => (Survives(R, i, m) <=> Survives(S, i, m + 1))

\* A segment more removes a name, or makes up for one that is removed.
LEMMA SurvivesGrows ==
  ASSUME NEW S \in Seq(Text), NEW x \in Text, NEW i \in 1..Len(S), NEW m \in Nat
  PROVE  SurvivesSo(S, x, i, m)
<1> DEFINE R == Append(S, x)
           n == Len(S)
           d(j) == Count(S, i + 1, j, "dot_dot")
           a(j) == Count(S, i + 1, j, "name")
           D == Count(R, i + 1, n + 1, "dot_dot")
           A == Count(R, i + 1, n + 1, "name")
<1>1. n \in Nat /\ Len(R) = n + 1 /\ R[n + 1] = x /\ \A k \in 1..n : R[k] = S[k]
  BY Grown
<1> HIDE DEF R, n
<1>2. i \in Nat /\ i + 1 \in Nat /\ i <= n /\ i >= 1 /\ i + 1 <= n + 1 /\ R[i] = S[i]
  BY <1>1 DEF n
<1>3. \A j \in i..n : \A kind \in {"dot_dot", "name"} : Count(R, i + 1, j, kind) = Count(S, i + 1, j, kind)
  <2> SUFFICES ASSUME NEW j \in i..n, NEW kind PROVE Count(R, i + 1, j, kind) = Count(S, i + 1, j, kind)
    OBVIOUS
  <2>1. j \in Nat /\ \A k \in i + 1..j : R[k] = S[k]
    BY <1>1, <1>2
  <2> QED BY <1>2, <2>1, CountSame
<1>4. /\ D = Count(R, i + 1, n, "dot_dot") + IF Kind(x) = "dot_dot" THEN 1 ELSE 0
      /\ A = Count(R, i + 1, n, "name") + IF Kind(x) = "name" THEN 1 ELSE 0
  <2>1. CountsOn(R, i + 1, n, "dot_dot") /\ CountsOn(R, i + 1, n, "name")
    BY <1>1, <1>2, CountIs
  <2> QED BY <1>1, <2>1 DEF CountsOn
<1>5. d(n) \in Nat /\ a(n) \in Nat /\ Count(R, i + 1, n, "dot_dot") = d(n) /\ Count(R, i + 1, n, "name") = a(n)
  <2>1. n \in i..n
    BY <1>1, <1>2
  <2> QED BY <1>1, <1>2, <1>3, <2>1, CountIs DEF CountsOn
<1>6. RemovedLater(S, i) <=> \E j \in i + 1..n : d(j) > a(j)
  BY DEF RemovedLater, n
<1>7. RemovedLater(R, i) <=> RemovedLater(S, i) \/ D > A
  <2>1. RemovedLater(R, i) <=> \E j \in i + 1..n + 1 : Count(R, i + 1, j, "dot_dot") > Count(R, i + 1, j, "name")
    BY <1>1 DEF RemovedLater
  <2>2. i + 1..n + 1 = (i + 1..n) \cup {n + 1}
    BY <1>1, <1>2
  <2>3. ASSUME NEW j \in i + 1..n
        PROVE  Count(R, i + 1, j, "dot_dot") = d(j) /\ Count(R, i + 1, j, "name") = a(j)
    <3>1. j \in i..n
      BY <1>1, <1>2
    <3> QED BY <1>3, <3>1
  <2> HIDE DEF d, a
  <2> QED BY <1>6, <2>1, <2>2, <2>3
<1>8. ~RemovedLater(S, i) => d(n) <= a(n)
  <2>1. CASE i = n
    <3>1. d(n) = 0 /\ a(n) = 0
      BY <1>1, <1>2, <2>1, CountIs DEF CountsOn
    <3> QED BY <3>1
  <2>2. CASE i # n
    <3>1. n \in i + 1..n
      BY <1>1, <1>2, <2>2
    <3> HIDE DEF d, a
    <3> QED BY <1>5, <1>6, <3>1
  <2> QED BY <2>1, <2>2
<1>9. \A k : Survives(S, i, k) <=> Kind(S[i]) = "name" /\ ~RemovedLater(S, i) /\ d(n) + k <= a(n)
  BY DEF Survives, n
<1>10. \A k : Survives(R, i, k) <=> Kind(S[i]) = "name" /\ ~RemovedLater(R, i) /\ D + k <= A
  BY <1>1, <1>2 DEF Survives
<1> HIDE DEF D, A, d, a
<1>11. CASE Kind(x) = "none"
  BY <1>4, <1>5, <1>7, <1>8, <1>9, <1>10, <1>11 DEF SurvivesSo, R
<1>12. CASE Kind(x) = "name"
  BY <1>4, <1>5, <1>7, <1>8, <1>9, <1>10, <1>12 DEF SurvivesSo, R
<1>13. CASE Kind(x) = "dot_dot"
  BY <1>4, <1>5, <1>7, <1>8, <1>9, <1>10, <1>13 DEF SurvivesSo, R
<1>14. Kind(x) \notin {"none", "name", "dot_dot"} => SurvivesSo(S, x, i, m)
  BY DEF SurvivesSo
<1> QED BY <1>11, <1>12, <1>13, <1>14

\* The last segment is left when it is a name and none is removed.
LEMMA LastSurvives ==
  ASSUME NEW S \in Seq(Text), NEW x \in Text, NEW m \in Nat
  PROVE  Survives(Append(S, x), Len(S) + 1, m) <=> Kind(x) = "name" /\ m = 0
<1> DEFINE R == Append(S, x)
           n == Len(S)
<1>1. n \in Nat /\ Len(R) = n + 1 /\ R[n + 1] = x
  BY Grown
<1> HIDE DEF R, n
<1>2. ~RemovedLater(R, n + 1)
  BY <1>1 DEF RemovedLater
<1>3. \A kind : Count(R, (n + 1) + 1, n + 1, kind) = 0
  <2> SUFFICES ASSUME NEW kind PROVE Count(R, (n + 1) + 1, n + 1, kind) = 0
    OBVIOUS
  <2>1. n + 1 \in Nat /\ (n + 1) + 1 \in Nat /\ (n + 1) + 1 <= (n + 1) + 1 /\ n + 1 < (n + 1) + 1
    BY <1>1
  <2>2. CountsOn(R, (n + 1) + 1, n + 1, kind)
    BY <2>1, CountIs
  <2> QED BY <2>1, <2>2 DEF CountsOn
<1>4. Survives(R, n + 1, m) <=> Kind(x) = "name" /\ 0 + m <= 0
  BY <1>1, <1>2, <1>3 DEF Survives
<1> QED BY <1>4 DEF R, n

Slashed(S, i, m) == IF Survives(S, i, m) THEN <<"/">> \o S[i] ELSE <<>>
KeptText(S, m) == FlattenSeq([i \in DOMAIN S |-> Slashed(S, i, m)])

KeepsOn(S, x, m, k) == KeptText(Append(S, x), m)
                       = KeptText(S, k) \o (IF Kind(x) = "name" /\ m = 0 THEN <<"/">> \o x ELSE <<>>)

\* The names left, and the last.
LEMMA KeptGrows ==
  ASSUME NEW S \in Seq(Text), NEW x \in Text, NEW m \in Nat, NEW k \in Nat,
         \A i \in 1..Len(S) : Survives(Append(S, x), i, m) <=> Survives(S, i, k)
  PROVE  KeptText(S, k) \in Text /\ KeepsOn(S, x, m, k)
<1> DEFINE R == Append(S, x)
           n == Len(S)
           T == [i \in 1..n |-> Slashed(S, i, k)]
           U == [i \in 1..n + 1 |-> Slashed(R, i, m)]
<1>1. n \in Nat /\ R \in Seq(Text) /\ Len(R) = n + 1 /\ R[n + 1] = x /\ \A i \in 1..n : R[i] = S[i]
  BY Grown
<1>2. DOMAIN S = 1..n /\ DOMAIN R = 1..n + 1
  BY <1>1
<1>3. \A Q \in Seq(Text) : \A j : \A i \in 1..Len(Q) : Slashed(Q, i, j) \in Text
  <2> SUFFICES ASSUME NEW Q \in Seq(Text), NEW j, NEW i \in 1..Len(Q) PROVE Slashed(Q, i, j) \in Text
    OBVIOUS
  <2> DEFINE e == <<>>
  <2>1. Q[i] \in Text
    OBVIOUS
  <2>2. AddsText(e, Q[i]) /\ e \in Text
    <3>1. e \in Stacks /\ e \in Text
      BY DEF Stacks, Text
    <3> HIDE DEF e
    <3> QED BY <2>1, <3>1, PathTextGrows
  <2> HIDE DEF e
  <2>3. <<"/">> \o Q[i] \in Text
    BY <2>2 DEF AddsText
  <2> QED BY <2>2, <2>3 DEF Slashed, e
<1> HIDE DEF R, n
<1>4. T \in Seq(Text) /\ Len(T) = n
  <2>1. \A i \in 1..n : Slashed(S, i, k) \in Text
    BY <1>3 DEF n
  <2> HIDE DEF Text
  <2> QED BY <1>1, <2>1
<1>5. U \in Seq(Text) /\ Len(U) = n + 1
  <2>1. \A i \in 1..n + 1 : Slashed(R, i, m) \in Text
    BY <1>1, <1>3
  <2> HIDE DEF Text
  <2> QED BY <1>1, <2>1
<1>6. ASSUME NEW i \in 1..n PROVE U[i] = T[i]
  <2>1. Survives(R, i, m) <=> Survives(S, i, k)
    BY DEF R, n
  <2>2. U[i] = Slashed(R, i, m) /\ T[i] = Slashed(S, i, k)
    BY <1>1
  <2> QED BY <1>1, <2>1, <2>2 DEF Slashed
<1>7. U[n + 1] = IF Kind(x) = "name" /\ m = 0 THEN <<"/">> \o x ELSE <<>>
  <2>1. U[n + 1] = Slashed(R, n + 1, m)
    BY <1>1
  <2>2. Survives(R, n + 1, m) <=> Kind(x) = "name" /\ m = 0
    BY LastSurvives DEF R, n
  <2> QED BY <1>1, <2>1, <2>2 DEF Slashed
<1>8. KeptText(S, k) = FlattenSeq(T) /\ KeptText(R, m) = FlattenSeq(U)
  BY <1>2 DEF KeptText
<1> HIDE DEF T, U
<1>9. Longer(T, U)
  BY <1>4, <1>5, <1>6 DEF Longer
<1>10. Flattens(Symbol, T, U)
  BY <1>4, <1>5, <1>9, FlattenGrows DEF Text
<1> QED BY <1>4, <1>7, <1>8, <1>10 DEF Flattens, Text, KeepsOn, R

\* A stack without its last m.
Dropped(st, m) == SubSeq(st, 1, Len(st) - m)

\* The last of a stack is dropped first.
LEMMA DroppedIs ==
  ASSUME NEW st \in Stacks, NEW m \in Nat
  PROVE  /\ Dropped(st, m) \in Stacks
         /\ Dropped(st, 0) = st
         /\ Dropped(<<>>, m) = <<>>
         /\ \A x \in Text : Dropped(Append(st, x), m + 1) = Dropped(st, m)
<1> DEFINE n == Len(st)
<1>1. st \in Seq(Text) /\ n \in Nat /\ \A i \in 1..n : st[i] \in Text
  BY DEF Stacks
<1>2. Dropped(st, m) \in Seq(Text) /\ Len(Dropped(st, m)) = (IF 1 <= n - m THEN n - m ELSE 0)
      /\ \A i \in 1..n - m : Dropped(st, m)[i] = st[i]
  <2>1. 1 \in Int /\ n - m \in Int /\ \A i \in 1..n - m : st[i] \in Text
    BY <1>1
  <2> HIDE DEF n
  <2>2. SubSeq(st, 1, n - m) \in Seq(Text)
        /\ Len(SubSeq(st, 1, n - m)) = (IF 1 <= n - m THEN (n - m) - 1 + 1 ELSE 0)
        /\ \A i \in 1..(n - m) - 1 + 1 : SubSeq(st, 1, n - m)[i] = st[1 + i - 1]
    BY <2>1, SubSeqProperties
  <2>3. (n - m) - 1 + 1 = n - m /\ \A i \in 1..n - m : 1 + i - 1 = i
    BY <1>1
  <2> QED BY <2>2, <2>3 DEF Dropped, n
<1>3. Dropped(st, 0) = st
  <2>1. SubSeq(st, 1, Len(st)) = st
    BY <1>1, SubSeqFull
  <2> QED BY <1>1, <2>1 DEF Dropped
<1>4. Dropped(<<>>, m) = <<>>
  <2>1. 0 - m \in Int /\ 0 - m < 1
    OBVIOUS
  <2>2. Len(<<>>) = 0
    OBVIOUS
  <2> QED BY <2>1, <2>2, SubSeqEmpty DEF Dropped
<1>5. ASSUME NEW x \in Text PROVE Dropped(Append(st, x), m + 1) = Dropped(st, m)
  <2> DEFINE R == Append(st, x)
             a == SubSeq(R, 1, n - m)
             b == Dropped(st, m)
  <2>1. R \in Seq(Text) /\ Len(R) = n + 1 /\ \A i \in 1..n : R[i] = st[i]
    BY <1>1, Grown
  <2> HIDE DEF R, n
  <2>2. 1 \in Int /\ n - m \in Int /\ \A i \in 1..n - m : i \in 1..n /\ R[i] \in Text
    BY <1>1, <2>1 DEF n
  <2>3. a \in Seq(Text) /\ Len(a) = (IF 1 <= n - m THEN (n - m) - 1 + 1 ELSE 0)
        /\ \A i \in 1..(n - m) - 1 + 1 : a[i] = R[1 + i - 1]
    BY <2>2, SubSeqProperties
  <2> HIDE DEF a, b
  <2>4. (n - m) - 1 + 1 = n - m /\ \A i \in 1..n - m : 1 + i - 1 = i
    BY <1>1
  <2>5. Len(a) = Len(b) /\ b \in Seq(Text)
    BY <1>2, <2>3, <2>4 DEF b
  <2>6. ASSUME NEW i \in 1..Len(a) PROVE a[i] = b[i]
    <3>1. i \in 1..n - m /\ i \in 1..(n - m) - 1 + 1
      BY <1>1, <2>3, <2>4
    <3>2. a[i] = R[1 + i - 1] /\ 1 + i - 1 = i
      BY <2>3, <2>4, <3>1
    <3>3. b[i] = st[i] /\ R[i] = st[i]
      BY <1>2, <2>1, <2>2, <3>1 DEF b
    <3> QED BY <3>2, <3>3
  <2>7. a = b
    BY <2>3, <2>5, <2>6, SeqEqual
  <2>8. Len(R) - (m + 1) = n - m
    BY <1>1, <2>1
  <2> QED BY <2>7, <2>8 DEF Dropped, R, a, b
<1> QED BY <1>2, <1>3, <1>4, <1>5 DEF Stacks

\* The names left are those of the stack.
LEMMA KeptWalk ==
  ASSUME NEW S \in Seq(Text), NEW m \in Nat
  PROVE  KeptText(S, m) = PathText(Dropped(Walk(S), m))
<1> DEFINE e == <<>>
           G == {R \in Seq(Text) : \A k \in Nat : KeptText(R, k) = PathText(Dropped(Walk(R), k))}
<1>0. e \in Seq(Text) /\ e \in Stacks /\ Walk(e) = e /\ PathText(e) = e
      /\ \A k \in Nat : Dropped(e, k) = e
  <2>1. e \in Seq(Text) /\ e \in Stacks
    BY DEF Stacks
  <2>2. Walk(e) = e
    BY <2>1, Dots, WalkGrows DEF WalksOn
  <2>3. PathText(e) = e
    BY <2>1, PathTextIn
  <2>4. \A k \in Nat : Dropped(e, k) = e
    BY <2>1, DroppedIs
  <2> QED BY <2>1, <2>2, <2>3, <2>4
<1>1. e \in G
  <2>1. ASSUME NEW k \in Nat PROVE KeptText(e, k) = e
    <3>1. [i \in DOMAIN e |-> Slashed(e, i, k)] = e
      OBVIOUS
    <3> QED BY <3>1, FlattenEmpty DEF KeptText
  <2> HIDE DEF e
  <2> QED BY <1>0, <2>1
<1> HIDE DEF e
<1>2. ASSUME NEW R \in Seq(Text), NEW x \in Text, R \in G PROVE Append(R, x) \in G
  <2> DEFINE st == Walk(R)
             Q == Append(R, x)
  <2>1. Q \in Seq(Text) /\ st \in Stacks /\ Walk(Q) = Walked(st, x) /\ Walks(st, x)
    BY WalkGrows, WalkedIs DEF WalksOn
  <2>2. \A k \in Nat : KeptText(R, k) = PathText(Dropped(st, k))
    BY <1>2
  <2>3. \A k \in Nat : Dropped(st, k) \in Stacks /\ PathText(Dropped(st, k)) \in Text
    BY <2>1, DroppedIs, PathTextIn
  <2>4. \A t \in Text : t \o <<>> = t
    BY ConcatEmptySeq DEF Text
  <2>5. \A k \in Nat : \A i \in 1..Len(R) : SurvivesSo(R, x, i, k)
    BY SurvivesGrows
  <2> HIDE DEF st
  <2> SUFFICES ASSUME NEW k \in Nat PROVE KeptText(Q, k) = PathText(Dropped(Walk(Q), k))
    BY <2>1
  <2>6. CASE x \in {e, Dot}
    <3>1. Kind(x) = "none" /\ Walk(Q) = st
      BY <2>1, <2>6, KindIs DEF Walks, e
    <3>2. \A i \in 1..Len(R) : Survives(Append(R, x), i, k) <=> Survives(R, i, k)
      BY <2>5, <3>1 DEF SurvivesSo
    <3>3. KeepsOn(R, x, k, k)
      BY <3>2, KeptGrows
    <3>4. KeptText(Q, k) = KeptText(R, k) \o <<>>
      BY <3>1, <3>3 DEF KeepsOn
    <3> QED BY <2>2, <2>3, <2>4, <3>1, <3>4
  <2>7. CASE x \notin {e, Dot, DotDot}
    <3>1. Kind(x) = "name" /\ Walk(Q) = Append(st, x)
      BY <2>1, <2>7, KindIs DEF Walks, e
    <3>2. CASE k = 0
      <4>1. \A i \in 1..Len(R) : Survives(Append(R, x), i, 0) <=> Survives(R, i, 0)
        BY <2>5, <3>1 DEF SurvivesSo
      <4>2. KeepsOn(R, x, 0, 0)
        BY <4>1, KeptGrows
      <4>3. KeptText(Q, 0) = PathText(st) \o (<<"/">> \o x)
        BY <2>1, <2>2, <3>1, <4>2, DroppedIs DEF KeepsOn
      <4>4. AddsText(st, x) /\ Append(st, x) \in Stacks
        BY <2>1, PathTextGrows DEF Stacks
      <4>5. Dropped(Append(st, x), 0) = Append(st, x)
        BY <4>4, DroppedIs
      <4> QED BY <3>1, <3>2, <4>3, <4>4, <4>5 DEF AddsText
    <3>3. CASE k # 0
      <4> DEFINE j == k - 1
      <4>1. j \in Nat /\ j + 1 = k
        BY <3>3
      <4> HIDE DEF j
      <4>2. \A i \in 1..Len(R) : Survives(Append(R, x), i, j + 1) <=> Survives(R, i, j)
        BY <2>5, <3>1, <4>1 DEF SurvivesSo
      <4>3. KeepsOn(R, x, j + 1, j)
        BY <4>1, <4>2, KeptGrows
      <4>4. KeptText(Q, k) = KeptText(R, j) \o <<>>
        BY <3>3, <4>1, <4>3 DEF KeepsOn
      <4>5. Dropped(Walk(Q), k) = Dropped(st, j)
        BY <2>1, <3>1, <4>1, DroppedIs
      <4> QED BY <2>2, <2>3, <2>4, <4>1, <4>4, <4>5
    <3> QED BY <3>2, <3>3
  <2>8. CASE x = DotDot
    <3>1. Kind(x) = "dot_dot"
      BY <2>8, KindIs
    <3>2. \A i \in 1..Len(R) : Survives(Append(R, x), i, k) <=> Survives(R, i, k + 1)
      BY <2>5, <3>1 DEF SurvivesSo
    <3>3. KeepsOn(R, x, k, k + 1)
      BY <3>2, KeptGrows
    <3>4. KeptText(Q, k) = KeptText(R, k + 1) \o <<>>
      BY <3>1, <3>3 DEF KeepsOn
    <3>5. KeptText(Q, k) = PathText(Dropped(st, k + 1))
      BY <2>2, <2>3, <2>4, <3>4
    <3>6. Dropped(Walk(Q), k) = Dropped(st, k + 1)
      <4>1. CASE st = e
        <5>1. Walk(Q) = e
          BY <2>1, <2>8, <4>1 DEF Walks, e
        <5> QED BY <1>0, <4>1, <5>1
      <4>2. CASE st # e
        <5>1. PICK f \in Stacks, z \in Text : st = Append(f, z)
          BY <2>1, <4>2, SequenceEmptyOrAppend DEF Stacks, e
        <5>2. Walk(Q) = f
          BY <2>1, <2>8, <5>1 DEF Walks
        <5> QED BY <5>1, <5>2, DroppedIs
      <4> QED BY <4>1, <4>2
    <3> QED BY <3>5, <3>6
  <2> QED BY <2>6, <2>7, <2>8
<1> HIDE DEF G
<1>3. \A R \in Seq(Text) : R \in G
  BY <1>1, <1>2, SeqInd DEF e
<1> QED BY <1>3 DEF G

\* put_normalized, which looks ahead from each name, computes the path that a
\* server reaches with a stack.
LEMMA NormalizedIs ==
  ASSUME NEW path \in Text, path # <<>>
  PROVE  Normalized(path) = ServerPath(path)
<1> DEFINE segs == Split(path, "/")
           st == Walk(segs)
           text == KeptText(segs, 0)
           slash == <<"/">>
<1>1. segs \in Seq(Text) /\ st \in Stacks
  BY SplitAre, WalkIn DEF Lists
<1>2. text = PathText(st)
  BY <1>1, KeptWalk, DroppedIs
<1> HIDE DEF segs, st
<1>3. \A i \in DOMAIN segs : Survives(segs, i, 0) <=> Kind(segs[i]) = "name" /\ ~RemovedLater(segs, i)
  <2> SUFFICES ASSUME NEW i \in DOMAIN segs, ~RemovedLater(segs, i)
               PROVE  Count(segs, i + 1, Len(segs), "dot_dot") + 0 <= Count(segs, i + 1, Len(segs), "name")
    BY DEF Survives
  <2>1. Len(segs) \in Nat /\ i \in 1..Len(segs) /\ i + 1 \in Nat /\ i + 1 <= Len(segs) + 1
    BY <1>1
  <2>2. \A kind : /\ Count(segs, i + 1, Len(segs), kind) \in Nat
                  /\ Len(segs) < i + 1 => Count(segs, i + 1, Len(segs), kind) = 0
    BY <2>1, CountIs DEF CountsOn
  <2>3. CASE Len(segs) < i + 1
    BY <2>2, <2>3
  <2>4. CASE ~(Len(segs) < i + 1)
    <3>1. Len(segs) \in i + 1..Len(segs)
      BY <2>1, <2>4
    <3>2. ~(Count(segs, i + 1, Len(segs), "dot_dot") > Count(segs, i + 1, Len(segs), "name"))
      BY <3>1 DEF RemovedLater
    <3> QED BY <2>2, <3>2
  <2> QED BY <2>3, <2>4
<1>4. [i \in DOMAIN segs |-> Slashed(segs, i, 0)]
      = [i \in DOMAIN segs |-> IF Kind(segs[i]) = "name" /\ ~RemovedLater(segs, i) THEN <<"/">> \o segs[i]
                               ELSE <<>>]
  BY <1>3 DEF Slashed
<1>5. Normalized(path) = IF text = <<>> \/ Last(path) = "/" THEN Append(text, "/") ELSE text
  BY <1>4, Zenon DEF Normalized, KeptText, segs
<1>6. text \in Text /\ (text = <<>> <=> st = <<>>)
  BY <1>1, <1>2, PathTextIn
<1> HIDE DEF text
<1>7. Append(text, "/") = text \o slash /\ text \o <<>> = text
  <2>1. "/" \in Symbol
    BY Signs
  <2> QED BY <1>6, <2>1, AppendIsConcat, ConcatEmptySeq DEF Text
<1>8. Last(path) = path[Len(path)]
  BY DEF Last
<1>9. ServerPath(path) = PathText(st) \o RootSlash(st, path)
  BY ServerPathIs DEF st, segs
<1> QED BY <1>2, <1>5, <1>6, <1>7, <1>8, <1>9 DEF RootSlash, EndsIn

-----------------------------------------------------------------------------
(* Values trimmed                                                          *)

SqueezeStep == [q \in Text \X Symbol |-> Squeezed(q[1], q[2])]
Out(v) == Folded(Text, <<>>, SqueezeStep, v)
Unspaced(t) == IF t # <<>> /\ Last(t) = " " THEN Front(t) ELSE t

\* put_trimmed keeps to texts.
LEMMA SqueezeSteps == SqueezeStep \in [Text \X Symbol -> Text] /\ <<>> \in Text
<1>1. ASSUME NEW t \in Text, NEW c \in Symbol PROVE Squeezed(t, c) \in Text
  <2>1. Append(t, c) \in Text
    BY Grown DEF Text
  <2> QED BY <2>1 DEF Squeezed
<1>2. <<>> \in Text
  BY DEF Text
<1> HIDE DEF Text, Symbol
<1> QED BY <1>1, <1>2 DEF SqueezeStep

\* put_trimmed, symbol by symbol.
LEMMA TrimmedIs ==
  ASSUME NEW v \in Text
  PROVE  Trimmed(v) = Unspaced(Out(v))
<1> DEFINE n == Len(v)
           b == <<>>
           Made(f) == f = [i \in 0..n |-> IF i = 0 THEN b ELSE Squeezed(f[i - 1], v[i])]
           f == CHOOSE h : Made(h)
<1>1. n \in Nat /\ v \in Seq(Symbol) /\ \A i \in 1..n : v[i] \in Symbol
  BY DEF Text
<1>2. SqueezeStep \in [Text \X Symbol -> Text] /\ b \in Text
  BY SqueezeSteps
<1> HIDE DEF b, n, Symbol, Text
<1>3. \A p \in Text, c \in Symbol : SqueezeStep[<<p, c>>] = Squeezed(p, c)
  BY DEF SqueezeStep
<1>4. PICK g \in [0..n -> Text] : Follows(g, Text, b, SqueezeStep, v)
  BY <1>1, <1>2, FoldSteps DEF n
<1>5. Made(g)
  <2>1. ASSUME NEW i \in 0..n PROVE g[i] = IF i = 0 THEN b ELSE Squeezed(g[i - 1], v[i])
    <3>1. CASE i = 0
      BY <1>4, <3>1 DEF Follows
    <3>2. CASE i # 0
      <4>1. i \in 1..n /\ i - 1 \in 0..n
        BY <1>1, <3>2
      <4>2. g[i - 1] \in Text
        BY <4>1
      <4>3. g[i] = SqueezeStep[<<g[i - 1], v[i]>>]
        BY <1>4, <4>1, <4>2 DEF Follows, n
      <4> QED BY <1>1, <1>3, <3>2, <4>1, <4>2, <4>3
    <3> QED BY <3>1, <3>2
  <2> QED BY <2>1
<1>6. Made(f)
  <2> HIDE DEF Made
  <2> QED BY <1>5
<1>7. Trimmed(v) = Unspaced(f[n])
  BY DEF Trimmed, Unspaced, n, b
<1> HIDE DEF f
<1>8. Follows(f, Text, b, SqueezeStep, v)
  <2>1. f[0] = b
    BY <1>1, <1>6
  <2>2. ASSUME NEW i \in 1..n, f[i - 1] \in Text PROVE f[i] = SqueezeStep[<<f[i - 1], v[i]>>]
    <3>1. i \in 0..n /\ i # 0 /\ v[i] \in Symbol
      BY <1>1
    <3>2. f[i] = Squeezed(f[i - 1], v[i])
      BY <1>6, <3>1
    <3> QED BY <1>3, <2>2, <3>1, <3>2
  <2> QED BY <2>1, <2>2 DEF Follows, n
<1>9. f[Len(v)] = Folded(Text, b, SqueezeStep, v) /\ f[Len(v)] \in Text
  BY <1>1, <1>2, <1>8, FoldMade, Zenon
<1> QED BY <1>7, <1>9 DEF n, b, Out

OutOn(v, x) == /\ Out(<<>>) = <<>>
               /\ Out(v) \in Text
               /\ Out(Append(v, x)) = Squeezed(Out(v), x)

\* A symbol more.
LEMMA OutGrows ==
  ASSUME NEW v \in Text, NEW x \in Symbol
  PROVE  OutOn(v, x)
<1> DEFINE b == <<>>
<1>1. SqueezeStep \in [Text \X Symbol -> Text] /\ b \in Text
  BY SqueezeSteps
<1>2. v \in Seq(Symbol)
  BY DEF Text
<1> HIDE DEF b, Text, Symbol
<1>3. FoldsOn(Text, b, SqueezeStep, v, x)
  BY <1>1, <1>2, FoldGrows
<1>4. Folded(Text, b, SqueezeStep, <<>>) = b
  BY <1>1, FoldEmpty
<1>5. Out(v) \in Text /\ Out(Append(v, x)) = SqueezeStep[<<Out(v), x>>] /\ Out(<<>>) = b
  BY <1>3, <1>4 DEF FoldsOn, Out, b
<1> HIDE DEF Out
<1>6. SqueezeStep[<<Out(v), x>>] = Squeezed(Out(v), x)
  BY <1>5 DEF SqueezeStep
<1> QED BY <1>5, <1>6, Zenon DEF OutOn, b

After(v, i) == i > 1 /\ v[i - 1] # " "
RawAt(v, i) == IF v[i] # " " \/ After(v, i) THEN <<v[i]>> ELSE <<>>
PlainAt(v, i) == IF v[i] # " " \/ (i > 1 /\ v[i - 1] # " " /\ \E j \in i..Len(v) : v[j] # " ")
                 THEN <<v[i]>> ELSE <<>>
Raw(v) == FlattenSeq([i \in DOMAIN v |-> RawAt(v, i)])

\* Space: nothing yet, or a space, comes before what follows t.
Space(t) == t = <<>> \/ t[Len(t)] = " "

RawOn(v, x) == /\ Raw(<<>>) = <<>> /\ Plain(<<>>) = <<>>
               /\ Raw(v) \in Text /\ Plain(v) \in Text
               /\ Raw(Append(v, x)) = Raw(v) \o (IF x # " " \/ ~Space(v) THEN <<x>> ELSE <<>>)
               /\ x # " " => Plain(Append(v, x)) = Raw(v) \o <<x>>
               /\ x = " " => Plain(Append(v, x)) = Plain(v) \o <<>>

\* What a symbol more adds to the values, trimmed and not.
LEMMA RawGrows ==
  ASSUME NEW v \in Text, NEW x \in Symbol
  PROVE  RawOn(v, x)
<1> DEFINE n == Len(v)
           w == Append(v, x)
           R == [i \in 1..n |-> RawAt(v, i)]
           P == [i \in 1..n |-> PlainAt(v, i)]
           S == [i \in 1..n + 1 |-> RawAt(w, i)]
           Q == [i \in 1..n + 1 |-> PlainAt(w, i)]
<1>1. n \in Nat /\ w \in Text /\ Len(w) = n + 1 /\ w[n + 1] = x
      /\ \A i \in 1..n : w[i] = v[i] /\ v[i] \in Symbol
  BY Grown DEF Text
<1>2. DOMAIN v = 1..n /\ DOMAIN w = 1..n + 1
  BY <1>1 DEF Text
<1>3. \A i \in 1..n + 1 : w[i] \in Symbol
  BY <1>1
<1>4. ASSUME NEW u, NEW i, u[i] \in Symbol PROVE RawAt(u, i) \in Text /\ PlainAt(u, i) \in Text
  <2>1. <<u[i]>> \in Text /\ <<>> \in Text
    <3> DEFINE e == <<>>
               c == u[i]
    <3>1. e \in Text
      BY DEF Text
    <3> HIDE DEF e, c, Symbol
    <3>2. <<c>> \in Text
      BY <1>4 DEF c, Text
    <3> QED BY <3>1, <3>2 DEF e, c
  <2> QED BY <2>1 DEF RawAt, PlainAt
<1> HIDE DEF w, n
<1>5. R \in Seq(Text) /\ Len(R) = n /\ P \in Seq(Text) /\ Len(P) = n
  <2>1. \A i \in 1..n : RawAt(v, i) \in Text /\ PlainAt(v, i) \in Text
    BY <1>1, <1>4
  <2> HIDE DEF Text
  <2> QED BY <1>1, <2>1
<1>6. S \in Seq(Text) /\ Len(S) = n + 1 /\ Q \in Seq(Text) /\ Len(Q) = n + 1
  <2>1. \A i \in 1..n + 1 : RawAt(w, i) \in Text /\ PlainAt(w, i) \in Text
    BY <1>3, <1>4
  <2> HIDE DEF Text
  <2> QED BY <1>1, <2>1
<1>7. After(w, n + 1) <=> ~Space(v)
  <2>1. (n > 0 <=> v # <<>>) /\ (n > 0 => w[n] = v[n])
    BY <1>1 DEF n, Text
  <2>2. After(w, n + 1) <=> n > 0 /\ w[n] # " "
    <3>1. (n + 1) - 1 = n /\ (n + 1 > 1 <=> n > 0)
      BY <1>1
    <3> QED BY <3>1, Zenon DEF After
  <2>3. Space(v) <=> ~(n > 0) \/ v[n] = " "
    BY <2>1, Zenon DEF Space, n
  <2> QED BY <2>1, <2>2, <2>3
<1>8. \A i \in 1..n : After(w, i) <=> After(v, i)
  <2> SUFFICES ASSUME NEW i \in 1..n, i > 1 PROVE w[i - 1] = v[i - 1]
    BY DEF After
  <2>1. i - 1 \in 1..n
    BY <1>1
  <2> QED BY <1>1, <2>1
<1>9. Longer(R, S) /\ S[n + 1] = IF x # " " \/ ~Space(v) THEN <<x>> ELSE <<>>
  <2>1. ASSUME NEW i \in 1..n PROVE S[i] = R[i]
    <3>1. S[i] = RawAt(w, i) /\ R[i] = RawAt(v, i) /\ w[i] = v[i]
      BY <1>1
    <3> QED BY <1>8, <3>1 DEF RawAt
  <2>2. S[n + 1] = RawAt(w, n + 1)
    BY <1>1
  <2>3. S[n + 1] = IF x # " " \/ ~Space(v) THEN <<x>> ELSE <<>>
    BY <1>1, <1>7, <2>2 DEF RawAt
  <2> HIDE DEF R, S
  <2> QED BY <1>5, <1>6, <2>1, <2>3 DEF Longer
<1>10. Raw(v) = FlattenSeq(R) /\ Raw(w) = FlattenSeq(S)
  BY <1>2 DEF Raw
<1>11. \A u : Plain(u) = FlattenSeq([i \in DOMAIN u |-> PlainAt(u, i)])
  BY Zenon DEF Plain, PlainAt
<1>12. Plain(v) = FlattenSeq(P) /\ Plain(w) = FlattenSeq(Q)
  BY <1>2, <1>11
<1>13. ASSUME x # " " PROVE Longer(R, Q) /\ Q[n + 1] = <<x>>
  <2>1. ASSUME NEW i \in 1..n PROVE Q[i] = R[i]
    <3>1. Q[i] = PlainAt(w, i) /\ R[i] = RawAt(v, i) /\ w[i] = v[i]
      BY <1>1
    <3>2. n + 1 \in i..Len(w)
      BY <1>1
    <3>3. \E j \in i..Len(w) : w[j] # " "
      BY <1>1, <1>13, <3>2
    <3> QED BY <1>8, <3>1, <3>3 DEF RawAt, PlainAt, After
  <2>2. Q[n + 1] = PlainAt(w, n + 1)
    BY <1>1
  <2>3. Q[n + 1] = <<x>>
    BY <1>1, <1>13, <2>2 DEF PlainAt
  <2> HIDE DEF R, Q
  <2> QED BY <1>5, <1>6, <2>1, <2>3 DEF Longer
<1>14. ASSUME x = " " PROVE Longer(P, Q) /\ Q[n + 1] = <<>>
  <2>1. ASSUME NEW i \in 1..n PROVE Q[i] = P[i]
    <3>1. Q[i] = PlainAt(w, i) /\ P[i] = PlainAt(v, i) /\ w[i] = v[i]
      BY <1>1
    <3>2. (\E j \in i..Len(w) : w[j] # " ") <=> (\E j \in i..Len(v) : v[j] # " ")
      <4>1. i..Len(w) = (i..n) \cup {n + 1} /\ Len(v) = n
        BY <1>1 DEF n
      <4>2. \A j \in i..n : w[j] = v[j]
        BY <1>1
      <4> QED BY <1>1, <1>14, <4>1, <4>2
    <3> QED BY <1>8, <3>1, <3>2 DEF PlainAt, After
  <2>2. Q[n + 1] = PlainAt(w, n + 1)
    BY <1>1
  <2>3. Q[n + 1] = <<>>
    <3>1. \A j \in n + 1..Len(w) : w[j] = " "
      <4> SUFFICES ASSUME NEW j \in n + 1..Len(w) PROVE w[j] = " "
        OBVIOUS
      <4>1. j = n + 1
        BY <1>1
      <4>2. w[n + 1] = x
        BY <1>1
      <4> QED BY <1>14, <4>1, <4>2
    <3> QED BY <1>1, <1>14, <2>2, <3>1 DEF PlainAt
  <2> HIDE DEF P, Q
  <2> QED BY <1>5, <1>6, <2>1, <2>3 DEF Longer
<1> HIDE DEF R, S, P, Q
<1>15. Flattens(Symbol, R, S) /\ (x # " " => Flattens(Symbol, R, Q)) /\ (x = " " => Flattens(Symbol, P, Q))
  BY <1>5, <1>6, <1>9, <1>13, <1>14, FlattenGrows DEF Text
<1>16. Plain(v) \in Text
  <2>1. \A t \in Seq(Text) : FlattenSeq(t) \in Text
    <3> SUFFICES ASSUME NEW t \in Seq(Text) PROVE FlattenSeq(t) \in Text
      OBVIOUS
    <3> DEFINE e == <<>>
               u == Append(t, e)
    <3>1. e \in Text
      BY DEF Text
    <3> HIDE DEF e
    <3>2. u \in Seq(Text) /\ Longer(t, u)
      <4> HIDE DEF Text
      <4> QED BY <3>1, Grown DEF Longer
    <3> HIDE DEF u
    <3>3. Flattens(Symbol, t, u)
      BY <3>2, FlattenGrows DEF Text
    <3> QED BY <3>3 DEF Flattens, Text
  <2> QED BY <1>5, <1>12, <2>1
<1>17. Raw(<<>>) = <<>> /\ Plain(<<>>) = <<>>
  <2> DEFINE e == <<>>
  <2>1. [i \in DOMAIN e |-> RawAt(e, i)] = e /\ [i \in DOMAIN e |-> PlainAt(e, i)] = e
    OBVIOUS
  <2> HIDE DEF e
  <2>2. Raw(e) = FlattenSeq(e) /\ Plain(e) = FlattenSeq(e)
    BY <1>11, <2>1 DEF Raw
  <2> QED BY <2>2, FlattenEmpty DEF e
<1>18. Raw(v) \in Text
  BY <1>10, <1>15 DEF Flattens, Text
<1>19. Raw(w) = Raw(v) \o (IF x # " " \/ ~Space(v) THEN <<x>> ELSE <<>>)
  BY <1>5, <1>9, <1>10, <1>15 DEF Flattens
<1>20. x # " " => Plain(w) = Raw(v) \o <<x>>
  BY <1>5, <1>10, <1>12, <1>13, <1>15 DEF Flattens
<1>21. x = " " => Plain(w) = Plain(v) \o <<>>
  BY <1>5, <1>12, <1>14, <1>15 DEF Flattens
<1> QED BY <1>16, <1>17, <1>18, <1>19, <1>20, <1>21, Zenon DEF RawOn, w

\* put_trimmed leaves what a service makes of a value.
LEMMA TrimmedPlain ==
  ASSUME NEW v \in Text
  PROVE  Trimmed(v) = Plain(v) /\ Trimmed(v) \in Text
<1> DEFINE e == <<>>
           G == {u \in Text : /\ Plain(u) = Unspaced(Out(u)) /\ Out(u) = Raw(u)
                              /\ Space(Out(u)) <=> Space(u)}
<1>0. e \in Text
  BY DEF Text
<1>5. " " \in Symbol
  BY Signs
<1>6. OutOn(v, " ") /\ RawOn(v, " ")
  BY <1>5, OutGrows, RawGrows
<1>1. e \in G
  <2>1. Out(e) = e /\ Raw(e) = e /\ Plain(e) = e
    BY <1>6 DEF OutOn, RawOn
  <2>2. Unspaced(e) = e
    BY DEF Unspaced
  <2> HIDE DEF e
  <2> QED BY <1>0, <2>1, <2>2
<1>2. ASSUME NEW u \in Text, NEW x \in Symbol, u \in G PROVE Append(u, x) \in G
  <2> DEFINE w == Append(u, x)
             o == Out(u)
  <2>1. w \in Text /\ w # <<>> /\ w[Len(w)] = x
    BY Grown DEF Text
  <2>2. o \in Text /\ Out(w) = Squeezed(o, x) /\ Raw(u) = o /\ Plain(u) = Unspaced(o) /\ Plain(u) \in Text
    BY <1>2, OutGrows, RawGrows DEF OutOn, RawOn
  <2>3. Space(o) <=> Space(u)
    BY <1>2
  <2>4. /\ Raw(w) = o \o (IF x # " " \/ ~Space(u) THEN <<x>> ELSE <<>>)
        /\ x # " " => Plain(w) = o \o <<x>>
        /\ x = " " => Plain(w) = Plain(u) \o <<>>
    BY <2>2, RawGrows DEF RawOn
  <2> DEFINE Good(t) == Plain(t) = Unspaced(Out(t)) /\ Out(t) = Raw(t) /\ (Space(Out(t)) <=> Space(t))
  <2> HIDE DEF w, o, G
  <2>0. Good(w) => w \in G
    BY <2>1 DEF G
  <2> HIDE DEF Good
  <2>5. o \o <<x>> = Append(o, x) /\ o \o <<>> = o /\ Plain(u) \o <<>> = Plain(u)
    BY <2>2, AppendIsConcat, ConcatEmptySeq DEF Text
  <2>6. Append(o, x) # <<>> /\ Append(o, x)[Len(Append(o, x))] = x
        /\ Front(Append(o, x)) = o /\ Last(Append(o, x)) = x
    BY <2>2, Grown, FrontLast DEF Text
  <2>7. Space(w) <=> x = " "
    BY <2>1 DEF Space
  <2>8. Last(o) = o[Len(o)]
    BY DEF Last
  <2>9. CASE x = " " /\ Space(o)
    <3>1. Out(w) = o /\ Raw(w) = o /\ Plain(w) = Plain(u)
      BY <2>2, <2>3, <2>4, <2>5, <2>8, <2>9 DEF Squeezed, Space
    <3>2. Good(w)
      BY <2>2, <2>7, <2>9, <3>1 DEF Good
    <3> QED BY <2>0, <3>2 DEF w
  <2>10. CASE x = " " /\ ~Space(o)
    <3>1. Out(w) = Append(o, x) /\ Raw(w) = Append(o, x) /\ Plain(w) = Plain(u)
      BY <2>2, <2>3, <2>4, <2>5, <2>8, <2>10 DEF Squeezed, Space
    <3>2. Unspaced(Append(o, x)) = o /\ Unspaced(o) = o
      BY <2>6, <2>8, <2>10 DEF Unspaced, Space
    <3>3. Space(Append(o, x))
      BY <2>6, <2>10 DEF Space
    <3>4. Good(w)
      BY <2>2, <2>7, <2>10, <3>1, <3>2, <3>3 DEF Good
    <3> QED BY <2>0, <3>4 DEF w
  <2>11. CASE x # " "
    <3>1. Out(w) = Append(o, x) /\ Raw(w) = Append(o, x) /\ Plain(w) = Append(o, x)
      BY <2>2, <2>4, <2>5, <2>11 DEF Squeezed
    <3>2. Unspaced(Append(o, x)) = Append(o, x)
      BY <2>6, <2>11 DEF Unspaced
    <3>3. ~Space(Append(o, x))
      BY <2>6, <2>11 DEF Space
    <3>4. Good(w)
      BY <2>7, <2>11, <3>1, <3>2, <3>3 DEF Good
    <3> QED BY <2>0, <3>4 DEF w
  <2> QED BY <2>9, <2>10, <2>11 DEF w
<1> HIDE DEF G
<1>3. \A u \in Seq(Symbol) : u \in G
  <2> HIDE DEF e
  <2> QED BY <1>1, <1>2, SeqInd DEF e, Text
<1>4. Plain(v) = Unspaced(Out(v))
  BY <1>3 DEF G, Text
<1>7. Plain(v) \in Text
  BY <1>6 DEF RawOn
<1> QED BY <1>4, <1>7, TrimmedIs

-----------------------------------------------------------------------------
(* Sorting: each element put behind those that do not come after it        *)

WeakOrder(R, E) ==
    /\ \A x, y \in E : <<x, y>> \in R => <<y, x>> \notin R
    /\ \A x, y, z \in E : <<x, y>> \notin R /\ <<y, z>> \notin R => <<x, z>> \notin R

Sorted(s, R) == \A i, j \in DOMAIN s : i < j => <<s[j], s[i]>> \notin R
NotAfter(s, R, x) == {i \in DOMAIN s : <<x, s[i]>> \notin R}
Inserted(s, R, x) == InsertAt(s, 1 + Cardinality(NotAfter(s, R, x)), x)

\* The first c elements do not come after x, and the others do.
CutsAt(s, R, x, c) == /\ \A i \in 1..c : <<x, s[i]>> \notin R
                      /\ \A i \in c + 1..Len(s) : <<x, s[i]>> \in R
                      /\ Inserted(s, R, x) = (SubSeq(s, 1, c) \o <<x>>) \o SubSeq(s, c + 1, Len(s))

\* The elements of a sorted sequence that do not come after x come first.
LEMMA InsertedCuts ==
  ASSUME NEW E, NEW R, WeakOrder(R, E), NEW s \in Seq(E), Sorted(s, R), NEW x \in E
  PROVE  \E c \in 0..Len(s) : CutsAt(s, R, x, c)
<1> DEFINE n == Len(s)
           K == NotAfter(s, R, x)
           T == {i \in 1..n : i \notin K}
<1>1. n \in Nat /\ DOMAIN s = 1..n /\ \A i \in 1..n : s[i] \in E
  OBVIOUS
<1> HIDE DEF n
<1>2. \A i \in 1..n : i \in K <=> <<x, s[i]>> \notin R
  BY <1>1 DEF NotAfter
<1>3. K \subseteq 1..n
  BY <1>1 DEF NotAfter
<1> HIDE DEF K
<1>4. ASSUME NEW i \in 1..n, NEW j \in 1..n, i < j, j \in K PROVE i \in K
  <2>1. <<x, s[j]>> \notin R /\ <<s[j], s[i]>> \notin R /\ s[i] \in E /\ s[j] \in E
    BY <1>1, <1>2, <1>4 DEF Sorted
  <2>2. <<x, s[i]>> \notin R
    BY <2>1 DEF WeakOrder
  <2> QED BY <1>2, <2>2
<1>5. PICK c \in 0..n : K = 1..c
  <2>1. CASE T = {}
    <3>1. K = 1..n
      BY <1>3, <2>1
    <3> QED BY <1>1, <3>1
  <2>2. CASE T # {}
    <3>1. PICK m \in T : \A k \in T : m <= k
      <4>1. T \in SUBSET Nat
        BY <1>1
      <4> HIDE DEF T
      <4> QED BY <2>2, <4>1, LeastNat
    <3>2. m \in 1..n /\ m \notin K
      BY <3>1
    <3>3. ASSUME NEW k \in 1..n PROVE k \in K <=> k < m
      <4>1. CASE k < m
        <5>1. k \notin T
          BY <1>1, <3>1, <3>2, <4>1
        <5> QED BY <4>1, <5>1
      <4>2. CASE k = m
        BY <1>1, <3>2, <4>2
      <4>3. CASE k > m
        <5>1. k \notin K
          BY <1>4, <3>2, <4>3
        <5> QED BY <1>1, <3>2, <4>3, <5>1
      <4> QED BY <1>1, <3>2, <4>1, <4>2, <4>3
    <3>4. m - 1 \in 0..n
      BY <1>1, <3>2
    <3>5. K = 1..m - 1
      <4> HIDE DEF T
      <4>1. ASSUME NEW k \in K PROVE k \in 1..m - 1
        BY <1>1, <1>3, <3>2, <3>3
      <4>2. ASSUME NEW k \in 1..m - 1 PROVE k \in K
        BY <1>1, <3>2, <3>3
      <4> QED BY <4>1, <4>2
    <3> QED BY <3>4, <3>5
  <2> QED BY <2>1, <2>2
<1>6. Cardinality(K) = c /\ c \in Nat
  <2>1. c \in Int /\ 1 \in Int /\ c \in Nat
    BY <1>1
  <2>2. Cardinality(1..c) = IF 1 > c THEN 0 ELSE c - 1 + 1
    BY <2>1, FS_Interval
  <2> QED BY <1>5, <2>1, <2>2
<1>7. Inserted(s, R, x) = (SubSeq(s, 1, c) \o <<x>>) \o SubSeq(s, c + 1, Len(s))
  <2>1. (1 + c) - 1 = c /\ 1 + c = c + 1
    BY <1>6
  <2>2. Inserted(s, R, x) = InsertAt(s, 1 + c, x)
    BY <1>6 DEF Inserted, K
  <2> QED BY <2>1, <2>2 DEF InsertAt
<1>8. \A i \in 1..c : <<x, s[i]>> \notin R
  <2> SUFFICES ASSUME NEW i \in 1..c PROVE <<x, s[i]>> \notin R
    OBVIOUS
  <2>1. i \in 1..n /\ i \in K
    BY <1>1, <1>5, <1>6
  <2> QED BY <1>2, <2>1
<1>9. \A i \in c + 1..n : <<x, s[i]>> \in R
  <2> SUFFICES ASSUME NEW i \in c + 1..n PROVE <<x, s[i]>> \in R
    OBVIOUS
  <2>1. i \in 1..n /\ i \notin K
    BY <1>1, <1>5, <1>6
  <2> QED BY <1>2, <2>1
<1> QED BY <1>7, <1>8, <1>9 DEF CutsAt, n

\* Two parts of a sequence, with x between them.
Between(s, x, c) == (SubSeq(s, 1, c) \o <<x>>) \o SubSeq(s, c + 1, Len(s))

BetweenOn(E, s, x, c) ==
    /\ SubSeq(s, 1, c) \in Seq(E) /\ SubSeq(s, c + 1, Len(s)) \in Seq(E)
    /\ s = SubSeq(s, 1, c) \o SubSeq(s, c + 1, Len(s))
    /\ \A i \in 1..Len(SubSeq(s, c + 1, Len(s))) :
           c + i \in c + 1..Len(s) /\ SubSeq(s, c + 1, Len(s))[i] = s[c + i]
    /\ Between(s, x, c) \in Seq(E) /\ Len(Between(s, x, c)) = Len(s) + 1
    /\ \A i \in 1..Len(s) + 1 :
           /\ i <= c => Between(s, x, c)[i] = s[i]
           /\ i = c + 1 => Between(s, x, c)[i] = x
           /\ i > c + 1 => Between(s, x, c)[i] = s[i - 1]

\* The elements of such a sequence.
LEMMA BetweenIs ==
  ASSUME NEW E, NEW s \in Seq(E), NEW x \in E, NEW c \in 0..Len(s)
  PROVE  BetweenOn(E, s, x, c)
<1> DEFINE n == Len(s)
           a == SubSeq(s, 1, c)
           b == SubSeq(s, c + 1, n)
           ax == a \o <<x>>
<1>1. n \in Nat /\ c \in 0..n /\ c \in Nat /\ \A i \in 1..n : s[i] \in E
  OBVIOUS
<1>2. a \in Seq(E) /\ Len(a) = c /\ \A i \in 1..c : a[i] = s[i]
  <2>1. \A i \in 1..c : s[i] \in E
    BY <1>1
  <2>2. a \in Seq(E) /\ Len(a) = (IF 1 <= c THEN c - 1 + 1 ELSE 0) /\ \A i \in 1..c - 1 + 1 : a[i] = s[1 + i - 1]
    <3>1. 1 \in Int /\ c \in Int
      BY <1>1
    <3> HIDE DEF n
    <3> QED BY <2>1, <3>1, SubSeqProperties
  <2>3. \A i \in 1..c : 1 + i - 1 = i /\ i \in 1..c - 1 + 1
    BY <1>1
  <2> HIDE DEF a
  <2>4. Len(a) = c
    BY <1>1, <2>2
  <2>5. \A i \in 1..c : a[i] = s[i]
    BY <2>2, <2>3
  <2> QED BY <2>2, <2>4, <2>5
<1>3. b \in Seq(E) /\ Len(b) = n - c /\ \A i \in 1..n - c : b[i] = s[c + i]
  <2>1. \A i \in c + 1..n : s[i] \in E
    BY <1>1
  <2>2. b \in Seq(E) /\ Len(b) = (IF c + 1 <= n THEN n - (c + 1) + 1 ELSE 0)
        /\ \A i \in 1..n - (c + 1) + 1 : b[i] = s[(c + 1) + i - 1]
    <3>1. c + 1 \in Int /\ n \in Int
      BY <1>1
    <3> HIDE DEF n
    <3> QED BY <2>1, <3>1, SubSeqProperties
  <2>3. \A i \in 1..n - c : (c + 1) + i - 1 = c + i /\ i \in 1..n - (c + 1) + 1
    BY <1>1
  <2> HIDE DEF b, n
  <2>4. Len(b) = n - c
    BY <1>1, <2>2
  <2>5. \A i \in 1..n - c : b[i] = s[c + i]
    BY <2>2, <2>3
  <2> QED BY <2>2, <2>4, <2>5
<1> HIDE DEF n, a, b
<1>4. ax \in Seq(E) /\ Len(ax) = c + 1 /\ ax[c + 1] = x /\ \A i \in 1..c : ax[i] = s[i]
  <2>1. ax = Append(a, x)
    BY <1>2, Grown
  <2> HIDE DEF ax
  <2> QED BY <1>2, <2>1, Grown
<1> HIDE DEF ax
<1>5. ax \o b \in Seq(E) /\ Len(ax \o b) = (c + 1) + (n - c)
      /\ \A i \in 1..(c + 1) + (n - c) : (ax \o b)[i] = IF i <= c + 1 THEN ax[i] ELSE b[i - (c + 1)]
  <2>1. /\ ax \o b \in Seq(E) /\ Len(ax \o b) = Len(ax) + Len(b)
        /\ \A i \in 1..Len(ax) + Len(b) : (ax \o b)[i] = IF i <= Len(ax) THEN ax[i] ELSE b[i - Len(ax)]
    BY <1>3, <1>4, ConcatProperties
  <2> QED BY <1>3, <1>4, <2>1, Zenon
<1>6. (c + 1) + (n - c) = n + 1
  BY <1>1
<1>7. ASSUME NEW i \in 1..n + 1
      PROVE  /\ i <= c => (ax \o b)[i] = s[i]
             /\ i = c + 1 => (ax \o b)[i] = x
             /\ i > c + 1 => (ax \o b)[i] = s[i - 1]
  <2>1. CASE i <= c
    <3>1. i \in 1..c /\ i <= c + 1 /\ ~(i = c + 1) /\ ~(i > c + 1)
      BY <1>1, <2>1
    <3> QED BY <1>4, <1>5, <1>6, <3>1
  <2>2. CASE i = c + 1
    <3>1. ~(i <= c) /\ ~(i > c + 1) /\ i <= c + 1
      BY <1>1, <2>2
    <3> QED BY <1>4, <1>5, <1>6, <2>2, <3>1
  <2>3. CASE i > c + 1
    <3>1. ~(i <= c) /\ ~(i = c + 1) /\ ~(i <= c + 1) /\ i - (c + 1) \in 1..n - c /\ c + (i - (c + 1)) = i - 1
      BY <1>1, <2>3
    <3>2. (ax \o b)[i] = b[i - (c + 1)]
      BY <1>5, <1>6, <3>1
    <3> QED BY <1>3, <3>1, <3>2
  <2> QED BY <1>1, <2>1, <2>2, <2>3
<1>8. s = a \o b
  <2>1. a \o b \in Seq(E) /\ Len(a \o b) = c + (n - c)
        /\ \A i \in 1..c + (n - c) : (a \o b)[i] = IF i <= c THEN a[i] ELSE b[i - c]
    BY <1>2, <1>3, ConcatProperties
  <2>2. c + (n - c) = n
    BY <1>1
  <2>3. ASSUME NEW i \in 1..n PROVE (a \o b)[i] = s[i]
    <3>1. CASE i <= c
      <4>1. i \in 1..c
        BY <1>1, <3>1
      <4> QED BY <1>2, <2>1, <2>2, <3>1, <4>1
    <3>2. CASE ~(i <= c)
      <4>1. i - c \in 1..n - c /\ c + (i - c) = i
        BY <1>1, <3>2
      <4> QED BY <1>3, <2>1, <2>2, <3>2, <4>1
    <3> QED BY <3>1, <3>2
  <2>4. Len(a \o b) = Len(s) /\ \A i \in 1..Len(s) : s[i] = (a \o b)[i]
    BY <2>1, <2>2, <2>3 DEF n
  <2> QED BY <2>1, <2>4, SeqEqual
<1>9. \A i \in 1..Len(b) : c + i \in c + 1..n /\ b[i] = s[c + i]
  BY <1>1, <1>3
<1>10. ax \o b = Between(s, x, c)
  BY DEF Between, ax, a, b, n
<1> QED BY <1>2, <1>3, <1>5, <1>6, <1>7, <1>8, <1>9, <1>10, Zenon DEF BetweenOn, a, b, n

\* An element put in its place leaves the sequence sorted.
LEMMA InsertedSorted ==
  ASSUME NEW E, NEW R, WeakOrder(R, E), NEW s \in Seq(E), Sorted(s, R), NEW x \in E
  PROVE  Inserted(s, R, x) \in Seq(E) /\ Sorted(Inserted(s, R, x), R)
<1> DEFINE n == Len(s)
<1>1. PICK c \in 0..n : CutsAt(s, R, x, c)
  BY InsertedCuts
<1> DEFINE w == Between(s, x, c)
<1>2. BetweenOn(E, s, x, c)
  BY <1>1, BetweenIs
<1>3. Inserted(s, R, x) = w
  BY <1>1 DEF CutsAt, Between
<1>4. n \in Nat /\ DOMAIN s = 1..n /\ c \in Nat /\ c <= n /\ \A i \in 1..n : s[i] \in E
  BY <1>1
<1>5. w \in Seq(E) /\ Len(w) = n + 1
  BY <1>2 DEF BetweenOn
<1>6. \A i \in 1..n + 1 : /\ i <= c => w[i] = s[i]
                          /\ i = c + 1 => w[i] = x
                          /\ i > c + 1 => w[i] = s[i - 1]
  BY <1>2 DEF BetweenOn
<1>7. /\ \A i \in 1..c : <<x, s[i]>> \notin R
      /\ \A i \in c + 1..n : <<x, s[i]>> \in R
  BY <1>1 DEF CutsAt
<1> HIDE DEF w, n
<1>8. DOMAIN w = 1..n + 1
  BY <1>5
<1>9. ASSUME NEW i \in 1..n + 1, NEW j \in 1..n + 1, i < j PROVE <<w[j], w[i]>> \notin R
  <2>1. CASE j <= c
    <3>1. i \in 1..n /\ j \in 1..n /\ i <= c
      BY <1>4, <1>9, <2>1
    <3>2. w[i] = s[i] /\ w[j] = s[j]
      BY <1>6, <2>1, <3>1
    <3> QED BY <1>4, <1>9, <3>1, <3>2 DEF Sorted
  <2>2. CASE j = c + 1
    <3>1. i \in 1..c /\ i <= c
      BY <1>4, <1>9, <2>2
    <3>2. w[i] = s[i] /\ w[j] = x
      BY <1>6, <2>2, <3>1
    <3> QED BY <1>7, <3>1, <3>2
  <2>3. CASE j > c + 1 /\ i <= c
    <3>1. i \in 1..n /\ j - 1 \in 1..n /\ i < j - 1
      BY <1>4, <1>9, <2>3
    <3>2. w[i] = s[i] /\ w[j] = s[j - 1]
      BY <1>6, <2>3
    <3> QED BY <1>4, <3>1, <3>2 DEF Sorted
  <2>4. CASE j > c + 1 /\ i = c + 1
    <3>1. j - 1 \in c + 1..n /\ j - 1 \in 1..n
      BY <1>4, <1>9, <2>4
    <3>2. w[i] = x /\ w[j] = s[j - 1]
      BY <1>6, <2>4
    <3>3. <<x, s[j - 1]>> \in R /\ s[j - 1] \in E
      BY <1>4, <1>7, <3>1
    <3> QED BY <3>2, <3>3 DEF WeakOrder
  <2>5. CASE j > c + 1 /\ i > c + 1
    <3>1. i - 1 \in 1..n /\ j - 1 \in 1..n /\ i - 1 < j - 1
      BY <1>4, <1>9, <2>5
    <3>2. w[i] = s[i - 1] /\ w[j] = s[j - 1]
      BY <1>6, <2>5
    <3> QED BY <1>4, <3>1, <3>2 DEF Sorted
  <2> QED BY <1>4, <2>1, <2>2, <2>3, <2>4, <2>5
<1>10. Sorted(w, R)
  BY <1>8, <1>9 DEF Sorted
<1> QED BY <1>3, <1>5, <1>10

\* g gives something for at most one of two elements that are not equivalent.
Alike(R, E, g) == \A x, y \in E : <<x, y>> \in R => g[x] = <<>> \/ g[y] = <<>>

\* A sequence whose elements map to nothing maps to nothing.
LEMMA MappedNone ==
  ASSUME NEW E, NEW V, NEW g \in [E -> Seq(V)], NEW s \in Seq(E), \A i \in 1..Len(s) : g[s[i]] = <<>>
  PROVE  Mapped(s, g) = <<>>
<1> DEFINE b == <<>>
           N == {t \in Seq(E) : (\A i \in 1..Len(t) : g[t[i]] = b) => Mapped(t, g) = b}
<1>1. <<>> \in N
  BY MappedEmpty
<1>2. b \in Seq(V)
  OBVIOUS
<1> HIDE DEF b
<1>3. ASSUME NEW u \in Seq(E), NEW x \in E, u \in N PROVE Append(u, x) \in N
  <2> DEFINE w == Append(u, x)
             n == Len(u)
  <2>1. n \in Nat /\ w \in Seq(E) /\ Len(w) = n + 1 /\ w[n + 1] = x /\ \A i \in 1..n : w[i] = u[i]
    BY Grown
  <2>2. Mapped(w, g) = Mapped(u, g) \o g[x]
    <3>1. MapsOn(V, u, x, g)
      BY MappedGrows
    <3> QED BY <3>1 DEF MapsOn
  <2> HIDE DEF w, n
  <2>3. ASSUME \A i \in 1..n + 1 : g[w[i]] = b PROVE Mapped(w, g) = b
    <3>1. \A i \in 1..n : i \in 1..n + 1
      BY <2>1
    <3>2. \A i \in 1..n : g[u[i]] = b
      BY <2>1, <2>3, <3>1
    <3>3. n + 1 \in 1..n + 1
      BY <2>1
    <3>4. g[x] = b
      BY <2>1, <2>3, <3>3
    <3>5. Mapped(u, g) = b
      BY <1>3, <3>2 DEF n
    <3>6. b \o b = b
      BY <1>2, ConcatEmptySeq DEF b
    <3> QED BY <2>2, <3>4, <3>5, <3>6
  <2> QED BY <2>1, <2>3 DEF w
<1> HIDE DEF N
<1>4. s \in N
  BY <1>1, <1>3, SeqInd
<1> QED BY <1>4 DEF N, b

MapsIn(s, R, x, g) == Mapped(Inserted(s, R, x), g) = Mapped(s, g) \o g[x]

\* Putting an element in its place leaves the order of the equivalent ones.
LEMMA MappedInserted ==
  ASSUME NEW E, NEW R, WeakOrder(R, E), NEW V, NEW g \in [E -> Seq(V)], Alike(R, E, g),
         NEW s \in Seq(E), Sorted(s, R), NEW x \in E
  PROVE  MapsIn(s, R, x, g)
<1> DEFINE n == Len(s)
           nil == <<>>
<1>1. PICK c \in 0..n : CutsAt(s, R, x, c)
  BY InsertedCuts
<1> DEFINE a == SubSeq(s, 1, c)
           b == SubSeq(s, c + 1, n)
           ax == a \o <<x>>
<1>2. BetweenOn(E, s, x, c)
  BY <1>1, BetweenIs
<1>3. a \in Seq(E) /\ b \in Seq(E) /\ s = a \o b
  BY <1>2 DEF BetweenOn
<1>4. \A i \in 1..Len(b) : c + i \in c + 1..n /\ b[i] = s[c + i]
  BY <1>2 DEF BetweenOn
<1>5. Inserted(s, R, x) = ax \o b
  BY <1>1 DEF CutsAt
<1>6. \A i \in c + 1..n : <<x, s[i]>> \in R
  BY <1>1 DEF CutsAt
<1>7. nil \in Seq(V)
  OBVIOUS
<1> HIDE DEF a, b, n
<1>8. ax = Append(a, x) /\ ax \in Seq(E)
  BY <1>3, Grown
<1> HIDE DEF ax
<1>9. Mapped(ax, g) = Mapped(a, g) \o g[x] /\ g[x] \in Seq(V) /\ Mapped(a, g) \in Seq(V)
  <2>1. MapsOn(V, a, x, g)
    BY <1>3, MappedGrows
  <2> QED BY <1>8, <2>1 DEF MapsOn
<1>10. Mapped(ax \o b, g) = Mapped(ax, g) \o Mapped(b, g)
  <2>1. MapsApart(V, ax, b, g)
    BY <1>3, <1>8, MappedConcat
  <2> QED BY <2>1 DEF MapsApart
<1>11. Mapped(s, g) = Mapped(a, g) \o Mapped(b, g)
  <2>1. MapsApart(V, a, b, g)
    BY <1>3, MappedConcat
  <2> QED BY <1>3, <2>1 DEF MapsApart
<1>12. Mapped(b, g) \in Seq(V) /\ Mapped(s, g) \in Seq(V)
  BY <1>3, MappedIn
<1> HIDE DEF nil
<1>13. \A t \in Seq(V) : t \o nil = t /\ nil \o t = t
  BY ConcatEmptySeq DEF nil
<1>14. CASE g[x] = nil
  BY <1>5, <1>9, <1>10, <1>11, <1>12, <1>13, <1>14 DEF MapsIn
<1>15. CASE g[x] # nil
  <2>1. ASSUME NEW i \in 1..Len(b) PROVE g[b[i]] = <<>>
    <3>1. <<x, b[i]>> \in R
      BY <1>4, <1>6
    <3>2. b[i] \in E
      BY <1>3
    <3> QED BY <1>15, <3>1, <3>2 DEF Alike, nil
  <2>2. Mapped(b, g) = nil
    BY <1>3, <2>1, MappedNone DEF nil
  <2>3. (Mapped(a, g) \o g[x]) \in Seq(V)
    BY <1>9
  <2> QED BY <1>5, <1>9, <1>10, <1>11, <1>13, <2>2, <2>3 DEF MapsIn
<1> QED BY <1>14, <1>15

SortedSeqs(E, R) == {s \in Seq(E) : Sorted(s, R)}
InsertStep(E, R) == [q \in SortedSeqs(E, R) \X E |-> Inserted(q[1], R, q[2])]
SortedBy(E, R, s) == Folded(SortedSeqs(E, R), <<>>, InsertStep(E, R), s)

\* Insertion keeps to the sorted sequences.
LEMMA InsertSteps ==
  ASSUME NEW E, NEW R, WeakOrder(R, E)
  PROVE  /\ <<>> \in SortedSeqs(E, R)
         /\ InsertStep(E, R) \in [SortedSeqs(E, R) \X E -> SortedSeqs(E, R)]
         /\ \A s \in SortedSeqs(E, R), x \in E : InsertStep(E, R)[<<s, x>>] = Inserted(s, R, x)
<1>1. <<>> \in SortedSeqs(E, R)
  BY DEF SortedSeqs, Sorted
<1>2. \A s \in SortedSeqs(E, R), x \in E : Inserted(s, R, x) \in SortedSeqs(E, R)
  BY InsertedSorted DEF SortedSeqs
<1> HIDE DEF SortedSeqs
<1> QED BY <1>1, <1>2 DEF InsertStep

\* The outcome of sorting: the same elements, in order.
SortsTo(E, R, s) == SortedBy(E, R, s) \in Seq(E) /\ Sorted(SortedBy(E, R, s), R)

\* What is sorted is in order.
LEMMA SortedByIs ==
  ASSUME NEW E, NEW R, WeakOrder(R, E), NEW s \in Seq(E)
  PROVE  SortsTo(E, R, s)
<1> DEFINE b == <<>>
<1>1. /\ b \in SortedSeqs(E, R)
      /\ InsertStep(E, R) \in [SortedSeqs(E, R) \X E -> SortedSeqs(E, R)]
  BY InsertSteps
<1> HIDE DEF b
<1>2. Folded(SortedSeqs(E, R), b, InsertStep(E, R), s) \in SortedSeqs(E, R)
  BY <1>1, FoldIn
<1>3. SortedBy(E, R, s) \in SortedSeqs(E, R)
  BY <1>2 DEF SortedBy, b
<1> QED BY <1>3 DEF SortsTo, SortedSeqs

SortGrowsTo(E, R, s, x) == /\ SortedBy(E, R, <<>>) = <<>>
                           /\ SortedBy(E, R, Append(s, x)) = Inserted(SortedBy(E, R, s), R, x)

\* An element more.
LEMMA SortGrows ==
  ASSUME NEW E, NEW R, WeakOrder(R, E), NEW s \in Seq(E), NEW x \in E
  PROVE  SortGrowsTo(E, R, s, x)
<1> DEFINE b == <<>>
           V == SortedSeqs(E, R)
           step == InsertStep(E, R)
<1>1. b \in V /\ step \in [V \X E -> V] /\ \A t \in V, y \in E : step[<<t, y>>] = Inserted(t, R, y)
  BY InsertSteps
<1> HIDE DEF b, V, step
<1>2. FoldsOn(V, b, step, s, x)
  BY <1>1, FoldGrows
<1>3. Folded(V, b, step, <<>>) = b
  BY <1>1, FoldEmpty
<1>4. Folded(V, b, step, Append(s, x)) = Inserted(Folded(V, b, step, s), R, x)
  BY <1>1, <1>2 DEF FoldsOn
<1> QED BY <1>3, <1>4 DEF SortGrowsTo, SortedBy, V, b, step

SortsAlike(E, R, s, g) == Mapped(SortedBy(E, R, s), g) = Mapped(s, g)

\* Sorting leaves the order of the equivalent ones.
LEMMA MappedSorted ==
  ASSUME NEW E, NEW R, WeakOrder(R, E), NEW V, NEW g \in [E -> Seq(V)], Alike(R, E, g), NEW s \in Seq(E)
  PROVE  SortsAlike(E, R, s, g)
<1> DEFINE G == {t \in Seq(E) : SortsAlike(E, R, t, g)}
<1>1. ASSUME NEW x \in E PROVE <<>> \in G
  <2>1. SortGrowsTo(E, R, <<>>, x)
    <3> DEFINE e == <<>>
    <3>1. e \in Seq(E)
      OBVIOUS
    <3> HIDE DEF e
    <3>2. SortGrowsTo(E, R, e, x)
      BY <3>1, SortGrows
    <3> QED BY <3>2 DEF e
  <2> QED BY <2>1 DEF SortGrowsTo, SortsAlike
<1>2. ASSUME NEW u \in Seq(E), NEW x \in E, u \in G PROVE Append(u, x) \in G
  <2> DEFINE t == SortedBy(E, R, u)
             w == Append(u, x)
  <2>1. t \in Seq(E) /\ Sorted(t, R)
    BY SortedByIs DEF SortsTo
  <2>2. SortedBy(E, R, w) = Inserted(t, R, x)
    BY SortGrows DEF SortGrowsTo
  <2>3. w \in Seq(E)
    OBVIOUS
  <2>4. Mapped(t, g) = Mapped(u, g)
    BY <1>2 DEF SortsAlike
  <2> HIDE DEF t, w
  <2>5. Mapped(Inserted(t, R, x), g) = Mapped(t, g) \o g[x]
    <3>1. MapsIn(t, R, x, g)
      BY <2>1, MappedInserted
    <3> QED BY <3>1 DEF MapsIn
  <2>6. Mapped(w, g) = Mapped(u, g) \o g[x]
    <3>1. MapsOn(V, u, x, g)
      BY MappedGrows
    <3> QED BY <3>1 DEF MapsOn, w
  <2>7. SortsAlike(E, R, w, g)
    BY <2>2, <2>4, <2>5, <2>6 DEF SortsAlike
  <2> QED BY <2>3, <2>7 DEF w
<1> HIDE DEF G
<1>3. CASE E = {}
  <2>1. s = <<>>
    BY <1>3
  <2>2. SortedBy(E, R, <<>>) = <<>>
    <3> DEFINE b == <<>>
    <3>1. b \in SortedSeqs(E, R) /\ InsertStep(E, R) \in [SortedSeqs(E, R) \X E -> SortedSeqs(E, R)]
      BY InsertSteps
    <3> HIDE DEF b
    <3>2. Folded(SortedSeqs(E, R), b, InsertStep(E, R), <<>>) = b
      BY <3>1, FoldEmpty
    <3> QED BY <3>2 DEF SortedBy, b
  <2> QED BY <2>1, <2>2 DEF SortsAlike
<1>4. CASE E # {}
  <2>1. s \in G
    BY <1>1, <1>2, <1>4, SeqInd
  <2> QED BY <2>1 DEF G
<1> QED BY <1>3, <1>4

-----------------------------------------------------------------------------
(* The order of strcmp                                                     *)

\* A code is a number, and 0 only past the end.
LEMMA Codes ==
  ASSUME NEW s \in Text, NEW i \in Nat \ {0}
  PROVE  /\ CodeAt(s, i) \in Nat
         /\ i \in 1..Len(s) => CodeAt(s, i) > 0 /\ CodeAt(s, i) = Rank[s[i]] /\ s[i] \in Symbol
         /\ i \notin 1..Len(s) => CodeAt(s, i) = 0
<1>1. Len(s) \in Nat /\ DOMAIN s = 1..Len(s) /\ \A k \in 1..Len(s) : s[k] \in Symbol
  BY DEF Text
<1>2. CASE i \in 1..Len(s)
  <2>1. s[i] \in Symbol /\ CodeAt(s, i) = Rank[s[i]]
    BY <1>1, <1>2 DEF CodeAt
  <2>2. Rank[s[i]] \in 1..43
    BY <2>1, Ranks
  <2>3. Rank[s[i]] \in Nat /\ Rank[s[i]] > 0
    BY <2>2
  <2> QED BY <1>2, <2>1, <2>3
<1>3. CASE i \notin 1..Len(s)
  BY <1>1, <1>3 DEF CodeAt
<1> QED BY <1>2, <1>3

\* Texts with the same codes are the same.
LEMMA CodesTell ==
  ASSUME NEW s \in Text, NEW t \in Text, \A i \in Nat \ {0} : CodeAt(s, i) = CodeAt(t, i)
  PROVE  s = t
<1>1. s \in Seq(Symbol) /\ t \in Seq(Symbol) /\ Len(s) \in Nat /\ Len(t) \in Nat
  BY DEF Text
<1>2. ASSUME NEW a \in Text, NEW b \in Text, \A i \in Nat \ {0} : CodeAt(a, i) = CodeAt(b, i),
             Len(a) \in Nat, Len(b) \in Nat, Len(a) < Len(b)
      PROVE  FALSE
  <2>1. Len(b) \in Nat \ {0} /\ Len(b) \in 1..Len(b) /\ Len(b) \notin 1..Len(a)
    BY <1>2
  <2>2. CodeAt(b, Len(b)) > 0 /\ CodeAt(a, Len(b)) = 0
    BY <2>1, Codes
  <2> QED BY <1>2, <2>1, <2>2
<1>3. Len(s) = Len(t)
  <2>1. ~(Len(s) < Len(t)) /\ ~(Len(t) < Len(s))
    BY <1>1, <1>2
  <2> QED BY <1>1, <2>1
<1>4. ASSUME NEW i \in 1..Len(s) PROVE s[i] = t[i]
  <2>1. i \in Nat \ {0} /\ i \in 1..Len(t)
    BY <1>1, <1>3
  <2>2. CodeAt(s, i) = Rank[s[i]] /\ CodeAt(t, i) = Rank[t[i]] /\ s[i] \in Symbol /\ t[i] \in Symbol
    BY <2>1, Codes
  <2>3. Rank[s[i]] = Rank[t[i]]
    BY <2>1, <2>2
  <2> QED BY <2>2, <2>3, Ranks
<1> QED BY <1>1, <1>3, <1>4, SeqEqual

\* s and t differ at i for the first time, and s is less there.
LessAt(s, t, i) == CodeAt(s, i) < CodeAt(t, i) /\ \A k \in 1..i - 1 : CodeAt(s, k) = CodeAt(t, k)

\* Where Less looks.
LEMMA LessIs ==
  ASSUME NEW s \in Text, NEW t \in Text
  PROVE  Less(s, t) <=> \E i \in Nat \ {0} : LessAt(s, t, i)
<1>1. DOMAIN t = 1..Len(t) /\ Len(t) \in Nat
  BY DEF Text
<1>2. \A i \in 1..Len(t) : i \in Nat \ {0}
  BY <1>1
<1>3. ASSUME NEW i \in Nat \ {0}, LessAt(s, t, i) PROVE i \in 1..Len(t)
  <2>1. CodeAt(s, i) \in Nat /\ CodeAt(s, i) < CodeAt(t, i)
    BY <1>3, Codes DEF LessAt
  <2>2. CodeAt(t, i) # 0
    BY <2>1
  <2> QED BY <2>2, Codes
<1> QED BY <1>1, <1>2, <1>3 DEF Less, LessAt

\* A strict order in which any two texts are compared.
LEMMA LessOrder ==
  ASSUME NEW s \in Text, NEW t \in Text, NEW u \in Text
  PROVE  /\ ~(Less(s, t) /\ Less(t, s))
         /\ s = t \/ Less(s, t) \/ Less(t, s)
         /\ Less(s, t) /\ Less(t, u) => Less(s, u)
<1>1. \A i \in Nat \ {0} : CodeAt(s, i) \in Nat /\ CodeAt(t, i) \in Nat /\ CodeAt(u, i) \in Nat
  BY Codes
<1>2. ASSUME NEW i \in Nat \ {0}, LessAt(s, t, i), NEW j \in Nat \ {0}, LessAt(t, s, j) PROVE FALSE
  <2>1. CASE i < j
    <3>1. i \in 1..j - 1
      BY <2>1
    <3> QED BY <1>1, <1>2, <3>1 DEF LessAt
  <2>2. CASE j < i
    <3>1. j \in 1..i - 1
      BY <2>2
    <3> QED BY <1>1, <1>2, <3>1 DEF LessAt
  <2>3. CASE i = j
    BY <1>1, <1>2, <2>3 DEF LessAt
  <2> QED BY <2>1, <2>2, <2>3
<1>3. ASSUME s # t PROVE Less(s, t) \/ Less(t, s)
  <2> DEFINE D == {i \in Nat \ {0} : CodeAt(s, i) # CodeAt(t, i)}
  <2>1. D # {} /\ D \in SUBSET Nat
    BY <1>3, CodesTell
  <2>2. PICK m \in D : \A k \in D : m <= k
    <3> HIDE DEF D
    <3> QED BY <2>1, LeastNat
  <2>3. m \in Nat \ {0} /\ CodeAt(s, m) # CodeAt(t, m)
    BY <2>2
  <2>4. \A k \in 1..m - 1 : CodeAt(s, k) = CodeAt(t, k)
    <3> SUFFICES ASSUME NEW k \in 1..m - 1 PROVE CodeAt(s, k) = CodeAt(t, k)
      OBVIOUS
    <3>1. k \in Nat \ {0} /\ ~(m <= k)
      BY <2>3
    <3> QED BY <2>2, <3>1
  <2>5. CodeAt(s, m) < CodeAt(t, m) \/ CodeAt(t, m) < CodeAt(s, m)
    BY <1>1, <2>3
  <2>6. LessAt(s, t, m) \/ LessAt(t, s, m)
    BY <2>4, <2>5 DEF LessAt
  <2> QED BY <2>3, <2>6, LessIs
<1>4. ASSUME NEW i \in Nat \ {0}, LessAt(s, t, i), NEW j \in Nat \ {0}, LessAt(t, u, j)
      PROVE  \E m \in Nat \ {0} : LessAt(s, u, m)
  <2>1. CASE i < j
    <3>1. i \in 1..j - 1 /\ \A k \in 1..i - 1 : k \in 1..j - 1
      BY <2>1
    <3>2. CodeAt(t, i) = CodeAt(u, i) /\ CodeAt(s, i) < CodeAt(t, i)
      BY <1>4, <3>1 DEF LessAt
    <3>3. \A k \in 1..i - 1 : CodeAt(s, k) = CodeAt(u, k)
      BY <1>4, <3>1 DEF LessAt
    <3>4. LessAt(s, u, i)
      BY <3>2, <3>3 DEF LessAt
    <3> QED BY <3>4
  <2>2. CASE j < i
    <3>1. j \in 1..i - 1 /\ \A k \in 1..j - 1 : k \in 1..i - 1
      BY <2>2
    <3>2. CodeAt(s, j) = CodeAt(t, j) /\ CodeAt(t, j) < CodeAt(u, j)
      BY <1>4, <3>1 DEF LessAt
    <3>3. \A k \in 1..j - 1 : CodeAt(s, k) = CodeAt(u, k)
      BY <1>4, <3>1 DEF LessAt
    <3>4. LessAt(s, u, j)
      BY <3>2, <3>3 DEF LessAt
    <3> QED BY <3>4
  <2>3. CASE i = j
    <3>1. CodeAt(s, i) < CodeAt(u, i)
      BY <1>1, <1>4, <2>3 DEF LessAt
    <3>2. \A k \in 1..i - 1 : CodeAt(s, k) = CodeAt(u, k)
      BY <1>4, <2>3 DEF LessAt
    <3>3. LessAt(s, u, i)
      BY <3>1, <3>2 DEF LessAt
    <3> QED BY <3>3
  <2> QED BY <2>1, <2>2, <2>3
<1>5. Less(s, t) /\ Less(t, u) => Less(s, u)
  <2>1. /\ Less(s, t) <=> \E i \in Nat \ {0} : LessAt(s, t, i)
        /\ Less(t, u) <=> \E i \in Nat \ {0} : LessAt(t, u, i)
        /\ Less(s, u) <=> \E i \in Nat \ {0} : LessAt(s, u, i)
    BY LessIs
  <2> QED BY <1>4, <2>1
<1>6. ~(Less(s, t) /\ Less(t, s))
  <2>1. /\ Less(s, t) <=> \E i \in Nat \ {0} : LessAt(s, t, i)
        /\ Less(t, s) <=> \E i \in Nat \ {0} : LessAt(t, s, i)
    BY LessIs
  <2> QED BY <1>2, <2>1
<1> QED BY <1>3, <1>5, <1>6

Pairs == [name : Text, value : Text]

\* What tells an order in which any two are compared.
Ordered(p, q, r) == /\ ~(EncParamBefore(p, q) /\ EncParamBefore(q, p))
                    /\ p = q \/ EncParamBefore(p, q) \/ EncParamBefore(q, p)
                    /\ EncParamBefore(p, q) /\ EncParamBefore(q, r) => EncParamBefore(p, r)

\* Parameters are in an order of that kind, by name and then by value.
LEMMA PairsOrdered ==
  ASSUME NEW p \in Pairs, NEW q \in Pairs, NEW r \in Pairs
  PROVE  Ordered(p, q, r)
<1>1. p.name \in Text /\ p.value \in Text /\ q.name \in Text /\ q.value \in Text
      /\ r.name \in Text /\ r.value \in Text
  BY DEF Pairs
<1>2. p = [name |-> p.name, value |-> p.value] /\ q = [name |-> q.name, value |-> q.value]
  BY DEF Pairs
<1> DEFINE Tells(a, b, c) == /\ ~(Less(a, b) /\ Less(b, a))
                             /\ a = b \/ Less(a, b) \/ Less(b, a)
                             /\ Less(a, b) /\ Less(b, c) => Less(a, c)
<1>3. \A a, b, c \in Text : Tells(a, b, c)
  BY LessOrder
<1>4. Tells(p.name, q.name, r.name) /\ Tells(p.value, q.value, r.value)
  BY <1>1, <1>3
<1>5. ~(EncParamBefore(p, q) /\ EncParamBefore(q, p))
  BY <1>4 DEF EncParamBefore
<1>6. p = q \/ EncParamBefore(p, q) \/ EncParamBefore(q, p)
  <2>1. p.name = q.name /\ p.value = q.value => p = q
    BY <1>2
  <2> QED BY <1>4, <2>1 DEF EncParamBefore
<1>7. EncParamBefore(p, q) /\ EncParamBefore(q, r) => EncParamBefore(p, r)
  BY <1>4 DEF EncParamBefore
<1> QED BY <1>5, <1>6, <1>7 DEF Ordered

\* A parameter as it is encoded.
EncPairs == {EncParam(p) : p \in Pairs}
PairOrder == {e \in EncPairs \X EncPairs : EncParamBefore(e[1], e[2])}

\* What decoding gives.
DecParam(e) == [name |-> Decoded(e.name), value |-> Decoded(e.value)]

\* Encoded parameters are parameters, and are read back.
LEMMA EncPairsAre ==
  /\ EncPairs \subseteq Pairs
  /\ \A p \in Pairs : EncParam(p) \in EncPairs /\ DecParam(EncParam(p)) = p
<1>1. ASSUME NEW p \in Pairs PROVE EncParam(p) \in Pairs /\ DecParam(EncParam(p)) = p
  <2>1. p.name \in Text /\ p.value \in Text /\ p = [name |-> p.name, value |-> p.value]
    BY DEF Pairs
  <2>2. Encoded(p.name, FALSE, FALSE) \in Text /\ Encoded(p.value, FALSE, FALSE) \in Text
    BY <2>1, EncodedText
  <2>3. Decoded(Encoded(p.name, FALSE, FALSE)) = p.name /\ Decoded(Encoded(p.value, FALSE, FALSE)) = p.value
    BY <2>1, DecodedEncoded
  <2>4. EncParam(p) = [name |-> Encoded(p.name, FALSE, FALSE), value |-> Encoded(p.value, FALSE, FALSE)]
    BY DEF EncParam
  <2> DEFINE a == Encoded(p.name, FALSE, FALSE)
             b == Encoded(p.value, FALSE, FALSE)
             e == EncParam(p)
  <2>7. e = [name |-> a, value |-> b] /\ a \in Text /\ b \in Text
        /\ Decoded(a) = p.name /\ Decoded(b) = p.value
    BY <2>2, <2>3, <2>4
  <2> HIDE DEF Text, a, b, e
  <2>8. e.name = a /\ e.value = b
    BY <2>7
  <2>5. EncParam(p) \in Pairs
    BY <2>7 DEF Pairs, e
  <2>6. DecParam(EncParam(p)) = p
    <3>1. DecParam(e) = [name |-> p.name, value |-> p.value]
      BY <2>7, <2>8 DEF DecParam
    <3> QED BY <2>1, <3>1 DEF e
  <2> QED BY <2>5, <2>6
<1> QED BY <1>1 DEF EncPairs

\* Their order serves to sort them.
LEMMA PairsSort == WeakOrder(PairOrder, EncPairs)
<1>1. \A x, y \in EncPairs : <<x, y>> \in PairOrder <=> EncParamBefore(x, y)
  BY DEF PairOrder
<1>2. \A x, y, z \in EncPairs : Ordered(x, y, z)
  BY EncPairsAre, PairsOrdered
<1> HIDE DEF PairOrder, EncPairs
<1>3. \A x, y \in EncPairs : EncParamBefore(x, y) => ~EncParamBefore(y, x)
  BY <1>2 DEF Ordered
<1>4. \A x, y, z \in EncPairs : ~EncParamBefore(x, y) /\ ~EncParamBefore(y, z) => ~EncParamBefore(x, z)
  <2> SUFFICES ASSUME NEW x \in EncPairs, NEW y \in EncPairs, NEW z \in EncPairs,
                      ~EncParamBefore(x, y), ~EncParamBefore(y, z), EncParamBefore(x, z)
               PROVE  FALSE
    OBVIOUS
  <2>1. x = y \/ EncParamBefore(y, x)
    BY <1>2 DEF Ordered
  <2>2. y = z \/ EncParamBefore(z, y)
    BY <1>2 DEF Ordered
  <2>3. EncParamBefore(y, x) /\ EncParamBefore(x, z) => EncParamBefore(y, z)
    BY <1>2 DEF Ordered
  <2> QED BY <2>1, <2>2, <2>3
<1> QED BY <1>1, <1>3, <1>4 DEF WeakOrder

EncAll(params) == [i \in DOMAIN params |-> EncParam(params[i])]

\* The parameters are encoded, and sorted by insertion.
LEMMA EncParamsIs ==
  ASSUME NEW params \in Seq(Pairs)
  PROVE  /\ EncAll(params) \in Seq(EncPairs)
         /\ Len(EncAll(params)) = Len(params)
         /\ EncParams(params) = SortedBy(EncPairs, PairOrder, EncAll(params))
<1> DEFINE n == Len(params)
           s == EncAll(params)
           b == <<>>
           V == SortedSeqs(EncPairs, PairOrder)
           step == InsertStep(EncPairs, PairOrder)
           Made(f) == f = [i \in 0..n |-> IF i = 0 THEN b ELSE InsertParam(f[i - 1], EncParam(params[i]))]
           f == CHOOSE h : Made(h)
<1>1. n \in Nat /\ DOMAIN params = 1..n /\ \A i \in 1..n : params[i] \in Pairs
  OBVIOUS
<1> HIDE DEF n
<1>2. s \in Seq(EncPairs) /\ Len(s) = n /\ \A i \in 1..n : s[i] = EncParam(params[i]) /\ s[i] \in EncPairs
  <2>1. \A i \in 1..n : EncParam(params[i]) \in EncPairs
    BY <1>1, EncPairsAre
  <2>2. s = [i \in 1..n |-> EncParam(params[i])]
    BY <1>1 DEF EncAll
  <2> HIDE DEF s, EncPairs
  <2> QED BY <1>1, <2>1, <2>2
<1>3. b \in V /\ step \in [V \X EncPairs -> V]
      /\ \A t \in V, x \in EncPairs : step[<<t, x>>] = Inserted(t, PairOrder, x)
  BY PairsSort, InsertSteps
<1>4. ASSUME NEW t \in V, NEW x \in EncPairs PROVE step[<<t, x>>] = InsertParam(t, x)
  <2>1. t \in Seq(EncPairs)
    BY DEF SortedSeqs
  <2>2. NotAfter(t, PairOrder, x) = {i \in DOMAIN t : ~EncParamBefore(x, t[i])}
    <3>1. \A i \in DOMAIN t : t[i] \in EncPairs
      BY <2>1
    <3>2. \A i \in DOMAIN t : <<x, t[i]>> \in PairOrder <=> EncParamBefore(x, t[i])
      BY <3>1 DEF PairOrder
    <3> QED BY <3>2 DEF NotAfter
  <2> QED BY <1>3, <2>2 DEF Inserted, InsertParam
<1> HIDE DEF b, s, V, step
<1>5. PICK g \in [0..Len(s) -> V] : Follows(g, V, b, step, s)
  BY <1>2, <1>3, FoldSteps
<1>6. Made(g)
  <2>1. ASSUME NEW i \in 0..n PROVE g[i] = IF i = 0 THEN b ELSE InsertParam(g[i - 1], EncParam(params[i]))
    <3>1. CASE i = 0
      BY <1>5, <3>1 DEF Follows
    <3>2. CASE i # 0
      <4>1. i \in 1..n /\ i - 1 \in 0..n
        BY <1>1, <3>2
      <4>2. g[i - 1] \in V
        BY <1>2, <1>5, <4>1
      <4>3. g[i] = step[<<g[i - 1], s[i]>>]
        BY <1>2, <1>5, <4>1, <4>2 DEF Follows
      <4> QED BY <1>2, <1>4, <3>2, <4>1, <4>2, <4>3
    <3> QED BY <3>1, <3>2
  <2> QED BY <1>2, <2>1
<1>7. Made(f)
  <2> HIDE DEF Made
  <2> QED BY <1>6
<1>8. EncParams(params) = f[n]
  BY DEF EncParams, n, b
<1> HIDE DEF f
<1>9. Follows(f, V, b, step, s)
  <2>1. f[0] = b
    BY <1>1, <1>7
  <2>2. ASSUME NEW i \in 1..Len(s), f[i - 1] \in V PROVE f[i] = step[<<f[i - 1], s[i]>>]
    <3>1. i \in 0..n /\ i # 0 /\ i \in 1..n
      BY <1>1, <1>2
    <3>2. f[i] = InsertParam(f[i - 1], EncParam(params[i]))
      BY <1>7, <3>1
    <3> QED BY <1>2, <1>4, <2>2, <3>1, <3>2
  <2> QED BY <2>1, <2>2 DEF Follows
<1>10. f[Len(s)] = Folded(V, b, step, s)
  <2>1. b \in V /\ step \in [V \X EncPairs -> V]
    BY <1>3
  <2>2. s \in Seq(EncPairs)
    BY <1>2
  <2> QED BY <1>9, <2>1, <2>2, FoldMade, Zenon
<1>11. SortedBy(EncPairs, PairOrder, s) = f[n]
  BY <1>2, <1>10 DEF SortedBy, V, b, step
<1> QED BY <1>2, <1>8, <1>11 DEF s, n

-----------------------------------------------------------------------------
(* What is written in a buffer that has room                               *)

Itself == [t \in Text |-> t]
FlattensApart(s, t) == FlattenSeq(s \o t) = FlattenSeq(s) \o FlattenSeq(t)

\* Joined sequences of texts.
LEMMA FlattenTexts ==
  ASSUME NEW s \in Seq(Text), NEW t \in Seq(Text)
  PROVE  FlattenSeq(s) \in Text /\ FlattensApart(s, t)
<1>1. Itself \in [Text -> Seq(Symbol)] /\ \A x \in Text : Itself[x] = x
  BY DEF Itself, Text
<1>2. s \o t \in Seq(Text)
  OBVIOUS
<1>3. ASSUME NEW u \in Seq(Text) PROVE Mapped(u, Itself) = FlattenSeq(u)
  <2>1. DOMAIN u = 1..Len(u) /\ u = [i \in 1..Len(u) |-> u[i]]
    OBVIOUS
  <2>2. \A i \in 1..Len(u) : Itself[u[i]] = u[i]
    BY <1>1
  <2>3. [i \in DOMAIN u |-> Itself[u[i]]] = u
    <3> HIDE DEF Itself, Text
    <3> QED BY <2>1, <2>2
  <2> QED BY <2>3 DEF Mapped
<1> HIDE DEF Itself
<1>4. Mapped(s, Itself) \in Seq(Symbol)
  BY <1>1, MappedIn
<1>5. MapsApart(Symbol, s, t, Itself)
  BY <1>1, MappedConcat
<1>6. Mapped(s, Itself) = FlattenSeq(s) /\ Mapped(t, Itself) = FlattenSeq(t) /\ Mapped(s \o t, Itself) = FlattenSeq(s \o t)
  BY <1>2, <1>3
<1> QED BY <1>4, <1>5, <1>6 DEF MapsApart, FlattensApart, Text

Flat(s, x) == FlattenSeq(Append(s, x)) = FlattenSeq(s) \o x /\ FlattenSeq(Append(s, x)) \in Text

\* A text more.
LEMMA FlattenMore ==
  ASSUME NEW s \in Seq(Text), NEW x \in Text
  PROVE  Flat(s, x)
<1> DEFINE w == Append(s, x)
<1>1. w \in Seq(Text) /\ Longer(s, w) /\ w[Len(s) + 1] = x
  BY Grown DEF Longer
<1> HIDE DEF w
<1>2. Flattens(Symbol, s, w)
  BY <1>1, FlattenGrows DEF Text
<1>3. FlattenSeq(w) \in Text
  BY <1>1, FlattenTexts
<1> QED BY <1>1, <1>2, <1>3 DEF Flattens, Flat, w

\* One, two and three texts joined.
LEMMA FlattenFew ==
  ASSUME NEW a \in Text, NEW b \in Text, NEW c \in Text
  PROVE  /\ <<a>> \in Seq(Text) /\ <<a, b, c>> \in Seq(Text)
         /\ FlattenSeq(<<a>>) = a /\ FlattenSeq(<<a, b, c>>) = (a \o b) \o c
<1> DEFINE e == <<>>
<1>1. e \in Seq(Text) /\ a \in Seq(Symbol)
  BY DEF Text
<1> HIDE DEF e, Text
<1>2. Append(e, a) \in Seq(Text) /\ Append(Append(e, a), b) \in Seq(Text)
      /\ Append(Append(Append(e, a), b), c) \in Seq(Text)
  BY <1>1, Grown
<1>3. /\ FlattenSeq(Append(e, a)) = FlattenSeq(e) \o a
      /\ FlattenSeq(Append(Append(e, a), b)) = FlattenSeq(Append(e, a)) \o b
      /\ FlattenSeq(Append(Append(Append(e, a), b), c)) = FlattenSeq(Append(Append(e, a), b)) \o c
  BY <1>1, <1>2, FlattenMore DEF Flat
<1>4. <<a>> = Append(e, a) /\ <<a, b, c>> = Append(Append(Append(e, a), b), c)
  BY DEF e
<1>5. FlattenSeq(e) \o a = a
  <2>1. <<>> \o a = a
    BY <1>1, ConcatEmptySeq
  <2> QED BY <2>1, FlattenEmpty DEF e
<1> QED BY <1>2, <1>3, <1>4, <1>5

Outs == [len : Nat, text : Text]
Start == [len |-> 0, text |-> <<>>]
PutStep(cap) == [q \in Outs \X Text |-> Put(cap, q[1], q[2])]
OutOf(cap, s) == Folded(Outs, Start, PutStep(cap), s)

\* A chunk leaves an output.
LEMMA PutSteps ==
  ASSUME NEW cap \in Nat
  PROVE  /\ Start \in Outs /\ PutStep(cap) \in [Outs \X Text -> Outs]
         /\ \A o \in Outs, x \in Text : PutStep(cap)[<<o, x>>] = Put(cap, o, x)
<1>1. ASSUME NEW o \in Outs, NEW x \in Text PROVE Put(cap, o, x) \in Outs
  <2>1. o.len \in Nat /\ o.text \in Seq(Symbol) /\ x \in Seq(Symbol) /\ Len(x) \in Nat
    BY DEF Outs, Text
  <2>2. o.text \o x \in Seq(Symbol)
    BY <2>1
  <2> DEFINE l == o.len + Len(x)
             t == IF o.len + Len(x) < cap THEN o.text \o x ELSE o.text
  <2>3. l \in Nat /\ t \in Text
    BY <2>1, <2>2 DEF Text
  <2>4. Put(cap, o, x) = [len |-> l, text |-> t]
    BY DEF Put
  <2> HIDE DEF l, t, Text
  <2> QED BY <2>3, <2>4 DEF Outs
<1>2. Start \in Outs
  <2> DEFINE e == <<>>
  <2>1. e \in Text
    BY DEF Text
  <2> HIDE DEF e, Text
  <2>2. [len |-> 0, text |-> e] \in Outs
    BY <2>1 DEF Outs
  <2> QED BY <2>2 DEF Start, e
<1> HIDE DEF Outs, Text
<1> QED BY <1>1, <1>2 DEF PutStep

\* The sink takes the chunks one by one.
LEMMA WrittenIs ==
  ASSUME NEW cap \in Nat, NEW s \in Seq(Text)
  PROVE  Written(cap, s) = OutOf(cap, s).text
<1> DEFINE n == Len(s)
           b == Start
           V == Outs
           step == PutStep(cap)
           Made(f) == f = [i \in 0..n |-> IF i = 0 THEN b ELSE Put(cap, f[i - 1], s[i])]
           f == CHOOSE h : Made(h)
<1>1. n \in Nat /\ \A i \in 1..n : s[i] \in Text
  OBVIOUS
<1>2. b \in V /\ step \in [V \X Text -> V]
  BY PutSteps
<1>3. \A t \in V, x \in Text : step[<<t, x>>] = Put(cap, t, x)
  BY PutSteps
<1>8. Written(cap, s) = f[n].text
  BY DEF Written, Start
<1> HIDE DEF b, V, step, n, Text
<1>5. PICK g \in [0..n -> V] : Follows(g, V, b, step, s)
  BY <1>1, <1>2, FoldSteps DEF n
<1>6. Made(g)
  <2>1. ASSUME NEW i \in 0..n PROVE g[i] = IF i = 0 THEN b ELSE Put(cap, g[i - 1], s[i])
    <3>1. CASE i = 0
      BY <1>5, <3>1 DEF Follows
    <3>2. CASE i # 0
      <4>1. i \in 1..n /\ i - 1 \in 0..n
        BY <1>1, <3>2
      <4>2. g[i - 1] \in V
        BY <1>5, <4>1
      <4>3. g[i] = step[<<g[i - 1], s[i]>>]
        BY <1>5, <4>1, <4>2 DEF Follows, n
      <4> QED BY <1>1, <1>3, <3>2, <4>1, <4>2, <4>3
    <3> QED BY <3>1, <3>2
  <2> QED BY <2>1
<1>7. Made(f)
  <2> HIDE DEF Made
  <2> QED BY <1>6
<1> HIDE DEF f
<1>9. Follows(f, V, b, step, s)
  <2>1. f[0] = b
    BY <1>1, <1>7
  <2>2. ASSUME NEW i \in 1..Len(s), f[i - 1] \in V PROVE f[i] = step[<<f[i - 1], s[i]>>]
    <3>1. i \in 0..n /\ i # 0 /\ s[i] \in Text
      BY <1>1 DEF n
    <3>2. f[i] = Put(cap, f[i - 1], s[i])
      BY <1>7, <3>1
    <3> QED BY <1>3, <2>2, <3>1, <3>2
  <2> QED BY <2>1, <2>2 DEF Follows
<1>10. f[Len(s)] = Folded(V, b, step, s)
  BY <1>2, <1>9, FoldMade, Zenon
<1> QED BY <1>8, <1>10 DEF OutOf, V, b, step, n

\* The whole text is there when it leaves room for the NUL.
LEMMA WrittenAll ==
  ASSUME NEW cap \in Nat, NEW s \in Seq(Text), Len(FlattenSeq(s)) < cap
  PROVE  Written(cap, s) = FlattenSeq(s)
<1> DEFINE Full(t) == [len |-> Len(FlattenSeq(t)), text |-> FlattenSeq(t)]
           G == {t \in Seq(Text) : Len(FlattenSeq(t)) < cap => OutOf(cap, t) = Full(t)}
           e == <<>>
           b == Start
<1>1. b \in Outs /\ PutStep(cap) \in [Outs \X Text -> Outs]
      /\ \A o \in Outs, x \in Text : PutStep(cap)[<<o, x>>] = Put(cap, o, x)
  BY PutSteps
<1>2. e \in G
  <2>1. Folded(Outs, b, PutStep(cap), <<>>) = b
    <3> HIDE DEF b
    <3> QED BY <1>1, FoldEmpty
  <2>2. OutOf(cap, e) = Start
    BY <2>1 DEF OutOf
  <2>3. Full(e) = Start
    <3>1. Len(<<>>) = 0
      OBVIOUS
    <3> QED BY <3>1, FlattenEmpty DEF Start
  <2>4. e \in Seq(Text)
    OBVIOUS
  <2> HIDE DEF Full, e
  <2> QED BY <2>2, <2>3, <2>4
<1>3. ASSUME NEW u \in Seq(Text), NEW x \in Text, u \in G PROVE Append(u, x) \in G
  <2> DEFINE w == Append(u, x)
             a == FlattenSeq(u)
             ax == FlattenSeq(w)
  <2>1. w \in Seq(Text)
    OBVIOUS
  <2>2. ax = a \o x /\ a \in Seq(Symbol) /\ x \in Seq(Symbol)
    BY FlattenMore, FlattenTexts DEF Flat, Text
  <2>3. Len(ax) = Len(a) + Len(x) /\ Len(a) \in Nat /\ Len(x) \in Nat
    <3> HIDE DEF a, ax
    <3> QED BY <2>2
  <2>4. OutOf(cap, w) = Put(cap, OutOf(cap, u), x)
    <3> HIDE DEF w, b
    <3>1. FoldsOn(Outs, b, PutStep(cap), u, x)
      BY <1>1, FoldGrows
    <3>2. OutOf(cap, u) \in Outs /\ OutOf(cap, w) = PutStep(cap)[<<OutOf(cap, u), x>>]
      BY <3>1 DEF FoldsOn, OutOf, b, w
    <3> QED BY <1>1, <3>2
  <2>5. ASSUME Len(ax) < cap PROVE OutOf(cap, w) = Full(w)
    <3>1. Len(a) < cap
      <4> HIDE DEF a, ax
      <4> QED BY <2>3, <2>5
    <3>2. OutOf(cap, u) = [len |-> Len(a), text |-> a]
      BY <1>3, <3>1
    <3> HIDE DEF a, ax, w
    <3>3. Put(cap, [len |-> Len(a), text |-> a], x) = [len |-> Len(a) + Len(x), text |-> a \o x]
      BY <2>3, <2>5 DEF Put
    <3>4. OutOf(cap, w) = [len |-> Len(ax), text |-> ax]
      BY <2>2, <2>3, <2>4, <3>2, <3>3
    <3> QED BY <3>4 DEF ax
  <2> HIDE DEF Full, w
  <2>6. w \in G
    BY <2>1, <2>5 DEF ax
  <2> QED BY <2>6 DEF w
<1> HIDE DEF G
<1>4. s \in G
  BY <1>2, <1>3, SeqInd
<1>5. OutOf(cap, s) = Full(s)
  BY <1>4 DEF G
<1> QED BY <1>5, WrittenIs

-----------------------------------------------------------------------------
(* The query, as it is written and as it is read                           *)

Amp == <<"&">>
Equals == <<"=">>
Both(e) == (e.name \o Equals) \o e.value
Parts3(e) == <<e.name, Equals, e.value>>

\* The text of a parameter.
LEMMA BothIs ==
  ASSUME NEW e \in Pairs
  PROVE  /\ e.name \in Text /\ e.value \in Text /\ Both(e) \in Text /\ Amp \in Text /\ Equals \in Text
         /\ e.name \o Equals \in Text /\ e.name \o Equals = Append(e.name, "=") /\ Both(e) # <<>>
<1>1. e.name \in Text /\ e.value \in Text
  BY DEF Pairs
<1>2. "&" \in Symbol /\ "=" \in Symbol
  BY Signs
<1> DEFINE a == "&"
           q == "="
<1> HIDE DEF Symbol, a, q
<1>3. <<a>> \in Seq(Symbol) /\ <<q>> \in Seq(Symbol)
  BY <1>2 DEF a, q
<1>4. Amp \in Text /\ Equals \in Text
  BY <1>3 DEF Amp, Equals, Text, a, q
<1>5. e.name \o Equals = Append(e.name, "=") /\ e.name \o Equals \in Text
  BY <1>1, <1>2, Grown DEF Equals, Text
<1>6. Both(e) \in Text
  BY <1>1, <1>5 DEF Both, Text
<1>7. Both(e) # <<>>
  <2> DEFINE f == e.name \o Equals
             v == e.value
  <2>1. f \in Seq(Symbol) /\ v \in Seq(Symbol) /\ f # <<>>
    <3>1. f # <<>>
      BY <1>1, <1>2, <1>5, Grown DEF Text
    <3> QED BY <1>1, <1>5, <3>1 DEF Text
  <2> HIDE DEF f, v
  <2>2. f \o v # <<>>
    BY <2>1, ConcatEqualIffEmpty
  <2> QED BY <2>2 DEF Both, f, v
<1> QED BY <1>1, <1>4, <1>5, <1>6, <1>7

Item(s, i) == (IF i = 1 THEN <<>> ELSE <<"&">>) \o s[i].name \o <<"=">> \o s[i].value
ChunksAt(s, i) == (IF i = 1 THEN <<>> ELSE << <<"&">> >>) \o <<s[i].name, <<"=">>, s[i].value>>
SizedAt(s, i) == s[i].name \o <<"=">> \o s[i].value \o <<"&">>
QueryText(s) == FlattenSeq([i \in DOMAIN s |-> Item(s, i)])
ChunksOf(s) == FlattenSeq([i \in DOMAIN s |-> ChunksAt(s, i)])
Sized(s) == FlattenSeq([i \in DOMAIN s |-> SizedAt(s, i)])

ItemOn(s, i) == /\ Item(s, i) = (IF i = 1 THEN Both(s[i]) ELSE Amp \o Both(s[i])) /\ Item(s, i) \in Text
                /\ ChunksAt(s, i) = (IF i = 1 THEN Parts3(s[i]) ELSE <<Amp>> \o Parts3(s[i]))
                /\ ChunksAt(s, i) \in Seq(Text)
                /\ SizedAt(s, i) = Both(s[i]) \o Amp /\ SizedAt(s, i) \in Text

\* What stands for a parameter in each.
LEMMA ItemIs ==
  ASSUME NEW s, NEW i, s[i] \in Pairs
  PROVE  ItemOn(s, i)
<1> DEFINE e == s[i]
           n == e.name
           v == e.value
           p == Parts3(e)
<1>1. n \in Text /\ v \in Text /\ Both(e) \in Text /\ Amp \in Text /\ Equals \in Text
  BY BothIs
<1>2. n \in Seq(Symbol) /\ v \in Seq(Symbol) /\ Both(e) \in Seq(Symbol) /\ Amp \in Seq(Symbol) /\ Equals \in Seq(Symbol)
  BY <1>1 DEF Text
<1>3. p \in Seq(Text) /\ <<Amp>> \in Seq(Text)
  <2> HIDE DEF n, v, Text, e
  <2>1. <<n, Equals, v>> \in Seq(Text) /\ <<Amp>> \in Seq(Text)
    BY <1>1, FlattenFew
  <2> QED BY <2>1 DEF p, Parts3, n, v
<1>4. Item(s, i) = (((IF i = 1 THEN <<>> ELSE Amp) \o n) \o Equals) \o v
  BY DEF Item, Amp, Equals
<1>5. Both(e) = (n \o Equals) \o v
  BY DEF Both
<1>6. ChunksAt(s, i) = (IF i = 1 THEN <<>> ELSE <<Amp>>) \o p
  BY DEF ChunksAt, Parts3, Amp, Equals
<1>7. SizedAt(s, i) = Both(e) \o Amp
  BY DEF SizedAt, Both, Amp, Equals
<1> HIDE DEF n, v, p, e, Text, Symbol
<1>8. <<>> \o n = n /\ <<>> \o p = p
  BY <1>2, <1>3, ConcatEmptySeq
<1>9. ((Amp \o n) \o Equals) \o v = Amp \o Both(e)
  <2>1. (Amp \o n) \o Equals = Amp \o (n \o Equals)
    <3>1. Associates(Amp, n, Equals)
      BY <1>2, JoinsAssoc
    <3> QED BY <3>1 DEF Associates
  <2>2. n \o Equals \in Seq(Symbol)
    BY <1>2
  <2>3. (Amp \o (n \o Equals)) \o v = Amp \o ((n \o Equals) \o v)
    <3>1. Associates(Amp, n \o Equals, v)
      BY <1>2, <2>2, JoinsAssoc
    <3> QED BY <3>1 DEF Associates
  <2> QED BY <1>5, <2>1, <2>3
<1>10. Item(s, i) = IF i = 1 THEN Both(e) ELSE Amp \o Both(e)
  <2>1. CASE i = 1
    BY <1>4, <1>5, <1>8, <2>1
  <2>2. CASE i # 1
    BY <1>4, <1>9, <2>2
  <2> QED BY <2>1, <2>2
<1>11. ChunksAt(s, i) = IF i = 1 THEN p ELSE <<Amp>> \o p
  BY <1>6, <1>8
<1>12. Amp \o Both(e) \in Text /\ Both(e) \o Amp \in Text
  BY <1>2 DEF Text
<1>13. <<Amp>> \o p \in Seq(Text)
  BY <1>3
<1>14. Item(s, i) \in Text /\ ChunksAt(s, i) \in Seq(Text) /\ SizedAt(s, i) \in Text
  BY <1>1, <1>3, <1>7, <1>10, <1>11, <1>12, <1>13
<1> QED BY <1>7, <1>10, <1>11, <1>14 DEF ItemOn, p, e

QueryOn(s, x) ==
    /\ QueryText(<<>>) = <<>> /\ ChunksOf(<<>>) = <<>> /\ Sized(<<>>) = <<>>
    /\ QueryText(s) \in Text /\ ChunksOf(s) \in Seq(Text) /\ Sized(s) \in Text
    /\ QueryText(Append(s, x)) = QueryText(s) \o (IF s = <<>> THEN Both(x) ELSE Amp \o Both(x))
    /\ ChunksOf(Append(s, x)) = ChunksOf(s) \o (IF s = <<>> THEN Parts3(x) ELSE <<Amp>> \o Parts3(x))
    /\ Sized(Append(s, x)) = Sized(s) \o (Both(x) \o Amp)

\* A parameter more.
LEMMA QueryGrows ==
  ASSUME NEW s \in Seq(Pairs), NEW x \in Pairs
  PROVE  QueryOn(s, x)
<1> DEFINE n == Len(s)
           w == Append(s, x)
           A == [i \in 1..n |-> Item(s, i)]
           B == [i \in 1..n + 1 |-> Item(w, i)]
           C == [i \in 1..n |-> ChunksAt(s, i)]
           D == [i \in 1..n + 1 |-> ChunksAt(w, i)]
           M == [i \in 1..n |-> SizedAt(s, i)]
           N == [i \in 1..n + 1 |-> SizedAt(w, i)]
<1>1. n \in Nat /\ w \in Seq(Pairs) /\ Len(w) = n + 1 /\ w[n + 1] = x
      /\ \A i \in 1..n : w[i] = s[i] /\ s[i] \in Pairs
  BY Grown
<1>2. DOMAIN s = 1..n /\ DOMAIN w = 1..n + 1
  BY <1>1
<1>3. n + 1 = 1 <=> s = <<>>
  BY <1>1
<1>4. n + 1 \in 1..n + 1 /\ \A i \in 1..n + 1 : w[i] \in Pairs
  BY <1>1
<1> HIDE DEF w, n
<1>5. \A i \in 1..n : ItemOn(s, i)
  BY <1>1, ItemIs
<1>6. \A i \in 1..n + 1 : ItemOn(w, i)
  BY <1>4, ItemIs
<1>7. A \in Seq(Text) /\ Len(A) = n /\ M \in Seq(Text) /\ Len(M) = n /\ C \in Seq(Seq(Text)) /\ Len(C) = n
  <2>1. \A i \in 1..n : Item(s, i) \in Text /\ SizedAt(s, i) \in Text /\ ChunksAt(s, i) \in Seq(Text)
    BY <1>5 DEF ItemOn
  <2> HIDE DEF Text
  <2> QED BY <1>1, <2>1
<1>8. B \in Seq(Text) /\ Len(B) = n + 1 /\ N \in Seq(Text) /\ Len(N) = n + 1 /\ D \in Seq(Seq(Text)) /\ Len(D) = n + 1
  <2>1. \A i \in 1..n + 1 : Item(w, i) \in Text /\ SizedAt(w, i) \in Text /\ ChunksAt(w, i) \in Seq(Text)
    BY <1>6 DEF ItemOn
  <2> HIDE DEF Text
  <2> QED BY <1>1, <2>1
<1>9. ASSUME NEW i \in 1..n PROVE B[i] = A[i] /\ D[i] = C[i] /\ N[i] = M[i]
  <2>1. i \in 1..n + 1 /\ w[i] = s[i]
    BY <1>1
  <2>2. Item(w, i) = Item(s, i) /\ ChunksAt(w, i) = ChunksAt(s, i) /\ SizedAt(w, i) = SizedAt(s, i)
    BY <2>1, Zenon DEF Item, ChunksAt, SizedAt
  <2> QED BY <2>1, <2>2
<1>10. /\ B[n + 1] = (IF s = <<>> THEN Both(x) ELSE Amp \o Both(x))
       /\ D[n + 1] = (IF s = <<>> THEN Parts3(x) ELSE <<Amp>> \o Parts3(x))
       /\ N[n + 1] = Both(x) \o Amp
  <2>1. B[n + 1] = Item(w, n + 1) /\ D[n + 1] = ChunksAt(w, n + 1) /\ N[n + 1] = SizedAt(w, n + 1)
    BY <1>4
  <2>2. w[n + 1] = x
    BY <1>1
  <2>3. ItemOn(w, n + 1)
    BY <1>4, <1>6
  <2> HIDE DEF B, D, N
  <2> QED BY <1>3, <2>1, <2>2, <2>3 DEF ItemOn
<1>11. QueryText(s) = FlattenSeq(A) /\ ChunksOf(s) = FlattenSeq(C) /\ Sized(s) = FlattenSeq(M)
  BY <1>2 DEF QueryText, ChunksOf, Sized
<1>12. QueryText(w) = FlattenSeq(B) /\ ChunksOf(w) = FlattenSeq(D) /\ Sized(w) = FlattenSeq(N)
  BY <1>2 DEF QueryText, ChunksOf, Sized
<1> HIDE DEF A, B, C, D, M, N
<1>13. Longer(A, B) /\ Longer(C, D) /\ Longer(M, N)
  BY <1>7, <1>8, <1>9 DEF Longer
<1>14. Flattens(Symbol, A, B) /\ Flattens(Symbol, M, N)
  BY <1>7, <1>8, <1>13, FlattenGrows DEF Text
<1>15. Flattens(Text, C, D)
  BY <1>7, <1>8, <1>13, FlattenGrows
<1>16. QueryText(<<>>) = <<>> /\ ChunksOf(<<>>) = <<>> /\ Sized(<<>>) = <<>>
  <2> DEFINE e == <<>>
  <2>1. /\ [i \in DOMAIN e |-> Item(e, i)] = e /\ [i \in DOMAIN e |-> ChunksAt(e, i)] = e
        /\ [i \in DOMAIN e |-> SizedAt(e, i)] = e
    OBVIOUS
  <2> HIDE DEF e
  <2>2. QueryText(e) = FlattenSeq(e) /\ ChunksOf(e) = FlattenSeq(e) /\ Sized(e) = FlattenSeq(e)
    BY <2>1 DEF QueryText, ChunksOf, Sized
  <2> QED BY <2>2, FlattenEmpty DEF e
<1>17. QueryText(s) \in Text /\ Sized(s) \in Text
  BY <1>11, <1>14 DEF Flattens, Text
<1>18. ChunksOf(s) \in Seq(Text)
  BY <1>11, <1>15 DEF Flattens
<1>19. QueryText(w) = QueryText(s) \o B[n + 1] /\ Sized(w) = Sized(s) \o N[n + 1]
  BY <1>7, <1>11, <1>12, <1>14 DEF Flattens
<1>20. ChunksOf(w) = ChunksOf(s) \o D[n + 1]
  BY <1>7, <1>11, <1>12, <1>15 DEF Flattens
<1> QED BY <1>10, <1>16, <1>17, <1>18, <1>19, <1>20, Zenon DEF QueryOn, w

\* The chunks are the text, and the buffer has room for it.
LEMMA ChunksFit ==
  ASSUME NEW s \in Seq(Pairs)
  PROVE  /\ ChunksOf(s) \in Seq(Text) /\ FlattenSeq(ChunksOf(s)) = QueryText(s)
         /\ QueryText(s) \in Text /\ Sized(s) \in Text /\ Len(QueryText(s)) <= Len(Sized(s))
<1> DEFINE Fits(t) == /\ FlattenSeq(ChunksOf(t)) = QueryText(t)
                      /\ Len(QueryText(t)) <= Len(Sized(t))
           G == {t \in Seq(Pairs) : Fits(t)}
           nil == <<>>
           px == [name |-> nil, value |-> nil]
<1>0. px \in Pairs
  <2>1. nil \in Text
    BY DEF Text
  <2> HIDE DEF nil, Text
  <2> QED BY <2>1 DEF Pairs
<1>1. nil \in G
  <2>1. QueryOn(s, px)
    BY <1>0, QueryGrows
  <2>2. QueryText(nil) = nil /\ ChunksOf(nil) = nil /\ Sized(nil) = nil
    BY <2>1 DEF QueryOn
  <2>3. Len(nil) <= Len(nil) /\ FlattenSeq(nil) = nil /\ nil \in Seq(Pairs)
    BY FlattenEmpty
  <2> HIDE DEF nil
  <2> QED BY <2>2, <2>3
<1>2. ASSUME NEW u \in Seq(Pairs), NEW x \in Pairs, u \in G PROVE Append(u, x) \in G
  <2> DEFINE w == Append(u, x)
             q == QueryText(u)
             c == ChunksOf(u)
             z == Sized(u)
             b == Both(x)
             p == Parts3(x)
  <2>1. QueryOn(u, x) /\ w \in Seq(Pairs)
    BY QueryGrows
  <2>2. q \in Text /\ z \in Text /\ c \in Seq(Text) /\ FlattenSeq(c) = q /\ Len(q) <= Len(z)
    BY <1>2, <2>1 DEF QueryOn
  <2>3. b \in Text /\ Amp \in Text /\ Amp \o b \in Text /\ b \o Amp \in Text /\ Len(Amp) = 1
    BY BothIs DEF Text, Amp
  <2>4. p \in Seq(Text) /\ <<Amp>> \in Seq(Text) /\ FlattenSeq(p) = b /\ FlattenSeq(<<Amp>>) = Amp
    <3>1. x.name \in Text /\ Equals \in Text /\ x.value \in Text
      BY BothIs
    <3> HIDE DEF Text
    <3>2. FlattenSeq(<<x.name, Equals, x.value>>) = (x.name \o Equals) \o x.value /\ <<x.name, Equals, x.value>> \in Seq(Text)
      BY <3>1, FlattenFew
    <3>3. FlattenSeq(<<Amp>>) = Amp /\ <<Amp>> \in Seq(Text)
      BY <2>3, FlattenFew
    <3> QED BY <3>2, <3>3 DEF Parts3, Both
  <2>5. /\ QueryText(w) = q \o (IF u = <<>> THEN b ELSE Amp \o b)
        /\ ChunksOf(w) = c \o (IF u = <<>> THEN p ELSE <<Amp>> \o p)
        /\ Sized(w) = z \o (b \o Amp)
    BY <2>1 DEF QueryOn
  <2> HIDE DEF q, c, z, b, p, w, Text
  <2>6. <<Amp>> \o p \in Seq(Text)
    BY <2>4
  <2>7. FlattenSeq(<<Amp>> \o p) = Amp \o b
    BY <2>4, FlattenTexts DEF FlattensApart
  <2>8. FlattenSeq(c \o p) = q \o b
    <3>1. FlattensApart(c, p)
      BY <2>2, <2>4, FlattenTexts
    <3> QED BY <2>2, <2>4, <3>1 DEF FlattensApart
  <2>9. FlattenSeq(c \o (<<Amp>> \o p)) = q \o (Amp \o b)
    <3>1. FlattensApart(c, <<Amp>> \o p)
      BY <2>2, <2>6, FlattenTexts
    <3> QED BY <2>2, <2>7, <3>1 DEF FlattensApart
  <2>10. FlattenSeq(ChunksOf(w)) = QueryText(w)
    BY <2>5, <2>8, <2>9
  <2>11. /\ Len(b) \in Nat /\ Len(q) \in Nat /\ Len(z) \in Nat
         /\ Len(Amp \o b) = 1 + Len(b) /\ Len(b \o Amp) = Len(b) + 1
         /\ Len(q \o b) = Len(q) + Len(b) /\ Len(q \o (Amp \o b)) = Len(q) + Len(Amp \o b)
         /\ Len(z \o (b \o Amp)) = Len(z) + Len(b \o Amp)
    <3>1. \A s1, s2 \in Text : Len(s1) \in Nat /\ Len(s1 \o s2) = Len(s1) + Len(s2)
      BY DEF Text
    <3> HIDE DEF Text
    <3>2. Len(Amp \o b) = 1 + Len(b) /\ Len(b \o Amp) = Len(b) + 1
      BY <2>3, <3>1
    <3> QED BY <2>2, <2>3, <3>1, <3>2
  <2>12. Len(QueryText(w)) <= Len(Sized(w))
    <3>1. CASE u = <<>>
      BY <2>2, <2>5, <2>11, <3>1
    <3>2. CASE u # <<>>
      BY <2>2, <2>5, <2>11, <3>2
    <3> QED BY <3>1, <3>2
  <2>13. w \in G
    BY <2>1, <2>10, <2>12
  <2> QED BY <2>13 DEF w
<1> HIDE DEF G
<1>3. s \in G
  BY <1>1, <1>2, SeqInd
<1>4. QueryOn(s, px)
  BY <1>0, QueryGrows
<1> QED BY <1>3, <1>4 DEF G, QueryOn

\* build_query writes the text of the sorted parameters, whole.
LEMMA BuildQueryIs ==
  ASSUME NEW params \in Seq(Pairs)
  PROVE  /\ EncParams(params) \in Seq(EncPairs) /\ Sorted(EncParams(params), PairOrder)
         /\ BuildQuery(params) = QueryText(EncParams(params))
<1> DEFINE enc == EncParams(params)
<1>1. enc \in Seq(EncPairs) /\ Sorted(enc, PairOrder)
  BY EncParamsIs, PairsSort, SortedByIs DEF SortsTo
<1>2. enc \in Seq(Pairs)
  BY <1>1, EncPairsAre, SeqMonotonic
<1>3. BuildQuery(params) = Written(1 + Len(Sized(enc)), ChunksOf(enc))
  BY Zenon DEF BuildQuery, Sized, ChunksOf, SizedAt, ChunksAt
<1> HIDE DEF enc
<1>4. /\ ChunksOf(enc) \in Seq(Text) /\ FlattenSeq(ChunksOf(enc)) = QueryText(enc)
      /\ QueryText(enc) \in Text /\ Sized(enc) \in Text /\ Len(QueryText(enc)) <= Len(Sized(enc))
  BY <1>2, ChunksFit
<1>5. Len(QueryText(enc)) \in Nat /\ Len(Sized(enc)) \in Nat
  BY <1>4 DEF Text
<1>6. 1 + Len(Sized(enc)) \in Nat /\ Len(FlattenSeq(ChunksOf(enc))) < 1 + Len(Sized(enc))
  BY <1>4, <1>5
<1>7. Written(1 + Len(Sized(enc)), ChunksOf(enc)) = QueryText(enc)
  BY <1>4, <1>6, WrittenAll
<1> QED BY <1>1, <1>3, <1>7 DEF enc

-----------------------------------------------------------------------------
(* Reading the query back                                                  *)

Clean == Symbol \ {"&", "="}

\* What is encoded has no separator in it.
LEMMA EncodedClean ==
  ASSUME NEW s \in Text
  PROVE  Encoded(s, FALSE, FALSE) \in Seq(Clean)
<1>1. ASSUME NEW c \in Symbol PROVE EncodedSymbol(c, FALSE, FALSE) \in Seq(Clean)
  <2>1. CASE c \notin Escaped
    <3>1. c \in Clean
      BY <2>1 DEF Clean, Escaped
    <3>2. <<c>> \in Seq(Clean)
      BY <3>1, Two
    <3> QED BY <2>1, <3>2, EncIs
  <2>2. CASE c \in Escaped
    <3>1. EncodedSymbol(c, FALSE, FALSE) = <<"%", Hex[c]>>
      BY <2>2, EncIs
    <3>2. Hex[c] \in Clean /\ "%" \in Clean
      <4>1. Hex[c] \in Symbol /\ Hex[c] \notin Escaped /\ "%" \in Symbol
        BY <2>2, HexIs, Signs
      <4> QED BY <4>1 DEF Clean, Escaped
    <3>3. <<"%", Hex[c]>> \in Seq(Clean)
      BY <3>2, Two
    <3> QED BY <3>1, <3>3
  <2> QED BY <2>1, <2>2
<1>2. Enc(FALSE, FALSE) \in [Symbol -> Seq(Clean)]
  BY <1>1 DEF Enc
<1>3. Encoded(s, FALSE, FALSE) = Mapped(s, Enc(FALSE, FALSE))
  BY EncodedIs
<1>4. Mapped(s, Enc(FALSE, FALSE)) \in Seq(Clean)
  <2>1. s \in Seq(Symbol)
    BY DEF Text
  <2> HIDE DEF Clean, Symbol
  <2> QED BY <1>2, <2>1, MappedIn
<1> QED BY <1>3, <1>4

\* An encoded parameter.
CleanPair(e) == /\ e \in Pairs
                /\ Without(e.name, "=") /\ Without(e.value, "=") /\ Without(Both(e), "&")

\* It has no separator in it but its own.
LEMMA PairClean == \A e \in EncPairs : CleanPair(e)
<1> SUFFICES ASSUME NEW p \in Pairs PROVE CleanPair(EncParam(p))
  BY DEF EncPairs
<1> DEFINE e == EncParam(p)
           n == e.name
           v == e.value
<1>1. p.name \in Text /\ p.value \in Text
  BY DEF Pairs
<1>2. n \in Seq(Clean) /\ v \in Seq(Clean)
  BY <1>1, EncodedClean DEF EncParam
<1>3. e \in Pairs
  BY EncPairsAre
<1> HIDE DEF e, n, v
<1>4. \A t \in Seq(Clean) : Without(t, "=")
  BY DEF Without, Clean
<1>5. Without(Both(e), "&")
  <2> DEFINE Plainer == Symbol \ {"&"}
             q == "="
  <2>1. Clean \subseteq Plainer /\ q \in Plainer
    BY Signs DEF Clean
  <2>2. \A t \in Seq(Plainer) : Without(t, "&")
    BY DEF Without
  <2> HIDE DEF Plainer, q, Clean, Symbol
  <2>3. n \in Seq(Plainer) /\ v \in Seq(Plainer)
    BY <1>2, <2>1, SeqMonotonic
  <2>4. <<q>> \in Seq(Plainer)
    BY <2>1
  <2>5. (n \o <<q>>) \o v \in Seq(Plainer)
    BY <2>3, <2>4
  <2> QED BY <2>2, <2>5 DEF Both, Equals, n, v, q
<1> QED BY <1>2, <1>3, <1>4, <1>5 DEF CleanPair, e, n, v

\* The two sides of a parameter.
LEMMA Sides ==
  ASSUME NEW e, CleanPair(e)
  PROVE  Split(Both(e), "=") = <<e.name, e.value>>
<1> DEFINE n == e.name
           v == e.value
           nil == <<>>
           at == "="
           one == Append(nil, n)
<1>1. n \in Text /\ v \in Text /\ n \o Equals = Append(n, at) /\ n \o Equals \in Text /\ at \in Symbol
  BY BothIs, Signs DEF CleanPair
<1>2. Without(n, at) /\ Without(v, at)
  BY DEF CleanPair
<1>3. nil \in Text /\ nil \in Seq(Text) /\ nil \o n = n /\ nil \o v = v
  <2>1. nil \in Text
    BY DEF Text
  <2>2. n \in Seq(Symbol) /\ v \in Seq(Symbol)
    BY <1>1 DEF Text
  <2>3. <<>> \o n = n /\ <<>> \o v = v
    BY <2>2, ConcatEmptySeq
  <2> QED BY <2>1, <2>3
<1>4. Split(nil, at) = Append(nil, nil)
  BY SplitNone
<1>5. <<n, v>> = Append(one, v)
  <2> HIDE DEF n, v, Text
  <2>1. <<n, v>> = Append(<<n>>, v) /\ <<n>> = Append(<<>>, n)
    BY <1>1, Two
  <2> QED BY <2>1
<1>6. Both(e) = Append(n, at) \o v
  BY <1>1 DEF Both
<1> HIDE DEF n, v, nil, at
<1>7. SplitsAcross(nil, n, at, nil, nil)
  BY <1>1, <1>2, <1>3, <1>4, SplitAfter
<1>8. Split(n, at) = one
  BY <1>3, <1>7 DEF SplitsAcross
<1>9. Split(Append(n, at), at) = Append(one, nil)
  BY <1>1, <1>8, SplitAt DEF nil
<1>10. one \in Seq(Text)
  BY <1>1, <1>3, Grown
<1> HIDE DEF one
<1>11. Append(n, at) \in Text
  BY <1>1
<1>12. SplitsAcross(Append(n, at), v, at, one, nil)
  BY <1>1, <1>2, <1>3, <1>9, <1>10, <1>11, SplitAfter
<1>13. Split(Append(n, at) \o v, at) = Append(one, v)
  BY <1>3, <1>12 DEF SplitsAcross
<1> QED BY <1>5, <1>6, <1>13 DEF n, v, at

BothAll(s) == [i \in DOMAIN s |-> Both(s[i])]

\* The query is split in its parameters.
LEMMA QuerySplit ==
  ASSUME NEW s \in Seq(EncPairs), s # <<>>
  PROVE  Split(QueryText(s), "&") = BothAll(s)
<1> DEFINE G == {t \in Seq(EncPairs) : t # <<>> => Split(QueryText(t), "&") = BothAll(t)}
           nil == <<>>
           at == "&"
<1>1. nil \in G
  OBVIOUS
<1>2. nil \in Text /\ nil \in Seq(Text) /\ at \in Symbol
  <2>1. nil \in Text
    BY DEF Text
  <2>2. nil \in Seq(Text)
    OBVIOUS
  <2>3. at \in Symbol
    BY Signs
  <2> QED BY <2>1, <2>2, <2>3
<1>3. Split(nil, at) = Append(nil, nil)
  BY SplitNone
<1>4. ASSUME NEW u \in Seq(EncPairs), NEW x \in EncPairs, u \in G PROVE Append(u, x) \in G
  <2> DEFINE w == Append(u, x)
             q == QueryText(u)
             b == Both(x)
             a == BothAll(u)
             n == Len(u)
  <2>1. w \in Seq(EncPairs) /\ n \in Nat /\ Len(w) = n + 1 /\ w[n + 1] = x
        /\ \A i \in 1..n : w[i] = u[i] /\ u[i] \in EncPairs
    BY Grown
  <2>2. u \in Seq(Pairs) /\ x \in Pairs
    BY EncPairsAre, SeqMonotonic
  <2>3. QueryOn(u, x)
    BY <2>2, QueryGrows
  <2>4. q \in Text /\ QueryText(w) = q \o (IF u = <<>> THEN b ELSE Amp \o b) /\ QueryText(<<>>) = <<>>
    BY <2>3 DEF QueryOn
  <2>5. b \in Text /\ Without(b, at)
    BY <2>2, BothIs, PairClean DEF CleanPair
  <2>6. a \in Seq(Text) /\ Len(a) = n /\ \A i \in 1..n : a[i] = Both(u[i])
    <3>1. \A i \in 1..n : Both(u[i]) \in Text
      BY <2>1, EncPairsAre, BothIs
    <3>2. a = [i \in 1..n |-> Both(u[i])]
      BY DEF BothAll
    <3> HIDE DEF Text, a, n, EncPairs
    <3> QED BY <2>1, <3>1, <3>2
  <2>7. BothAll(w) = Append(a, b)
    <3>1. BothAll(w) = [i \in 1..n + 1 |-> Both(w[i])]
      <4> HIDE DEF w, n
      <4>1. DOMAIN w = 1..n + 1
        BY <2>1
      <4> QED BY <4>1 DEF BothAll
    <3> HIDE DEF Text, a, n, w, b
    <3>2. Append(a, b) \in Seq(Text) /\ Len(Append(a, b)) = n + 1 /\ Append(a, b)[n + 1] = b
          /\ \A i \in 1..n : Append(a, b)[i] = a[i]
      BY <2>5, <2>6, Grown
    <3>3. ASSUME NEW i \in 1..n + 1 PROVE Append(a, b)[i] = Both(w[i])
      <4>1. CASE i = n + 1
        BY <2>1, <3>2, <4>1 DEF b
      <4>2. CASE i # n + 1
        <5>1. i \in 1..n
          BY <2>1, <4>2
        <5> QED BY <2>1, <2>6, <3>2, <5>1
      <4> QED BY <4>1, <4>2
    <3> DEFINE z == Append(a, b)
    <3> HIDE DEF z
    <3>4. z = [i \in 1..n + 1 |-> z[i]]
      <4>1. z \in Seq(Text) /\ Len(z) = n + 1
        BY <3>2 DEF z
      <4> QED BY <4>1
    <3>5. \A i \in 1..n + 1 : z[i] = Both(w[i])
      BY <3>3 DEF z
    <3>6. BothAll(w) = z
      BY <3>1, <3>4, <3>5
    <3> QED BY <3>6 DEF z
  <2>8. nil \o b = b
    <3>1. b \in Seq(Symbol)
      BY <2>5 DEF Text
    <3>2. <<>> \o b = b
      BY <3>1, ConcatEmptySeq
    <3> QED BY <3>2
  <2> HIDE DEF q, b, a, w, n
  <2>9. CASE u = nil
    <3> HIDE DEF nil, at
    <3>1. SplitsAcross(nil, b, at, nil, nil)
      BY <1>2, <1>3, <2>5, SplitAfter
    <3>2. Split(b, at) = Append(nil, b)
      BY <2>8, <3>1 DEF SplitsAcross
    <3>3. a = nil
      <4>1. n = 0
        BY <2>9 DEF nil, n
      <4> QED BY <2>6, <4>1 DEF nil
    <3>4. QueryText(w) = b
      BY <2>4, <2>8, <2>9 DEF nil, q
    <3>5. Split(QueryText(w), "&") = BothAll(w)
      BY <2>7, <3>2, <3>3, <3>4 DEF at
    <3>6. w \in G
      BY <2>1, <3>5
    <3> QED BY <3>6 DEF w
  <2>10. CASE u # nil
    <3>1. Split(q, at) = a
      BY <1>4, <2>10 DEF q, a
    <3>2. Append(q, at) \in Text /\ QueryText(w) = Append(q, at) \o b
      <4>1. q \in Seq(Symbol) /\ b \in Seq(Symbol) /\ Amp \in Seq(Symbol)
        BY <2>2, <2>4, <2>5, BothIs DEF Text
      <4>2. Associates(q, Amp, b)
        BY <4>1, JoinsAssoc
      <4>3. Append(q, at) = q \o Amp /\ Append(q, at) \in Text
        BY <1>2, <4>1, Grown DEF Amp, Text
      <4> QED BY <2>4, <2>10, <4>2, <4>3 DEF Associates
    <3> HIDE DEF nil, at
    <3>3. Split(Append(q, at), at) = Append(a, nil)
      BY <1>2, <2>4, <3>1, SplitAt DEF nil
    <3>4. SplitsAcross(Append(q, at), b, at, a, nil)
      BY <1>2, <2>5, <2>6, <3>2, <3>3, SplitAfter
    <3>5. Split(QueryText(w), "&") = BothAll(w)
      BY <2>7, <2>8, <3>2, <3>4 DEF SplitsAcross, at
    <3>6. w \in G
      BY <2>1, <3>5
    <3> QED BY <3>6 DEF w
  <2> QED BY <2>9, <2>10
<1> HIDE DEF G
<1>5. s \in G
  BY <1>1, <1>4, SeqInd
<1> QED BY <1>5 DEF G

\* The parameters a server reads are those written.
LEMMA ServerParamsIs ==
  ASSUME NEW s \in Seq(EncPairs), s # <<>>
  PROVE  ServerParams(QueryText(s)) = s
<1> DEFINE q == QueryText(s)
           n == Len(s)
<1>1. n \in Nat /\ DOMAIN s = 1..n /\ \A i \in 1..n : s[i] \in EncPairs
  OBVIOUS
<1>2. Split(q, "&") = BothAll(s)
  BY QuerySplit
<1>3. DOMAIN Split(q, "&") = 1..n /\ \A i \in 1..n : Split(q, "&")[i] = Both(s[i])
  BY <1>1, <1>2 DEF BothAll
<1> HIDE DEF q, n, EncPairs
<1>4. ASSUME NEW i \in 1..n
      PROVE  [name |-> Split(Split(q, "&")[i], "=")[1], value |-> Split(Split(q, "&")[i], "=")[2]] = s[i]
  <2>1. CleanPair(s[i])
    BY <1>1, PairClean
  <2>2. Split(Split(q, "&")[i], "=") = <<s[i].name, s[i].value>>
    BY <1>3, <2>1, Sides
  <2>3. s[i] = [name |-> s[i].name, value |-> s[i].value]
    BY <2>1 DEF CleanPair, Pairs
  <2> DEFINE a == s[i].name
             b == s[i].value
             z == Split(Split(q, "&")[i], "=")
  <2> HIDE DEF a, b, z
  <2>4. z = <<a, b>>
    BY <2>2 DEF a, b, z
  <2>5. z[1] = a /\ z[2] = b
    BY <2>4
  <2> QED BY <2>3, <2>5 DEF a, b, z
<1>5. ServerParams(q) = [i \in DOMAIN Split(q, "&") |->
                            [name |-> Split(Split(q, "&")[i], "=")[1], value |-> Split(Split(q, "&")[i], "=")[2]]]
  BY Zenon DEF ServerParams
<1>6. s = [i \in 1..n |-> s[i]]
  BY <1>1
<1> QED BY <1>3, <1>4, <1>5, <1>6 DEF q

ServerBefore(p, q) == IF p.name = q.name THEN Less(p.value, q.value) ELSE Less(p.name, q.name)
PlaceIn(params, j) == 1 + Cardinality({k \in DOMAIN params : \/ ServerBefore(params[k], params[j])
                                                             \/ params[k] = params[j] /\ k < j})
InPlaces(params) == [i \in DOMAIN params |-> params[CHOOSE j \in DOMAIN params : PlaceIn(params, j) = i]]

\* The server's query, in the order of its places.
LEMMA ServerQueryIs == \A query : ServerQuery(query) = QueryText(InPlaces(ServerParams(query)))
BY Zenon DEF ServerQuery, QueryText, InPlaces, PlaceIn, ServerBefore, Item

\* Sorted parameters are in their places.
LEMMA SortedPlaces ==
  ASSUME NEW s \in Seq(EncPairs), Sorted(s, PairOrder)
  PROVE  InPlaces(s) = s
<1> DEFINE n == Len(s)
<1>1. n \in Nat /\ DOMAIN s = 1..n /\ \A i \in 1..n : s[i] \in EncPairs
  OBVIOUS
<1>2. \A x, y \in EncPairs : Ordered(x, y, x)
  BY EncPairsAre, PairsOrdered
<1>3. \A x, y \in EncPairs : <<x, y>> \in PairOrder <=> EncParamBefore(x, y)
  BY DEF PairOrder
<1> HIDE DEF n, EncPairs, PairOrder
<1>4. \A i, j \in 1..n : i < j => ~EncParamBefore(s[j], s[i])
  BY <1>1, <1>3 DEF Sorted
<1>5. ASSUME NEW x \in EncPairs, NEW y \in EncPairs
      PROVE  ServerBefore(x, y) <=> EncParamBefore(x, y)
  <2>1. x.name \in Text /\ y.name \in Text
    BY EncPairsAre DEF Pairs
  <2>2. ~(Less(x.name, y.name) /\ Less(y.name, x.name))
    BY <2>1, LessOrder
  <2> QED BY <2>2 DEF ServerBefore, EncParamBefore
<1>6. ASSUME NEW j \in 1..n PROVE PlaceIn(s, j) = j
  <2> DEFINE K == {k \in DOMAIN s : \/ ServerBefore(s[k], s[j])
                                    \/ s[k] = s[j] /\ k < j}
  <2>0. K = {k \in 1..n : ServerBefore(s[k], s[j]) \/ (s[k] = s[j] /\ k < j)}
    BY <1>1
  <2>1. ASSUME NEW k \in 1..n PROVE k \in K <=> k < j
    <3>0. k \in K <=> ServerBefore(s[k], s[j]) \/ (s[k] = s[j] /\ k < j)
      BY <2>0
    <3> HIDE DEF K
    <3>1. s[k] \in EncPairs /\ s[j] \in EncPairs
      BY <1>1
    <3>2. Ordered(s[k], s[j], s[k])
      BY <1>2, <3>1
    <3>3. ServerBefore(s[k], s[j]) <=> EncParamBefore(s[k], s[j])
      BY <1>5, <3>1
    <3>4. CASE k < j
      BY <1>4, <3>0, <3>2, <3>3, <3>4 DEF Ordered
    <3>5. CASE k = j
      <4>1. ~EncParamBefore(s[k], s[j])
        BY <3>2, <3>5 DEF Ordered
      <4> QED BY <1>1, <3>0, <3>3, <3>5, <4>1
    <3>6. CASE k > j
      BY <1>1, <1>4, <3>0, <3>3, <3>6
    <3> QED BY <1>1, <3>4, <3>5, <3>6
  <2>2. K = 1..j - 1
    <3>1. ASSUME NEW k \in K PROVE k \in 1..j - 1
      BY <1>1, <2>0, <2>1
    <3>2. ASSUME NEW k \in 1..j - 1 PROVE k \in K
      <4>1. k \in 1..n /\ k < j
        BY <1>1
      <4> QED BY <2>1, <4>1
    <3> HIDE DEF K
    <3> QED BY <3>1, <3>2
  <2>3. Cardinality(1..j - 1) = j - 1
    <3>1. j - 1 \in Int /\ j \in Nat
      BY <1>1
    <3>2. Cardinality(1..j - 1) = IF 1 > j - 1 THEN 0 ELSE (j - 1) - 1 + 1
      BY <3>1, FS_Interval
    <3> QED BY <3>1, <3>2
  <2>4. PlaceIn(s, j) = 1 + Cardinality(K)
    BY DEF PlaceIn
  <2>5. PlaceIn(s, j) = 1 + (j - 1)
    BY <2>2, <2>3, <2>4
  <2> QED BY <1>1, <2>5
<1>7. ASSUME NEW i \in 1..n PROVE s[CHOOSE j \in DOMAIN s : PlaceIn(s, j) = i] = s[i]
  <2> DEFINE j == CHOOSE k \in DOMAIN s : PlaceIn(s, k) = i
  <2>1. j \in DOMAIN s /\ PlaceIn(s, j) = i
    <3>1. i \in DOMAIN s /\ PlaceIn(s, i) = i
      BY <1>1, <1>6
    <3> QED BY <3>1
  <2> HIDE DEF j
  <2>2. j = i
    BY <1>1, <1>6, <2>1
  <2> QED BY <2>2 DEF j
<1>8. s = [i \in 1..n |-> s[i]]
  BY <1>1
<1> QED BY <1>1, <1>7, <1>8 DEF InPlaces

\* A server sorts the query of the signer into itself.
LEMMA ServerQueryBuilt ==
  ASSUME NEW params \in Seq(Pairs)
  PROVE  (IF BuildQuery(params) = <<>> THEN <<>> ELSE ServerQuery(BuildQuery(params))) = BuildQuery(params)
<1> DEFINE s == EncParams(params)
           q == BuildQuery(params)
<1>1. s \in Seq(EncPairs) /\ Sorted(s, PairOrder) /\ q = QueryText(s)
  BY BuildQueryIs
<1>2. QueryText(<<>>) = <<>>
  <2> DEFINE e == <<>>
  <2>1. [i \in DOMAIN e |-> Item(e, i)] = e
    OBVIOUS
  <2> HIDE DEF e
  <2>2. QueryText(e) = FlattenSeq(e)
    BY <2>1 DEF QueryText
  <2> QED BY <2>2, FlattenEmpty DEF e
<1> HIDE DEF s, q
<1>3. CASE s = <<>>
  BY <1>1, <1>2, <1>3 DEF q
<1>4. CASE s # <<>>
  <2>1. ServerParams(q) = s
    BY <1>1, <1>4, ServerParamsIs
  <2>2. ServerQuery(q) = QueryText(s)
    BY <1>1, <2>1, ServerQueryIs, SortedPlaces
  <2> QED BY <1>1, <2>2 DEF q
<1> QED BY <1>3, <1>4

-----------------------------------------------------------------------------
(* How often a parameter is in the query                                   *)

Just(E, p) == [e \in E |-> IF e = p THEN <<p>> ELSE <<>>]
Places(s, p) == {i \in DOMAIN s : s[i] = p}
Times(E, s, p) == Len(Mapped(s, Just(E, p)))

\* p stands for itself.
LEMMA JustIs ==
  ASSUME NEW E, NEW p \in E
  PROVE  /\ Just(E, p) \in [E -> Seq(E)]
         /\ \A x \in E : Just(E, p)[x] = IF x = p THEN <<p>> ELSE <<>>
<1>1. <<p>> \in Seq(E) /\ <<>> \in Seq(E)
  OBVIOUS
<1> QED BY <1>1 DEF Just

Counts(E, s, p) == /\ IsFiniteSet(Places(s, p)) /\ Times(E, s, p) \in Nat
                   /\ Cardinality(Places(s, p)) = Times(E, s, p)

\* The places of an element are as many as the times it is mapped.
LEMMA TimesIs ==
  ASSUME NEW E, NEW p \in E, NEW s \in Seq(E)
  PROVE  Counts(E, s, p)
<1> DEFINE g == Just(E, p)
           G == {t \in Seq(E) : Counts(E, t, p)}
           e == <<>>
<1>1. g \in [E -> Seq(E)] /\ \A x \in E : g[x] = IF x = p THEN <<p>> ELSE <<>>
  BY JustIs
<1> HIDE DEF g
<1>2. e \in G
  <2>1. Places(e, p) = {}
    BY DEF Places
  <2>2. Mapped(e, g) = <<>> /\ Len(<<>>) = 0
    BY MappedEmpty
  <2>3. Times(E, e, p) = 0
    BY <2>2 DEF Times, g
  <2>4. Counts(E, e, p)
    <3> HIDE DEF e
    <3> QED BY <2>1, <2>3, FS_EmptySet DEF Counts
  <2>5. e \in Seq(E)
    OBVIOUS
  <2> QED BY <2>4, <2>5
<1>3. ASSUME NEW u \in Seq(E), NEW x \in E, u \in G PROVE Append(u, x) \in G
  <2> DEFINE w == Append(u, x)
             n == Len(u)
             P == Places(u, p)
             Q == Places(w, p)
             m == Mapped(u, g)
  <2>1. n \in Nat /\ w \in Seq(E) /\ Len(w) = n + 1 /\ w[n + 1] = x /\ DOMAIN u = 1..n /\ DOMAIN w = 1..n + 1
        /\ \A i \in 1..n : w[i] = u[i]
    BY Grown
  <2>2. MapsOn(E, u, x, g)
    BY <1>1, MappedGrows
  <2>3. m \in Seq(E) /\ Mapped(w, g) = m \o g[x]
    BY <2>2 DEF MapsOn
  <2>4. IsFiniteSet(P) /\ Cardinality(P) = Len(m) /\ Len(m) \in Nat
    BY <1>3 DEF Counts, Times, g
  <2>5. P = {i \in 1..n : u[i] = p} /\ Q = {i \in 1..n + 1 : w[i] = p}
    BY <2>1 DEF Places
  <2> HIDE DEF w, n, P, Q, m
  <2>6. n + 1 \notin P
    BY <2>1, <2>5
  <2>7. \A i \in 1..n + 1 : i \in 1..n \/ i = n + 1
    BY <2>1
  <2>8. Counts(E, w, p)
    <3>1. CASE x = p
      <4>1. Q = P \cup {n + 1}
        BY <2>1, <2>5, <2>7, <3>1
      <4>2. IsFiniteSet(Q) /\ Cardinality(Q) = Cardinality(P) + 1
        BY <2>4, <2>6, <4>1, FS_AddElement
      <4>3. g[x] = <<p>> /\ <<p>> \in Seq(E) /\ Len(<<p>>) = 1
        BY <1>1, <3>1
      <4>4. Len(m \o g[x]) = Len(m) + 1
        BY <2>3, <4>3
      <4> QED BY <2>3, <2>4, <4>2, <4>4 DEF Counts, Times, Q, g
    <3>2. CASE x # p
      <4>1. Q = P
        BY <2>1, <2>5, <2>7, <3>2
      <4>2. g[x] = <<>>
        BY <1>1, <3>2
      <4>3. m \o g[x] = m
        BY <2>3, <4>2, ConcatEmptySeq
      <4> QED BY <2>3, <2>4, <4>1, <4>3 DEF Counts, Times, Q, g
    <3> QED BY <3>1, <3>2
  <2>9. w \in G
    BY <2>1, <2>8
  <2> QED BY <2>9 DEF w
<1> HIDE DEF G
<1>4. s \in G
  BY <1>2, <1>3, SeqInd
<1> QED BY <1>4 DEF G

TimesApart(E, s, t, p) == Times(E, s \o t, p) = Times(E, s, p) + Times(E, t, p)

\* In joined sequences.
LEMMA TimesConcat ==
  ASSUME NEW E, NEW p \in E, NEW s \in Seq(E), NEW t \in Seq(E)
  PROVE  TimesApart(E, s, t, p) /\ Times(E, s, p) \in Nat /\ Times(E, t, p) \in Nat
<1>1. Just(E, p) \in [E -> Seq(E)]
  BY JustIs
<1>2. MapsApart(E, s, t, Just(E, p)) /\ Mapped(s, Just(E, p)) \in Seq(E) /\ Mapped(t, Just(E, p)) \in Seq(E)
  BY <1>1, MappedConcat, MappedIn
<1> DEFINE a == Mapped(s, Just(E, p))
           b == Mapped(t, Just(E, p))
<1> HIDE DEF a, b
<1>3. a \in Seq(E) /\ b \in Seq(E) /\ Mapped(s \o t, Just(E, p)) = a \o b
  BY <1>2 DEF MapsApart, a, b
<1>4. Len(a \o b) = Len(a) + Len(b) /\ Len(a) \in Nat /\ Len(b) \in Nat
  BY <1>3
<1> QED BY <1>3, <1>4 DEF TimesApart, Times, a, b

\* An element that is not there.
LEMMA TimesNone ==
  ASSUME NEW E, NEW p \in E, NEW s \in Seq(E), \A i \in 1..Len(s) : s[i] # p
  PROVE  Times(E, s, p) = 0
<1>1. Places(s, p) = {}
  BY DEF Places
<1>2. Cardinality(Places(s, p)) = 0
  BY <1>1, FS_EmptySet
<1> QED BY <1>2, TimesIs DEF Counts

\* An encoded parameter is in the query as often as it is given.
LEMMA EncTimes ==
  ASSUME NEW params \in Seq(Pairs), NEW p \in Pairs
  PROVE  /\ EncParams(params) \in Seq(EncPairs)
         /\ Cardinality(Places(EncParams(params), EncParam(p))) = Times(Pairs, params, p)
<1> DEFINE x == EncParam(p)
           all == EncAll(params)
           g == Just(EncPairs, x)
           n == Len(params)
<1>1. x \in EncPairs /\ all \in Seq(EncPairs) /\ Len(all) = n /\ EncParams(params) = SortedBy(EncPairs, PairOrder, all)
  BY EncPairsAre, EncParamsIs
<1>2. g \in [EncPairs -> Seq(EncPairs)] /\ \A y \in EncPairs : g[y] = IF y = x THEN <<x>> ELSE <<>>
  BY <1>1, JustIs
<1>3. n \in Nat /\ DOMAIN params = 1..n /\ \A i \in 1..n : params[i] \in Pairs /\ all[i] = EncParam(params[i])
  BY DEF EncAll
<1>4. DOMAIN all = 1..n
  BY <1>1
<1> HIDE DEF x, all, g, n, EncPairs, PairOrder
<1>5. Alike(PairOrder, EncPairs, g)
  <2> SUFFICES ASSUME NEW y \in EncPairs, NEW z \in EncPairs, <<y, z>> \in PairOrder
               PROVE  g[y] = <<>> \/ g[z] = <<>>
    BY DEF Alike
  <2>1. y # z
    BY PairsSort DEF WeakOrder
  <2> QED BY <1>2, <2>1
<1>6. SortsAlike(EncPairs, PairOrder, all, g)
  BY <1>1, <1>2, <1>5, PairsSort, MappedSorted
<1>7. Times(EncPairs, EncParams(params), x) = Times(EncPairs, all, x)
  BY <1>1, <1>6 DEF SortsAlike, Times, g
<1>8. EncParams(params) \in Seq(EncPairs)
  BY BuildQueryIs
<1>9. Counts(EncPairs, EncParams(params), x) /\ Counts(EncPairs, all, x) /\ Counts(Pairs, params, p)
  BY <1>1, <1>8, TimesIs
<1>10. Places(all, x) = Places(params, p)
  <2>1. ASSUME NEW i \in 1..n PROVE all[i] = x <=> params[i] = p
    <3>1. DecParam(all[i]) = params[i] /\ DecParam(x) = p
      BY <1>3, EncPairsAre DEF x
    <3>2. params[i] = p => all[i] = x
      BY <1>3 DEF x
    <3> QED BY <3>1, <3>2
  <2> QED BY <1>3, <1>4, <2>1 DEF Places
<1> QED BY <1>7, <1>8, <1>9, <1>10 DEF Counts, x

\* The query carries parameters that are given that often.
LEMMA BuiltCarries ==
  ASSUME NEW params \in Seq(Pairs), NEW some \in Seq(Pairs),
         \A i \in 1..Len(some) : Times(Pairs, params, some[i]) = Times(Pairs, some, some[i])
  PROVE  Carries(BuildQuery(params), some)
<1> DEFINE s == EncParams(params)
           q == BuildQuery(params)
           found == IF q = <<>> THEN <<>> ELSE ServerParams(q)
           read == [i \in DOMAIN found |-> DecParam(found[i])]
           n == Len(s)
<1>1. s \in Seq(EncPairs) /\ q = QueryText(s)
  BY BuildQueryIs
<1>2. n \in Nat /\ DOMAIN s = 1..n /\ \A i \in 1..n : s[i] \in EncPairs
  BY <1>1
<1>3. Carries(q, some) <=> \A p \in ToSet(some) : Cardinality(Places(read, p)) = Cardinality(Places(some, p))
  BY DEF Carries, DecParam, Places
<1> HIDE DEF s, q, n, EncPairs
<1>4. found = s
  <2>1. CASE s = <<>>
    <3>1. QueryText(<<>>) = <<>>
      <4> DEFINE e == <<>>
      <4>1. [i \in DOMAIN e |-> Item(e, i)] = e
        OBVIOUS
      <4> HIDE DEF e
      <4>2. QueryText(e) = FlattenSeq(e)
        BY <4>1 DEF QueryText
      <4> QED BY <4>2, FlattenEmpty DEF e
    <3> QED BY <1>1, <2>1, <3>1
  <2>2. CASE s # <<>>
    <3>1. ServerParams(q) = s
      BY <1>1, <2>2, ServerParamsIs
    <3>2. q # <<>>
      <4> DEFINE one == << <<>> >>
      <4>1. Split(<<>>, "&") = one /\ one[1] = <<>>
        BY SplitNone
      <4>2. Split(q, "&") = BothAll(s)
        BY <1>1, <2>2, QuerySplit
      <4>3. 1 \in 1..n /\ s[1] \in Pairs
        BY <1>1, <1>2, <2>2, EncPairsAre DEF n
      <4>4. BothAll(s)[1] = Both(s[1]) /\ Both(s[1]) # <<>>
        BY <1>2, <4>3, BothIs DEF BothAll
      <4> HIDE DEF one
      <4> QED BY <4>1, <4>2, <4>4
    <3> QED BY <3>1, <3>2
  <2> QED BY <2>1, <2>2
<1> HIDE DEF found
<1>5. ASSUME NEW p \in ToSet(some) PROVE Cardinality(Places(read, p)) = Cardinality(Places(some, p))
  <2>1. PICK i \in 1..Len(some) : p = some[i]
    BY DEF ToSet
  <2>2. p \in Pairs /\ Times(Pairs, params, p) = Times(Pairs, some, p)
    BY <2>1
  <2>3. Places(read, p) = Places(s, EncParam(p))
    <3>1. ASSUME NEW k \in 1..n PROVE read[k] = p <=> s[k] = EncParam(p)
      <4>1. PICK r \in Pairs : s[k] = EncParam(r)
        BY <1>2 DEF EncPairs
      <4>2. read[k] = DecParam(s[k]) /\ DecParam(s[k]) = r /\ DecParam(EncParam(p)) = p
        BY <1>2, <1>4, <2>2, <4>1, EncPairsAre
      <4> QED BY <4>1, <4>2
    <3>2. DOMAIN read = 1..n
      BY <1>2, <1>4
    <3> HIDE DEF read
    <3> QED BY <1>2, <3>1, <3>2 DEF Places
  <2>4. Cardinality(Places(s, EncParam(p))) = Times(Pairs, params, p)
    BY <2>2, EncTimes DEF s
  <2>5. Cardinality(Places(some, p)) = Times(Pairs, some, p)
    BY <2>2, TimesIs DEF Counts
  <2> QED BY <2>2, <2>3, <2>4, <2>5
<1> QED BY <1>3, <1>5 DEF q

-----------------------------------------------------------------------------
(* Headers: sorted by the signer, gathered by the server                   *)

Headers == [name : [word : Symbol, caps : BOOLEAN], value : Text]
HeaderOrder == {q \in Headers \X Headers : WordRank(q[1]) < WordRank(q[2])}

\* A header's rank is that of its word.
LEMMA HeadersAre ==
  ASSUME NEW h \in Headers
  PROVE  /\ h.name.word \in Symbol /\ h.value \in Text
         /\ WordRank(h) \in 1..43 /\ Order[WordRank(h)] = h.name.word
         /\ \A k \in Headers : SameName(h, k) <=> WordRank(h) = WordRank(k)
<1>1. \A k \in Headers : k.name.word \in Symbol /\ k.value \in Text
  BY DEF Headers
<1>2. \A k \in Headers : WordRank(k) = Rank[k.name.word]
  BY DEF WordRank
<1> HIDE DEF Headers, Symbol
<1>3. \A k \in Headers : WordRank(k) \in 1..43 /\ Order[WordRank(k)] = k.name.word
  BY <1>1, <1>2, Ranks
<1>4. \A k \in Headers : SameName(h, k) <=> WordRank(h) = WordRank(k)
  BY <1>2, <1>3 DEF SameName
<1> QED BY <1>1, <1>3, <1>4

\* The order of the words serves to sort headers.
LEMMA HeadersSort ==
  /\ WeakOrder(HeaderOrder, Headers)
  /\ \A x, y \in Headers : <<x, y>> \notin HeaderOrder <=> WordRank(y) <= WordRank(x)
<1>1. \A x \in Headers : WordRank(x) \in 1..43
  BY HeadersAre
<1>2. \A x, y \in Headers : <<x, y>> \in HeaderOrder <=> WordRank(x) < WordRank(y)
  BY DEF HeaderOrder
<1> HIDE DEF Headers, HeaderOrder
<1>3. \A x, y \in Headers : <<x, y>> \notin HeaderOrder <=> WordRank(y) <= WordRank(x)
  <2> SUFFICES ASSUME NEW x \in Headers, NEW y \in Headers
               PROVE  <<x, y>> \notin HeaderOrder <=> WordRank(y) <= WordRank(x)
    OBVIOUS
  <2>1. WordRank(x) \in 1..43 /\ WordRank(y) \in 1..43
    BY <1>1
  <2> QED BY <1>2, <2>1
<1>4. \A x, y \in Headers : <<x, y>> \in HeaderOrder => <<y, x>> \notin HeaderOrder
  <2> SUFFICES ASSUME NEW x \in Headers, NEW y \in Headers, WordRank(x) < WordRank(y)
               PROVE  ~(WordRank(y) < WordRank(x))
    BY <1>2
  <2>1. WordRank(x) \in 1..43 /\ WordRank(y) \in 1..43
    BY <1>1
  <2> QED BY <2>1
<1>5. \A x, y, z \in Headers : <<x, y>> \notin HeaderOrder /\ <<y, z>> \notin HeaderOrder
                               => <<x, z>> \notin HeaderOrder
  <2> SUFFICES ASSUME NEW x \in Headers, NEW y \in Headers, NEW z \in Headers,
                      WordRank(y) <= WordRank(x), WordRank(z) <= WordRank(y)
               PROVE  WordRank(z) <= WordRank(x)
    BY <1>3
  <2>1. WordRank(x) \in 1..43 /\ WordRank(y) \in 1..43 /\ WordRank(z) \in 1..43
    BY <1>1
  <2> QED BY <2>1
<1> QED BY <1>3, <1>4, <1>5 DEF WeakOrder

CollectsTo(builtin, extra) == CollectHeaders(builtin, extra) = SortedBy(Headers, HeaderOrder, builtin \o extra)

\* collect_headers sorts by insertion.
LEMMA CollectHeadersIs ==
  ASSUME NEW builtin \in Seq(Headers), NEW extra \in Seq(Headers)
  PROVE  CollectsTo(builtin, extra)
<1> DEFINE s == builtin \o extra
           n == Len(s)
           b == <<>>
           V == SortedSeqs(Headers, HeaderOrder)
           step == InsertStep(Headers, HeaderOrder)
           Made(f) == f = [i \in 0..n |-> IF i = 0 THEN b ELSE Insert(f[i - 1], s[i])]
           f == CHOOSE h : Made(h)
<1>1. s \in Seq(Headers)
  OBVIOUS
<1>2. b \in V /\ step \in [V \X Headers -> V]
  BY HeadersSort, InsertSteps
<1>3. \A t \in V, x \in Headers : step[<<t, x>>] = Inserted(t, HeaderOrder, x)
  <2>1. WeakOrder(HeaderOrder, Headers)
    BY HeadersSort
  <2> QED BY <2>1, InsertSteps
<1>4. ASSUME NEW t \in V, NEW x \in Headers PROVE step[<<t, x>>] = Insert(t, x)
  <2>1. t \in Seq(Headers)
    BY DEF SortedSeqs
  <2>2. NotAfter(t, HeaderOrder, x) = {i \in DOMAIN t : WordRank(t[i]) <= WordRank(x)}
    <3>1. \A i \in DOMAIN t : t[i] \in Headers
      BY <2>1
    <3>2. \A i \in DOMAIN t : <<x, t[i]>> \notin HeaderOrder <=> WordRank(t[i]) <= WordRank(x)
      BY <3>1, HeadersSort
    <3> QED BY <3>2 DEF NotAfter
  <2> QED BY <1>3, <2>2 DEF Inserted, Insert
<1>8. CollectHeaders(builtin, extra) = f[n]
  BY DEF CollectHeaders
<1> HIDE DEF s
<1>5. n \in Nat /\ \A i \in 1..n : s[i] \in Headers
  BY <1>1
<1> HIDE DEF b, V, step, n, Headers
<1>6. PICK g \in [0..n -> V] : Follows(g, V, b, step, s)
  BY <1>1, <1>2, FoldSteps DEF n
<1>7. Made(g)
  <2>1. ASSUME NEW i \in 0..n PROVE g[i] = IF i = 0 THEN b ELSE Insert(g[i - 1], s[i])
    <3>1. CASE i = 0
      BY <1>6, <3>1 DEF Follows
    <3>2. CASE i # 0
      <4>1. i \in 1..n /\ i - 1 \in 0..n
        BY <1>5, <3>2
      <4>2. g[i - 1] \in V
        BY <1>6, <4>1
      <4>3. g[i] = step[<<g[i - 1], s[i]>>]
        BY <1>6, <4>1, <4>2 DEF Follows, n
      <4> QED BY <1>4, <1>5, <3>2, <4>1, <4>2, <4>3
    <3> QED BY <3>1, <3>2
  <2> QED BY <2>1
<1>9. Made(f)
  <2> HIDE DEF Made
  <2> QED BY <1>7
<1> HIDE DEF f
<1>10. Follows(f, V, b, step, s)
  <2>1. f[0] = b
    BY <1>5, <1>9
  <2>2. ASSUME NEW i \in 1..Len(s), f[i - 1] \in V PROVE f[i] = step[<<f[i - 1], s[i]>>]
    <3>1. i \in 0..n /\ i # 0 /\ s[i] \in Headers
      BY <1>5 DEF n
    <3>2. f[i] = Insert(f[i - 1], s[i])
      BY <1>9, <3>1
    <3> QED BY <1>4, <2>2, <3>1, <3>2
  <2> QED BY <2>1, <2>2 DEF Follows
<1>11. f[Len(s)] = Folded(V, b, step, s)
  BY <1>1, <1>2, <1>10, FoldMade, Zenon
<1> QED BY <1>8, <1>11 DEF CollectsTo, SortedBy, V, b, step, n, s

\* The values of the headers of name w.
ValuesOf(w) == [h \in Headers |-> IF h.name.word = w THEN <<Plain(h.value)>> ELSE <<>>]
WordsIn(s) == {s[i].name.word : i \in DOMAIN s}
Line(s, w) == [name |-> w, values |-> Mapped(s, ValuesOf(w))]
SameValues(s, t) == \A w \in Symbol : Mapped(s, ValuesOf(w)) = Mapped(t, ValuesOf(w))

\* The values of one name are texts, and sorting leaves their order.
LEMMA ValuesOfAre ==
  ASSUME NEW w \in Symbol
  PROVE  ValuesOf(w) \in [Headers -> Seq(Text)] /\ Alike(HeaderOrder, Headers, ValuesOf(w))
<1>1. ASSUME NEW h \in Headers PROVE (IF h.name.word = w THEN <<Plain(h.value)>> ELSE <<>>) \in Seq(Text)
  <2> DEFINE p == Plain(h.value)
  <2>1. p \in Text
    BY HeadersAre, TrimmedPlain
  <2> HIDE DEF p, Text
  <2>2. <<p>> \in Seq(Text) /\ <<>> \in Seq(Text)
    BY <2>1
  <2> QED BY <2>2 DEF p
<1>2. ValuesOf(w) \in [Headers -> Seq(Text)]
  <2> HIDE DEF Text, Headers
  <2> QED BY <1>1 DEF ValuesOf
<1>3. ASSUME NEW x \in Headers, NEW y \in Headers, <<x, y>> \in HeaderOrder
      PROVE  ValuesOf(w)[x] = <<>> \/ ValuesOf(w)[y] = <<>>
  <2>1. WordRank(x) < WordRank(y) /\ WordRank(x) \in 1..43
    BY <1>3, HeadersAre DEF HeaderOrder
  <2>2. x.name.word # y.name.word
    BY <2>1 DEF WordRank
  <2> HIDE DEF Headers
  <2>3. x.name.word # w \/ y.name.word # w
    BY <2>2
  <2> QED BY <2>3 DEF ValuesOf
<1> QED BY <1>2, <1>3 DEF Alike

\* A sequence one of whose elements maps to something.
LEMMA MappedSome ==
  ASSUME NEW E, NEW V, NEW g \in [E -> Seq(V)], NEW s \in Seq(E), NEW i \in 1..Len(s), g[s[i]] # <<>>
  PROVE  Mapped(s, g) # <<>>
<1> DEFINE nil == <<>>
           G == {t \in Seq(E) : (\E k \in 1..Len(t) : g[t[k]] # nil) => Mapped(t, g) # nil}
<1>1. nil \in G
  <2>1. Len(nil) = 0 /\ nil \in Seq(E)
    OBVIOUS
  <2> HIDE DEF nil
  <2> QED BY <2>1
<1>2. ASSUME NEW u \in Seq(E), NEW x \in E, u \in G PROVE Append(u, x) \in G
  <2> DEFINE w == Append(u, x)
             n == Len(u)
             m == Mapped(u, g)
  <2>1. n \in Nat /\ w \in Seq(E) /\ Len(w) = n + 1 /\ w[n + 1] = x /\ \A k \in 1..n : w[k] = u[k]
    BY Grown
  <2>2. MapsOn(V, u, x, g)
    BY MappedGrows
  <2>3. m \in Seq(V) /\ g[x] \in Seq(V) /\ Mapped(w, g) = m \o g[x]
    BY <2>2 DEF MapsOn
  <2> HIDE DEF w, n, m
  <2>4. ASSUME NEW k \in 1..n + 1, g[w[k]] # nil PROVE Mapped(w, g) # nil
    <3>1. m # nil \/ g[x] # nil
      <4>1. CASE k = n + 1
        BY <2>1, <2>4, <4>1
      <4>2. CASE k # n + 1
        <5>1. k \in 1..n
          BY <2>1, <4>2
        <5>2. g[u[k]] # nil
          BY <2>1, <2>4, <5>1
        <5> QED BY <1>2, <5>1, <5>2 DEF n, m
      <4> QED BY <4>1, <4>2
    <3>2. m \o g[x] = <<>> <=> m = <<>> /\ g[x] = <<>>
      BY <2>3, ConcatEqualIffEmpty
    <3> QED BY <2>3, <3>1, <3>2
  <2>5. w \in G
    BY <2>1, <2>4
  <2> QED BY <2>5 DEF w
<1> HIDE DEF G
<1>3. s \in G
  BY <1>1, <1>2, SeqInd
<1> QED BY <1>3 DEF G

\* A name is there when it has values.
LEMMA WordsFrom ==
  ASSUME NEW s \in Seq(Headers), NEW w \in Symbol
  PROVE  w \in WordsIn(s) <=> Mapped(s, ValuesOf(w)) # <<>>
<1>1. ValuesOf(w) \in [Headers -> Seq(Text)]
  BY ValuesOfAre
<1>2. DOMAIN s = 1..Len(s) /\ \A i \in 1..Len(s) : s[i] \in Headers
  OBVIOUS
<1>3. \A h \in Headers : ValuesOf(w)[h] # <<>> <=> h.name.word = w
  BY DEF ValuesOf
<1> HIDE DEF Headers, Text, Symbol
<1>4. ASSUME w \in WordsIn(s) PROVE Mapped(s, ValuesOf(w)) # <<>>
  <2>1. PICK i \in 1..Len(s) : s[i].name.word = w
    BY <1>2, <1>4 DEF WordsIn
  <2>2. ValuesOf(w)[s[i]] # <<>>
    BY <1>2, <1>3, <2>1
  <2> QED BY <1>1, <2>2, MappedSome
<1>5. ASSUME w \notin WordsIn(s) PROVE Mapped(s, ValuesOf(w)) = <<>>
  <2>1. \A i \in 1..Len(s) : s[i].name.word # w
    BY <1>2, <1>5 DEF WordsIn
  <2>2. \A i \in 1..Len(s) : ValuesOf(w)[s[i]] = <<>>
    BY <1>2, <1>3, <2>1
  <2> QED BY <1>1, <2>2, MappedNone
<1> QED BY <1>4, <1>5

\* The server's lines.
LEMMA ServerLines ==
  ASSUME NEW wire \in Seq(Headers)
  PROVE  ServerHeaders(wire) = {Line(wire, w) : w \in WordsIn(wire)}
<1> DEFINE values(h) == FlattenSeq([i \in DOMAIN wire |-> IF SameName(wire[i], h) THEN <<Plain(wire[i].value)>>
                                                          ELSE <<>>])
<1>1. ServerHeaders(wire) = {[name |-> h.name.word, values |-> values(h)] : h \in ToSet(wire)}
  BY DEF ServerHeaders
<1>2. DOMAIN wire = 1..Len(wire) /\ \A i \in 1..Len(wire) : wire[i] \in Headers
  OBVIOUS
<1>3. ASSUME NEW h PROVE values(h) = Mapped(wire, ValuesOf(h.name.word))
  <2> HIDE DEF Headers
  <2>1. ASSUME NEW i \in DOMAIN wire
        PROVE  (IF SameName(wire[i], h) THEN <<Plain(wire[i].value)>> ELSE <<>>) = ValuesOf(h.name.word)[wire[i]]
    BY <1>2 DEF SameName, ValuesOf
  <2> QED BY <2>1 DEF Mapped
<1> HIDE DEF values, Headers
<1>4. ServerHeaders(wire) = {Line(wire, h.name.word) : h \in ToSet(wire)}
  BY <1>1, <1>3 DEF Line
<1> QED BY <1>4 DEF WordsIn, ToSet

\* Sorted headers are in the order of their ranks.
LEMMA SortedRanks ==
  ASSUME NEW h \in Seq(Headers), Sorted(h, HeaderOrder), NEW i \in 1..Len(h), NEW j \in i..Len(h)
  PROVE  WordRank(h[i]) <= WordRank(h[j])
<1>1. DOMAIN h = 1..Len(h) /\ Len(h) \in Nat /\ j \in 1..Len(h) /\ h[i] \in Headers /\ h[j] \in Headers
  OBVIOUS
<1>2. WordRank(h[i]) \in 1..43
  BY <1>1, HeadersAre
<1>3. CASE i = j
  <2> DEFINE r == WordRank(h[i])
  <2>1. r \in 1..43 /\ WordRank(h[j]) = r
    BY <1>2, <1>3
  <2> HIDE DEF r
  <2>2. r <= r
    BY <2>1
  <2> QED BY <2>1, <2>2 DEF r
<1>4. CASE i < j
  <2>1. <<h[j], h[i]>> \notin HeaderOrder
    BY <1>1, <1>4 DEF Sorted
  <2> QED BY <1>1, <2>1, HeadersSort
<1> QED BY <1>1, <1>3, <1>4

\* A run takes all the headers of its name.
LEMMA RunIs ==
  ASSUME NEW h \in Seq(Headers), Sorted(h, HeaderOrder), NEW i \in Firsts(h), NEW j \in 1..Len(h)
  PROVE  (j >= i /\ \A k \in i..j : SameName(h[k], h[i])) <=> h[j].name.word = h[i].name.word
<1>1. DOMAIN h = 1..Len(h) /\ Len(h) \in Nat /\ i \in 1..Len(h) /\ \A k \in 1..Len(h) : h[k] \in Headers
  BY DEF Firsts
<1>2. \A k, l \in 1..Len(h) : h[k].name.word = h[l].name.word <=> WordRank(h[k]) = WordRank(h[l])
  BY <1>1, HeadersAre DEF SameName
<1>3. \A k \in 1..Len(h) : WordRank(h[k]) \in Nat
  <2>1. \A k \in 1..Len(h) : WordRank(h[k]) \in 1..43
    BY <1>1, HeadersAre
  <2>2. \A r \in 1..43 : r \in Nat
    OBVIOUS
  <2> QED BY <2>1, <2>2, Zenon
<1>4. \A k \in 1..Len(h), l \in 1..Len(h) : k <= l => WordRank(h[k]) <= WordRank(h[l])
  <2> SUFFICES ASSUME NEW k \in 1..Len(h), NEW l \in 1..Len(h), k <= l PROVE WordRank(h[k]) <= WordRank(h[l])
    OBVIOUS
  <2>1. l \in k..Len(h)
    BY <1>1
  <2> QED BY <2>1, SortedRanks
<1>5. ASSUME h[j].name.word = h[i].name.word PROVE j >= i
  <2> SUFFICES ASSUME j < i PROVE FALSE
    BY <1>1
  <2>1. i # 1 /\ i - 1 \in 1..Len(h) /\ j <= i - 1 /\ i - 1 <= i
    BY <1>1
  <2>2. WordRank(h[j]) <= WordRank(h[i - 1]) /\ WordRank(h[i - 1]) <= WordRank(h[i])
    BY <1>1, <1>4, <2>1
  <2>3. WordRank(h[j]) = WordRank(h[i])
    BY <1>1, <1>2, <1>5
  <2>4. WordRank(h[i - 1]) = WordRank(h[i])
    BY <1>1, <1>3, <2>1, <2>2, <2>3
  <2>5. SameName(h[i], h[i - 1])
    BY <1>1, <1>2, <2>1, <2>4 DEF SameName
  <2> QED BY <2>1, <2>5 DEF Firsts
<1>6. ASSUME h[j].name.word = h[i].name.word, NEW k \in i..j PROVE SameName(h[k], h[i])
  <2>1. k \in 1..Len(h) /\ i <= k /\ k <= j
    BY <1>1
  <2>2. WordRank(h[i]) <= WordRank(h[k]) /\ WordRank(h[k]) <= WordRank(h[j])
    BY <1>1, <1>4, <2>1
  <2>3. WordRank(h[j]) = WordRank(h[i])
    BY <1>1, <1>2, <1>6
  <2>4. WordRank(h[k]) = WordRank(h[i])
    BY <1>1, <1>3, <2>1, <2>2, <2>3
  <2> QED BY <1>1, <1>2, <2>1, <2>4 DEF SameName
<1>7. ASSUME j >= i, \A k \in i..j : SameName(h[k], h[i]) PROVE h[j].name.word = h[i].name.word
  <2>1. j \in i..j
    BY <1>1, <1>7
  <2> QED BY <1>7, <2>1 DEF SameName
<1> QED BY <1>5, <1>6, <1>7

\* The signer's lines.
LEMMA SignerLines ==
  ASSUME NEW h \in Seq(Headers), Sorted(h, HeaderOrder)
  PROVE  CanonicalHeaders(h) = {Line(h, w) : w \in WordsIn(h)}
<1>1. DOMAIN h = 1..Len(h) /\ Len(h) \in Nat /\ \A k \in 1..Len(h) : h[k] \in Headers
  OBVIOUS
<1>2. ASSUME NEW i \in Firsts(h) PROVE CanonicalLine(h, i) = Line(h, h[i].name.word)
  <2> DEFINE w == h[i].name.word
             InRun(j) == j >= i /\ \A k \in i..j : SameName(h[k], h[i])
             at(j) == IF InRun(j) THEN <<Trimmed(h[j].value)>> ELSE <<>>
  <2>1. CanonicalLine(h, i) = [name |-> w, values |-> FlattenSeq([j \in DOMAIN h |-> at(j)])]
    BY DEF CanonicalLine
  <2>2. ASSUME NEW j \in 1..Len(h) PROVE at(j) = ValuesOf(w)[h[j]]
    <3>1. InRun(j) <=> h[j].name.word = w
      BY RunIs
    <3>2. h[j] \in Headers /\ h[j].value \in Text
      BY <1>1, HeadersAre
    <3>3. Trimmed(h[j].value) = Plain(h[j].value)
      BY <3>2, TrimmedPlain
    <3> HIDE DEF Headers, InRun, Text
    <3> QED BY <3>1, <3>2, <3>3 DEF ValuesOf
  <2> HIDE DEF at
  <2>3. FlattenSeq([j \in DOMAIN h |-> at(j)]) = Mapped(h, ValuesOf(w))
    <3>1. [j \in DOMAIN h |-> at(j)] = [j \in DOMAIN h |-> ValuesOf(w)[h[j]]]
      BY <1>1, <2>2
    <3> QED BY <3>1 DEF Mapped
  <2> QED BY <2>1, <2>3 DEF Line
<1>3. ASSUME NEW w \in WordsIn(h) PROVE \E i \in Firsts(h) : h[i].name.word = w
  <2> DEFINE D == {i \in 1..Len(h) : h[i].name.word = w}
  <2>1. D # {} /\ D \in SUBSET Nat
    BY <1>1 DEF WordsIn
  <2>2. PICK m \in D : \A k \in D : m <= k
    <3> HIDE DEF D
    <3> QED BY <2>1, LeastNat
  <2>3. m \in 1..Len(h) /\ h[m].name.word = w
    BY <2>2
  <2>4. CASE m = 1
    BY <1>1, <2>3, <2>4 DEF Firsts
  <2>5. CASE m # 1
    <3>1. m - 1 \in 1..Len(h) /\ ~(m <= m - 1)
      BY <1>1, <2>3, <2>5
    <3>2. h[m - 1].name.word # w
      BY <2>2, <3>1
    <3>3. m \in Firsts(h)
      BY <1>1, <2>3, <3>2 DEF Firsts, SameName
    <3> QED BY <2>3, <3>3
  <2> QED BY <2>4, <2>5
<1>4. \A i \in Firsts(h) : h[i].name.word \in WordsIn(h)
  BY DEF Firsts, WordsIn
<1>5. CanonicalHeaders(h) = {CanonicalLine(h, i) : i \in Firsts(h)}
  BY DEF CanonicalHeaders
<1> HIDE DEF Headers
<1> QED BY <1>2, <1>3, <1>4, <1>5

\* The lines are the same when the values of each name are.
LEMMA HeadersAgree ==
  ASSUME NEW h \in Seq(Headers), Sorted(h, HeaderOrder), NEW wire \in Seq(Headers), SameValues(h, wire)
  PROVE  CanonicalHeaders(h) = ServerHeaders(wire) /\ WordsIn(h) = WordsIn(wire)
<1>1. ASSUME NEW s \in Seq(Headers) PROVE WordsIn(s) \subseteq Symbol
  <2>1. \A i \in DOMAIN s : s[i] \in Headers
    OBVIOUS
  <2> QED BY <2>1, HeadersAre DEF WordsIn
<1>2. \A w \in Symbol : w \in WordsIn(h) <=> w \in WordsIn(wire)
  BY WordsFrom DEF SameValues
<1>3. WordsIn(h) = WordsIn(wire)
  BY <1>1, <1>2
<1>4. \A w \in WordsIn(h) : Line(h, w) = Line(wire, w)
  BY <1>1 DEF SameValues, Line
<1>5. {Line(h, w) : w \in WordsIn(h)} = {Line(wire, w) : w \in WordsIn(wire)}
  BY <1>3, <1>4
<1>6. CanonicalHeaders(h) = {Line(h, w) : w \in WordsIn(h)}
  BY SignerLines
<1>7. ServerHeaders(wire) = {Line(wire, w) : w \in WordsIn(wire)}
  BY ServerLines
<1> QED BY <1>3, <1>5, <1>6, <1>7

-----------------------------------------------------------------------------
(* The signed names                                                        *)

\* U has a sequence at r where T has none, and none of them has any after r.
Replaces(T, U, r) == /\ Len(U) = Len(T) /\ r \in 1..Len(T)
                     /\ \A i \in 1..r - 1 : U[i] = T[i]
                     /\ \A i \in r..Len(T) : T[i] = <<>>
                     /\ \A i \in r + 1..Len(T) : U[i] = <<>>

Prefix(T, k) == [i \in 1..k |-> T[i]]
ReplacedEnds(T, U, r) == FlattenSeq(U) = FlattenSeq(T) \o U[r]

\* Joined, U is T with that sequence at the end.
LEMMA FlattenReplace ==
  ASSUME NEW V, NEW T \in Seq(Seq(V)), NEW U \in Seq(Seq(V)), NEW r, Replaces(T, U, r)
  PROVE  ReplacedEnds(T, U, r)
<1> DEFINE n == Len(T)
           t(k) == FlattenSeq(Prefix(T, k))
           u(k) == FlattenSeq(Prefix(U, k))
           S == {k \in 0..n : t(k) \in Seq(V) /\ u(k) = IF k < r THEN t(k) ELSE t(k) \o U[r]}
           nil == <<>>
<1>1. n \in Nat /\ Len(U) = n /\ r \in 1..n /\ \A i \in 1..n : T[i] \in Seq(V) /\ U[i] \in Seq(V)
  BY DEF Replaces
<1>2. /\ \A i \in 1..r - 1 : U[i] = T[i]
      /\ \A i \in r..n : T[i] = nil
      /\ \A i \in r + 1..n : U[i] = nil
  BY DEF Replaces
<1> HIDE DEF n
<1>3. ASSUME NEW k \in 0..n PROVE Prefix(T, k) \in Seq(Seq(V)) /\ Len(Prefix(T, k)) = k
                                  /\ Prefix(U, k) \in Seq(Seq(V)) /\ Len(Prefix(U, k)) = k
  <2>1. k \in Nat /\ \A i \in 1..k : i \in 1..n
    BY <1>1
  <2>2. \A i \in 1..k : T[i] \in Seq(V) /\ U[i] \in Seq(V)
    BY <1>1, <2>1
  <2> DEFINE W == Seq(V)
  <2> HIDE DEF W
  <2>3. \A i \in 1..k : T[i] \in W /\ U[i] \in W
    BY <2>2 DEF W
  <2>4. Prefix(T, k) \in Seq(W) /\ Len(Prefix(T, k)) = k /\ Prefix(U, k) \in Seq(W) /\ Len(Prefix(U, k)) = k
    BY <2>1, <2>3 DEF Prefix
  <2> QED BY <2>4 DEF W
<1>4. 0 \in S
  <2>1. Prefix(T, 0) = <<>> /\ Prefix(U, 0) = <<>>
    BY DEF Prefix
  <2>2. t(0) = nil /\ u(0) = nil
    BY <2>1, FlattenEmpty
  <2>3. nil \in Seq(V) /\ 0 \in 0..n /\ 0 < r
    BY <1>1
  <2> HIDE DEF t, u, nil
  <2> QED BY <2>2, <2>3
<1>5. ASSUME NEW k \in 0..(n - 1), k \in S PROVE k + 1 \in S
  <2>1. k \in 0..n /\ k + 1 \in 0..n /\ k + 1 \in 1..n /\ k \in Nat
    BY <1>1
  <2>2. Longer(Prefix(T, k), Prefix(T, k + 1)) /\ Prefix(T, k + 1)[k + 1] = T[k + 1]
    <3>1. Len(Prefix(T, k)) = k /\ Len(Prefix(T, k + 1)) = k + 1
      BY <1>3, <2>1
    <3> QED BY <2>1, <3>1 DEF Longer, Prefix
  <2>3. Longer(Prefix(U, k), Prefix(U, k + 1)) /\ Prefix(U, k + 1)[k + 1] = U[k + 1]
    <3>1. Len(Prefix(U, k)) = k /\ Len(Prefix(U, k + 1)) = k + 1
      BY <1>3, <2>1
    <3> QED BY <2>1, <3>1 DEF Longer, Prefix
  <2>4. Flattens(V, Prefix(T, k), Prefix(T, k + 1)) /\ Flattens(V, Prefix(U, k), Prefix(U, k + 1))
    BY <1>3, <2>1, <2>2, <2>3, FlattenGrows
  <2>5. t(k) \in Seq(V) /\ t(k + 1) = t(k) \o T[k + 1] /\ u(k + 1) = u(k) \o U[k + 1]
    <3>1. Len(Prefix(T, k)) = k /\ Len(Prefix(U, k)) = k
      BY <1>3, <2>1
    <3> QED BY <2>2, <2>3, <2>4, <3>1 DEF Flattens
  <2>6. u(k) = IF k < r THEN t(k) ELSE t(k) \o U[r]
    BY <1>5
  <2> HIDE DEF t, u
  <2>7. T[k + 1] \in Seq(V) /\ U[r] \in Seq(V)
    BY <1>1, <2>1
  <2>8. t(k + 1) \in Seq(V)
    <3>1. \A a, b \in Seq(V) : a \o b \in Seq(V)
      OBVIOUS
    <3>2. T[k + 1] \in Seq(V) /\ t(k) \in Seq(V)
      BY <2>5, <2>7
    <3>3. t(k) \o T[k + 1] \in Seq(V)
      BY <3>1, <3>2
    <3> QED BY <2>5, <3>3
  <2>9. CASE k + 1 < r
    <3>1. U[k + 1] = T[k + 1] /\ k < r
      BY <1>1, <1>2, <2>1, <2>9
    <3>2. u(k + 1) = t(k + 1)
      BY <2>5, <2>6, <3>1
    <3> QED BY <2>1, <2>8, <2>9, <3>2
  <2>10. CASE k + 1 = r
    <3>1. T[k + 1] = nil /\ k < r /\ ~(k + 1 < r)
      BY <1>1, <1>2, <2>1, <2>10
    <3>2. t(k) \o nil = t(k)
      BY <2>5, ConcatEmptySeq
    <3>3. u(k + 1) = t(k + 1) \o U[r]
      BY <2>5, <2>6, <2>10, <3>1, <3>2
    <3> QED BY <2>1, <2>8, <3>1, <3>3
  <2>11. CASE k + 1 > r
    <3>1. T[k + 1] = nil /\ U[k + 1] = nil /\ ~(k < r) /\ ~(k + 1 < r)
      BY <1>1, <1>2, <2>1, <2>11
    <3>2. t(k) \o nil = t(k)
      BY <2>5, ConcatEmptySeq
    <3>3. (t(k) \o U[r]) \o nil = t(k) \o U[r]
      <4>1. t(k) \o U[r] \in Seq(V)
        BY <2>5, <2>7
      <4> QED BY <4>1, ConcatEmptySeq
    <3>4. u(k + 1) = t(k + 1) \o U[r]
      BY <2>5, <2>6, <3>1, <3>2, <3>3
    <3> QED BY <2>1, <2>8, <3>1, <3>4
  <2> QED BY <1>1, <2>1, <2>9, <2>10, <2>11
<1>6. n \in S
  <2> HIDE DEF S
  <2>1. \A k \in 0..n : k \in S
    BY <1>1, <1>4, <1>5, Upwards
  <2> QED BY <1>1, <2>1
<1>7. Prefix(T, n) = T /\ Prefix(U, n) = U
  BY <1>1 DEF Prefix, n
<1>8. ~(n < r)
  BY <1>1
<1> QED BY <1>6, <1>7, <1>8 DEF ReplacedEnds

RanksIn(s) == {WordRank(s[i]) : i \in DOMAIN s}
SignedAt(S, r) == IF r \notin S THEN <<>>
                  ELSE IF \A j \in S : r <= j THEN <<Order[r]>>
                  ELSE <<";", Order[r]>>
SignedOf(S) == FlattenSeq([r \in 1..43 |-> SignedAt(S, r)])

\* The names are those of the ranks.
LEMMA ServerSignedIs ==
  ASSUME NEW wire \in Seq(Headers)
  PROVE  ServerSigned(wire) = SignedOf(RanksIn(wire))
<1>1. {WordRank(h) : h \in ToSet(wire)} = RanksIn(wire)
  BY DEF ToSet, RanksIn
<1>2. ServerSigned(wire) = LET ranks == {WordRank(h) : h \in ToSet(wire)}
                           IN  FlattenSeq([r \in DOMAIN Order |-> SignedAt(ranks, r)])
  BY DEF ServerSigned, SignedAt
<1> QED BY <1>1, <1>2, OrderIs DEF SignedOf

\* What stands for a rank is a text.
LEMMA SignedTexts ==
  ASSUME NEW S, NEW r \in 1..43
  PROVE  SignedAt(S, r) \in Text /\ <<Order[r]>> \in Text /\ <<";", Order[r]>> \in Text
<1> DEFINE c == Order[r]
           d == ";"
           e == <<>>
<1>1. c \in Symbol
  BY SymbolsAre
<1>2. d \in Symbol
  BY Signs
<1>3. e \in Text
  BY DEF Text
<1> HIDE DEF c, d, e, Symbol
<1>4. <<c>> \in Text /\ <<d, c>> \in Text
  BY <1>1, <1>2, Two DEF Text
<1> HIDE DEF Text
<1> QED BY <1>3, <1>4 DEF SignedAt, c, d, e

SignsOn(S, m) == /\ SignedOf(S) \in Text /\ SignedOf({}) = <<>>
                 /\ SignedOf(S \cup {m}) =
                        IF m \in S THEN SignedOf(S)
                        ELSE SignedOf(S) \o (IF S = {} THEN <<Order[m]>> ELSE <<";", Order[m]>>)

\* A name that comes after the others.
LEMMA SignedGrows ==
  ASSUME NEW S \in SUBSET (1..43), NEW m \in 1..43, \A j \in S : j <= m
  PROVE  SignsOn(S, m)
<1> DEFINE X == S \cup {m}
           T == [r \in 1..43 |-> SignedAt(S, r)]
           U == [r \in 1..43 |-> SignedAt(X, r)]
<1>1. ASSUME NEW Y PROVE [r \in 1..43 |-> SignedAt(Y, r)] \in Seq(Text) /\ Len([r \in 1..43 |-> SignedAt(Y, r)]) = 43
  <2>1. \A r \in 1..43 : SignedAt(Y, r) \in Text
    BY SignedTexts
  <2> HIDE DEF Text
  <2> QED BY <2>1
<1>2. T \in Seq(Text) /\ Len(T) = 43 /\ U \in Seq(Text) /\ Len(U) = 43
  BY <1>1
<1>3. SignedOf(S) = FlattenSeq(T) /\ SignedOf(X) = FlattenSeq(U)
  BY DEF SignedOf
<1>4. SignedOf(S) \in Text
  BY <1>2, <1>3, FlattenTexts
<1>5. SignedOf({}) = <<>>
  <2> DEFINE N == [r \in 1..43 |-> SignedAt({}, r)]
             nil == <<>>
  <2>0. \A r \in 1..43 : SignedAt({}, r) = nil
    BY DEF SignedAt
  <2>1. N \in Seq(Text) /\ Len(N) = 43 /\ DOMAIN N = 1..43
    BY <1>1
  <2>6. \A r \in 1..43 : N[r] = nil
    BY <2>0
  <2>2. Itself \in [Text -> Seq(Symbol)] /\ \A x \in Text : Itself[x] = x
    BY DEF Itself, Text
  <2>7. nil \in Text
    BY DEF Text
  <2> HIDE DEF N, Text, Itself, nil
  <2>8. Itself[nil] = nil
    BY <2>2, <2>7
  <2>4. \A i \in 1..Len(N) : Itself[N[i]] = <<>>
    BY <2>1, <2>6, <2>8 DEF nil
  <2>3. Mapped(N, Itself) = FlattenSeq(N)
    <3>1. \A i \in 1..43 : Itself[N[i]] = N[i]
      BY <2>6, <2>8
    <3>2. N = [i \in 1..43 |-> N[i]]
      BY <2>1
    <3>3. [i \in DOMAIN N |-> Itself[N[i]]] = N
      BY <2>1, <3>1, <3>2
    <3> QED BY <3>3 DEF Mapped
  <2>5. Mapped(N, Itself) = <<>>
    <3>1. Itself \in [Text -> Seq(Symbol)]
      BY <2>2
    <3>2. N \in Seq(Text)
      BY <2>1
    <3> HIDE DEF X, T, U
    <3>3. \A i \in 1..Len(N) : Itself[N[i]] = <<>>
      BY <2>4
    <3> QED BY <3>1, <3>2, <3>3, MappedNone
  <2> QED BY <2>3, <2>5 DEF SignedOf, N
<1>6. CASE m \in S
  <2>1. X = S
    BY <1>6
  <2> QED BY <1>4, <1>5, <1>6, <2>1 DEF SignsOn
<1>7. CASE m \notin S
  <2>1. \A j \in S : j < m /\ j \in 1..43
    BY <1>7
  <2>2. ASSUME NEW r \in 1..m - 1 PROVE U[r] = T[r]
    <3>1. r \in 1..43 /\ (r \in X <=> r \in S) /\ ((\A j \in X : r <= j) <=> (\A j \in S : r <= j))
      <4>1. r \in 1..43 /\ r # m /\ r <= m
        OBVIOUS
      <4> QED BY <4>1
    <3> QED BY <3>1 DEF SignedAt
  <2>3. ASSUME NEW r \in m..43 PROVE T[r] = <<>>
    <3>1. r \in 1..43 /\ r \notin S
      BY <2>1
    <3> QED BY <3>1 DEF SignedAt
  <2>4. ASSUME NEW r \in m + 1..43 PROVE U[r] = <<>>
    <3>1. r \in 1..43 /\ r \notin X
      BY <2>1
    <3> QED BY <3>1 DEF SignedAt
  <2>5. U[m] = IF S = {} THEN <<Order[m]>> ELSE <<";", Order[m]>>
    <3>1. U[m] = SignedAt(X, m) /\ m \in X
      OBVIOUS
    <3>2. (\A j \in X : m <= j) <=> S = {}
      BY <2>1
    <3> HIDE DEF X, U
    <3> QED BY <3>1, <3>2 DEF SignedAt
  <2> HIDE DEF T, U
  <2>6. Replaces(T, U, m)
    BY <1>2, <2>2, <2>3, <2>4 DEF Replaces
  <2>7. ReplacedEnds(T, U, m)
    BY <1>2, <2>6, FlattenReplace DEF Text
  <2>8. SignedOf(X) = SignedOf(S) \o U[m]
    BY <1>3, <2>7 DEF ReplacedEnds
  <2> QED BY <1>4, <1>5, <1>7, <2>5, <2>8 DEF SignsOn
<1> QED BY <1>6, <1>7

LastSigned(s, x) == IF s # <<>> /\ SameName(x, s[Len(s)]) THEN <<>>
                    ELSE IF s = <<>> THEN <<x.name.word>> ELSE <<";", x.name.word>>
SignsMore(s, x) == /\ SignedHeaders(<<>>) = <<>>
                   /\ SignedHeaders(Append(s, x)) = SignedHeaders(s) \o LastSigned(s, x)

\* The signer writes a name that is not the last one's.
LEMMA SignedHeadersGrow ==
  ASSUME NEW s \in Seq(Headers), NEW x \in Headers
  PROVE  SignsMore(s, x)
<1> DEFINE n == Len(s)
           w == Append(s, x)
           at(h, i) == IF i \notin Firsts(h) THEN <<>>
                       ELSE IF i = 1 THEN <<h[i].name.word>>
                       ELSE <<";", h[i].name.word>>
           T == [i \in 1..n |-> at(s, i)]
           U == [i \in 1..n + 1 |-> at(w, i)]
<1>1. n \in Nat /\ w \in Seq(Headers) /\ Len(w) = n + 1 /\ w[n + 1] = x /\ DOMAIN s = 1..n /\ DOMAIN w = 1..n + 1
      /\ \A i \in 1..n : w[i] = s[i] /\ s[i] \in Headers
  BY Grown
<1>2. ASSUME NEW h PROVE SignedHeaders(h) = FlattenSeq([i \in DOMAIN h |-> at(h, i)])
  BY Zenon DEF SignedHeaders
<1>3. SignedHeaders(s) = FlattenSeq(T) /\ SignedHeaders(w) = FlattenSeq(U)
  <2> HIDE DEF at, w, n
  <2> QED BY <1>1, <1>2
<1>4. ASSUME NEW h, NEW i, h[i] \in Headers PROVE at(h, i) \in Text
  <2> DEFINE c == h[i].name.word
             d == ";"
             e == <<>>
  <2>1. c \in Symbol
    BY <1>4, HeadersAre
  <2>2. d \in Symbol
    BY Signs
  <2>3. e \in Text
    BY DEF Text
  <2> HIDE DEF c, d, e, Symbol
  <2>4. <<c>> \in Text /\ <<d, c>> \in Text
    BY <2>1, <2>2, Two DEF Text
  <2> HIDE DEF Text
  <2> QED BY <2>3, <2>4 DEF c, d, e
<1> HIDE DEF w, n
<1>5. T \in Seq(Text) /\ Len(T) = n
  <2>1. \A i \in 1..n : at(s, i) \in Text
    BY <1>1, <1>4
  <2> HIDE DEF Text, at
  <2> QED BY <1>1, <2>1
<1>6. U \in Seq(Text) /\ Len(U) = n + 1
  <2>1. \A i \in 1..n + 1 : w[i] \in Headers
    BY <1>1
  <2>2. \A i \in 1..n + 1 : at(w, i) \in Text
    BY <1>4, <2>1
  <2> HIDE DEF Text, at
  <2> QED BY <1>1, <2>2
<1>7. ASSUME NEW i \in 1..n PROVE U[i] = T[i]
  <2>1. i \in 1..n + 1 /\ w[i] = s[i] /\ (i # 1 => i - 1 \in 1..n)
    BY <1>1
  <2>2. i # 1 => w[i - 1] = s[i - 1]
    BY <1>1, <2>1
  <2>3. i \in Firsts(w) <=> i \in Firsts(s)
    BY <1>1, <2>1, <2>2 DEF Firsts
  <2> QED BY <2>1, <2>3
<1>8. U[n + 1] = LastSigned(s, x)
  <2>1. n + 1 \in 1..n + 1 /\ (n + 1) - 1 = n /\ (n + 1 = 1 <=> s = <<>>) /\ (s # <<>> => n \in 1..n)
    BY <1>1 DEF n
  <2>2. w[n + 1] = x /\ (s # <<>> => w[n] = s[n])
    BY <1>1, <2>1
  <2>3. n + 1 \in Firsts(w) <=> (s = <<>> \/ ~SameName(x, s[n]))
    BY <1>1, <2>1, <2>2 DEF Firsts
  <2>4. U[n + 1] = at(w, n + 1)
    BY <2>1
  <2> QED BY <2>1, <2>2, <2>3, <2>4 DEF LastSigned, n
<1> HIDE DEF T, U
<1>9. Flattens(Symbol, T, U)
  <2>1. Longer(T, U)
    BY <1>5, <1>6, <1>7 DEF Longer
  <2> QED BY <1>5, <1>6, <2>1, FlattenGrows DEF Text
<1>10. SignedHeaders(w) = SignedHeaders(s) \o LastSigned(s, x)
  BY <1>3, <1>5, <1>8, <1>9 DEF Flattens
<1>11. SignedHeaders(<<>>) = <<>>
  <2> DEFINE e == <<>>
  <2>1. [i \in DOMAIN e |-> at(e, i)] = e
    OBVIOUS
  <2> HIDE DEF e, at
  <2>2. SignedHeaders(e) = FlattenSeq(e)
    BY <1>2, <2>1
  <2> QED BY <2>2, FlattenEmpty DEF e
<1> QED BY <1>10, <1>11 DEF SignsMore, w

\* Of sorted headers the signer writes each name once, in order.
LEMMA SignedHeadersIs ==
  ASSUME NEW h \in Seq(Headers), Sorted(h, HeaderOrder)
  PROVE  SignedHeaders(h) = SignedOf(RanksIn(h)) /\ SignedHeaders(h) \in Text
<1> DEFINE G == {t \in Seq(Headers) : Sorted(t, HeaderOrder) => SignedHeaders(t) = SignedOf(RanksIn(t))}
           nil == <<>>
<1>0. RanksIn(h) \in SUBSET (1..43)
  <2>1. \A i \in DOMAIN h : h[i] \in Headers
    OBVIOUS
  <2> QED BY <2>1, HeadersAre DEF RanksIn
<1>1. SignedOf({}) = <<>> /\ SignedOf(RanksIn(h)) \in Text
  <2> DEFINE m == 43
  <2>3. m \in 1..43 /\ \A j \in 1..43 : j <= m
    OBVIOUS
  <2>1. m \in 1..43 /\ \A j \in RanksIn(h) : j <= m
    BY <1>0, <2>3
  <2>2. SignsOn(RanksIn(h), 43)
    BY <1>0, <2>1, SignedGrows
  <2> QED BY <2>2 DEF SignsOn
<1>2. CASE Headers = {}
  <2>1. h = <<>>
    BY <1>2
  <2>2. RanksIn(<<>>) = {}
    BY DEF RanksIn
  <2>3. SignedHeaders(<<>>) = <<>>
    <3> DEFINE e == <<>>
    <3>1. \A i : i \notin DOMAIN e
      OBVIOUS
    <3>2. SignedHeaders(e) = FlattenSeq(e)
      <4>1. [i \in DOMAIN e |-> IF i \notin Firsts(e) THEN <<>> ELSE IF i = 1 THEN <<e[i].name.word>>
                                ELSE <<";", e[i].name.word>>] = e
        OBVIOUS
      <4> QED BY <4>1 DEF SignedHeaders
    <3> QED BY <3>2, FlattenEmpty
  <2> QED BY <1>1, <2>1, <2>2, <2>3
<1>3. CASE Headers # {}
  <2>1. nil \in G
    <3>1. PICK x \in Headers : TRUE
      BY <1>3
    <3>2. SignedHeaders(nil) = nil
      <4>1. nil \in Seq(Headers)
        OBVIOUS
      <4> HIDE DEF nil
      <4>2. SignsMore(nil, x)
        BY <4>1, SignedHeadersGrow
      <4> QED BY <4>2 DEF SignsMore, nil
    <3>3. RanksIn(nil) = {}
      BY DEF RanksIn
    <3>4. nil \in Seq(Headers)
      OBVIOUS
    <3> HIDE DEF nil
    <3>5. SignedHeaders(nil) = SignedOf(RanksIn(nil))
      BY <1>1, <3>2, <3>3 DEF nil
    <3> QED BY <3>4, <3>5
  <2>2. ASSUME NEW u \in Seq(Headers), NEW x \in Headers, u \in G PROVE Append(u, x) \in G
    <3> DEFINE w == Append(u, x)
               n == Len(u)
               S == RanksIn(u)
               m == WordRank(x)
    <3>1. n \in Nat /\ w \in Seq(Headers) /\ Len(w) = n + 1 /\ w[n + 1] = x /\ DOMAIN u = 1..n /\ DOMAIN w = 1..n + 1
          /\ \A i \in 1..n : w[i] = u[i] /\ u[i] \in Headers
      BY Grown
    <3>2. m \in 1..43 /\ Order[m] = x.name.word /\ \A k \in Headers : SameName(x, k) <=> m = WordRank(k)
      BY HeadersAre
    <3>3. SignedHeaders(w) = SignedHeaders(u) \o LastSigned(u, x)
      BY SignedHeadersGrow DEF SignsMore
    <3> HIDE DEF w, n, m
    <3>4. S \in SUBSET (1..43) /\ (S = {} <=> u = <<>>)
      <4>1. S = {WordRank(u[i]) : i \in 1..n}
        BY <3>1 DEF RanksIn
      <4>2. \A i \in 1..n : WordRank(u[i]) \in 1..43
        BY <3>1, HeadersAre
      <4>3. u = <<>> <=> 1 \notin 1..n
        BY <3>1 DEF n
      <4>4. S \in SUBSET (1..43)
        BY <4>1, <4>2
      <4>5. ASSUME u = <<>> PROVE S = {}
        <5>1. \A i \in 1..n : FALSE
          BY <3>1, <4>3, <4>5
        <5> HIDE DEF S
        <5> QED BY <4>1, <5>1
      <4>6. ASSUME u # <<>> PROVE S # {}
        <5>1. WordRank(u[1]) \in S
          BY <4>1, <4>3, <4>6
        <5> QED BY <5>1
      <4> QED BY <4>4, <4>5, <4>6
    <3>5. RanksIn(w) = S \cup {m}
      <4>1. RanksIn(w) = {WordRank(w[i]) : i \in 1..n + 1} /\ S = {WordRank(u[i]) : i \in 1..n}
        BY <3>1 DEF RanksIn
      <4>2. n + 1 \in 1..n + 1 /\ WordRank(w[n + 1]) = m /\ \A i \in 1..n + 1 : i \in 1..n \/ i = n + 1
        BY <3>1 DEF m
      <4>3. \A i \in 1..n : i \in 1..n + 1 /\ WordRank(w[i]) = WordRank(u[i])
        BY <3>1
      <4> HIDE DEF S
      <4> QED BY <4>1, <4>2, <4>3
    <3>6. ASSUME Sorted(w, HeaderOrder) PROVE SignedHeaders(w) = SignedOf(RanksIn(w))
      <4>1. Sorted(u, HeaderOrder)
        <5> HIDE DEF HeaderOrder, Headers
        <5>1. \A i \in 1..n : i \in 1..n + 1 /\ w[i] = u[i]
          BY <3>1
        <5> QED BY <3>1, <3>6, <5>1 DEF Sorted
      <4>2. SignedHeaders(u) = SignedOf(S)
        BY <2>2, <4>1
      <4>3. \A i \in 1..n : WordRank(u[i]) <= m
        <5> SUFFICES ASSUME NEW i \in 1..n PROVE WordRank(u[i]) <= m
          OBVIOUS
        <5>1. i \in 1..Len(w) /\ n + 1 \in i..Len(w) /\ w[i] = u[i] /\ w[n + 1] = x
          BY <3>1
        <5>2. WordRank(w[i]) <= WordRank(w[n + 1])
          BY <3>1, <3>6, <5>1, SortedRanks
        <5> QED BY <5>1, <5>2 DEF m
      <4>4. \A j \in S : j <= m
        BY <3>1, <4>3 DEF RanksIn
      <4>5. SignsOn(S, m)
        BY <3>2, <3>4, <4>4, SignedGrows
      <4>6. m \in S <=> (u # <<>> /\ SameName(x, u[n]))
        <5>1. ASSUME m \in S PROVE u # <<>> /\ SameName(x, u[n])
          <6>1. PICK i \in 1..n : WordRank(u[i]) = m
            BY <3>1, <5>1 DEF RanksIn
          <6>2. n \in 1..n /\ i \in 1..Len(u) /\ n \in i..Len(u)
            BY <3>1 DEF n
          <6>3. m <= WordRank(u[n])
            BY <4>1, <6>1, <6>2, SortedRanks
          <6>4. WordRank(u[n]) <= m /\ u[n] \in Headers
            BY <3>1, <4>3, <6>2
          <6>5. WordRank(u[n]) \in 1..43
            BY <6>4, HeadersAre
          <6>6. m = WordRank(u[n])
            <7>1. \A a, b \in 1..43 : a <= b /\ b <= a => a = b
              OBVIOUS
            <7>2. m \in 1..43
              BY <3>2
            <7> QED BY <6>3, <6>4, <6>5, <7>1, <7>2
          <6> QED BY <3>2, <3>4, <5>1, <6>4, <6>6
        <5>2. ASSUME u # <<>>, SameName(x, u[n]) PROVE m \in S
          <6>1. n \in 1..n
            BY <3>1, <5>2 DEF n
          <6>2. WordRank(u[n]) = m
            BY <3>1, <3>2, <5>2, <6>1
          <6> QED BY <3>1, <6>1, <6>2 DEF RanksIn
        <5> QED BY <5>1, <5>2
      <4> HIDE DEF S
      <4>7. SignedOf(S) \o <<>> = SignedOf(S)
        <5>1. SignedOf(S) \in Seq(Symbol)
          BY <4>5 DEF SignsOn, Text
        <5> QED BY <5>1, ConcatEmptySeq
      <4>8. LastSigned(u, x) = IF m \in S THEN <<>> ELSE IF S = {} THEN <<Order[m]>> ELSE <<";", Order[m]>>
        BY <3>2, <3>4, <4>6 DEF LastSigned, n
      <4> QED BY <3>3, <3>5, <4>2, <4>5, <4>7, <4>8 DEF SignsOn
    <3>7. w \in G
      BY <3>1, <3>6
    <3> QED BY <3>7 DEF w
  <2> HIDE DEF G
  <2>3. h \in G
    BY <2>1, <2>2, SeqInd
  <2>4. SignedHeaders(h) = SignedOf(RanksIn(h))
    BY <2>3 DEF G
  <2> QED BY <1>1, <2>4
<1> QED BY <1>2, <1>3

\* The signer signs the names the server finds.
LEMMA SignedAgree ==
  ASSUME NEW h \in Seq(Headers), Sorted(h, HeaderOrder), NEW wire \in Seq(Headers), WordsIn(h) = WordsIn(wire)
  PROVE  SignedHeaders(h) = ServerSigned(wire) /\ SignedHeaders(h) \in Text
<1>1. ASSUME NEW s \in Seq(Headers) PROVE RanksIn(s) = {Rank[w] : w \in WordsIn(s)}
  BY DEF RanksIn, WordsIn, WordRank
<1>2. RanksIn(h) = RanksIn(wire)
  BY <1>1
<1> QED BY <1>2, SignedHeadersIs, ServerSignedIs

-----------------------------------------------------------------------------
(* The two signatures                                                      *)

\* A request of the caller, with a payload that is hashed here.
IsRequest(in) ==
    /\ in.host \in Text /\ in.path \in Text /\ in.path # <<>> /\ Head(in.path) = "/"
    /\ in.params \in Seq(Pairs) /\ in.headers \in Seq(Headers)
    /\ in.service \in Symbol /\ in.region \in Symbol /\ in.access \in Symbol
    /\ in.token \in Text /\ in.late \in BOOLEAN /\ in.override = <<>>
    /\ in.payload \in Text /\ in.signPayload \in BOOLEAN

SignerPath(in) == IF in.service = "s3" THEN Uri(in.path, FALSE) ELSE Encoded(Normalized(in.path), TRUE, TRUE)
PathOfServer(in, path) == IF in.service = "s3" THEN path ELSE Encoded(ServerPath(path), TRUE, FALSE)

\* Both ends take the path for the same.
LEMMA PathsAgree ==
  ASSUME NEW in, IsRequest(in)
  PROVE  /\ SignerPath(in) = PathOfServer(in, Encoded(in.path, TRUE, FALSE))
         /\ Uri(in.path, FALSE) = Encoded(in.path, TRUE, FALSE)
<1> DEFINE path == in.path
<1>1. path \in Text /\ path # <<>>
  BY DEF IsRequest
<1>2. Uri(path, FALSE) = Encoded(path, TRUE, FALSE)
  BY <1>1 DEF Uri
<1>3. Encoded(Normalized(path), TRUE, TRUE) = Encoded(ServerPath(path), TRUE, TRUE)
  BY <1>1, NormalizedIs
<1>4. ServerPath(path) \in Text /\ ServerPath(InPath(path)) = InPath(ServerPath(path))
  BY <1>1, ServerPathEncoded DEF PathEncoded
<1>5. Encoded(InPath(ServerPath(path)), TRUE, FALSE) = Encoded(ServerPath(path), TRUE, TRUE)
  BY <1>4, EncodedTwice DEF InPath
<1>6. Encoded(ServerPath(Encoded(path, TRUE, FALSE)), TRUE, FALSE) = Encoded(Normalized(path), TRUE, TRUE)
  BY <1>3, <1>4, <1>5 DEF InPath
<1> QED BY <1>2, <1>6 DEF SignerPath, PathOfServer

\* The server's query is this one.
OwnQuery(query) == (IF query = <<>> THEN <<>> ELSE ServerQuery(query)) = query

SignedSame(in, query, h, wire, payload) ==
    SignCanonical(in, query, h, payload)
    = ServerSignature(in, Encoded(in.path, TRUE, FALSE), query, wire, payload)

\* The two ends sign the same request when the headers have the same values.
LEMMA SignatureAgrees ==
  ASSUME NEW in, IsRequest(in), NEW query, OwnQuery(query),
         NEW h \in Seq(Headers), Sorted(h, HeaderOrder), NEW wire \in Seq(Headers), SameValues(h, wire),
         NEW payload
  PROVE  SignedSame(in, query, h, wire, payload) /\ SignedHeaders(h) = ServerSigned(wire)
         /\ SignedHeaders(h) \in Text
<1>1. CanonicalHeaders(h) = ServerHeaders(wire) /\ WordsIn(h) = WordsIn(wire)
  BY HeadersAgree
<1>2. SignedHeaders(h) = ServerSigned(wire) /\ SignedHeaders(h) \in Text
  BY <1>1, SignedAgree
<1> DEFINE key == <<"AWS4", in.secret, "now", in.region, in.service>>
           scope == <<"now", "/", in.region, "/", in.service, "/", "aws4_request">>
           path == Encoded(in.path, TRUE, FALSE)
<1>3. SignerPath(in) = PathOfServer(in, path)
  BY PathsAgree
<1>4. SignCanonical(in, query, h, payload) =
        [key |-> key, scope |-> scope,
         request |-> [method |-> in.method, path |-> SignerPath(in), query |-> query,
                      headers |-> CanonicalHeaders(h), signed |-> SignedHeaders(h), payload |-> payload]]
  BY DEF SignCanonical, Scope, SignerPath
<1>5. ServerSignature(in, path, query, wire, payload) =
        [key |-> key, scope |-> scope,
         request |-> [method |-> in.method, path |-> PathOfServer(in, path),
                      query |-> IF query = <<>> THEN <<>> ELSE ServerQuery(query),
                      headers |-> ServerHeaders(wire), signed |-> ServerSigned(wire), payload |-> payload]]
  BY DEF ServerSignature, PathOfServer
<1>6. (IF query = <<>> THEN <<>> ELSE ServerQuery(query)) = query
  BY DEF OwnQuery
<1> HIDE DEF key, scope, path
<1>7. SignCanonical(in, query, h, payload) = ServerSignature(in, path, query, wire, payload)
  BY <1>1, <1>2, <1>3, <1>4, <1>5, <1>6
<1> QED BY <1>2, <1>7 DEF SignedSame, path

Collected(builtin, extra) == /\ CollectHeaders(builtin, extra) \in Seq(Headers)
                             /\ Sorted(CollectHeaders(builtin, extra), HeaderOrder)
                             /\ SameValues(CollectHeaders(builtin, extra), builtin \o extra)

\* The headers collected are sorted, with their values in order.
LEMMA CollectedAre ==
  ASSUME NEW builtin \in Seq(Headers), NEW extra \in Seq(Headers)
  PROVE  Collected(builtin, extra)
<1> DEFINE s == builtin \o extra
           h == CollectHeaders(builtin, extra)
<1>1. s \in Seq(Headers)
  OBVIOUS
<1>2. h = SortedBy(Headers, HeaderOrder, s)
  BY CollectHeadersIs DEF CollectsTo
<1>3. WeakOrder(HeaderOrder, Headers)
  BY HeadersSort
<1> HIDE DEF s, h
<1>4. h \in Seq(Headers) /\ Sorted(h, HeaderOrder)
  BY <1>1, <1>2, <1>3, SortedByIs DEF SortsTo
<1>5. ASSUME NEW w \in Symbol PROVE Mapped(h, ValuesOf(w)) = Mapped(s, ValuesOf(w))
  <2>1. ValuesOf(w) \in [Headers -> Seq(Text)] /\ Alike(HeaderOrder, Headers, ValuesOf(w))
    BY ValuesOfAre
  <2>2. SortsAlike(Headers, HeaderOrder, s, ValuesOf(w))
    BY <1>1, <1>3, <2>1, MappedSorted
  <2> QED BY <1>2, <2>2 DEF SortsAlike
<1> QED BY <1>4, <1>5 DEF Collected, SameValues, s, h

WordsApart(s, t) == WordsIn(s \o t) = WordsIn(s) \cup WordsIn(t)

\* The names in joined lists.
LEMMA WordsConcat ==
  ASSUME NEW s \in Seq(Headers), NEW t \in Seq(Headers)
  PROVE  WordsApart(s, t)
<1> DEFINE n == Len(s)
           m == Len(t)
           u == s \o t
<1>1. n \in Nat /\ m \in Nat /\ DOMAIN s = 1..n /\ DOMAIN t = 1..m /\ DOMAIN u = 1..n + m
  OBVIOUS
<1>2. \A i \in 1..n + m : u[i] = IF i <= n THEN s[i] ELSE t[i - n]
  BY ConcatProperties
<1> HIDE DEF n, m, u
<1>3. ASSUME NEW i \in 1..n PROVE i \in 1..n + m /\ u[i] = s[i]
  BY <1>1, <1>2
<1>4. ASSUME NEW i \in 1..m PROVE n + i \in 1..n + m /\ u[n + i] = t[i]
  <2>1. n + i \in 1..n + m /\ ~(n + i <= n) /\ (n + i) - n = i
    BY <1>1
  <2> QED BY <1>2, <2>1
<1>5. ASSUME NEW i \in 1..n + m PROVE u[i].name.word \in WordsIn(s) \cup WordsIn(t)
  <2>1. CASE i <= n
    <3>1. i \in 1..n
      BY <1>1, <2>1
    <3> QED BY <1>1, <1>3, <3>1 DEF WordsIn
  <2>2. CASE ~(i <= n)
    <3>1. i - n \in 1..m
      BY <1>1, <2>2
    <3> QED BY <1>1, <1>2, <2>2, <3>1 DEF WordsIn
  <2> QED BY <2>1, <2>2
<1>6. WordsIn(u) \subseteq WordsIn(s) \cup WordsIn(t)
  BY <1>1, <1>5 DEF WordsIn
<1>7. WordsIn(s) \subseteq WordsIn(u)
  BY <1>1, <1>3 DEF WordsIn
<1>8. WordsIn(t) \subseteq WordsIn(u)
  BY <1>1, <1>4 DEF WordsIn
<1> QED BY <1>6, <1>7, <1>8 DEF WordsApart, u

\* A list with one header.
LEMMA OneHeader ==
  ASSUME NEW w \in Symbol, NEW v \in Text
  PROVE  <<Header(w, v)>> \in Seq(Headers) /\ WordsIn(<<Header(w, v)>>) = {w} /\ Len(<<Header(w, v)>>) = 1
<1> DEFINE h == Header(w, v)
<1>1. h = [name |-> [word |-> w, caps |-> FALSE], value |-> v]
  BY DEF Header
<1> HIDE DEF h, Symbol, Text
<1>2. h \in Headers /\ h.name.word = w
  BY <1>1 DEF Headers
<1> HIDE DEF Headers
<1>3. <<h>> \in Seq(Headers) /\ Len(<<h>>) = 1 /\ DOMAIN <<h>> = {1} /\ <<h>>[1] = h
  BY <1>2
<1> DEFINE s == <<h>>
<1> HIDE DEF s
<1>4. s \in Seq(Headers) /\ Len(s) = 1 /\ DOMAIN s = {1} /\ s[1] = h
  BY <1>3 DEF s
<1>5. WordsIn(s) = {w}
  BY <1>2, <1>4 DEF WordsIn
<1> QED BY <1>4, <1>5 DEF s, h

\* A list with none.
LEMMA NoHeader == <<>> \in Seq(Headers) /\ WordsIn(<<>>) = {} /\ Len(<<>>) = 0
<1>1. <<>> \in Seq(Headers) /\ Len(<<>>) = 0
  OBVIOUS
<1>2. WordsIn(<<>>) = {}
  BY DEF WordsIn
<1> QED BY <1>1, <1>2

AllFive(a, b, c, d, e) == (((a \o b) \o c) \o d) \o e
Rearranged(a, b, c, d, e) == AllFive(a, b, c, d, e) = AllFive(b, d, e, c, a)

\* Lists of which one at most is not empty may be joined in any order.
LEMMA AnyOrder ==
  ASSUME NEW V, NEW a \in Seq(V), NEW b \in Seq(V), NEW c \in Seq(V), NEW d \in Seq(V), NEW e \in Seq(V),
         NEW nil, nil = <<>>,
         \/ b = nil /\ c = nil /\ d = nil /\ e = nil
         \/ a = nil /\ c = nil /\ d = nil /\ e = nil
         \/ a = nil /\ b = nil /\ d = nil /\ e = nil
         \/ a = nil /\ b = nil /\ c = nil /\ e = nil
         \/ a = nil /\ b = nil /\ c = nil /\ d = nil
  PROVE  Rearranged(a, b, c, d, e)
<1>1. \A s \in Seq(V) : s \o nil = s /\ nil \o s = s
  BY ConcatEmptySeq
<1>2. nil \in Seq(V)
  OBVIOUS
<1>3. CASE b = nil /\ c = nil /\ d = nil /\ e = nil
  BY <1>1, <1>2, <1>3 DEF Rearranged, AllFive
<1>4. CASE a = nil /\ c = nil /\ d = nil /\ e = nil
  BY <1>1, <1>2, <1>4 DEF Rearranged, AllFive
<1>5. CASE a = nil /\ b = nil /\ d = nil /\ e = nil
  BY <1>1, <1>2, <1>5 DEF Rearranged, AllFive
<1>6. CASE a = nil /\ b = nil /\ c = nil /\ e = nil
  BY <1>1, <1>2, <1>6 DEF Rearranged, AllFive
<1>7. CASE a = nil /\ b = nil /\ c = nil /\ d = nil
  BY <1>1, <1>2, <1>7 DEF Rearranged, AllFive
<1> QED BY <1>3, <1>4, <1>5, <1>6, <1>7

MapsAllFive(V, a, b, c, d, e, g) ==
    Mapped(AllFive(a, b, c, d, e), g) =
        AllFive(Mapped(a, g), Mapped(b, g), Mapped(c, g), Mapped(d, g), Mapped(e, g))

\* Five lists joined.
LEMMA MappedFive ==
  ASSUME NEW E, NEW V, NEW g \in [E -> Seq(V)],
         NEW a \in Seq(E), NEW b \in Seq(E), NEW c \in Seq(E), NEW d \in Seq(E), NEW e \in Seq(E)
  PROVE  MapsAllFive(V, a, b, c, d, e, g)
<1> DEFINE ab == a \o b
           abc == ab \o c
           abcd == abc \o d
<1>1. ab \in Seq(E)
  OBVIOUS
<1> HIDE DEF ab
<1>2. abc \in Seq(E)
  BY <1>1
<1> HIDE DEF abc
<1>3. abcd \in Seq(E)
  BY <1>2
<1> HIDE DEF abcd
<1>4. MapsApart(V, a, b, g) /\ MapsApart(V, ab, c, g) /\ MapsApart(V, abc, d, g) /\ MapsApart(V, abcd, e, g)
  BY <1>1, <1>2, <1>3, MappedConcat
<1>5. /\ Mapped(ab, g) = Mapped(a, g) \o Mapped(b, g)
      /\ Mapped(abc, g) = Mapped(ab, g) \o Mapped(c, g)
      /\ Mapped(abcd, g) = Mapped(abc, g) \o Mapped(d, g)
      /\ Mapped(abcd \o e, g) = Mapped(abcd, g) \o Mapped(e, g)
  BY <1>4 DEF MapsApart, ab, abc, abcd
<1>6. Mapped(abcd \o e, g) = AllFive(Mapped(a, g), Mapped(b, g), Mapped(c, g), Mapped(d, g), Mapped(e, g))
  BY <1>5 DEF AllFive
<1> QED BY <1>6 DEF MapsAllFive, AllFive, abcd, abc, ab

-----------------------------------------------------------------------------
(* The headers of a signed request                                         *)

HostOf(in) == <<Header("host", in.host)>>
DateOf(in) == <<Header("x-amz-date", <<"now">>)>>
TokenOf(in) == IF in.token = <<>> THEN <<>> ELSE <<Header("x-amz-security-token", in.token)>>
HashOf(in) == IF in.signPayload THEN <<Header("x-amz-content-sha256", <<"hash">> \o in.payload)>> ELSE <<>>

List(s, words) == s \in Seq(Headers) /\ WordsIn(s) = words /\ Len(s) \in Nat

TokenWords(in) == IF in.token = <<>> THEN {} ELSE {"x-amz-security-token"}
HashWords(in) == IF in.signPayload THEN {"x-amz-content-sha256"} ELSE {}

\* The headers that are added, and their names.
LEMMA AddedAre ==
  ASSUME NEW in, IsRequest(in)
  PROVE  /\ List(HostOf(in), {"host"}) /\ List(DateOf(in), {"x-amz-date"})
         /\ List(TokenOf(in), TokenWords(in)) /\ List(HashOf(in), HashWords(in))
<1>1. in.host \in Text /\ in.token \in Text /\ in.payload \in Text
  BY DEF IsRequest
<1>2. {"host", "x-amz-date", "x-amz-security-token", "x-amz-content-sha256", "now", "hash"} \subseteq Symbol
  BY Words, HeaderNames
<1> HIDE DEF Symbol
<1>3. <<"now">> \in Text /\ <<"hash">> \in Text
  BY <1>2 DEF Text
<1>4. <<"hash">> \o in.payload \in Text
  BY <1>1, <1>3 DEF Text
<1> HIDE DEF Text
<1>5. ASSUME NEW w \in Symbol, NEW v \in Text PROVE List(<<Header(w, v)>>, {w})
  BY OneHeader DEF List
<1>6. List(<<>>, {})
  BY NoHeader DEF List
<1>7. List(HostOf(in), {"host"}) /\ List(DateOf(in), {"x-amz-date"})
  BY <1>1, <1>2, <1>3, <1>5 DEF HostOf, DateOf
<1>8. List(TokenOf(in), TokenWords(in))
  <2>1. CASE in.token = <<>>
    BY <1>6, <2>1 DEF TokenOf, TokenWords
  <2>2. CASE in.token # <<>>
    BY <1>1, <1>2, <1>5, <2>2 DEF TokenOf, TokenWords
  <2> QED BY <2>1, <2>2
<1>9. List(HashOf(in), HashWords(in))
  <2>1. CASE ~in.signPayload
    BY <1>6, <2>1 DEF HashOf, HashWords
  <2>2. CASE in.signPayload
    <3>1. List(<<Header("x-amz-content-sha256", <<"hash">> \o in.payload)>>, {"x-amz-content-sha256"})
      BY <1>2, <1>4, <1>5
    <3> QED BY <2>2, <3>1 DEF HashOf, HashWords
  <2> QED BY <2>1, <2>2
<1> QED BY <1>7, <1>8, <1>9

BuiltinOf(in) == ((HostOf(in) \o DateOf(in)) \o TokenOf(in)) \o HashOf(in)
WireOf(in) == AllFive(DateOf(in), HashOf(in), in.headers, TokenOf(in), HostOf(in))

\* Those the signer adds.
LEMMA BuiltinIs ==
  ASSUME NEW in, IsRequest(in)
  PROVE  /\ Builtin(in) = BuiltinOf(in) /\ List(Builtin(in), AddedWords(in))
         /\ Builtin(in) \o in.headers = AllFive(HostOf(in), DateOf(in), TokenOf(in), HashOf(in), in.headers)
<1> DEFINE a == HostOf(in)
           b == DateOf(in)
           c == TokenOf(in)
           d == HashOf(in)
<1>1. List(a, {"host"}) /\ List(b, {"x-amz-date"}) /\ List(c, TokenWords(in)) /\ List(d, HashWords(in))
  BY AddedAre
<1>2. PayloadHash(in) = <<"hash">> \o in.payload
  BY DEF PayloadHash, IsRequest
<1>3. <<Header("host", in.host), Header("x-amz-date", <<"now">>)>> = a \o b
  <2> DEFINE x == Header("host", in.host)
             y == Header("x-amz-date", <<"now">>)
  <2> HIDE DEF x, y
  <2>1. x \in {x, y} /\ y \in {x, y}
    OBVIOUS
  <2>2. <<x, y>> = <<x>> \o <<y>>
    BY <2>1, Two
  <2> QED BY <2>2 DEF HostOf, DateOf, x, y
<1>4. (IF in.token # <<>> THEN <<Header("x-amz-security-token", in.token)>> ELSE <<>>) = c
  BY DEF TokenOf
<1>5. (IF in.signPayload THEN <<Header("x-amz-content-sha256", PayloadHash(in))>> ELSE <<>>) = d
  BY <1>2 DEF HashOf
<1>6. Builtin(in) = ((a \o b) \o c) \o d
  BY <1>3, <1>4, <1>5, Zenon DEF Builtin
<1> DEFINE ab == a \o b
           abc == ab \o c
<1> HIDE DEF a, b, c, d
<1>7. a \in Seq(Headers) /\ b \in Seq(Headers) /\ c \in Seq(Headers) /\ d \in Seq(Headers)
  BY <1>1 DEF List
<1>8. ab \in Seq(Headers) /\ WordsIn(ab) = {"host"} \cup {"x-amz-date"}
  <2>1. WordsApart(a, b)
    BY <1>7, WordsConcat
  <2> QED BY <1>1, <1>7, <2>1 DEF List, WordsApart
<1> HIDE DEF ab
<1>9. abc \in Seq(Headers) /\ WordsIn(abc) = WordsIn(ab) \cup TokenWords(in)
  <2>1. WordsApart(ab, c)
    BY <1>7, <1>8, WordsConcat
  <2> QED BY <1>1, <1>7, <1>8, <2>1 DEF List, WordsApart
<1> HIDE DEF abc
<1>10. abc \o d \in Seq(Headers) /\ WordsIn(abc \o d) = WordsIn(abc) \cup HashWords(in)
  <2>1. WordsApart(abc, d)
    BY <1>7, <1>9, WordsConcat
  <2> QED BY <1>1, <1>7, <1>9, <2>1 DEF List, WordsApart
<1>11. AddedWords(in) = (({"host"} \cup {"x-amz-date"}) \cup TokenWords(in)) \cup HashWords(in)
  BY DEF AddedWords, TokenWords, HashWords
<1>12. WordsIn(abc \o d) = AddedWords(in)
  BY <1>8, <1>9, <1>10, <1>11
<1>13. Builtin(in) = abc \o d
  BY <1>6 DEF abc, ab
<1>14. List(Builtin(in), AddedWords(in))
  <2>1. Len(abc \o d) \in Nat
    BY <1>10
  <2> QED BY <1>10, <1>12, <1>13, <2>1 DEF List
<1>15. Builtin(in) = BuiltinOf(in)
  BY <1>6 DEF BuiltinOf, a, b, c, d
<1>16. Builtin(in) \o in.headers = AllFive(a, b, c, d, in.headers)
  BY <1>6 DEF AllFive
<1> QED BY <1>14, <1>15, <1>16 DEF a, b, c, d

Lengths(in) == /\ WireOf(in) \in Seq(Headers)
               /\ Len(WireOf(in)) = Len(Builtin(in)) + Len(in.headers)

\* The wire has as many headers as the signer counts.
LEMMA WireLength ==
  ASSUME NEW in, IsRequest(in)
  PROVE  Lengths(in)
<1> DEFINE a == HostOf(in)
           b == DateOf(in)
           c == TokenOf(in)
           d == HashOf(in)
           e == in.headers
<1>1. a \in Seq(Headers) /\ b \in Seq(Headers) /\ c \in Seq(Headers) /\ d \in Seq(Headers)
  BY AddedAre DEF List
<1>2. e \in Seq(Headers)
  BY DEF IsRequest
<1>3. Builtin(in) = ((a \o b) \o c) \o d
  BY BuiltinIs DEF BuiltinOf
<1>4. WireOf(in) = (((b \o d) \o e) \o c) \o a
  BY DEF WireOf, AllFive
<1> HIDE DEF a, b, c, d, e
<1>5. ASSUME NEW s \in Seq(Headers), NEW t \in Seq(Headers)
      PROVE  s \o t \in Seq(Headers) /\ Len(s \o t) = Len(s) + Len(t) /\ Len(s) \in Nat /\ Len(t) \in Nat
  BY ConcatProperties
<1> DEFINE p == a \o b
           q == p \o c
           u == b \o d
           v == u \o e
           w == v \o c
<1>6. p \in Seq(Headers) /\ Len(p) = Len(a) + Len(b)
  BY <1>1, <1>5
<1>7. u \in Seq(Headers) /\ Len(u) = Len(b) + Len(d)
  BY <1>1, <1>5
<1> HIDE DEF p, u
<1>8. q \in Seq(Headers) /\ Len(q) = Len(p) + Len(c)
  BY <1>1, <1>5, <1>6
<1>9. v \in Seq(Headers) /\ Len(v) = Len(u) + Len(e)
  BY <1>2, <1>5, <1>7
<1> HIDE DEF q, v
<1>10. w \in Seq(Headers) /\ Len(w) = Len(v) + Len(c)
  BY <1>1, <1>5, <1>9
<1> HIDE DEF w
<1>11. w \o a \in Seq(Headers) /\ Len(w \o a) = Len(w) + Len(a)
  BY <1>1, <1>5, <1>10
<1>12. Len(q \o d) = Len(q) + Len(d)
  BY <1>1, <1>5, <1>8
<1>13. Len(a) \in Nat /\ Len(b) \in Nat /\ Len(c) \in Nat /\ Len(d) \in Nat /\ Len(e) \in Nat
  BY <1>1, <1>2
<1>14. Len(w \o a) = Len(q \o d) + Len(e)
  BY <1>6, <1>7, <1>8, <1>9, <1>10, <1>11, <1>12, <1>13
<1>15. WireOf(in) = w \o a /\ Builtin(in) = q \o d
  BY <1>3, <1>4 DEF p, q, u, v, w
<1> QED BY <1>11, <1>14, <1>15 DEF Lengths, e

ReservedIn(in) == \E h \in ToSet(in.headers) : h.name.word \in {"authorization"} \cup AddedWords(in)

\* The signer refuses a name of its own, and more headers than it has room for.
LEMMA RefusedIs ==
  ASSUME NEW in, IsRequest(in)
  PROVE  Refused(Builtin(in), in.headers) <=> ReservedIn(in) \/ ~(Len(WireOf(in)) <= MaxHeaders)
<1>1. WordsIn(Builtin(in)) = AddedWords(in) /\ Len(Builtin(in)) \in Nat
  BY BuiltinIs DEF List
<1>2. Len(WireOf(in)) = Len(Builtin(in)) + Len(in.headers)
  BY WireLength DEF Lengths
<1>3. in.headers \in Seq(Headers)
  BY DEF IsRequest
<1>4. Len(in.headers) \in Nat
  BY <1>3
<1> DEFINE s == Builtin(in)
<1> HIDE DEF s
<1>5. WordsIn(s) = AddedWords(in)
  BY <1>1 DEF s
<1>6. \A h : NameReserved(s, h) <=> h.name.word \in {"authorization"} \cup WordsIn(s)
  BY DEF NameReserved, SameName, ToSet, WordsIn
<1>7. (\E h \in ToSet(in.headers) : NameReserved(s, h)) <=> ReservedIn(in)
  BY <1>5, <1>6 DEF ReservedIn
<1>8. Len(s) + Len(in.headers) > MaxHeaders <=> ~(Len(WireOf(in)) <= MaxHeaders)
  BY <1>1, <1>2, <1>4, MaxHeadersAssumption DEF s
<1> QED BY <1>7, <1>8 DEF Refused, s

\* The values of each name stand in the same order on the wire.
LEMMA WireSame ==
  ASSUME NEW in, IsRequest(in), ~ReservedIn(in)
  PROVE  SameValues(Builtin(in) \o in.headers, WireOf(in))
<1> DEFINE a == HostOf(in)
           b == DateOf(in)
           c == TokenOf(in)
           d == HashOf(in)
           e == in.headers
<1>1. a \in Seq(Headers) /\ b \in Seq(Headers) /\ c \in Seq(Headers) /\ d \in Seq(Headers)
  BY AddedAre DEF List
<1>2. e \in Seq(Headers)
  BY DEF IsRequest
<1>3. Builtin(in) \o in.headers = AllFive(a, b, c, d, e) /\ WireOf(in) = AllFive(b, d, e, c, a)
  BY BuiltinIs DEF WireOf
<1>4. /\ WordsIn(a) = {"host"} /\ WordsIn(b) = {"x-amz-date"}
      /\ WordsIn(c) = TokenWords(in) /\ WordsIn(d) = HashWords(in)
  BY AddedAre DEF List
<1>5. AddedWords(in) = (({"host"} \cup {"x-amz-date"}) \cup TokenWords(in)) \cup HashWords(in)
  BY DEF AddedWords, TokenWords, HashWords
<1>6. \A w \in WordsIn(e) : w \notin AddedWords(in)
  BY DEF ReservedIn, ToSet, WordsIn
<1> HIDE DEF a, b, c, d, e
<1>7. ASSUME NEW w \in Symbol PROVE Mapped(Builtin(in) \o in.headers, ValuesOf(w)) = Mapped(WireOf(in), ValuesOf(w))
  <2> DEFINE g == ValuesOf(w)
             A == Mapped(a, g)
             B == Mapped(b, g)
             C == Mapped(c, g)
             D == Mapped(d, g)
             E == Mapped(e, g)
             nil == <<>>
  <2>1. g \in [Headers -> Seq(Text)]
    BY ValuesOfAre
  <2>2. A \in Seq(Text) /\ B \in Seq(Text) /\ C \in Seq(Text) /\ D \in Seq(Text) /\ E \in Seq(Text)
    <3> HIDE DEF g
    <3> QED BY <1>1, <1>2, <2>1, MappedIn
  <2>3. /\ w \in WordsIn(a) <=> A # nil
        /\ w \in WordsIn(b) <=> B # nil
        /\ w \in WordsIn(c) <=> C # nil
        /\ w \in WordsIn(d) <=> D # nil
        /\ w \in WordsIn(e) <=> E # nil
    BY <1>1, <1>2, WordsFrom
  <2>4. MapsAllFive(Text, a, b, c, d, e, g) /\ MapsAllFive(Text, b, d, e, c, a, g)
    <3> HIDE DEF g
    <3> QED BY <1>1, <1>2, <2>1, MappedFive
  <2>5. nil = <<>>
    OBVIOUS
  <2>6. TokenWords(in) \subseteq {"x-amz-security-token"} /\ HashWords(in) \subseteq {"x-amz-content-sha256"}
    BY DEF TokenWords, HashWords
  <2> HIDE DEF g, A, B, C, D, E, nil
  <2>7. \/ B = nil /\ C = nil /\ D = nil /\ E = nil
        \/ A = nil /\ C = nil /\ D = nil /\ E = nil
        \/ A = nil /\ B = nil /\ D = nil /\ E = nil
        \/ A = nil /\ B = nil /\ C = nil /\ E = nil
        \/ A = nil /\ B = nil /\ C = nil /\ D = nil
    BY <1>4, <1>5, <1>6, <2>3, <2>6
  <2>8. Rearranged(A, B, C, D, E)
    BY <2>2, <2>5, <2>7, AnyOrder
  <2>9. Mapped(AllFive(a, b, c, d, e), g) = Mapped(AllFive(b, d, e, c, a), g)
    BY <2>4, <2>8 DEF MapsAllFive, Rearranged, A, B, C, D, E
  <2> QED BY <1>3, <2>9 DEF g
<1> QED BY <1>7 DEF SameValues

\* The Authorization header of a request that is not refused is what the service
\* computes, whatever the request: sigv4 against a server that has only the wire.
THEOREM HeaderVerifies ==
  ASSUME NEW in, IsRequest(in)
  PROVE  Agrees(in)
<1> DEFINE h == CollectHeaders(Builtin(in), in.headers)
           query == BuildQuery(in.params)
           payload == <<"hash">> \o in.payload
           wire == WireOf(in)
           r == Sigv4(in)
<1>1. Head(in.path) = "/" /\ PayloadHash(in) = payload
  BY DEF IsRequest, PayloadHash
<1>2. Builtin(in) \in Seq(Headers) /\ in.headers \in Seq(Headers) /\ in.params \in Seq(Pairs)
  BY BuiltinIs DEF List, IsRequest
<1>3. wire \in Seq(Headers)
  BY WireLength DEF Lengths
<1>4. OwnQuery(query)
  BY <1>2, ServerQueryBuilt DEF OwnQuery
<1>5. Collected(Builtin(in), in.headers)
  BY <1>2, CollectedAre
<1>6. h \in Seq(Headers) /\ Sorted(h, HeaderOrder) /\ SameValues(h, Builtin(in) \o in.headers)
  BY <1>5 DEF Collected
<1>7. r = IF Refused(Builtin(in), in.headers) THEN [ok |-> FALSE]
          ELSE [ok |-> TRUE, credential |-> <<in.access, Scope(in)>>, signed |-> SignedHeaders(h),
                signature |-> SignCanonical(in, query, h, payload)]
  BY <1>1 DEF Sigv4
<1> HIDE DEF h, query, payload, wire, r
<1>8. Refused(Builtin(in), in.headers) <=> ReservedIn(in) \/ ~(Len(wire) <= MaxHeaders)
  BY RefusedIs DEF wire
<1>9. r.ok <=> ~ReservedIn(in) /\ Len(wire) <= MaxHeaders
  BY <1>7, <1>8
<1>10. ASSUME r.ok
       PROVE  /\ r.signature = ServerSignature(in, Encoded(in.path, TRUE, FALSE), query, wire, payload)
              /\ r.signed = ServerSigned(wire)
  <2>1. ~ReservedIn(in) /\ ~Refused(Builtin(in), in.headers)
    BY <1>8, <1>9, <1>10
  <2>2. SameValues(Builtin(in) \o in.headers, wire)
    BY <2>1, WireSame DEF wire
  <2>3. SameValues(h, wire)
    BY <1>6, <2>2 DEF SameValues
  <2>4. SignedSame(in, query, h, wire, payload) /\ SignedHeaders(h) = ServerSigned(wire)
    BY <1>3, <1>4, <1>6, <2>3, SignatureAgrees
  <2>5. r.signature = SignCanonical(in, query, h, payload) /\ r.signed = SignedHeaders(h)
    BY <1>7, <2>1
  <2> QED BY <2>4, <2>5 DEF SignedSame
<1>11. wire = <<Header("x-amz-date", <<"now">>)>> \o HashOf(in) \o in.headers \o TokenOf(in)
              \o <<Header("host", in.host)>>
  BY DEF wire, WireOf, AllFive, DateOf, HostOf
<1>12. HashOf(in) = IF in.signPayload THEN <<Header("x-amz-content-sha256", payload)>> ELSE <<>>
  BY DEF HashOf, payload
<1> QED BY <1>9, <1>10, <1>11, <1>12, Zenon DEF Agrees, ReservedIn, TokenOf, r, query, payload

-----------------------------------------------------------------------------
(* The presigned URL                                                       *)

Five(in, signed) == <<Param("X-Algorithm", <<"AWS4">>), Param("X-Credential", <<in.access, "/">> \o Scope(in)),
                      Param("X-Date", <<"now">>), Param("X-Expires", <<"seconds">>),
                      Param("X-SignedHeaders", signed)>>
TokenParam(in) == IF in.token # <<>> /\ ~in.late THEN <<Param("X-Security-Token", in.token)>> ELSE <<>>

FiveNames == {<<"X-Algorithm">>, <<"X-Credential">>, <<"X-Date">>, <<"X-Expires">>, <<"X-SignedHeaders">>}

FiveHold(s) == s \in Seq(Pairs) /\ \A i \in 1..Len(s) : s[i].name \in FiveNames

\* A parameter of the signer's.
LEMMA ParamIs ==
  ASSUME NEW n \in Symbol, NEW v \in Text
  PROVE  Param(n, v) \in Pairs /\ Param(n, v).name = <<n>>
<1> HIDE DEF Symbol
<1>1. <<n>> \in Text
  BY DEF Text
<1> HIDE DEF Text
<1> DEFINE e == <<n>>
<1> HIDE DEF e
<1>2. [name |-> e, value |-> v] \in Pairs /\ [name |-> e, value |-> v].name = e
  BY <1>1 DEF Pairs, e
<1> QED BY <1>2 DEF Param, e

\* The five that are always there.
LEMMA FiveAre ==
  ASSUME NEW in, IsRequest(in), NEW signed \in Text
  PROVE  FiveHold(Five(in, signed))
<1>1. in.access \in Symbol /\ in.region \in Symbol /\ in.service \in Symbol
  BY DEF IsRequest
<1>2. {"X-Algorithm", "X-Credential", "X-Date", "X-Expires", "X-SignedHeaders",
       "AWS4", "/", "now", "seconds", "aws4_request"} \subseteq Symbol
  BY Words, HeaderNames, Signs
<1> HIDE DEF Symbol
<1>3. <<"AWS4">> \in Text /\ <<"now">> \in Text /\ <<"seconds">> \in Text
  BY <1>2 DEF Text
<1>4. <<in.access, "/">> \in Text
  BY <1>1, <1>2 DEF Text
<1>5. Scope(in) \in Text
  BY <1>1, <1>2 DEF Scope, Text
<1>6. <<in.access, "/">> \o Scope(in) \in Text
  BY <1>4, <1>5 DEF Text
<1> HIDE DEF Text, Pairs
<1> DEFINE a == Param("X-Algorithm", <<"AWS4">>)
           b == Param("X-Credential", <<in.access, "/">> \o Scope(in))
           c == Param("X-Date", <<"now">>)
           d == Param("X-Expires", <<"seconds">>)
           e == Param("X-SignedHeaders", signed)
<1>7. a \in Pairs /\ a.name = <<"X-Algorithm">>
  BY <1>2, <1>3, ParamIs
<1>8. b \in Pairs /\ b.name = <<"X-Credential">>
  BY <1>2, <1>6, ParamIs
<1>9. c \in Pairs /\ c.name = <<"X-Date">>
  BY <1>2, <1>3, ParamIs
<1>10. d \in Pairs /\ d.name = <<"X-Expires">>
  BY <1>2, <1>3, ParamIs
<1>11. e \in Pairs /\ e.name = <<"X-SignedHeaders">>
  BY <1>2, ParamIs
<1>12. a.name \in FiveNames /\ b.name \in FiveNames /\ c.name \in FiveNames /\ d.name \in FiveNames /\ e.name \in FiveNames
  BY <1>7, <1>8, <1>9, <1>10, <1>11 DEF FiveNames
<1>13. Five(in, signed) = <<a, b, c, d, e>>
  BY DEF Five
<1> HIDE DEF a, b, c, d, e, FiveNames
<1>14. <<a, b, c, d, e>> \in Seq(Pairs) /\ Len(<<a, b, c, d, e>>) = 5
  BY <1>7, <1>8, <1>9, <1>10, <1>11
<1>15. \A i \in 1..5 : <<a, b, c, d, e>>[i] \in {a, b, c, d, e}
  OBVIOUS
<1>16. \A i \in 1..5 : <<a, b, c, d, e>>[i].name \in FiveNames
  BY <1>12, <1>15
<1> QED BY <1>13, <1>14, <1>16 DEF FiveHold

\* The token, when it is signed.
LEMMA TokenParamIs ==
  ASSUME NEW in, IsRequest(in)
  PROVE  TokenParam(in) \in Seq(Pairs) /\ \A i \in 1..Len(TokenParam(in)) : TokenParam(in)[i].name \notin FiveNames
<1> DEFINE p == Param("X-Security-Token", in.token)
<1>1. in.token \in Text /\ "X-Security-Token" \in Symbol
  BY HeaderNames DEF IsRequest
<1>2. p \in Pairs /\ p.name = <<"X-Security-Token">>
  BY <1>1, ParamIs
<1>3. p.name \notin FiveNames
  BY <1>2 DEF FiveNames
<1> HIDE DEF Pairs, FiveNames
<1>4. CASE in.token # <<>> /\ ~in.late
  <2> HIDE DEF p
  <2>1. <<p>> \in Seq(Pairs) /\ \A i \in 1..Len(<<p>>) : <<p>>[i] = p
    BY <1>2
  <2>2. TokenParam(in) = <<p>>
    BY <1>4 DEF TokenParam, p
  <2> QED BY <1>3, <2>1, <2>2
<1>5. CASE ~(in.token # <<>> /\ ~in.late)
  <2>1. TokenParam(in) = <<>>
    BY <1>5 DEF TokenParam
  <2>2. <<>> \in Seq(Pairs) /\ Len(<<>>) = 0
    OBVIOUS
  <2> QED BY <2>1, <2>2
<1> QED BY <1>4, <1>5

ReservedParam(in) == \E p \in ToSet(in.params) : PresignParamReserved(p)

\* The query of a presigned URL carries what is the caller's, and the token.
LEMMA PresignCarries ==
  ASSUME NEW in, IsRequest(in), ~ReservedParam(in), NEW signed \in Text
  PROVE  /\ PresignParams(in, signed) \in Seq(Pairs)
         /\ Carries(BuildQuery(PresignParams(in, signed)), in.params \o TokenParam(in))
<1> DEFINE ps == in.params
           five == Five(in, signed)
           t == TokenParam(in)
           pf == ps \o five
           all == pf \o t
           some == ps \o t
<1>1. ps \in Seq(Pairs)
  BY DEF IsRequest
<1>2. five \in Seq(Pairs) /\ \A i \in 1..Len(five) : five[i].name \in FiveNames
  BY FiveAre DEF FiveHold
<1>3. t \in Seq(Pairs) /\ \A i \in 1..Len(t) : t[i].name \notin FiveNames
  BY TokenParamIs
<1>4. PresignParams(in, signed) = all
  BY DEF PresignParams, Five, TokenParam
<1>5. \A i \in 1..Len(ps) : ps[i].name \notin FiveNames
  BY <1>1 DEF ReservedParam, PresignParamReserved, OwnParams, FiveNames, ToSet
<1> HIDE DEF Pairs, ps, five, t
<1>6. pf \in Seq(Pairs) /\ some \in Seq(Pairs)
  BY <1>1, <1>2, <1>3
<1> HIDE DEF pf, some
<1>7. all \in Seq(Pairs)
  BY <1>3, <1>6
<1> HIDE DEF all
<1>8. ASSUME NEW i \in 1..Len(some) PROVE some[i] \in Pairs /\ some[i].name \notin FiveNames
  <2>1. some[i] \in Pairs /\ i \in Nat
    BY <1>6
  <2>2. Len(ps) \in Nat /\ Len(t) \in Nat /\ Len(some) = Len(ps) + Len(t)
    BY <1>1, <1>3 DEF some
  <2>3. some[i] = IF i <= Len(ps) THEN ps[i] ELSE t[i - Len(ps)]
    BY <1>1, <1>3, <2>2, ConcatProperties DEF some
  <2>4. CASE i <= Len(ps)
    <3>1. i \in 1..Len(ps)
      BY <2>1, <2>2, <2>4
    <3> QED BY <1>5, <2>1, <2>3, <2>4, <3>1
  <2>5. CASE ~(i <= Len(ps))
    <3>1. i - Len(ps) \in 1..Len(t)
      BY <2>2, <2>5
    <3> QED BY <1>3, <2>1, <2>3, <2>5, <3>1
  <2> QED BY <2>4, <2>5
<1>9. ASSUME NEW i \in 1..Len(some) PROVE Times(Pairs, all, some[i]) = Times(Pairs, some, some[i])
  <2> DEFINE p == some[i]
  <2>1. p \in Pairs /\ p.name \notin FiveNames
    BY <1>8
  <2> HIDE DEF p
  <2>2. \A j \in 1..Len(five) : five[j] # p
    BY <1>2, <2>1
  <2>3. Times(Pairs, five, p) = 0
    BY <1>2, <2>1, <2>2, TimesNone
  <2>4. TimesApart(Pairs, ps, five, p) /\ Times(Pairs, ps, p) \in Nat
    BY <1>1, <1>2, <2>1, TimesConcat
  <2>5. TimesApart(Pairs, ps, t, p) /\ Times(Pairs, t, p) \in Nat
    BY <1>1, <1>3, <2>1, TimesConcat
  <2>6. TimesApart(Pairs, pf, t, p)
    BY <1>3, <1>6, <2>1, TimesConcat
  <2>7. /\ Times(Pairs, pf, p) = Times(Pairs, ps, p) + Times(Pairs, five, p)
        /\ Times(Pairs, some, p) = Times(Pairs, ps, p) + Times(Pairs, t, p)
        /\ Times(Pairs, all, p) = Times(Pairs, pf, p) + Times(Pairs, t, p)
    BY <2>4, <2>5, <2>6 DEF TimesApart, pf, some, all
  <2>8. Times(Pairs, all, p) = Times(Pairs, some, p)
    BY <2>3, <2>4, <2>5, <2>7
  <2> QED BY <2>8 DEF p
<1>10. Carries(BuildQuery(all), some)
  BY <1>6, <1>7, <1>9, BuiltCarries
<1> QED BY <1>4, <1>7, <1>10 DEF some, ps, t

\* Reading nothing.
LEMMA DecodedNone == Decoded(<<>>) = <<>>
<1>1. <<>> \in Text /\ FALSE \in BOOLEAN
  BY DEF Text
<1>2. Decoded(Encoded(<<>>, FALSE, FALSE)) = <<>>
  BY <1>1, DecodedEncoded
<1> QED BY <1>2, EncodedNone

\* A presigned URL is the request of the caller, in a form the service verifies,
\* whatever the request: presign_url against a server that has only the wire.
THEOREM UrlVerifies ==
  ASSUME NEW in, IsRequest(in)
  PROVE  Verified(in)
<1> DEFINE builtin == HostOf(in)
           wire == builtin \o in.headers
           h == CollectHeaders(builtin, in.headers)
           query == BuildQuery(PresignParams(in, SignedHeaders(h)))
           payload == PresignPayload(in)
           url == PresignedUrl(in, query, SignCanonical(in, query, h, payload))
           path == Encoded(in.path, TRUE, FALSE)
           r == PresignUrl(in)
<1>1. builtin \in Seq(Headers) /\ in.headers \in Seq(Headers)
  BY AddedAre DEF List, IsRequest
<1>2. Collected(builtin, in.headers)
  BY <1>1, CollectedAre
<1>3. wire \in Seq(Headers)
  BY <1>1
<1>4. h \in Seq(Headers) /\ Sorted(h, HeaderOrder) /\ SameValues(h, wire)
  BY <1>2 DEF Collected
<1>5. payload = IF in.service = "s3" THEN <<"UNSIGNED">> ELSE <<"hash">>
  BY DEF PresignPayload, IsRequest
<1>6. r = IF \/ Head(in.path) # "/" \/ ~Expires(in) \/ Refused(builtin, in.headers) \/ ReservedParam(in)
          THEN [ok |-> FALSE] ELSE [ok |-> TRUE, url |-> url]
  BY Zenon DEF PresignUrl, HostOf, ReservedParam
<1>7. /\ url.path = Uri(in.path, FALSE) /\ url.query = query
      /\ url.signature = SignCanonical(in, query, h, payload)
      /\ url.tail = IF in.token # <<>> /\ in.late THEN Encoded(in.token, FALSE, FALSE) ELSE <<>>
  <2> HIDE DEF query, h, payload
  <2> QED BY DEF PresignedUrl
<1>8. Uri(in.path, FALSE) = path
  BY PathsAgree
<1>9. in.path \in Text /\ in.token \in Text /\ in.late \in BOOLEAN
  BY DEF IsRequest
<1>10. Decoded(path) = in.path /\ Decoded(Encoded(in.token, FALSE, FALSE)) = in.token
  BY <1>9, DecodedEncoded
<1> HIDE DEF builtin, wire, h, payload, url, path, r
<1>11. ASSUME r.ok
       PROVE  /\ r.url.signature = ServerSignature(in, r.url.path, r.url.query, wire, payload)
              /\ Decoded(r.url.path) = in.path
              /\ Carries(r.url.query, in.params \o TokenParam(in))
              /\ Decoded(r.url.tail) = IF in.late THEN in.token ELSE <<>>
  <2>1. ~ReservedParam(in) /\ r.url = url
    BY <1>6, <1>11
  <2>2. SignedHeaders(h) \in Text
    BY <1>4, SignedHeadersIs
  <2>3. PresignParams(in, SignedHeaders(h)) \in Seq(Pairs) /\ Carries(query, in.params \o TokenParam(in))
    BY <2>1, <2>2, PresignCarries
  <2>4. OwnQuery(query)
    BY <2>3, ServerQueryBuilt DEF OwnQuery
  <2> HIDE DEF query
  <2>5. SignedSame(in, query, h, wire, payload)
    BY <1>3, <1>4, <2>4, SignatureAgrees
  <2>6. SignCanonical(in, query, h, payload) = ServerSignature(in, path, query, wire, payload)
    BY <2>5 DEF SignedSame, path
  <2>7. Decoded(url.tail) = IF in.late THEN in.token ELSE <<>>
    <3>1. CASE in.token # <<>> /\ in.late
      BY <1>7, <1>10, <3>1
    <3>2. CASE ~in.late
      BY <1>7, <3>2, DecodedNone
    <3>3. CASE in.token = <<>>
      BY <1>7, <3>3, DecodedNone
    <3> QED BY <3>1, <3>2, <3>3
  <2> QED BY <1>7, <1>8, <1>10, <2>1, <2>3, <2>6, <2>7
<1>12. TokenParam(in) = IF in.late THEN <<>> ELSE IF in.token = <<>> THEN <<>>
                        ELSE <<[name |-> <<"X-Security-Token">>, value |-> in.token]>>
  BY DEF TokenParam, Param
<1>13. wire = <<Header("host", in.host)>> \o in.headers
  BY DEF wire, builtin, HostOf
<1> QED BY <1>5, <1>11, <1>12, <1>13, Zenon DEF Verified, r

-----------------------------------------------------------------------------
(* The requests compared in the runs                                       *)

\* What is as long as a number and in S at each place is a sequence.
LEMMA UpToSeq ==
  ASSUME NEW S, NEW n \in Nat, NEW s \in UNION {[1..m -> S] : m \in 0..n}
  PROVE  s \in Seq(S)
<1>1. PICK m \in 0..n : s \in [1..m -> S]
  OBVIOUS
<1>2. m \in Nat
  OBVIOUS
<1> QED BY <1>1, <1>2, SeqDef

SlashThen(S) == [x \in S |-> <<"/">> \o x]

Rooted(s) == s \in Text /\ s # <<>> /\ Head(s) = "/"

\* Each path compared begins with a slash.
LEMMA PathsRooted == \A p \in Paths : Rooted(p)
<1> DEFINE S == {<<>>, <<"a">>, <<"b", " ">>, <<".">>, <<".", ".">>}
           g == SlashThen(S)
<1>1. {"a", "b", " ", ".", "/"} \subseteq Symbol
  BY Words, Signs
<1>2. S \subseteq Text
  <2> HIDE DEF Symbol
  <2>1. "a" \in Symbol /\ "b" \in Symbol /\ " " \in Symbol /\ "." \in Symbol
    BY <1>1
  <2>2. <<>> \in Text /\ <<"a">> \in Text /\ <<".">> \in Text
    <3>1. <<"a">> \in Text
      BY <2>1, Two DEF Text
    <3>2. <<".">> \in Text
      BY <2>1, Two DEF Text
    <3>3. <<>> \in Text
      BY DEF Text
    <3> QED BY <3>1, <3>2, <3>3
  <2>3. <<"b", " ">> \in Text
    BY <2>1, Two DEF Text
  <2>4. <<".", ".">> \in Text
    BY <2>1, Two DEF Text
  <2> QED BY <2>2, <2>3, <2>4
<1> HIDE DEF S
<1>3. <<"/">> \in Text /\ Len(<<"/">>) = 1 /\ <<"/">>[1] = "/"
  <2> HIDE DEF Symbol
  <2>1. "/" \in Symbol
    BY <1>1
  <2>2. <<"/">> \in Text
    BY <2>1, Two DEF Text
  <2> QED BY <2>2
<1> HIDE DEF Symbol
<1>4. ASSUME NEW x \in S PROVE Rooted(<<"/">> \o x)
  <2>1. x \in Seq(Symbol)
    BY <1>2 DEF Text
  <2>2. <<"/">> \in Seq(Symbol)
    BY <1>3 DEF Text
  <2> DEFINE u == <<"/">>
  <2>3. u \in Seq(Symbol) /\ Len(u) = 1 /\ u[1] = "/"
    BY <1>3, <2>2
  <2> HIDE DEF u
  <2>4. u \o x \in Seq(Symbol) /\ Len(u \o x) = 1 + Len(x) /\ Len(x) \in Nat
    <3>1. u \o x \in Seq(Symbol) /\ Len(u \o x) = Len(u) + Len(x)
      BY <2>1, <2>3, ConcatProperties
    <3>2. Len(x) \in Nat
      BY <2>1
    <3> QED BY <2>3, <3>1, <3>2
  <2>5. (u \o x)[1] = "/"
    BY <2>1, <2>3, <2>4, ConcatProperties
  <2>6. u \o x # <<>>
    BY <2>4
  <2> QED BY <2>4, <2>5, <2>6 DEF Rooted, Text, u
<1>5. g \in [S -> Seq(Symbol)] /\ \A x \in S : g[x] = <<"/">> \o x
  BY <1>4 DEF Rooted, Text, SlashThen
<1> HIDE DEF g
<1> DEFINE G == {u \in Seq(S) : u = <<>> \/ Rooted(Mapped(u, g))}
<1>6. <<>> \in G
  OBVIOUS
<1>7. ASSUME NEW u \in Seq(S), NEW x \in S, u \in G PROVE Append(u, x) \in G
  <2>1. MapsOn(Symbol, u, x, g)
    BY <1>5, MappedGrows
  <2> DEFINE a == Mapped(u, g)
             b == g[x]
  <2>2. a \in Seq(Symbol) /\ b \in Seq(Symbol) /\ Mapped(Append(u, x), g) = a \o b
    BY <2>1 DEF MapsOn
  <2>3. Rooted(b)
    BY <1>4, <1>5
  <2>4. u = <<>> => a = <<>>
    BY MappedEmpty
  <2>5. u = <<>> \/ Rooted(a)
    BY <1>7
  <2> HIDE DEF a, b
  <2>6. CASE a = <<>>
    <3>1. a \o b = b
      BY <2>2, <2>6
    <3> QED BY <2>2, <2>3, <3>1
  <2>7. CASE a # <<>>
    <3>1. Rooted(a)
      BY <2>4, <2>5, <2>7
    <3>2. a \o b \in Seq(Symbol) /\ a \o b # <<>> /\ Head(a \o b) = Head(a)
      BY <2>2, <2>7
    <3> DEFINE c == a \o b
    <3> HIDE DEF c
    <3>3. Rooted(c)
      BY <3>1, <3>2 DEF Rooted, Text, c
    <3>4. Rooted(Mapped(Append(u, x), g)) /\ Append(u, x) \in Seq(S)
      BY <2>2, <3>3 DEF c
    <3> QED BY <3>4
  <2> QED BY <2>6, <2>7
<1> HIDE DEF G
<1>8. \A u \in Seq(S) : u \in G
  BY <1>6, <1>7, SeqInd
<1>9. ASSUME NEW s \in UNION {[1..n -> S] : n \in 1..4}
      PROVE  Rooted(FlattenSeq([i \in DOMAIN s |-> <<"/">> \o s[i]]))
  <2>1. PICK n \in 1..4 : s \in [1..n -> S]
    OBVIOUS
  <2>2. s \in UNION {[1..m -> S] : m \in 0..4}
    BY <2>1
  <2>3. s \in Seq(S)
    BY <2>2, UpToSeq
  <2>4. Len(s) = n /\ n # 0 /\ DOMAIN s = 1..n
    BY <2>1, <2>3
  <2>5. s # <<>>
    BY <2>4
  <2>6. Rooted(Mapped(s, g))
    BY <1>8, <2>3, <2>5 DEF G
  <2>7. [i \in DOMAIN s |-> <<"/">> \o s[i]] = [i \in DOMAIN s |-> g[s[i]]]
    BY <1>5, <2>1, <2>4
  <2> QED BY <2>6, <2>7 DEF Mapped
<1> QED BY <1>9 DEF Paths, S

\* The other parts of a request.
LEMMA ListsCompared ==
  /\ \A ps \in SomeParams : ps \in Seq(Pairs)
  /\ \A hs \in SomeHeaders : hs \in Seq(Headers)
  /\ \A t \in Tokens : t \in Text
<1>1. {"a", "b", " ", "&", "/", "{", "X-Date", "authorization", "host", "x-amz-date"} \subseteq Symbol
  BY Words, HeaderNames, Signs
<1> HIDE DEF Symbol
<1>2. /\ <<>> \in Text /\ <<"a">> \in Text /\ <<"b">> \in Text /\ <<"{">> \in Text /\ <<"X-Date">> \in Text
      /\ <<"&">> \in Text /\ <<"a", "/">> \in Text
  <2>1. <<"a">> \in Text /\ <<"b">> \in Text /\ <<"{">> \in Text
    BY <1>1, Two DEF Text
  <2>2. <<"X-Date">> \in Text /\ <<"&">> \in Text
    BY <1>1, Two DEF Text
  <2>3. <<"a", "/">> \in Text
    BY <1>1, Two DEF Text
  <2>4. <<>> \in Text
    BY DEF Text
  <2> QED BY <2>1, <2>2, <2>3, <2>4
<1>3. <<" ", "b", " ", " ", "a", " ">> \in Text
  <2>1. "a" \in Symbol /\ "b" \in Symbol /\ " " \in Symbol
    BY <1>1
  <2> DEFINE x == "a"
             y == "b"
             z == " "
  <2>2. x \in Symbol /\ y \in Symbol /\ z \in Symbol
    BY <2>1
  <2> HIDE DEF x, y, z
  <2>3. <<z, y, z, z, x, z>> \in Seq(Symbol)
    BY <2>2
  <2> QED BY <2>3 DEF Text, x, y, z
<1> HIDE DEF Text
<1>4. ASSUME NEW ps \in SomeParams PROVE ps \in Seq(Pairs)
  <2> DEFINE P == [name : {<<"a">>, <<"b">>, <<"{">>, <<"X-Date">>}, value : {<<>>, <<"&">>, <<"a">>}]
  <2>1. P \subseteq Pairs
    BY <1>2 DEF Pairs
  <2>2. ps \in UNION {[1..m -> P] : m \in 0..2}
    BY DEF SomeParams, BoundedSeq, SeqOf
  <2> HIDE DEF P, Pairs
  <2>3. ps \in Seq(P)
    BY <2>2, UpToSeq
  <2> QED BY <2>1, <2>3
<1>5. ASSUME NEW hs \in SomeHeaders PROVE hs \in Seq(Headers)
  <2> DEFINE H == {Header("b", <<"a">>), Header("a", <<"a">>), Header("a", <<" ", "b", " ", " ", "a", " ">>),
                   [name |-> [word |-> "a", caps |-> TRUE], value |-> <<"b">>]}
  <2>1. ASSUME NEW w \in Symbol, NEW v \in Text, NEW c \in BOOLEAN
        PROVE  [name |-> [word |-> w, caps |-> c], value |-> v] \in Headers
    BY DEF Headers
  <2>2. H \subseteq Headers
    <3>1. Header("b", <<"a">>) \in Headers /\ Header("a", <<"a">>) \in Headers
      BY <1>1, <1>2, <2>1 DEF Header
    <3>2. Header("a", <<" ", "b", " ", " ", "a", " ">>) \in Headers
      BY <1>1, <1>3, <2>1 DEF Header
    <3>3. [name |-> [word |-> "a", caps |-> TRUE], value |-> <<"b">>] \in Headers
      BY <1>1, <1>2, <2>1
    <3> HIDE DEF Headers
    <3> QED BY <3>1, <3>2, <3>3
  <2> HIDE DEF H, Headers
  <2>3. CASE hs \in BoundedSeq(H, 3)
    <3>1. hs \in UNION {[1..m -> H] : m \in 0..3}
      BY <2>3 DEF BoundedSeq, SeqOf
    <3>2. hs \in Seq(H)
      BY <3>1, UpToSeq
    <3> QED BY <2>2, <3>2
  <2>4. CASE hs \in {<<Header(word, <<"a">>)>> : word \in {"authorization", "host", "x-amz-date"}}
    <3>1. PICK word \in {"authorization", "host", "x-amz-date"} : hs = <<Header(word, <<"a">>)>>
      BY <2>4
    <3>2. Header(word, <<"a">>) \in Headers
      BY <1>1, <1>2, <2>1 DEF Header
    <3> DEFINE x == Header(word, <<"a">>)
    <3> HIDE DEF x
    <3>3. hs = <<x>> /\ x \in Headers
      BY <3>1, <3>2 DEF x
    <3> QED BY <3>3
  <2> QED BY <2>3, <2>4 DEF SomeHeaders, H
<1>6. ASSUME NEW t \in Tokens PROVE t \in Text
  BY <1>2 DEF Tokens
<1> QED BY <1>4, <1>5, <1>6

\* What the requests compared have in them.
Made(in, p, ps, hs, s, t, l, y) ==
    /\ in.host = <<"host">> /\ in.path = p /\ in.params = ps /\ in.headers = hs /\ in.service = s
    /\ in.region = "region" /\ in.access = "key" /\ in.token = t /\ in.late = l /\ in.override = <<>>
    /\ in.payload = <<>> /\ in.signPayload = y

\* The requests compared are requests.
LEMMA InputsAreRequests == \A in \in Inputs : IsRequest(in)
<1>1. {"a", "/", "host", "s3", "service", "region", "key"} \subseteq Symbol
  BY Words, Signs
<1> HIDE DEF Symbol
<1>2. <<>> \in Text /\ <<"host">> \in Text /\ <<"/", "a">> \in Text
  BY <1>1 DEF Text
<1>3. Rooted(<<"/", "a">>)
  <2>1. <<"/", "a">> # <<>> /\ Head(<<"/", "a">>) = "/"
    OBVIOUS
  <2> QED BY <1>2, <2>1 DEF Rooted
<1>4. <<>> \in Seq(Pairs) /\ <<>> \in Seq(Headers)
  OBVIOUS
<1> HIDE DEF Text, Pairs, Headers
<1>5. ASSUME NEW in, NEW p, Rooted(p), NEW ps \in Seq(Pairs), NEW hs \in Seq(Headers), NEW s \in Symbol,
             NEW t \in Text, NEW l \in BOOLEAN, NEW y \in BOOLEAN, Made(in, p, ps, hs, s, t, l, y)
      PROVE  IsRequest(in)
  <2>1. p \in Text /\ p # <<>> /\ Head(p) = "/"
    BY <1>5 DEF Rooted
  <2> QED BY <1>1, <1>2, <1>5, <2>1 DEF IsRequest, Made
<1>6. "s3" \in Symbol /\ "service" \in Symbol /\ FALSE \in BOOLEAN
  BY <1>1
<1>7. ASSUME NEW p \in Paths, NEW s \in {"s3", "service"} PROVE IsRequest(WithPath(p, s))
  <2> DEFINE in == WithPath(p, s)
  <2>1. Made(in, p, <<>>, <<>>, s, <<>>, FALSE, FALSE)
    BY DEF WithPath, Base, Made
  <2>2. Rooted(p) /\ s \in Symbol
    BY <1>6, PathsRooted
  <2> HIDE DEF in
  <2>3. IsRequest(in)
    BY <1>2, <1>4, <1>5, <1>6, <2>1, <2>2
  <2> QED BY <2>3 DEF in
<1>8. ASSUME NEW ps \in SomeParams, NEW t \in Tokens, NEW l \in BOOLEAN PROVE IsRequest(WithParams(ps, t, l))
  <2> DEFINE in == WithParams(ps, t, l)
  <2>1. Made(in, <<"/", "a">>, ps, <<>>, "service", t, l, FALSE)
    BY DEF WithParams, Base, Made
  <2>2. ps \in Seq(Pairs) /\ t \in Text
    BY ListsCompared
  <2> HIDE DEF in
  <2>3. IsRequest(in)
    BY <1>3, <1>4, <1>5, <1>6, <2>1, <2>2
  <2> QED BY <2>3 DEF in
<1>9. ASSUME NEW hs \in SomeHeaders, NEW y \in BOOLEAN, NEW t \in Tokens PROVE IsRequest(WithHeaders(hs, y, t))
  <2> DEFINE in == WithHeaders(hs, y, t)
  <2>1. Made(in, <<"/", "a">>, <<>>, hs, "service", t, FALSE, y)
    BY DEF WithHeaders, Base, Made
  <2>2. hs \in Seq(Headers) /\ t \in Text
    BY ListsCompared
  <2> HIDE DEF in
  <2>3. IsRequest(in)
    BY <1>3, <1>4, <1>5, <1>6, <2>1, <2>2
  <2> QED BY <2>3 DEF in
<1>10. ASSUME NEW e PROVE IsRequest(WithExpires(e))
  <2> DEFINE in == WithExpires(e)
  <2>1. Made(in, <<"/", "a">>, <<>>, <<>>, "service", <<>>, FALSE, FALSE)
    BY DEF WithExpires, Base, Made
  <2> HIDE DEF in
  <2>3. IsRequest(in)
    BY <1>2, <1>3, <1>4, <1>5, <1>6, <2>1
  <2> QED BY <2>3 DEF in
<1> QED BY <1>7, <1>8, <1>9, <1>10 DEF Inputs
==============================================================================
