--------------------------- MODULE SequenceFacts ---------------------------
(***************************************************************************)
(* Induction over numbers and sequences, stated with sets in place of      *)
(* predicates, and what it proves of the operators on sequences that are   *)
(* defined by recursion: the folds, and FlattenSeq.                        *)
(***************************************************************************)
EXTENDS SequencesExt, SequenceTheorems, WellFoundedInduction, TLAPS

(* Induction, from the well-foundedness of < on the naturals: every        *)
(* nonempty set of naturals has a least element.                           *)
LEMMA LeastNat ==
  ASSUME NEW S, S \subseteq Nat, S # {}
  PROVE  \E n \in S : \A m \in S : n <= m
<1> DEFINE R == OpToRel(<, Nat)
<1>1. IsWellFoundedOn(R, Nat)
  BY NatLessThanWellFounded DEF OpToRel
<1>2. \A x, y \in Nat : x < y => <<x, y>> \in R
  BY DEF OpToRel
<1> HIDE DEF R
<1>3. PICK n \in S : \A m \in S : ~(<<m, n>> \in R)
  BY <1>1, WFMin
<1>4. ASSUME NEW m \in S PROVE n <= m
  <2>1. ~(m < n)
    BY <1>2, <1>3
  <2>. QED BY <2>1
<1>. QED BY <1>4

(* What holds of 0 and passes from each number to the next holds up to n.  *)
LEMMA Induction ==
  ASSUME NEW S, NEW n \in Nat, 0 \in S, \A k \in 0 .. n - 1 : k \in S => k + 1 \in S
  PROVE  \A k \in 0 .. n : k \in S
<1> SUFFICES ASSUME NEW x \in 0 .. n, x \notin S PROVE FALSE
  OBVIOUS
<1> DEFINE B == {k \in 0 .. n : k \notin S}
<1>1. PICK k \in B : \A m \in B : k <= m
  <2>1. B \subseteq Nat /\ B # {}
    OBVIOUS
  <2> HIDE DEF B
  <2>. QED BY <2>1, LeastNat
<1>2. k \in 1 .. n /\ k - 1 \in 0 .. n - 1 /\ k - 1 \notin B
  BY <1>1
<1>. QED BY <1>1, <1>2

(* h folds the sets below k, the greatest element last.                    *)
FoldsUpTo(k, h, V, b, g) ==
  /\ h \in [SUBSET (1 .. k) -> V]
  /\ \A T \in SUBSET (1 .. k) :
       h[T] = IF T = {} THEN b ELSE g[<<Max(T), h[T \ {Max(T)}]>>]

Folds(h, n, b, g) ==
  h = [T \in SUBSET (1 .. n) |-> IF T = {} THEN b ELSE g[<<Max(T), h[T \ {Max(T)}]>>]]

(* The function that FoldLeft's definition chooses exists.                 *)
LEMMA FoldExists ==
  ASSUME NEW V, NEW b \in V, NEW n \in Nat, NEW g \in [(1 .. n) \X V -> V]
  PROVE  \E h \in [SUBSET (1 .. n) -> V] : Folds(h, n, b, g)
<1> DEFINE S == {k \in 0 .. n : \E h : FoldsUpTo(k, h, V, b, g)}
<1>1. 0 \in S
  <2> DEFINE h == [T \in SUBSET (1 .. 0) |-> b]
  <2>1. SUBSET (1 .. 0) = {{}}
    OBVIOUS
  <2>2. h \in [SUBSET (1 .. 0) -> V] /\ h[{}] = b
    BY <2>1
  <2> HIDE DEF h
  <2>3. FoldsUpTo(0, h, V, b, g)
    BY <2>1, <2>2 DEF FoldsUpTo
  <2>. QED BY <2>3
<1>2. ASSUME NEW k \in 0 .. n - 1, k \in S PROVE k + 1 \in S
  <2>1. PICK h : FoldsUpTo(k, h, V, b, g)
    BY <1>2
  <2> DEFINE D == SUBSET (1 .. k + 1)
             e == [T \in D |-> IF k + 1 \in T THEN g[<<k + 1, h[T \ {k + 1}]>>] ELSE h[T]]
  <2>2. \A T \in D : IF k + 1 \in T THEN T \ {k + 1} \in SUBSET (1 .. k)
                                  ELSE T \in SUBSET (1 .. k)
    OBVIOUS
  <2>3. k + 1 \in 1 .. n
    OBVIOUS
  <2>4. e \in [D -> V]
    BY <2>1, <2>2, <2>3 DEF FoldsUpTo
  <2>5. ASSUME NEW T \in D, k + 1 \in T PROVE Max(T) = k + 1
    <3>1. k + 1 \in T /\ \A y \in T : k + 1 >= y
      BY <2>5
    <3>2. \A x \in T : (\A y \in T : x >= y) => x = k + 1
      BY <2>5
    <3>. QED BY <3>1, <3>2 DEF Max
  <2>6. \A T \in D : e[T] = IF k + 1 \in T THEN g[<<k + 1, h[T \ {k + 1}]>>] ELSE h[T]
    OBVIOUS
  <2> HIDE DEF e
  <2>7. ASSUME NEW T \in D
        PROVE  e[T] = IF T = {} THEN b ELSE g[<<Max(T), e[T \ {Max(T)}]>>]
    <3>1. CASE k + 1 \in T
      <4>1. T \ {k + 1} \in D /\ k + 1 \notin T \ {k + 1}
        OBVIOUS
      <4>2. e[T \ {k + 1}] = h[T \ {k + 1}]
        BY <2>6, <4>1
      <4>. QED BY <2>5, <2>6, <3>1, <4>2
    <3>2. CASE k + 1 \notin T
      <4>1. T \in SUBSET (1 .. k)
        BY <2>2, <3>2
      <4>2. T \ {Max(T)} \in D /\ k + 1 \notin T \ {Max(T)}
        BY <3>2
      <4>3. e[T] = h[T] /\ e[T \ {Max(T)}] = h[T \ {Max(T)}]
        BY <2>6, <3>2, <4>2
      <4>. QED BY <2>1, <4>1, <4>3 DEF FoldsUpTo
    <3>. QED BY <3>1, <3>2
  <2>8. FoldsUpTo(k + 1, e, V, b, g)
    BY <2>4, <2>7 DEF FoldsUpTo
  <2>. QED BY <2>8
<1>3. n \in S
  <2> HIDE DEF S
  <2>1. \A k \in 0 .. n : k \in S
    BY <1>1, <1>2, Induction
  <2>. QED BY <2>1
<1>4. PICK h : FoldsUpTo(n, h, V, b, g)
  BY <1>3
<1>5. Folds(h, n, b, g)
  BY <1>4 DEF FoldsUpTo, Folds
<1>. QED BY <1>4, <1>5 DEF FoldsUpTo

LEMMA MaxIn ==
  ASSUME NEW n \in Nat, NEW T \in SUBSET (1 .. n), T # {}
  PROVE  Max(T) \in T
<1> DEFINE S == {n - x : x \in T}
<1>1. S \subseteq Nat /\ S # {}
  OBVIOUS
<1>2. PICK k \in S : \A m \in S : k <= m
  <2> HIDE DEF S
  <2>. QED BY <1>1, LeastNat
<1>3. PICK x \in T : k = n - x
  BY <1>2
<1>4. \A y \in T : x >= y
  <2> SUFFICES ASSUME NEW y \in T PROVE x >= y
    OBVIOUS
  <2>1. n - y \in S
    OBVIOUS
  <2>2. n - x <= n - y /\ x \in 1 .. n /\ y \in 1 .. n
    BY <1>2, <1>3, <2>1
  <2>. QED BY <2>2
<1>. QED BY <1>4 DEF Max

LEMMA InitialSegments ==
  ASSUME NEW n \in Nat
  PROVE  /\ 1 .. 0 = {}
         /\ \A k \in 1 .. n : /\ 1 .. k \in SUBSET (1 .. n) /\ 1 .. k # {}
                             /\ Max(1 .. k) = k
                             /\ (1 .. k) \ {k} = 1 .. k - 1
<1>1. ASSUME NEW k \in 1 .. n PROVE Max(1 .. k) = k
  <2>1. k \in 1 .. k /\ (\A y \in 1 .. k : k >= y)
        /\ \A x \in 1 .. k : (\A y \in 1 .. k : x >= y) => x = k
    OBVIOUS
  <2>. QED BY <2>1 DEF Max
<1>2. 1 .. 0 = {}
  OBVIOUS
<1>3. ASSUME NEW k \in 1 .. n
      PROVE  1 .. k \in SUBSET (1 .. n) /\ 1 .. k # {} /\ (1 .. k) \ {k} = 1 .. k - 1
  <2>1. k \in 1 .. k /\ 1 .. k \subseteq 1 .. n
    OBVIOUS
  <2>2. ASSUME NEW x PROVE x \in (1 .. k) \ {k} <=> x \in 1 .. k - 1
    OBVIOUS
  <2>. QED BY <2>1, <2>2
<1>. QED BY <1>1, <1>2, <1>3

(* Recursion over 0 .. n has a solution.                                   *)
Recurs(U, n, b, g) == U[0] = b /\ \A i \in 0 .. n - 1 : U[i + 1] = g[<<i, U[i]>>]

LEMMA Recursion ==
  ASSUME NEW V, NEW b \in V, NEW n \in Nat, NEW g \in [(0 .. n - 1) \X V -> V]
  PROVE  \E U \in [0 .. n -> V] : Recurs(U, n, b, g)
<1> DEFINE S == {k \in 0 .. n : \E U : U \in [0 .. k -> V] /\ Recurs(U, k, b, g)}
<1>1. 0 \in S
  <2> DEFINE W == [i \in 0 .. 0 |-> b]
  <2>1. W \in [0 .. 0 -> V] /\ W[0] = b /\ 0 .. 0 - 1 = {}
    OBVIOUS
  <2> HIDE DEF W
  <2>2. Recurs(W, 0, b, g)
    BY <2>1 DEF Recurs
  <2>3. 0 \in 0 .. n
    OBVIOUS
  <2>. QED BY <2>1, <2>2, <2>3
<1>2. ASSUME NEW k \in 0 .. n - 1, k \in S PROVE k + 1 \in S
  <2>1. PICK U : U \in [0 .. k -> V] /\ Recurs(U, k, b, g)
    BY <1>2
  <2> DEFINE W == [i \in 0 .. k + 1 |-> IF i <= k THEN U[i] ELSE g[<<k, U[k]>>]]
  <2>2. U[k] \in V /\ g[<<k, U[k]>>] \in V
    BY <2>1
  <2>3. W \in [0 .. k + 1 -> V]
    BY <2>1, <2>2
  <2>4. ASSUME NEW i \in 0 .. (k + 1) - 1 PROVE W[i + 1] = g[<<i, W[i]>>]
    <3>1. CASE i < k
      <4>1. i \in 0 .. k - 1 /\ W[i] = U[i] /\ W[i + 1] = U[i + 1]
        BY <3>1
      <4>. QED BY <2>1, <4>1 DEF Recurs
    <3>2. CASE i = k
      <4>1. W[i + 1] = g[<<k, U[k]>>] /\ W[i] = U[k]
        BY <3>2
      <4>. QED BY <3>2, <4>1
    <3>. QED BY <3>1, <3>2
  <2>5. W[0] = b
    BY <2>1 DEF Recurs
  <2>6. Recurs(W, k + 1, b, g)
    BY <2>4, <2>5 DEF Recurs
  <2>7. k + 1 \in 0 .. n
    OBVIOUS
  <2> HIDE DEF W
  <2>. QED BY <2>3, <2>6, <2>7
<1>3. n \in S
  <2> HIDE DEF S
  <2>1. \A k \in 0 .. n : k \in S
    BY <1>1, <1>2, Induction
  <2>. QED BY <2>1
<1>. QED BY <1>3

(* What holds of the empty sequence and passes from each sequence to one   *)
(* with a further element holds of all of them.                            *)
LEMMA SequenceInduction ==
  ASSUME NEW X, NEW P, <<>> \in P, \A t \in Seq(X), x \in X : t \in P => Append(t, x) \in P
  PROVE  Seq(X) \subseteq P
<1> SUFFICES ASSUME NEW s \in Seq(X) PROVE s \in P
  OBVIOUS
<1> DEFINE n == Len(s)
           S == {k \in 0 .. n : SubSeq(s, 1, k) \in P}
<1>0. n \in Nat /\ 0 \in 0 .. n
  OBVIOUS
<1>1. 0 \in S
  <2>1. SubSeq(s, 1, 0) = <<>>
    OBVIOUS
  <2>. QED BY <1>0, <2>1
<1>2. ASSUME NEW k \in 0 .. n - 1, k \in S PROVE k + 1 \in S
  <2>1. SubSeq(s, 1, k) \in Seq(X) /\ s[k + 1] \in X
    OBVIOUS
  <2>2. SubSeq(s, 1, k + 1) = Append(SubSeq(s, 1, k), s[k + 1])
    OBVIOUS
  <2>3. SubSeq(s, 1, k + 1) \in P
    BY <1>2, <2>1, <2>2
  <2>. QED BY <2>3
<1>3. n \in S
  <2> HIDE DEF S, n
  <2>1. \A k \in 0 .. n : k \in S
    BY <1>0, <1>1, <1>2, Induction
  <2>. QED BY <1>0, <2>1
<1>4. SubSeq(s, 1, n) = s
  OBVIOUS
<1>. QED BY <1>3, <1>4

-----------------------------------------------------------------------------
(* FlattenSeq.  U[i] is the first i sequences joined.                      *)
Joins(U, S) ==
  /\ U[0] = <<>>
  /\ \A i \in 0 .. Len(S) - 1 : U[i + 1] = U[i] \o S[i + 1]

(* What FlattenSeq's definition chooses.                                   *)
Flattens(h, S) ==
  h = [i \in 1 .. Len(S) |-> IF i = 1 THEN S[i] ELSE h[i - 1] \o S[i]]

LEMMA FlattenChooses ==
  ASSUME NEW S, Len(S) # 0
  PROVE  FlattenSeq(S) = (CHOOSE h : Flattens(h, S))[Len(S)]
BY Zenon DEF FlattenSeq, Flattens

LEMMA FlattenIs ==
  ASSUME NEW X, NEW S \in Seq(Seq(X))
  PROVE  \E U \in [0 .. Len(S) -> Seq(X)] : Joins(U, S) /\ FlattenSeq(S) = U[Len(S)]
<1> DEFINE n == Len(S)
           V == Seq(X)
           e == <<>>
           g == [p \in (0 .. n - 1) \X V |-> p[2] \o S[p[1] + 1]]
<1>1. n \in Nat /\ e \in V /\ \A i \in 0 .. n - 1 : S[i + 1] \in Seq(X)
  OBVIOUS
<1>2. g \in [(0 .. n - 1) \X V -> V]
  BY <1>1
<1>3. \A i \in 0 .. n - 1, v \in V : g[<<i, v>>] = v \o S[i + 1]
  OBVIOUS
<1>4. PICK U \in [0 .. n -> V] : Recurs(U, n, e, g)
  <2> HIDE DEF n, g, V, e
  <2>. QED BY <1>1, <1>2, Recursion
<1>5. ASSUME NEW i \in 0 .. n - 1 PROVE U[i + 1] = U[i] \o S[i + 1]
  <2>1. i \in 0 .. n
    BY <1>1
  <2>2. U[i] \in V
    BY <2>1
  <2>3. U[i + 1] = g[<<i, U[i]>>]
    <3> HIDE DEF g, n, V
    <3>. QED BY <1>4 DEF Recurs
  <2> HIDE DEF g, n, V
  <2>. QED BY <1>3, <2>2, <2>3
<1>6. U[0] = <<>>
  BY <1>4 DEF Recurs
<1>7. Joins(U, S)
  <2> HIDE DEF g
  <2>. QED BY <1>5, <1>6 DEF Joins
<1>8. FlattenSeq(S) = U[n]
  <2> HIDE DEF g, e
  <2>1. CASE n = 0
    <3>1. S = <<>>
      BY <2>1
    <3>2. FlattenSeq(S) = S
      BY <2>1 DEF FlattenSeq
    <3>. QED BY <1>6, <2>1, <3>1, <3>2
  <2>2. CASE n # 0
    <3> DEFINE w == [i \in 1 .. n |-> U[i]]
               c == CHOOSE h : Flattens(h, S)
    <3>1. FlattenSeq(S) = c[n]
      BY <2>2, FlattenChooses
    <3>2. ASSUME NEW i \in 1 .. n PROVE U[i] = IF i = 1 THEN S[i] ELSE U[i - 1] \o S[i]
      <4>1. i - 1 \in 0 .. n - 1 /\ (i - 1) + 1 = i
        BY <1>1
      <4>2. U[i] = U[i - 1] \o S[i] /\ S[i] \in Seq(X)
        BY <1>1, <1>5, <4>1
      <4>3. CASE i = 1
        <5>1. U[i - 1] = <<>>
          BY <1>6, <4>3
        <5>2. <<>> \o S[i] = S[i]
          BY <4>2
        <5>. QED BY <4>2, <4>3, <5>1, <5>2
      <4>. QED BY <4>2, <4>3
    <3>3. Flattens(w, S)
      <4>1. \A i \in 1 .. n : (IF i = 1 THEN S[i] ELSE w[i - 1] \o S[i]) = U[i]
        <5>1. \A i \in 1 .. n : i # 1 => w[i - 1] = U[i - 1]
          BY <1>1
        <5> HIDE DEF w
        <5>. QED BY <3>2, <5>1
      <4>. QED BY <4>1 DEF Flattens
    <3>4. Flattens(c, S)
      BY <3>3
    <3> HIDE DEF c, w
    <3> DEFINE T == {k \in 0 .. n : k = 0 \/ c[k] = U[k]}
    <3>5. 0 \in T
      BY <1>1
    <3>6. ASSUME NEW k \in 0 .. n - 1, k \in T PROVE k + 1 \in T
      <4>1. k + 1 \in 1 .. n /\ (k + 1) - 1 = k
        BY <1>1
      <4>2. c[k + 1] = IF k + 1 = 1 THEN S[k + 1] ELSE c[k] \o S[k + 1]
        BY <3>4, <4>1 DEF Flattens
      <4>3. U[k + 1] = IF k + 1 = 1 THEN S[k + 1] ELSE U[k] \o S[k + 1]
        BY <3>2, <4>1
      <4>4. k + 1 # 1 => c[k] = U[k]
        BY <3>6
      <4>5. c[k + 1] = U[k + 1]
        BY <4>2, <4>3, <4>4
      <4>. QED BY <4>1, <4>5
    <3> HIDE DEF T
    <3>7. \A k \in 0 .. n : k \in T
      BY <1>1, <3>5, <3>6, Induction
    <3>8. n \in T
      BY <1>1, <3>7
    <3>. QED BY <2>2, <3>1, <3>8 DEF T
  <2>. QED BY <2>1, <2>2
<1>. QED BY <1>7, <1>8

LEMMA FlattenType ==
  ASSUME NEW X, NEW S \in Seq(Seq(X))
  PROVE  FlattenSeq(S) \in Seq(X)
<1>1. PICK U \in [0 .. Len(S) -> Seq(X)] : FlattenSeq(S) = U[Len(S)]
  BY FlattenIs
<1>2. Len(S) \in 0 .. Len(S)
  OBVIOUS
<1>. QED BY <1>1, <1>2

LEMMA FlattenEmpty == FlattenSeq(<<>>) = <<>>
BY DEF FlattenSeq

LEMMA FlattenAppend ==
  ASSUME NEW X, NEW S \in Seq(Seq(X)), NEW t \in Seq(X)
  PROVE  FlattenSeq(Append(S, t)) = FlattenSeq(S) \o t
<1> DEFINE n == Len(S)
           A == Append(S, t)
<1>1. n \in Nat /\ A \in Seq(Seq(X)) /\ Len(A) = n + 1 /\ A[n + 1] = t
      /\ \A i \in 0 .. n - 1 : A[i + 1] = S[i + 1]
  OBVIOUS
<1> HIDE DEF A
<1>2. PICK U \in [0 .. n -> Seq(X)] : Joins(U, S) /\ FlattenSeq(S) = U[n]
  BY FlattenIs
<1>3. PICK W \in [0 .. Len(A) -> Seq(X)] : Joins(W, A) /\ FlattenSeq(A) = W[Len(A)]
  BY <1>1, FlattenIs
<1>4. \A i \in 0 .. n - 1 : U[i + 1] = U[i] \o S[i + 1]
  BY <1>2 DEF Joins
<1>5. \A i \in 0 .. (n + 1) - 1 : W[i + 1] = W[i] \o A[i + 1]
  BY <1>1, <1>3 DEF Joins
<1> HIDE DEF n
<1> DEFINE T == {k \in 0 .. n : U[k] = W[k]}
<1>6. 0 \in T
  BY <1>1, <1>2, <1>3 DEF Joins
<1>7. ASSUME NEW k \in 0 .. n - 1, k \in T PROVE k + 1 \in T
  <2>1. k \in 0 .. (n + 1) - 1 /\ k + 1 \in 0 .. n
    BY <1>1
  <2>2. U[k + 1] = U[k] \o S[k + 1] /\ W[k + 1] = W[k] \o S[k + 1]
    BY <1>1, <1>4, <1>5, <2>1
  <2>. QED BY <1>7, <2>1, <2>2
<1> HIDE DEF T
<1>8. \A k \in 0 .. n : k \in T
  BY <1>1, <1>6, <1>7, Induction
<1>9. U[n] = W[n]
  BY <1>1, <1>8 DEF T
<1>10. W[n + 1] = W[n] \o t
  <2>1. n \in 0 .. (n + 1) - 1
    BY <1>1
  <2>. QED BY <1>1, <1>5, <2>1
<1>. QED BY <1>1, <1>2, <1>3, <1>9, <1>10 DEF A

LEMMA FlattenOne ==
  ASSUME NEW X, NEW t \in Seq(X)
  PROVE  FlattenSeq(<<t>>) = t
<1> DEFINE e == <<>>
<1>1. e \in Seq(Seq(X)) /\ <<t>> = Append(e, t) /\ e \o t = t
  OBVIOUS
<1>2. FlattenSeq(Append(e, t)) = FlattenSeq(e) \o t
  <2> HIDE DEF e
  <2>. QED BY <1>1, FlattenAppend
<1>3. FlattenSeq(e) = e
  BY FlattenEmpty
<1>. QED BY <1>1, <1>2, <1>3

LEMMA FlattenConcat ==
  ASSUME NEW X, NEW S \in Seq(Seq(X)), NEW T \in Seq(Seq(X))
  PROVE  FlattenSeq(S \o T) = FlattenSeq(S) \o FlattenSeq(T)
<1> DEFINE Q == Seq(X)
           P == {R \in Seq(Q) : FlattenSeq(S \o R) = FlattenSeq(S) \o FlattenSeq(R)}
<1>1. <<>> \in P
  <2>1. FlattenSeq(S) \in Seq(X)
    BY FlattenType
  <2>2. FlattenSeq(S) \o <<>> = FlattenSeq(S) /\ S \o <<>> = S /\ <<>> \in Seq(Q)
    BY <2>1
  <2>3. FlattenSeq(S \o <<>>) = FlattenSeq(S) \o FlattenSeq(<<>>)
    BY <2>2, FlattenEmpty
  <2>. QED BY <2>2, <2>3
<1>2. ASSUME NEW R \in Seq(Q), NEW t \in Q, R \in P PROVE Append(R, t) \in P
  <2>1. S \o Append(R, t) = Append(S \o R, t) /\ S \o R \in Seq(Q) /\ Append(R, t) \in Seq(Q)
    OBVIOUS
  <2>2. FlattenSeq(Append(S \o R, t)) = FlattenSeq(S \o R) \o t
    BY <2>1, FlattenAppend
  <2>3. FlattenSeq(Append(R, t)) = FlattenSeq(R) \o t
    BY FlattenAppend
  <2>4. FlattenSeq(S) \in Seq(X) /\ FlattenSeq(R) \in Seq(X)
    BY FlattenType
  <2>5. (FlattenSeq(S) \o FlattenSeq(R)) \o t = FlattenSeq(S) \o (FlattenSeq(R) \o t)
    BY <2>4, ConcatAssociative
  <2>6. FlattenSeq(S \o R) = FlattenSeq(S) \o FlattenSeq(R)
    BY <1>2
  <2>7. FlattenSeq(S \o Append(R, t)) = FlattenSeq(S) \o FlattenSeq(Append(R, t))
    BY <2>1, <2>2, <2>3, <2>5, <2>6
  <2>. QED BY <2>1, <2>7
<1>3. Seq(Q) \subseteq P
  <2> HIDE DEF P, Q
  <2>. QED BY <1>1, <1>2, SequenceInduction
<1>. QED BY <1>3

-----------------------------------------------------------------------------
(* A function applied to the elements of a sequence.                       *)
Sends(g, X, Y) == \A x \in X : g[x] \in Y

Mapped(g, s) == [i \in DOMAIN s |-> g[s[i]]]

LEMMA MappedType ==
  ASSUME NEW X, NEW Y, NEW g, Sends(g, X, Y), NEW s \in Seq(X)
  PROVE  Mapped(g, s) \in Seq(Y) /\ Len(Mapped(g, s)) = Len(s) /\ DOMAIN Mapped(g, s) = DOMAIN s
BY DEF Mapped, Sends

LEMMA MappedConcat ==
  ASSUME NEW X, NEW Y, NEW g, Sends(g, X, Y), NEW s \in Seq(X), NEW t \in Seq(X)
  PROVE  Mapped(g, s \o t) = Mapped(g, s) \o Mapped(g, t)
<1>1. /\ Mapped(g, s) \in Seq(Y) /\ Mapped(g, t) \in Seq(Y) /\ Mapped(g, s \o t) \in Seq(Y)
      /\ Len(Mapped(g, s)) = Len(s) /\ Len(Mapped(g, t)) = Len(t)
      /\ Len(Mapped(g, s \o t)) = Len(s) + Len(t)
  <2>1. ASSUME NEW r \in Seq(X) PROVE Mapped(g, r) \in Seq(Y) /\ Len(Mapped(g, r)) = Len(r)
    BY MappedType
  <2>2. s \o t \in Seq(X) /\ Len(s \o t) = Len(s) + Len(t)
    OBVIOUS
  <2>. QED BY <2>1, <2>2
<1>2. ASSUME NEW i \in 1 .. Len(s) + Len(t)
      PROVE  Mapped(g, s \o t)[i] = (Mapped(g, s) \o Mapped(g, t))[i]
  BY <1>1 DEF Mapped
<1>3. Mapped(g, s) \o Mapped(g, t) \in Seq(Y)
      /\ Len(Mapped(g, s) \o Mapped(g, t)) = Len(s) + Len(t)
  BY <1>1, ConcatProperties
<1>. QED BY <1>1, <1>2, <1>3

LEMMA MappedAppend ==
  ASSUME NEW X, NEW Y, NEW g, Sends(g, X, Y), NEW s \in Seq(X), NEW x \in X
  PROVE  Mapped(g, Append(s, x)) = Append(Mapped(g, s), g[x])
<1>1. /\ Mapped(g, s) \in Seq(Y) /\ Len(Mapped(g, s)) = Len(s) /\ g[x] \in Y
      /\ Append(s, x) \in Seq(X) /\ Mapped(g, Append(s, x)) \in Seq(Y)
      /\ Len(Mapped(g, Append(s, x))) = Len(s) + 1
  <2>1. Append(s, x) \in Seq(X) /\ Len(Append(s, x)) = Len(s) + 1
    OBVIOUS
  <2>2. ASSUME NEW r \in Seq(X) PROVE Mapped(g, r) \in Seq(Y) /\ Len(Mapped(g, r)) = Len(r)
    BY MappedType
  <2>. QED BY <2>1, <2>2 DEF Sends
<1>2. ASSUME NEW i \in 1 .. Len(s) + 1
      PROVE  Mapped(g, Append(s, x))[i] = Append(Mapped(g, s), g[x])[i]
  BY <1>1 DEF Mapped
<1>3. Append(Mapped(g, s), g[x]) \in Seq(Y) /\ Len(Append(Mapped(g, s), g[x])) = Len(s) + 1
  BY <1>1
<1>. QED BY <1>1, <1>2, <1>3

LEMMA MappedEmpty == ASSUME NEW g PROVE Mapped(g, <<>>) = <<>>
BY DEF Mapped

-----------------------------------------------------------------------------
(* Every element becomes a sequence, and these are joined.                 *)
Spread(g, s) == FlattenSeq(Mapped(g, s))

LEMMA SpreadType ==
  ASSUME NEW X, NEW Y, NEW g, Sends(g, X, Seq(Y)), NEW s \in Seq(X)
  PROVE  Spread(g, s) \in Seq(Y)
<1>1. Mapped(g, s) \in Seq(Seq(Y))
  BY MappedType
<1>. QED BY <1>1, FlattenType DEF Spread

LEMMA SpreadEmpty == ASSUME NEW g PROVE Spread(g, <<>>) = <<>>
BY MappedEmpty, FlattenEmpty DEF Spread

LEMMA SpreadAppend ==
  ASSUME NEW X, NEW Y, NEW g, Sends(g, X, Seq(Y)), NEW s \in Seq(X), NEW x \in X
  PROVE  Spread(g, Append(s, x)) = Spread(g, s) \o g[x]
<1>1. Mapped(g, s) \in Seq(Seq(Y)) /\ g[x] \in Seq(Y)
  BY MappedType DEF Sends
<1>2. Mapped(g, Append(s, x)) = Append(Mapped(g, s), g[x])
  BY MappedAppend
<1>3. FlattenSeq(Append(Mapped(g, s), g[x])) = FlattenSeq(Mapped(g, s)) \o g[x]
  BY <1>1, FlattenAppend
<1>. QED BY <1>2, <1>3 DEF Spread

LEMMA SpreadConcat ==
  ASSUME NEW X, NEW Y, NEW g, Sends(g, X, Seq(Y)), NEW s \in Seq(X), NEW t \in Seq(X)
  PROVE  Spread(g, s \o t) = Spread(g, s) \o Spread(g, t)
<1>1. Mapped(g, s) \in Seq(Seq(Y)) /\ Mapped(g, t) \in Seq(Seq(Y))
  BY MappedType
<1>2. Mapped(g, s \o t) = Mapped(g, s) \o Mapped(g, t)
  BY MappedConcat
<1>3. FlattenSeq(Mapped(g, s) \o Mapped(g, t)) = FlattenSeq(Mapped(g, s)) \o FlattenSeq(Mapped(g, t))
  BY <1>1, FlattenConcat
<1>. QED BY <1>2, <1>3 DEF Spread

LEMMA SpreadOne ==
  ASSUME NEW X, NEW Y, NEW g, Sends(g, X, Seq(Y)), NEW x \in X
  PROVE  Spread(g, <<x>>) = g[x]
<1>1. Mapped(g, <<x>>) = <<g[x]>> /\ g[x] \in Seq(Y)
  BY DEF Mapped, Sends
<1>. QED BY <1>1, FlattenOne DEF Spread

(* Only what becomes of the elements counts.                               *)
LEMMA SpreadSame ==
  ASSUME NEW s, NEW g, NEW h, \A i \in DOMAIN s : g[s[i]] = h[s[i]]
  PROVE  Spread(g, s) = Spread(h, s)
<1>1. Mapped(g, s) = Mapped(h, s)
  BY DEF Mapped
<1>. QED BY <1>1 DEF Spread

(* Two spreads in a row.                                                   *)
InTwoSteps(c, g, h, X) == \A x \in X : c[x] = Spread(h, g[x])

LEMMA SpreadSpread ==
  ASSUME NEW X, NEW Y, NEW Z, NEW g, Sends(g, X, Seq(Y)), NEW h, Sends(h, Y, Seq(Z)),
         NEW c, InTwoSteps(c, g, h, X), NEW s \in Seq(X)
  PROVE  Spread(h, Spread(g, s)) = Spread(c, s)
<1> DEFINE P == {r \in Seq(X) : Spread(h, Spread(g, r)) = Spread(c, r)}
<1>0. Sends(c, X, Seq(Z))
  <2> SUFFICES ASSUME NEW x \in X PROVE c[x] \in Seq(Z)
    BY DEF Sends
  <2>1. g[x] \in Seq(Y) /\ c[x] = Spread(h, g[x])
    BY DEF Sends, InTwoSteps
  <2>. QED BY <2>1, SpreadType
<1>1. <<>> \in P
  <2>1. Spread(h, Spread(g, <<>>)) = Spread(c, <<>>)
    BY SpreadEmpty
  <2>. QED BY <2>1
<1>2. ASSUME NEW r \in Seq(X), NEW x \in X, r \in P PROVE Append(r, x) \in P
  <2>1. Spread(g, r) \in Seq(Y) /\ g[x] \in Seq(Y)
    BY SpreadType DEF Sends
  <2>2. Spread(g, Append(r, x)) = Spread(g, r) \o g[x]
    BY SpreadAppend
  <2>3. Spread(h, Spread(g, r) \o g[x]) = Spread(h, Spread(g, r)) \o Spread(h, g[x])
    BY <2>1, SpreadConcat
  <2>4. Spread(c, Append(r, x)) = Spread(c, r) \o c[x]
    BY <1>0, SpreadAppend
  <2>5. Spread(h, Spread(g, r)) = Spread(c, r) /\ c[x] = Spread(h, g[x])
    BY <1>2 DEF InTwoSteps
  <2>6. Append(r, x) \in Seq(X)
    OBVIOUS
  <2>. QED BY <2>2, <2>3, <2>4, <2>5, <2>6
<1>3. Seq(X) \subseteq P
  <2> HIDE DEF P
  <2>. QED BY <1>1, <1>2, SequenceInduction
<1>. QED BY <1>3

(* Where each element becomes one.                                         *)
AsSingle(g, k, X) == \A x \in X : g[x] = <<k[x]>>

LEMMA SpreadSingles ==
  ASSUME NEW X, NEW Y, NEW k, Sends(k, X, Y), NEW g, AsSingle(g, k, X),
         NEW s \in Seq(X)
  PROVE  Spread(g, s) = Mapped(k, s)
<1> DEFINE P == {r \in Seq(X) : Spread(g, r) = Mapped(k, r)}
<1>0. Sends(g, X, Seq(Y))
  <2> SUFFICES ASSUME NEW x \in X PROVE g[x] \in Seq(Y)
    BY DEF Sends
  <2>1. k[x] \in Y /\ g[x] = <<k[x]>>
    BY DEF Sends, AsSingle
  <2>. QED BY <2>1
<1>1. <<>> \in P
  <2>1. Spread(g, <<>>) = Mapped(k, <<>>)
    BY SpreadEmpty, MappedEmpty
  <2>. QED BY <2>1
<1>2. ASSUME NEW r \in Seq(X), NEW x \in X, r \in P PROVE Append(r, x) \in P
  <2>1. Mapped(k, r) \in Seq(Y) /\ k[x] \in Y
    BY MappedType DEF Sends
  <2>2. Spread(g, Append(r, x)) = Spread(g, r) \o g[x]
    BY <1>0, SpreadAppend
  <2>3. Mapped(k, Append(r, x)) = Append(Mapped(k, r), k[x])
    BY MappedAppend
  <2>4. Mapped(k, r) \o <<k[x]>> = Append(Mapped(k, r), k[x])
    BY <2>1, AppendIsConcat
  <2>5. Spread(g, r) = Mapped(k, r) /\ g[x] = <<k[x]>> /\ Append(r, x) \in Seq(X)
    BY <1>2 DEF AsSingle
  <2>. QED BY <2>2, <2>3, <2>4, <2>5
<1>3. Seq(X) \subseteq P
  <2> HIDE DEF P
  <2>. QED BY <1>1, <1>2, SequenceInduction
<1>. QED BY <1>3

(* A function applied after a spread can be applied before it.             *)
MapsEach(c, g, k, X) == \A x \in X : c[x] = Mapped(k, g[x])

LEMMA MappedSpread ==
  ASSUME NEW X, NEW Y, NEW Z, NEW g, Sends(g, X, Seq(Y)), NEW k, Sends(k, Y, Z),
         NEW c, MapsEach(c, g, k, X), NEW s \in Seq(X)
  PROVE  Mapped(k, Spread(g, s)) = Spread(c, s)
<1> DEFINE h == [y \in Y |-> <<k[y]>>]
<1>1. AsSingle(h, k, Y)
  BY DEF AsSingle
<1> HIDE DEF h
<1>2. Sends(h, Y, Seq(Z))
  <2> SUFFICES ASSUME NEW y \in Y PROVE h[y] \in Seq(Z)
    BY DEF Sends
  <2>1. k[y] \in Z /\ h[y] = <<k[y]>>
    BY <1>1 DEF Sends, AsSingle
  <2>. QED BY <2>1
<1>3. ASSUME NEW r \in Seq(Y) PROVE Spread(h, r) = Mapped(k, r)
  BY <1>1, SpreadSingles
<1>4. Spread(g, s) \in Seq(Y)
  BY SpreadType
<1>5. InTwoSteps(c, g, h, X)
  <2> SUFFICES ASSUME NEW x \in X PROVE c[x] = Spread(h, g[x])
    BY DEF InTwoSteps
  <2>1. g[x] \in Seq(Y) /\ c[x] = Mapped(k, g[x])
    BY DEF Sends, MapsEach
  <2>. QED BY <1>3, <2>1
<1>6. Spread(h, Spread(g, s)) = Spread(c, s)
  BY <1>2, <1>5, SpreadSpread
<1>. QED BY <1>3, <1>4, <1>6

(* A spread of what became of the elements.                                *)
Through(c, h, k, X) == \A x \in X : c[x] = h[k[x]]

LEMMA SpreadMapped ==
  ASSUME NEW X, NEW Y, NEW k, Sends(k, X, Y), NEW h, NEW c, Through(c, h, k, X), NEW s \in Seq(X)
  PROVE  Spread(h, Mapped(k, s)) = Spread(c, s)
<1>1. \A i \in DOMAIN s : s[i] \in X /\ c[s[i]] = h[k[s[i]]]
  BY DEF Through
<1>2. DOMAIN Mapped(k, s) = DOMAIN s /\ \A i \in DOMAIN s : Mapped(k, s)[i] = k[s[i]]
  BY DEF Mapped
<1>3. Mapped(h, Mapped(k, s)) = Mapped(c, s)
  BY <1>1, <1>2 DEF Mapped
<1>. QED BY <1>3 DEF Spread

LEMMA SpreadNothing ==
  ASSUME NEW X, NEW s \in Seq(X), NEW g, \A i \in DOMAIN s : g[s[i]] = <<>>
  PROVE  Spread(g, s) = <<>>
<1> DEFINE e == [x \in X |-> <<>>]
           P == {r \in Seq(X) : Spread(e, r) = <<>>}
<1>0. Sends(e, X, Seq(X)) /\ \A x \in X : e[x] = <<>>
  BY DEF Sends
<1> HIDE DEF e
<1>1. <<>> \in P
  <2>1. Spread(e, <<>>) = <<>>
    BY SpreadEmpty
  <2>. QED BY <2>1
<1>2. ASSUME NEW r \in Seq(X), NEW x \in X, r \in P PROVE Append(r, x) \in P
  <2>1. Spread(e, Append(r, x)) = Spread(e, r) \o e[x]
    BY <1>0, SpreadAppend
  <2>. QED BY <1>0, <1>2, <2>1
<1>3. Seq(X) \subseteq P
  <2> HIDE DEF P
  <2>. QED BY <1>1, <1>2, SequenceInduction
<1>4. \A i \in DOMAIN s : g[s[i]] = e[s[i]]
  BY <1>0
<1>5. Spread(g, s) = Spread(e, s)
  BY <1>4, SpreadSame
<1>. QED BY <1>3, <1>5

(* What a and b make of the elements, one after the other, is what they    *)
(* make of them together, if nothing b makes comes before something of a.  *)
Sorted(s, a, b) ==
  \A i, j \in DOMAIN s : i <= j => b[s[i]] = <<>> \/ a[s[j]] = <<>>

Both(c, a, b, X) == \A x \in X : c[x] = a[x] \o b[x]

LEMMA SpreadSorted ==
  ASSUME NEW X, NEW Y, NEW a, Sends(a, X, Seq(Y)), NEW b, Sends(b, X, Seq(Y)),
         NEW c, Both(c, a, b, X), NEW s \in Seq(X), Sorted(s, a, b)
  PROVE  Spread(c, s) = Spread(a, s) \o Spread(b, s)
<1> DEFINE P == {r \in Seq(X) : Sorted(r, a, b) => Spread(c, r) = Spread(a, r) \o Spread(b, r)}
<1>0. Sends(c, X, Seq(Y))
  <2> SUFFICES ASSUME NEW x \in X PROVE c[x] \in Seq(Y)
    BY DEF Sends
  <2>1. a[x] \in Seq(Y) /\ b[x] \in Seq(Y) /\ c[x] = a[x] \o b[x]
    BY DEF Sends, Both
  <2>. QED BY <2>1, ConcatProperties
<1>1. <<>> \in P
  <2>0. Spread(a, <<>>) = <<>> /\ Spread(b, <<>>) = <<>> /\ Spread(c, <<>>) = <<>>
    BY SpreadEmpty
  <2>1. Spread(a, <<>>) \o Spread(b, <<>>) = Spread(a, <<>>)
    <3> HIDE DEF P
    <3>1. <<>> \in Seq(Y)
      OBVIOUS
    <3>2. <<>> \o <<>> = <<>>
      BY <3>1, ConcatEmptySeq
    <3>. QED BY <2>0, <3>2, Zenon
  <2>. QED BY <2>0, <2>1
<1>2. ASSUME NEW r \in Seq(X), NEW x \in X, r \in P PROVE Append(r, x) \in P
  <2> DEFINE t == Append(r, x)
  <2>0. t \in Seq(X) /\ Len(t) = Len(r) + 1 /\ t[Len(r) + 1] = x
        /\ DOMAIN r = 1 .. Len(r) /\ DOMAIN t = 1 .. Len(r) + 1
        /\ \A i \in DOMAIN r : t[i] = r[i]
    OBVIOUS
  <2> HIDE DEF t
  <2> SUFFICES ASSUME Sorted(t, a, b) PROVE Spread(c, t) = Spread(a, t) \o Spread(b, t)
    BY <2>0 DEF t
  <2>1. Sorted(r, a, b)
    BY <2>0 DEF Sorted
  <2>2. Spread(c, r) = Spread(a, r) \o Spread(b, r)
    BY <1>2, <2>1
  <2>3. /\ Spread(a, r) \in Seq(Y) /\ Spread(b, r) \in Seq(Y) /\ Spread(c, r) \in Seq(Y)
        /\ a[x] \in Seq(Y) /\ b[x] \in Seq(Y) /\ c[x] = a[x] \o b[x]
    BY <1>0, SpreadType DEF Sends, Both
  <2>4. /\ Spread(a, t) = Spread(a, r) \o a[x]
        /\ Spread(b, t) = Spread(b, r) \o b[x]
        /\ Spread(c, t) = Spread(c, r) \o c[x]
    <3>1. ASSUME NEW h, Sends(h, X, Seq(Y)) PROVE Spread(h, t) = Spread(h, r) \o h[x]
      BY <3>1, SpreadAppend DEF t
    <3>. QED BY <1>0, <3>1
  <2>5. a[x] = <<>> \/ (Spread(b, r) = <<>> /\ b[x] = <<>>)
    <3> SUFFICES ASSUME a[x] # <<>> PROVE Spread(b, r) = <<>> /\ b[x] = <<>>
      OBVIOUS
    <3>1. Len(r) + 1 \in DOMAIN t /\ \A i \in DOMAIN r : i \in DOMAIN t /\ i <= Len(r) + 1
      BY <2>0
    <3>2. b[x] = <<>> /\ \A i \in DOMAIN r : b[r[i]] = <<>>
      BY <2>0, <3>1 DEF Sorted
    <3>. QED BY <3>2, SpreadNothing
  <2> DEFINE A == Spread(a, r)
             B == Spread(b, r)
             u == a[x]
             v == b[x]
  <2>6. A \in Seq(Y) /\ B \in Seq(Y) /\ u \in Seq(Y) /\ v \in Seq(Y)
    BY <2>3
  <2> HIDE DEF A, B, u, v, P
  <2>7. CASE u = <<>>
    <3>1. (A \o B) \o v = A \o (B \o v)
      BY <2>6, ConcatAssociative, SMTT(60)
    <3>2. u \o v = v /\ A \o u = A
      BY <2>6, <2>7, ConcatEmptySeq
    <3>3. Spread(c, t) = (A \o B) \o (u \o v)
      BY <2>2, <2>3, <2>4 DEF A, B, u, v
    <3>4. Spread(a, t) = A \o u /\ Spread(b, t) = B \o v
      BY <2>4 DEF A, B, u, v
    <3>. QED BY <3>1, <3>2, <3>3, <3>4
  <2>8. CASE B = <<>> /\ v = <<>>
    <3>1. A \o B = A /\ u \o v = u /\ B \o v = <<>>
      BY <2>6, <2>8, ConcatEmptySeq
    <3>2. (A \o u) \o <<>> = A \o u
      <4>1. A \o u \in Seq(Y)
        BY <2>6, ConcatProperties
      <4>. QED BY <4>1, ConcatEmptySeq
    <3>3. Spread(c, t) = (A \o B) \o (u \o v)
      BY <2>2, <2>3, <2>4 DEF A, B, u, v
    <3>4. Spread(a, t) = A \o u /\ Spread(b, t) = B \o v
      BY <2>4 DEF A, B, u, v
    <3>. QED BY <3>1, <3>2, <3>3, <3>4
  <2>9. u = <<>> \/ (B = <<>> /\ v = <<>>)
    BY <2>5 DEF B, u, v
  <2>10. Spread(c, t) = Spread(a, t) \o Spread(b, t)
    BY <2>7, <2>8, <2>9
  <2>. QED BY <2>10
<1>3. Seq(X) \subseteq P
  <2> HIDE DEF P
  <2>. QED BY <1>1, <1>2, SequenceInduction
<1>. QED BY <1>3

(* Where each element becomes one or none, e tells which element each of   *)
(* those that result comes from.                                           *)
Picks(e, t, s, g) ==
  /\ \A p \in DOMAIN t : e[p] \in DOMAIN s /\ g[s[e[p]]] = <<t[p]>>
  /\ \A p, q \in DOMAIN t : p < q => e[p] < e[q]

LEMMA SpreadPicks ==
  ASSUME NEW X, NEW Y, NEW g, Sends(g, X, Seq(Y)), \A x \in X : Len(g[x]) <= 1,
         NEW s \in Seq(X)
  PROVE  \E e : Picks(e, Spread(g, s), s, g)
<1> DEFINE P == {r \in Seq(X) : \E e : Picks(e, Spread(g, r), r, g)}
<1>1. <<>> \in P
  <2>1. Picks(<<>>, Spread(g, <<>>), <<>>, g)
    BY SpreadEmpty DEF Picks
  <2>. QED BY <2>1
<1>2. ASSUME NEW r \in Seq(X), NEW x \in X, r \in P PROVE Append(r, x) \in P
  <2> DEFINE t == Append(r, x)
             o == Spread(g, r)
  <2>0. t \in Seq(X) /\ t[Len(r) + 1] = x
        /\ DOMAIN r = 1 .. Len(r) /\ DOMAIN t = 1 .. Len(r) + 1
        /\ (\A i \in DOMAIN r : t[i] = r[i]) /\ Len(r) \in Nat
    OBVIOUS
  <2>1. PICK e : Picks(e, o, r, g)
    BY <1>2
  <2>2. o \in Seq(Y) /\ g[x] \in Seq(Y) /\ Len(g[x]) <= 1
    BY SpreadType DEF Sends
  <2>3. Spread(g, t) = o \o g[x]
    BY SpreadAppend
  <2> HIDE DEF t, o
  <2>4. CASE g[x] = <<>>
    <3>1. Spread(g, t) = o
      BY <2>2, <2>3, <2>4, ConcatEmptySeq
    <3>2. ASSUME NEW p \in DOMAIN o PROVE e[p] \in DOMAIN t /\ g[t[e[p]]] = <<o[p]>>
      <4>1. e[p] \in DOMAIN r /\ g[r[e[p]]] = <<o[p]>>
        BY <2>1 DEF Picks
      <4>2. e[p] \in DOMAIN t /\ t[e[p]] = r[e[p]]
        BY <2>0, <4>1
      <4>. QED BY <4>1, <4>2
    <3>3. Picks(e, o, t, g)
      BY <2>1, <3>2 DEF Picks
    <3>. QED BY <2>0, <3>1, <3>3 DEF t
  <2>5. CASE g[x] # <<>>
    <3>1. PICK y \in Y : g[x] = <<y>>
      BY <2>2, <2>5
    <3> DEFINE u == o \o g[x]
               n == Len(o)
               d == [p \in 1 .. n + 1 |-> IF p <= n THEN e[p] ELSE Len(r) + 1]
    <3>2. n \in Nat /\ DOMAIN o = 1 .. n /\ DOMAIN u = 1 .. n + 1 /\ u[n + 1] = y
          /\ \A p \in 1 .. n : u[p] = o[p]
      BY <2>2, <3>1
    <3>3. d[n + 1] = Len(r) + 1 /\ \A p \in 1 .. n : d[p] = e[p]
      BY <3>2
    <3> HIDE DEF u, d, n
    <3>4. ASSUME NEW p \in 1 .. n + 1 PROVE d[p] \in DOMAIN t /\ g[t[d[p]]] = <<u[p]>>
      <4>1. CASE p = n + 1
        BY <2>0, <3>1, <3>2, <3>3, <4>1
      <4>2. CASE p \in 1 .. n
        <5>1. e[p] \in DOMAIN r /\ g[r[e[p]]] = <<o[p]>>
          BY <2>1, <3>2, <4>2 DEF Picks
        <5>2. e[p] \in DOMAIN t /\ t[e[p]] = r[e[p]]
          BY <2>0, <5>1
        <5>. QED BY <3>2, <3>3, <4>2, <5>1, <5>2
      <4>. QED BY <3>2, <4>1, <4>2
    <3>5. ASSUME NEW p \in 1 .. n + 1, NEW q \in 1 .. n + 1, p < q PROVE d[p] < d[q]
      <4>1. p \in 1 .. n
        BY <3>2, <3>5
      <4>2. CASE q = n + 1
        <5>1. e[p] \in DOMAIN r
          BY <2>1, <3>2, <4>1 DEF Picks
        <5>. QED BY <2>0, <3>3, <4>1, <4>2, <5>1
      <4>3. CASE q \in 1 .. n
        BY <2>1, <3>2, <3>3, <3>5, <4>1, <4>3 DEF Picks
      <4>. QED BY <3>2, <4>2, <4>3
    <3>6. Picks(d, u, t, g)
      BY <3>2, <3>4, <3>5 DEF Picks
    <3>. QED BY <2>0, <2>3, <3>6 DEF t, u
  <2>. QED BY <2>4, <2>5
<1>3. Seq(X) \subseteq P
  <2> HIDE DEF P
  <2>. QED BY <1>1, <1>2, SequenceInduction
<1>. QED BY <1>3
=============================================================================
