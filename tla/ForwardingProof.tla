--------------------------- MODULE ForwardingProof ---------------------------
(***************************************************************************)
(* Proofs about headers and what becomes of them: a header that ulist has  *)
(* written is read as it was, and nobody who is hidden is named again.     *)
(***************************************************************************)
EXTENDS Forwarding, SequenceTheorems, WellFoundedInduction, TLAPS

-----------------------------------------------------------------------------
(* Induction and recursion *)

Less == {ss \in Nat \X Nat : ss[1] < ss[2]}

LEMMA LessWellFounded == IsWellFoundedOn(Less, Nat)
  BY NatLessThanWellFounded DEF OpToRel, Less

(* What holds for 0, and for the successor of what it holds for, holds for *)
(* every number.                                                           *)
LEMMA NatInduct ==
    ASSUME NEW P \in SUBSET Nat, 0 \in P, \A n \in P : n + 1 \in P
    PROVE  \A n \in Nat : n \in P
<1> SUFFICES ASSUME Nat \ P # {} PROVE FALSE
  OBVIOUS
<1>1. PICK m \in Nat \ P : \A k \in Nat \ P : <<k, m>> \notin Less
  BY WFMin, LessWellFounded
<1>2. m # 0 /\ m \in Nat /\ m \notin P
  BY <1>1
<1>3. m - 1 \in Nat /\ m - 1 < m /\ (m - 1) + 1 = m
  BY <1>2
<1>4. <<m - 1, m>> \in Less
  BY <1>2, <1>3 DEF Less
<1>5. m - 1 \in P
  BY <1>1, <1>3, <1>4
<1> QED  BY <1>2, <1>3, <1>5

(* The functions that are defined by recursion up to n.                    *)
Recursive(S, base, step, n) ==
    {f \in [0..n -> S] : f[0] = base /\ \A i \in 0..(n - 1) : f[i + 1] = step[<<i, f[i]>>]}

LEMMA RecursionUpTo ==
    ASSUME NEW S, NEW base \in S, NEW step \in [Nat \X S -> S], NEW n \in Nat
    PROVE  Recursive(S, base, step, n) # {}
<1> DEFINE Defines(f, m) == f[0] = base /\ \A i \in 0..(m - 1) : f[i + 1] = step[<<i, f[i]>>]
           P == {m \in Nat : \E f \in [0..m -> S] : Defines(f, m)}
<1>1. 0 \in P
  <2>1. [i \in 0..0 |-> base] \in [0..0 -> S] /\ Defines([i \in 0..0 |-> base], 0)
    OBVIOUS
  <2> QED  BY <2>1
<1>2. ASSUME NEW m \in P PROVE m + 1 \in P
  <2>1. PICK f \in [0..m -> S] : Defines(f, m)
    OBVIOUS
  <2>2. m \in Nat /\ f[m] \in S /\ <<m, f[m]>> \in Nat \X S
    OBVIOUS
  <2> DEFINE g == [i \in 0..(m + 1) |-> IF i <= m THEN f[i] ELSE step[<<m, f[m]>>]]
  <2>3. g \in [0..(m + 1) -> S]
    BY <2>2
  <2>4. (\A i \in 0..m : g[i] = f[i]) /\ g[m + 1] = step[<<m, f[m]>>]
    BY <2>2
  <2> HIDE DEF g
  <2>5. ASSUME NEW i \in 0..m PROVE g[i + 1] = step[<<i, g[i]>>]
    <3>1. g[i] = f[i]
      BY <2>4
    <3>2. CASE i = m
      BY <2>4, <3>1, <3>2
    <3>3. CASE i # m
      <4>1. i \in 0..(m - 1) /\ i + 1 \in 0..m
        BY <2>2, <3>3
      <4>2. f[i + 1] = step[<<i, f[i]>>]
        BY <2>1, <4>1
      <4> QED  BY <2>4, <3>1, <4>1, <4>2
    <3> QED  BY <3>2, <3>3
  <2>6. g[0] = base
    BY <2>1, <2>2, <2>4
  <2>7. (m + 1) - 1 = m /\ m + 1 \in Nat
    BY <2>2
  <2>8. Defines(g, m + 1)
    BY <2>5, <2>6, <2>7
  <2> HIDE DEF Defines
  <2> QED  BY <2>3, <2>7, <2>8
<1> HIDE DEF P
<1>3. P \in SUBSET Nat
  BY DEF P
<1>4. n \in P
  BY <1>1, <1>2, <1>3, NatInduct
<1> QED  BY <1>4 DEF P, Recursive

(* FlattenSeq, one sequence after the other.                               *)
Flattening(S, ss) ==
    {f \in [0..Len(ss) -> S] :
        /\ f[0] = <<>>
        /\ \A i \in 1..Len(ss) : f[i] = f[i - 1] \o ss[i]
        /\ FlattenSeq(ss) = f[Len(ss)]}

(* It stays within a set of sequences to which two that are put together   *)
(* belong as well.                                                         *)
LEMMA FlattenRec ==
    ASSUME NEW T, NEW S \in SUBSET Seq(T), <<>> \in S, \A a, b \in S : a \o b \in S,
           NEW ss \in Seq(S)
    PROVE  Flattening(S, ss) # {}
<1> DEFINE n == Len(ss)
           e == <<>>
           step == [p \in Nat \X S |-> IF p[1] + 1 \in 1..n THEN p[2] \o ss[p[1] + 1] ELSE e]
<1>0. n \in Nat /\ e \in S /\ \A i \in 1..n : ss[i] \in S
  OBVIOUS
<1>1. step \in [Nat \X S -> S]
  BY <1>0
<1>2. ASSUME NEW i \in 1..n, NEW x \in S PROVE step[<<i - 1, x>>] = x \o ss[i]
  <2>1. i - 1 \in Nat /\ (i - 1) + 1 = i
    BY <1>0
  <2> HIDE DEF n, e
  <2> QED  BY <2>1
<1> HIDE DEF step, n, e
<1>3. PICK g \in [0..n -> S] : g[0] = e /\ \A i \in 0..(n - 1) : g[i + 1] = step[<<i, g[i]>>]
  <2>1. Recursive(S, e, step, n) # {}
    BY <1>0, <1>1, RecursionUpTo
  <2> QED  BY <2>1 DEF Recursive
<1>4. ASSUME NEW i \in 1..n PROVE g[i] = g[i - 1] \o ss[i]
  <2>1. i - 1 \in 0..(n - 1) /\ i - 1 \in 0..n /\ (i - 1) + 1 = i
    BY <1>0
  <2>2. g[i - 1] \in S
    BY <2>1
  <2>3. g[(i - 1) + 1] = step[<<i - 1, g[i - 1]>>]
    BY <1>3, <2>1
  <2> QED  BY <1>2, <2>1, <2>2, <2>3
<1>5. CASE n = 0
  <2>1. ss = <<>> /\ FlattenSeq(ss) = ss
    BY <1>5 DEF FlattenSeq, n
  <2> QED  BY <1>3, <1>4, <1>5, <2>1 DEF n, e, Flattening
<1>6. CASE n # 0
  <2> DEFINE Def(F) == F = [i \in 1..n |-> IF i = 1 THEN ss[i] ELSE F[i - 1] \o ss[i]]
             h == [i \in 1..n |-> g[i]]
             F == CHOOSE F : Def(F)
  <2>1. FlattenSeq(ss) = F[n]
    BY <1>6 DEF FlattenSeq, n
  <2>a. \A i \in 1..n : h[i] = g[i]
    OBVIOUS
  <2>b. g[1] = ss[1]
    <3>1. 1 \in 1..n /\ 1 - 1 = 0
      BY <1>0, <1>6
    <3>2. g[1] = g[0] \o ss[1]
      BY <1>4, <3>1
    <3>3. ss[1] \in Seq(T) /\ <<>> \o ss[1] = ss[1]
      BY <1>0, <3>1, ConcatEmptySeq
    <3> QED  BY <1>3, <3>2, <3>3 DEF e
  <2>2. Def(h)
    <3>1. ASSUME NEW i \in 1..n PROVE g[i] = IF i = 1 THEN ss[i] ELSE h[i - 1] \o ss[i]
      <4>1. CASE i = 1
        BY <2>b, <4>1
      <4>2. CASE i # 1
        <5>1. i - 1 \in 1..n
          BY <1>0, <4>2
        <5>2. g[i] = g[i - 1] \o ss[i]
          BY <1>4
        <5>3. h[i - 1] = g[i - 1]
          BY <2>a, <5>1
        <5> HIDE DEF h
        <5> QED  BY <4>2, <5>2, <5>3
      <4> QED  BY <4>1, <4>2
    <3> QED  BY <3>1
  <2>3. Def(F)
    BY <2>2
  <2> HIDE DEF F
  <2>4. ASSUME NEW i \in 1..n PROVE F[i] = IF i = 1 THEN ss[i] ELSE F[i - 1] \o ss[i]
    BY <2>3
  <2> DEFINE P == {i \in Nat : i \in 1..n => F[i] = g[i]}
  <2>5. 0 \in P
    OBVIOUS
  <2>6. ASSUME NEW i \in P PROVE i + 1 \in P
    <3> SUFFICES ASSUME i + 1 \in 1..n PROVE F[i + 1] = g[i + 1]
      OBVIOUS
    <3>0. i \in Nat /\ (i + 1) - 1 = i
      OBVIOUS
    <3>1. g[i + 1] = g[i] \o ss[i + 1]
      BY <1>4, <3>0
    <3>2. F[i + 1] = IF i + 1 = 1 THEN ss[i + 1] ELSE F[i] \o ss[i + 1]
      BY <2>4, <3>0
    <3>3. CASE i = 0
      BY <2>b, <3>2, <3>3
    <3>4. CASE i # 0
      <4>1. i \in 1..n /\ i + 1 # 1
        BY <1>0, <3>4
      <4>2. F[i] = g[i]
        BY <4>1
      <4> QED  BY <3>1, <3>2, <4>1, <4>2
    <3> QED  BY <3>3, <3>4
  <2> HIDE DEF P
  <2>7. P \in SUBSET Nat
    BY DEF P
  <2>8. n \in P
    BY <1>0, <2>5, <2>6, <2>7, NatInduct
  <2>9. F[n] = g[n]
    BY <1>0, <1>6, <2>8 DEF P
  <2> QED  BY <1>3, <1>4, <2>1, <2>9 DEF n, e, Flattening
<1> QED  BY <1>5, <1>6

(* Sequences that are put together from two parts are flattened in two.    *)
LEMMA FlattenConcat ==
    ASSUME NEW T, NEW a \in Seq(Seq(T)), NEW b \in Seq(Seq(T))
    PROVE  FlattenSeq(a \o b) = FlattenSeq(a) \o FlattenSeq(b)
<1> DEFINE S == Seq(T)
           m == Len(a)
           n == Len(b)
           ab == a \o b
<1>0. S \in SUBSET Seq(T) /\ <<>> \in S /\ \A x, y \in S : x \o y \in S
  BY ConcatProperties
<1>1. /\ m \in Nat /\ n \in Nat /\ ab \in Seq(S) /\ Len(ab) = m + n
      /\ \A i \in 1..m : ab[i] = a[i] /\ a[i] \in S
      /\ \A i \in 1..n : ab[m + i] = b[i] /\ b[i] \in S
  BY ConcatProperties
<1> HIDE DEF S, ab
<1>a. a \in Seq(S) /\ b \in Seq(S)
  BY DEF S
<1>2. PICK F \in [0..(m + n) -> S] :
         F[0] = <<>> /\ (\A i \in 1..(m + n) : F[i] = F[i - 1] \o ab[i]) /\ FlattenSeq(ab) = F[m + n]
  <2>1. Flattening(S, ab) # {}
    BY <1>0, <1>1, FlattenRec
  <2> QED  BY <1>1, <2>1 DEF Flattening
<1>3. PICK G \in [0..m -> S] :
         G[0] = <<>> /\ (\A i \in 1..m : G[i] = G[i - 1] \o a[i]) /\ FlattenSeq(a) = G[m]
  <2>1. Flattening(S, a) # {}
    BY <1>0, <1>a, FlattenRec
  <2> QED  BY <2>1 DEF Flattening
<1>4. PICK H \in [0..n -> S] :
         H[0] = <<>> /\ (\A i \in 1..n : H[i] = H[i - 1] \o b[i]) /\ FlattenSeq(b) = H[n]
  <2>1. Flattening(S, b) # {}
    BY <1>0, <1>a, FlattenRec
  <2> QED  BY <2>1 DEF Flattening
<1> HIDE DEF m, n
<1>5. F[m] = G[m]
  <2> DEFINE P == {i \in Nat : i \in 0..m => F[i] = G[i]}
  <2>1. 0 \in P
    BY <1>2, <1>3
  <2>2. ASSUME NEW i \in P PROVE i + 1 \in P
    <3> SUFFICES ASSUME i + 1 \in 0..m PROVE F[i + 1] = G[i + 1]
      OBVIOUS
    <3>1. i \in Nat /\ (i + 1) - 1 = i /\ i \in 0..m /\ i + 1 \in 1..m /\ i + 1 \in 1..(m + n)
      BY <1>1
    <3>2. F[i + 1] = F[i] \o ab[i + 1] /\ G[i + 1] = G[i] \o a[i + 1]
      BY <1>2, <1>3, <3>1
    <3> QED  BY <1>1, <3>1, <3>2
  <2> HIDE DEF P
  <2>3. P \in SUBSET Nat
    BY DEF P
  <2>4. m \in P
    BY <1>1, <2>1, <2>2, <2>3, NatInduct
  <2> QED  BY <1>1, <2>4 DEF P
<1>6. F[m + n] = G[m] \o H[n]
  <2> DEFINE P == {i \in Nat : i \in 0..n => F[m + i] = G[m] \o H[i]}
  <2>0. G[m] \in Seq(T)
    BY <1>0, <1>1
  <2>1. 0 \in P
    <3>1. G[m] \o <<>> = G[m] /\ m + 0 = m
      BY <1>1, <2>0, ConcatEmptySeq
    <3> QED  BY <1>4, <1>5, <3>1
  <2>2. ASSUME NEW i \in P PROVE i + 1 \in P
    <3> SUFFICES ASSUME i + 1 \in 0..n PROVE F[m + (i + 1)] = G[m] \o H[i + 1]
      <4>1. i + 1 \in Nat
        OBVIOUS
      <4> HIDE DEF m
      <4> QED  BY <4>1
    <3>1. /\ i \in Nat /\ (i + 1) - 1 = i /\ i \in 0..n /\ i + 1 \in 1..n
          /\ m + (i + 1) \in 1..(m + n) /\ (m + (i + 1)) - 1 = m + i
      BY <1>1
    <3>2. F[m + (i + 1)] = F[m + i] \o ab[m + (i + 1)]
      BY <1>2, <3>1
    <3>3. H[i + 1] = H[i] \o b[i + 1]
      BY <1>4, <3>1
    <3>4. ab[m + (i + 1)] = b[i + 1] /\ b[i + 1] \in Seq(T)
      BY <1>0, <1>1, <3>1
    <3>5. H[i] \in Seq(T)
      BY <1>0, <3>1
    <3>6. (G[m] \o H[i]) \o b[i + 1] = G[m] \o (H[i] \o b[i + 1])
      <4> DEFINE x == G[m]
                 y == H[i]
                 z == b[i + 1]
      <4>1. x \in Seq(T) /\ y \in Seq(T) /\ z \in Seq(T)
        BY <2>0, <3>4, <3>5
      <4> HIDE DEF x, y, z
      <4>2. (x \o y) \o z = x \o (y \o z)
        BY <4>1, ConcatAssociative
      <4> QED  BY <4>2 DEF x, y, z
    <3> QED  BY <3>1, <3>2, <3>3, <3>4, <3>6
  <2> HIDE DEF P
  <2>3. P \in SUBSET Nat
    BY DEF P
  <2>4. n \in P
    BY <1>1, <2>1, <2>2, <2>3, NatInduct
  <2> QED  BY <1>1, <2>4 DEF P
<1> QED  BY <1>2, <1>3, <1>4, <1>5, <1>6 DEF ab

LEMMA FlattenType ==
    ASSUME NEW T, NEW ss \in Seq(Seq(T))
    PROVE  FlattenSeq(ss) \in Seq(T)
<1> DEFINE S == Seq(T)
<1>1. S \in SUBSET Seq(T) /\ <<>> \in S /\ \A x, y \in S : x \o y \in S
  BY ConcatProperties
<1>2. ss \in Seq(S) /\ Len(ss) \in Nat
  OBVIOUS
<1> HIDE DEF S
<1>3. PICK f \in [0..Len(ss) -> S] : FlattenSeq(ss) = f[Len(ss)]
  <2>1. Flattening(S, ss) # {}
    BY <1>1, <1>2, FlattenRec
  <2> QED  BY <2>1 DEF Flattening
<1>4. f[Len(ss)] \in S
  BY <1>2
<1> QED  BY <1>1, <1>3, <1>4

-----------------------------------------------------------------------------
(* Parts of sequences *)

(* What At gives, of each element.                                         *)
Chosen(s, positions) == [i \in DOMAIN s |-> IF i \in positions THEN <<s[i]>> ELSE <<>>]

LEMMA ChosenType ==
    ASSUME NEW T, NEW s \in Seq(T), NEW I
    PROVE  /\ Chosen(s, I) \in Seq(Seq(T)) /\ Len(Chosen(s, I)) = Len(s)
           /\ \A i \in 1..Len(s) : Chosen(s, I)[i] = IF i \in I THEN <<s[i]>> ELSE <<>>
           /\ At(s, I) = FlattenSeq(Chosen(s, I))
           /\ At(s, I) \in Seq(T)
<1>1. Len(s) \in Nat /\ DOMAIN s = 1..Len(s) /\ \A i \in 1..Len(s) : s[i] \in T
  OBVIOUS
<1> DEFINE c == Chosen(s, I)
<1>2. c = [i \in 1..Len(s) |-> IF i \in I THEN <<s[i]>> ELSE <<>>]
  BY <1>1 DEF Chosen
<1>3. c \in [1..Len(s) -> Seq(T)]
  BY <1>1, <1>2
<1>4. c \in Seq(Seq(T)) /\ Len(c) = Len(s)
  BY <1>1, <1>3
<1>5. At(s, I) = FlattenSeq(c)
  BY DEF At, Chosen
<1> HIDE DEF c
<1>6. FlattenSeq(c) \in Seq(T)
  BY <1>4, FlattenType
<1> QED  BY <1>2, <1>4, <1>5, <1>6 DEF c

(* One element after the other.                                            *)
AtSteps(T, s, positions) ==
    {f \in [0..Len(s) -> Seq(T)] :
        /\ f[0] = <<>>
        /\ \A i \in 1..Len(s) : f[i] = IF i \in positions THEN f[i - 1] \o <<s[i]>> ELSE f[i - 1]
        /\ At(s, positions) = f[Len(s)]}

LEMMA AtRec ==
    ASSUME NEW T, NEW s \in Seq(T), NEW I
    PROVE  AtSteps(T, s, I) # {}
<1> DEFINE S == Seq(T)
           c == Chosen(s, I)
<1>1. S \in SUBSET Seq(T) /\ <<>> \in S /\ \A x, y \in S : x \o y \in S
  BY ConcatProperties
<1>2. /\ c \in Seq(S) /\ Len(c) = Len(s) /\ At(s, I) = FlattenSeq(c)
      /\ \A i \in 1..Len(s) : c[i] = IF i \in I THEN <<s[i]>> ELSE <<>>
  BY ChosenType
<1>3. Len(s) \in Nat
  OBVIOUS
<1> HIDE DEF S, c
<1>4. PICK f \in [0..Len(s) -> S] :
         f[0] = <<>> /\ (\A i \in 1..Len(s) : f[i] = f[i - 1] \o c[i]) /\ FlattenSeq(c) = f[Len(s)]
  <2>1. Flattening(S, c) # {}
    BY <1>1, <1>2, FlattenRec
  <2> QED  BY <1>2, <2>1 DEF Flattening
<1>5. ASSUME NEW i \in 1..Len(s)
      PROVE  f[i] = IF i \in I THEN f[i - 1] \o <<s[i]>> ELSE f[i - 1]
  <2>1. i - 1 \in 0..Len(s)
    BY <1>3
  <2>2. f[i - 1] \in Seq(T)
    BY <1>1, <2>1
  <2>3. f[i - 1] \o <<>> = f[i - 1]
    BY <2>2, ConcatEmptySeq
  <2>4. f[i] = f[i - 1] \o c[i]
    BY <1>4
  <2>5. CASE i \in I
    BY <1>2, <2>4, <2>5
  <2>6. CASE i \notin I
    <3>1. c[i] = <<>>
      BY <1>2, <2>6
    <3> QED  BY <2>3, <2>4, <2>6, <3>1
  <2> QED  BY <2>5, <2>6
<1>6. f \in [0..Len(s) -> Seq(T)]
  BY DEF S
<1> QED  BY <1>2, <1>4, <1>5, <1>6 DEF AtSteps

(* In two parts.                                                           *)
InParts(a, b, I, J, K) ==
    /\ \A i \in 1..Len(a) : i \in K <=> i \in I
    /\ \A i \in 1..Len(b) : Len(a) + i \in K <=> i \in J

LEMMA AtConcat ==
    ASSUME NEW T, NEW a \in Seq(T), NEW b \in Seq(T), NEW I, NEW J, NEW K, InParts(a, b, I, J, K)
    PROVE  At(a \o b, K) = At(a, I) \o At(b, J)
<1> DEFINE ab == a \o b
           c == Chosen(a, I)
           d == Chosen(b, J)
           e == Chosen(ab, K)
<1>1. /\ Len(a) \in Nat /\ Len(b) \in Nat /\ ab \in Seq(T) /\ Len(ab) = Len(a) + Len(b)
      /\ \A i \in 1..Len(ab) : ab[i] = IF i <= Len(a) THEN a[i] ELSE b[i - Len(a)]
  BY ConcatProperties
<1> HIDE DEF ab
<1>2. /\ c \in Seq(Seq(T)) /\ Len(c) = Len(a) /\ At(a, I) = FlattenSeq(c)
      /\ \A i \in 1..Len(a) : c[i] = IF i \in I THEN <<a[i]>> ELSE <<>>
  BY ChosenType
<1>3. /\ d \in Seq(Seq(T)) /\ Len(d) = Len(b) /\ At(b, J) = FlattenSeq(d)
      /\ \A i \in 1..Len(b) : d[i] = IF i \in J THEN <<b[i]>> ELSE <<>>
  BY ChosenType
<1>4. /\ e \in Seq(Seq(T)) /\ Len(e) = Len(ab) /\ At(ab, K) = FlattenSeq(e)
      /\ \A i \in 1..Len(ab) : e[i] = IF i \in K THEN <<ab[i]>> ELSE <<>>
  BY <1>1, ChosenType
<1> HIDE DEF c, d, e
<1>5. /\ c \o d \in Seq(Seq(T)) /\ Len(c \o d) = Len(c) + Len(d)
      /\ \A i \in 1..(Len(c) + Len(d)) : (c \o d)[i] = IF i <= Len(c) THEN c[i] ELSE d[i - Len(c)]
  <2> DEFINE S == Seq(T)
  <2>1. c \in Seq(S) /\ d \in Seq(S)
    BY <1>2, <1>3
  <2> HIDE DEF S
  <2>2. /\ c \o d \in Seq(S) /\ Len(c \o d) = Len(c) + Len(d)
        /\ \A i \in 1..(Len(c) + Len(d)) : (c \o d)[i] = IF i <= Len(c) THEN c[i] ELSE d[i - Len(c)]
    BY <2>1, ConcatProperties
  <2> QED  BY <2>2 DEF S
<1>6. ASSUME NEW i \in 1..Len(ab) PROVE e[i] = (c \o d)[i]
  <2>1. CASE i <= Len(a)
    <3>1. i \in 1..Len(a)
      BY <1>1, <2>1
    <3>2. (c \o d)[i] = c[i] /\ ab[i] = a[i]
      BY <1>1, <1>2, <1>3, <1>5, <2>1
    <3> QED  BY <1>2, <1>4, <3>1, <3>2 DEF InParts
  <2>2. CASE ~(i <= Len(a))
    <3>1. i - Len(a) \in 1..Len(b) /\ Len(a) + (i - Len(a)) = i
      BY <1>1, <2>2
    <3>2. (c \o d)[i] = d[i - Len(a)] /\ ab[i] = b[i - Len(a)]
      BY <1>1, <1>2, <1>3, <1>5, <2>2
    <3>3. i \in K <=> i - Len(a) \in J
      BY <3>1 DEF InParts
    <3>4. d[i - Len(a)] = IF i - Len(a) \in J THEN <<b[i - Len(a)]>> ELSE <<>>
      BY <1>3, <3>1
    <3>5. e[i] = IF i \in K THEN <<ab[i]>> ELSE <<>>
      BY <1>4
    <3> QED  BY <3>2, <3>3, <3>4, <3>5
  <2> QED  BY <2>1, <2>2
<1>7. e = c \o d
  BY <1>1, <1>2, <1>3, <1>4, <1>5, <1>6, SeqEqual
<1>8. FlattenSeq(c \o d) = FlattenSeq(c) \o FlattenSeq(d)
  BY <1>2, <1>3, FlattenConcat
<1> QED  BY <1>2, <1>3, <1>4, <1>7, <1>8 DEF ab

LEMMA AtNone ==
    ASSUME NEW T, NEW s \in Seq(T), NEW I, \A i \in 1..Len(s) : i \notin I
    PROVE  At(s, I) = <<>>
<1>1. PICK f \in AtSteps(T, s, I) : TRUE
  BY AtRec
<1>2. Len(s) \in Nat
  OBVIOUS
<1> DEFINE P == {i \in Nat : i \in 0..Len(s) => f[i] = <<>>}
<1>3. 0 \in P
  BY <1>1 DEF AtSteps
<1>4. ASSUME NEW i \in P PROVE i + 1 \in P
  <2> SUFFICES ASSUME i + 1 \in 0..Len(s) PROVE f[i + 1] = <<>>
    OBVIOUS
  <2>1. i \in 0..Len(s) /\ i + 1 \in 1..Len(s) /\ (i + 1) - 1 = i
    BY <1>2
  <2> QED  BY <1>1, <2>1 DEF AtSteps
<1> HIDE DEF P
<1>5. P \in SUBSET Nat
  BY DEF P
<1>6. Len(s) \in P
  BY <1>2, <1>3, <1>4, <1>5, NatInduct
<1> QED  BY <1>1, <1>2, <1>6 DEF P, AtSteps

(* Which elements At gives.                                                *)
LEMMA AtElements ==
    ASSUME NEW T, NEW s \in Seq(T), NEW I
    PROVE  /\ \A x \in 1..Len(At(s, I)) : \E i \in 1..Len(s) : i \in I /\ At(s, I)[x] = s[i]
           /\ \A i \in 1..Len(s) : i \in I => \E x \in 1..Len(At(s, I)) : At(s, I)[x] = s[i]
<1>1. PICK f \in AtSteps(T, s, I) : TRUE
  BY AtRec
<1>2. Len(s) \in Nat /\ \A i \in 1..Len(s) : s[i] \in T
  OBVIOUS
<1> DEFINE From(j) == \A x \in 1..Len(f[j]) : \E i \in 1..j : i \in I /\ f[j][x] = s[i]
           Onto(j) == \A i \in 1..j : i \in I => \E x \in 1..Len(f[j]) : f[j][x] = s[i]
           P == {j \in Nat : j \in 0..Len(s) => From(j) /\ Onto(j)}
<1>3. 0 \in P
  <2>1. f[0] = <<>>
    BY <1>1 DEF AtSteps
  <2>2. Len(f[0]) = 0
    BY <2>1
  <2> QED  BY <2>2
<1>4. ASSUME NEW j \in P PROVE j + 1 \in P
  <2> SUFFICES ASSUME j + 1 \in 0..Len(s) PROVE From(j + 1) /\ Onto(j + 1)
    OBVIOUS
  <2>1. j \in Nat /\ j \in 0..Len(s) /\ j + 1 \in 1..Len(s) /\ (j + 1) - 1 = j
    BY <1>2
  <2>2. From(j) /\ Onto(j)
    BY <2>1
  <2>3. f[j] \in Seq(T) /\ s[j + 1] \in T
    BY <1>1, <1>2, <2>1 DEF AtSteps
  <2>4. CASE j + 1 \in I
    <3> DEFINE u == f[j]
               v == f[j + 1]
               t == s[j + 1]
    <3>1. v = u \o <<t>>
      BY <1>1, <2>1, <2>4 DEF AtSteps
    <3>2. u \in Seq(T) /\ <<t>> \in Seq(T) /\ Len(<<t>>) = 1 /\ <<t>>[1] = t
      BY <2>3
    <3> HIDE DEF u, v, t
    <3>3. /\ Len(u) \in Nat /\ Len(v) = Len(u) + 1
          /\ \A x \in 1..Len(u) + 1 : v[x] = IF x <= Len(u) THEN u[x] ELSE <<t>>[x - Len(u)]
      BY <3>1, <3>2, ConcatProperties
    <3>4. v[Len(u) + 1] = t /\ \A x \in 1..Len(u) : v[x] = u[x]
      BY <3>2, <3>3
    <3>5. From(j + 1)
      <4> SUFFICES ASSUME NEW x \in 1..Len(v) PROVE \E i \in 1..(j + 1) : i \in I /\ v[x] = s[i]
        BY DEF v
      <4>1. CASE x \in 1..Len(u)
        <5>1. PICK i \in 1..j : i \in I /\ u[x] = s[i]
          BY <2>2, <4>1 DEF u
        <5>2. i \in 1..(j + 1)
          BY <2>1
        <5> QED  BY <3>4, <4>1, <5>1, <5>2
      <4>2. CASE x = Len(u) + 1
        <5>1. j + 1 \in 1..(j + 1)
          BY <2>1
        <5> QED  BY <2>4, <3>4, <4>2, <5>1 DEF t
      <4> QED  BY <3>3, <4>1, <4>2
    <3>6. Onto(j + 1)
      <4> SUFFICES ASSUME NEW i \in 1..(j + 1), i \in I PROVE \E x \in 1..Len(v) : v[x] = s[i]
        BY DEF v
      <4>1. CASE i = j + 1
        <5>1. Len(u) + 1 \in 1..Len(v)
          BY <3>3
        <5> QED  BY <3>4, <4>1, <5>1 DEF t
      <4>2. CASE i # j + 1
        <5>1. i \in 1..j
          BY <2>1, <4>2
        <5>2. PICK x \in 1..Len(u) : u[x] = s[i]
          BY <2>2, <5>1 DEF u
        <5>3. x \in 1..Len(v)
          BY <3>3
        <5> QED  BY <3>4, <5>2, <5>3
      <4> QED  BY <4>1, <4>2
    <3> QED  BY <3>5, <3>6
  <2>5. CASE j + 1 \notin I
    <3>1. f[j + 1] = f[j]
      BY <1>1, <2>1, <2>5 DEF AtSteps
    <3>2. From(j + 1)
      <4> SUFFICES ASSUME NEW x \in 1..Len(f[j]) PROVE \E i \in 1..(j + 1) : i \in I /\ f[j][x] = s[i]
        BY <3>1
      <4>1. PICK i \in 1..j : i \in I /\ f[j][x] = s[i]
        BY <2>2
      <4>2. i \in 1..(j + 1)
        BY <2>1
      <4> QED  BY <4>1, <4>2
    <3>3. Onto(j + 1)
      <4> SUFFICES ASSUME NEW i \in 1..(j + 1), i \in I PROVE \E x \in 1..Len(f[j]) : f[j][x] = s[i]
        BY <3>1
      <4>1. i \in 1..j
        BY <2>1, <2>5
      <4> QED  BY <2>2, <4>1
    <3> QED  BY <3>2, <3>3
  <2> QED  BY <2>4, <2>5
<1> HIDE DEF P
<1>5. P \in SUBSET Nat
  BY DEF P
<1>6. Len(s) \in P
  BY <1>2, <1>3, <1>4, <1>5, NatInduct
<1>7. From(Len(s)) /\ Onto(Len(s)) /\ At(s, I) = f[Len(s)]
  BY <1>1, <1>2, <1>6 DEF P, AtSteps
<1> QED  BY <1>7

-----------------------------------------------------------------------------
(* Ink *)

Unfold(s) == At(s, {i \in DOMAIN s : s[i] # CRLF})

LEMMA TokensDiffer ==
    /\ WS # CRLF /\ ~IsInk(WS) /\ ~IsInk(CRLF)
    /\ \A k : IsInk(Name(k)) /\ Name(k) # WS /\ Name(k) # CRLF /\ Name(k)[1] = "name" /\ Name(k)[2] = k
    /\ WS[1] # "name" /\ CRLF[1] # "name" /\ ~IsBox(WS)
  BY DEF WS, CRLF, IsInk, Name, IsBox

LEMMA InkConcat ==
    ASSUME NEW T, NEW a \in Seq(T), NEW b \in Seq(T)
    PROVE  Ink(a \o b) = Ink(a) \o Ink(b)
<1> DEFINE ab == a \o b
           I == {i \in DOMAIN a : IsInk(a[i])}
           J == {i \in DOMAIN b : IsInk(b[i])}
           K == {i \in DOMAIN ab : IsInk(ab[i])}
<1>1. /\ Len(a) \in Nat /\ Len(b) \in Nat /\ ab \in Seq(T) /\ Len(ab) = Len(a) + Len(b)
      /\ \A i \in 1..Len(ab) : ab[i] = IF i <= Len(a) THEN a[i] ELSE b[i - Len(a)]
      /\ DOMAIN a = 1..Len(a) /\ DOMAIN b = 1..Len(b) /\ DOMAIN ab = 1..Len(ab)
  BY ConcatProperties
<1> HIDE DEF ab
<1>2. \A i \in 1..Len(a) : i \in K <=> i \in I
  BY <1>1
<1>3. \A i \in 1..Len(b) : Len(a) + i \in K <=> i \in J
  <2> TAKE i \in 1..Len(b)
  <2>1. Len(a) + i \in 1..Len(ab) /\ ~(Len(a) + i <= Len(a)) /\ (Len(a) + i) - Len(a) = i
    BY <1>1
  <2>2. ab[Len(a) + i] = b[i]
    BY <1>1, <2>1
  <2> QED  BY <1>1, <2>1, <2>2
<1> HIDE DEF I, J, K
<1>4. At(a \o b, K) = At(a, I) \o At(b, J)
  <2>1. InParts(a, b, I, J, K)
    BY <1>2, <1>3 DEF InParts
  <2> QED  BY <2>1, AtConcat
<1> QED  BY <1>4 DEF Ink, ab, I, J, K

LEMMA UnfoldConcat ==
    ASSUME NEW T, NEW a \in Seq(T), NEW b \in Seq(T)
    PROVE  Unfold(a \o b) = Unfold(a) \o Unfold(b)
<1> DEFINE ab == a \o b
           I == {i \in DOMAIN a : a[i] # CRLF}
           J == {i \in DOMAIN b : b[i] # CRLF}
           K == {i \in DOMAIN ab : ab[i] # CRLF}
<1>1. /\ Len(a) \in Nat /\ Len(b) \in Nat /\ ab \in Seq(T) /\ Len(ab) = Len(a) + Len(b)
      /\ \A i \in 1..Len(ab) : ab[i] = IF i <= Len(a) THEN a[i] ELSE b[i - Len(a)]
      /\ DOMAIN a = 1..Len(a) /\ DOMAIN b = 1..Len(b) /\ DOMAIN ab = 1..Len(ab)
  BY ConcatProperties
<1> HIDE DEF ab
<1>2. \A i \in 1..Len(a) : i \in K <=> i \in I
  BY <1>1
<1>3. \A i \in 1..Len(b) : Len(a) + i \in K <=> i \in J
  <2> TAKE i \in 1..Len(b)
  <2>1. Len(a) + i \in 1..Len(ab) /\ ~(Len(a) + i <= Len(a)) /\ (Len(a) + i) - Len(a) = i
    BY <1>1
  <2>2. ab[Len(a) + i] = b[i]
    BY <1>1, <2>1
  <2> QED  BY <1>1, <2>1, <2>2
<1> HIDE DEF I, J, K
<1>4. At(a \o b, K) = At(a, I) \o At(b, J)
  <2>1. InParts(a, b, I, J, K)
    BY <1>2, <1>3 DEF InParts
  <2> QED  BY <2>1, AtConcat
<1> QED  BY <1>4 DEF Unfold, ab, I, J, K

LEMMA SingleToken ==
    ASSUME NEW t
    PROVE  /\ Ink(<<>>) = <<>> /\ Unfold(<<>>) = <<>>
           /\ Ink(<<t>>) = IF IsInk(t) THEN <<t>> ELSE <<>>
           /\ Unfold(<<t>>) = IF t # CRLF THEN <<t>> ELSE <<>>
<1> DEFINE T == {t}
<1>1. <<>> \in Seq(T) /\ Len(<<>>) = 0 /\ <<t>> \in Seq(T) /\ Len(<<t>>) = 1 /\ <<t>>[1] = t /\ DOMAIN <<t>> = 1..1
  OBVIOUS
<1> HIDE DEF T
<1>2. ASSUME NEW I PROVE At(<<>>, I) = <<>>
  <2> DEFINE e == <<>>
  <2>1. e \in Seq(T) /\ \A i \in 1..Len(e) : i \notin I
    BY <1>1
  <2> HIDE DEF e
  <2>2. At(e, I) = <<>>
    BY <2>1, AtNone
  <2> QED  BY <2>2 DEF e
<1>3. ASSUME NEW I PROVE At(<<t>>, I) = IF 1 \in I THEN <<t>> ELSE <<>>
  <2>1. PICK f \in AtSteps(T, <<t>>, I) : TRUE
    BY <1>1, AtRec
  <2>2. f[0] = <<>> /\ f[1] = (IF 1 \in I THEN f[0] \o <<t>> ELSE f[0]) /\ At(<<t>>, I) = f[1]
    <3>1. 1 \in 1..1 /\ 1 - 1 = 0
      OBVIOUS
    <3> QED  BY <1>1, <2>1, <3>1 DEF AtSteps
  <2>3. <<>> \o <<t>> = <<t>>
    BY <1>1, ConcatEmptySeq
  <2> QED  BY <2>2, <2>3
<1>4. 1 \in {i \in DOMAIN <<t>> : IsInk(<<t>>[i])} <=> IsInk(t)
  BY <1>1
<1>5. 1 \in {i \in DOMAIN <<t>> : <<t>>[i] # CRLF} <=> t # CRLF
  BY <1>1
<1> QED  BY <1>2, <1>3, <1>4, <1>5 DEF Ink, Unfold

LEMMA InkType ==
    ASSUME NEW T, NEW s \in Seq(T)
    PROVE  Ink(s) \in Seq(T) /\ Len(Ink(s)) \in Nat /\ Unfold(s) \in Seq(T) /\ Len(Unfold(s)) \in Nat
<1>1. Ink(s) \in Seq(T) /\ Unfold(s) \in Seq(T)
  BY ChosenType DEF Ink, Unfold
<1> QED  BY <1>1

(* What holds for the empty sequence, and with one element more at the     *)
(* end, holds for every sequence.                                          *)
LEMMA SeqInduct ==
    ASSUME NEW T, NEW Q \in SUBSET Seq(T), <<>> \in Q, \A s \in Q : \A t \in T : s \o <<t>> \in Q
    PROVE  \A s \in Seq(T) : s \in Q
<1> DEFINE P == {n \in Nat : \A s \in Seq(T) : Len(s) = n => s \in Q}
<1>1. 0 \in P
  <2>1. \A s \in Seq(T) : Len(s) = 0 => s = <<>>
    OBVIOUS
  <2> QED  BY <2>1
<1>2. ASSUME NEW n \in P PROVE n + 1 \in P
  <2> SUFFICES ASSUME NEW s \in Seq(T), Len(s) = n + 1 PROVE s \in Q
    OBVIOUS
  <2>1. n \in Nat /\ n + 1 # 0 /\ s # <<>>
    OBVIOUS
  <2>2. PICK u \in Seq(T), t \in T : s = Append(u, t)
    BY <2>1, SequenceEmptyOrAppend
  <2>3. s = u \o <<t>> /\ Len(s) = Len(u) + 1
    BY <2>2, AppendIsConcat, AppendProperties
  <2>4. Len(u) = n
    BY <2>1, <2>3
  <2>5. u \in Q
    BY <2>4
  <2> QED  BY <2>3, <2>5
<1> HIDE DEF P
<1>3. P \in SUBSET Nat
  BY DEF P
<1>4. \A n \in Nat : n \in P
  BY <1>1, <1>2, <1>3, NatInduct
<1> QED  BY <1>4 DEF P

(* Part of a sequence.                                                     *)
LEMMA PartOf ==
    ASSUME NEW T, NEW s \in Seq(T), NEW a \in Nat \ {0}, NEW b \in Nat, b <= Len(s)
    PROVE  /\ SubSeq(s, a, b) \in Seq(T)
           /\ Len(SubSeq(s, a, b)) = IF a <= b THEN b - a + 1 ELSE 0
           /\ \A i \in 1..(b - a + 1) : SubSeq(s, a, b)[i] = s[a + i - 1]
<1>1. Len(s) \in Nat /\ \A i \in 1..Len(s) : s[i] \in T
  OBVIOUS
<1>2. \A i \in a..b : s[i] \in T
  BY <1>1
<1>3. a \in Int /\ b \in Int
  OBVIOUS
<1> QED  BY <1>2, <1>3, SubSeqProperties

(* A sequence in two parts.                                                *)
LEMMA SplitAt ==
    ASSUME NEW T, NEW s \in Seq(T), NEW c \in 0..Len(s)
    PROVE  /\ s = SubSeq(s, 1, c) \o SubSeq(s, c + 1, Len(s))
           /\ SubSeq(s, 1, c) \in Seq(T) /\ SubSeq(s, c + 1, Len(s)) \in Seq(T)
           /\ Len(SubSeq(s, 1, c)) = c /\ Len(SubSeq(s, c + 1, Len(s))) = Len(s) - c
           /\ \A i \in 1..c : SubSeq(s, 1, c)[i] = s[i]
           /\ \A i \in 1..(Len(s) - c) : SubSeq(s, c + 1, Len(s))[i] = s[c + i]
<1>1. Len(s) \in Nat /\ c \in Nat /\ c <= Len(s) /\ c + 1 \in Nat \ {0} /\ 1 \in Nat \ {0} /\ Len(s) <= Len(s)
  OBVIOUS
<1> DEFINE u == SubSeq(s, 1, c)
           v == SubSeq(s, c + 1, Len(s))
<1>2. u \in Seq(T) /\ Len(u) = (IF 1 <= c THEN c - 1 + 1 ELSE 0) /\ \A i \in 1..(c - 1 + 1) : u[i] = s[1 + i - 1]
  BY <1>1, PartOf
<1>3. /\ v \in Seq(T) /\ Len(v) = (IF c + 1 <= Len(s) THEN Len(s) - (c + 1) + 1 ELSE 0)
      /\ \A i \in 1..(Len(s) - (c + 1) + 1) : v[i] = s[(c + 1) + i - 1]
  BY <1>1, PartOf
<1> HIDE DEF u, v
<1>4. Len(u) = c /\ Len(v) = Len(s) - c
  BY <1>1, <1>2, <1>3
<1>5. \A i \in 1..c : u[i] = s[i]
  <2> TAKE i \in 1..c
  <2>1. i \in 1..(c - 1 + 1) /\ 1 + i - 1 = i
    BY <1>1
  <2> QED  BY <1>2, <2>1
<1>6. \A i \in 1..(Len(s) - c) : v[i] = s[c + i]
  <2> TAKE i \in 1..(Len(s) - c)
  <2>1. i \in 1..(Len(s) - (c + 1) + 1) /\ (c + 1) + i - 1 = c + i
    BY <1>1
  <2> QED  BY <1>3, <2>1
<1>7. /\ u \o v \in Seq(T) /\ Len(u \o v) = c + (Len(s) - c)
      /\ \A i \in 1..(Len(u) + Len(v)) : (u \o v)[i] = IF i <= Len(u) THEN u[i] ELSE v[i - Len(u)]
  BY <1>2, <1>3, <1>4, ConcatProperties
<1>8. ASSUME NEW i \in 1..Len(s) PROVE s[i] = (u \o v)[i]
  <2>1. i \in 1..(Len(u) + Len(v))
    BY <1>1, <1>4
  <2>2. CASE i <= c
    <3>1. i \in 1..c
      BY <1>1, <2>2
    <3> QED  BY <1>4, <1>5, <1>7, <2>1, <2>2, <3>1
  <2>3. CASE ~(i <= c)
    <3>1. i - c \in 1..(Len(s) - c) /\ c + (i - c) = i
      BY <1>1, <2>3
    <3> QED  BY <1>4, <1>6, <1>7, <2>1, <2>3, <3>1
  <2> QED  BY <2>2, <2>3
<1>9. Len(s) = Len(u \o v)
  BY <1>1, <1>7
<1>10. s = u \o v
  BY <1>7, <1>8, <1>9, SeqEqual
<1> QED  BY <1>2, <1>3, <1>4, <1>5, <1>6, <1>10 DEF u, v

(* A set of numbers has a least one; below a bound, it has a greatest one. *)
LEMMA MinOf ==
    ASSUME NEW S \in SUBSET Nat, S # {}
    PROVE  Min(S) \in S /\ \A x \in S : Min(S) <= x
<1>1. PICK m \in S : \A k \in S : <<k, m>> \notin Less
  BY WFMin, LessWellFounded
<1>2. \A k \in S : m <= k
  <2>1. \A k \in S : ~(k < m)
    BY <1>1 DEF Less
  <2>2. m \in Nat /\ \A k \in S : k \in Nat
    OBVIOUS
  <2> QED  BY <2>1, <2>2
<1> QED  BY <1>2 DEF Min

LEMMA MaxOf ==
    ASSUME NEW b \in Nat, NEW S \in SUBSET (0..b), S # {}
    PROVE  Max(S) \in S /\ \A x \in S : x <= Max(S)
<1> DEFINE D == {b - x : x \in S}
<1>1. \A x \in S : x \in Nat /\ b - x \in Nat
  BY S \subseteq 0..b
<1>2. D \in SUBSET Nat /\ D # {}
  BY <1>1
<1>3. Min(D) \in D /\ \A d \in D : Min(D) <= d
  BY <1>2, MinOf
<1>4. PICK x \in S : Min(D) = b - x
  BY <1>3
<1>5. \A y \in S : b - x <= b - y
  BY <1>3, <1>4
<1>6. \A y \in S : x >= y
  BY <1>1, <1>5
<1>7. Max(S) \in S /\ \A y \in S : Max(S) >= y
  BY <1>6 DEF Max
<1> QED  BY <1>1, <1>7

(* From the first ink to the last.                                         *)
InkSpan(s, a, b) ==
    /\ a \in 1..Len(s) /\ b \in a..Len(s) /\ IsInk(s[a]) /\ IsInk(s[b])
    /\ \A i \in 1..Len(s) : IsInk(s[i]) => a <= i /\ i <= b
    /\ TrimSpace(s) = SubSeq(s, a, b)

Inkless(s) == \A i \in 1..Len(s) : ~IsInk(s[i])

LEMMA TrimSpan ==
    ASSUME NEW T, NEW s \in Seq(T)
    PROVE  /\ TrimSpace(s) \in Seq(T)
           /\ (Inkless(s) /\ TrimSpace(s) = <<>>) \/ \E a, b \in Nat : InkSpan(s, a, b)
<1> DEFINE ink == {i \in DOMAIN s : IsInk(s[i])}
<1>1. Len(s) \in Nat /\ DOMAIN s = 1..Len(s)
  OBVIOUS
<1>2. TrimSpace(s) = IF ink = {} THEN <<>> ELSE SubSeq(s, Min(ink), Max(ink))
  BY DEF TrimSpace
<1>3. ink \in SUBSET Nat /\ ink \in SUBSET (0..Len(s))
  BY <1>1
<1>4. \A i : i \in ink <=> (i \in 1..Len(s) /\ IsInk(s[i]))
  BY <1>1
<1> HIDE DEF ink
<1>5. CASE ink = {}
  <2>1. Inkless(s)
    BY <1>4, <1>5 DEF Inkless
  <2> QED  BY <1>2, <1>5, <2>1
<1>6. CASE ink # {}
  <2> DEFINE a == Min(ink)
             b == Max(ink)
  <2>1. a \in ink /\ \A x \in ink : a <= x
    BY <1>3, <1>6, MinOf
  <2>2. b \in ink /\ \A x \in ink : x <= b
    BY <1>1, <1>3, <1>6, MaxOf
  <2>3. TrimSpace(s) = SubSeq(s, a, b)
    BY <1>2, <1>6
  <2> HIDE DEF a, b
  <2>4. a \in 1..Len(s) /\ b \in 1..Len(s) /\ a <= b /\ IsInk(s[a]) /\ IsInk(s[b])
    BY <1>4, <2>1, <2>2
  <2>5. a \in Nat /\ a \in Nat \ {0} /\ b \in Nat /\ b <= Len(s) /\ b \in a..Len(s)
    BY <1>1, <2>4
  <2>6. SubSeq(s, a, b) \in Seq(T)
    BY <2>5, PartOf
  <2>7. \A i \in 1..Len(s) : IsInk(s[i]) => a <= i /\ i <= b
    BY <1>4, <2>1, <2>2
  <2>8. InkSpan(s, a, b)
    BY <2>3, <2>4, <2>5, <2>7 DEF InkSpan
  <2> QED  BY <2>3, <2>5, <2>6, <2>8
<1> QED  BY <1>5, <1>6

(* Whether there is ink.                                                   *)
LEMMA InkOf ==
    ASSUME NEW T, NEW s \in Seq(T)
    PROVE  /\ Inkless(s) => Ink(s) = <<>> /\ Len(Ink(s)) = 0
           /\ \A i \in 1..Len(s) : IsInk(s[i]) => Len(Ink(s)) >= 1
<1> DEFINE I == {i \in DOMAIN s : IsInk(s[i])}
<1>1. Len(s) \in Nat /\ DOMAIN s = 1..Len(s)
  OBVIOUS
<1>2. Ink(s) = At(s, I) /\ Len(Ink(s)) \in Nat
  BY InkType DEF Ink
<1>3. \A i \in 1..Len(s) : i \in I <=> IsInk(s[i])
  BY <1>1
<1> HIDE DEF I
<1>4. ASSUME Inkless(s) PROVE Ink(s) = <<>>
  <2>1. \A i \in 1..Len(s) : i \notin I
    BY <1>3, <1>4 DEF Inkless
  <2> QED  BY <1>2, <2>1, AtNone
<1>5. ASSUME NEW i \in 1..Len(s), IsInk(s[i]) PROVE Len(Ink(s)) >= 1
  <2>1. \E x \in 1..Len(At(s, I)) : At(s, I)[x] = s[i]
    BY <1>3, <1>5, AtElements
  <2> QED  BY <1>2, <2>1
<1>6. Len(<<>>) = 0
  OBVIOUS
<1> QED  BY <1>4, <1>5, <1>6

(* A sequence is what is before its first ink, what is between its first   *)
(* and its last, and what is behind.                                       *)
LEMMA SpanParts ==
    ASSUME NEW T, NEW s \in Seq(T), NEW a \in Nat, NEW b \in Nat, InkSpan(s, a, b)
    PROVE  \E l, r \in Seq(T) :
              /\ s = (l \o TrimSpace(s)) \o r
              /\ Inkless(l) /\ Inkless(r) /\ Len(l) = a - 1
              /\ TrimSpace(s) \in Seq(T) /\ Len(TrimSpace(s)) = b - a + 1
              /\ \A i \in 1..(b - a + 1) : TrimSpace(s)[i] = s[a + i - 1]
<1>1. /\ Len(s) \in Nat /\ 1 <= a /\ a <= b /\ b <= Len(s) /\ b \in 0..Len(s) /\ a - 1 \in 0..b
      /\ (a - 1) + 1 = a /\ a \in Nat \ {0}
  BY DEF InkSpan
<1> DEFINE u == SubSeq(s, 1, b)
           r == SubSeq(s, b + 1, Len(s))
           c == a - 1
           l == SubSeq(u, 1, c)
           m == SubSeq(u, c + 1, Len(u))
           t == SubSeq(s, a, b)
<1>2. /\ s = u \o r /\ u \in Seq(T) /\ r \in Seq(T) /\ Len(u) = b /\ Len(r) = Len(s) - b
      /\ \A i \in 1..b : u[i] = s[i]
      /\ \A i \in 1..(Len(s) - b) : r[i] = s[b + i]
  BY <1>1, SplitAt
<1>3. t \in Seq(T) /\ Len(t) = (IF a <= b THEN b - a + 1 ELSE 0) /\ \A i \in 1..(b - a + 1) : t[i] = s[a + i - 1]
  BY <1>1, PartOf
<1>4. TrimSpace(s) = t
  BY DEF InkSpan
<1> HIDE DEF u, r, t
<1>5. c \in 0..Len(u) /\ c = a - 1
  BY <1>1, <1>2
<1> HIDE DEF c
<1>6. /\ u = l \o m /\ l \in Seq(T) /\ m \in Seq(T) /\ Len(l) = c /\ Len(m) = Len(u) - c
      /\ \A i \in 1..c : l[i] = u[i]
      /\ \A i \in 1..(Len(u) - c) : m[i] = u[c + i]
  <2>1. u \in Seq(T) /\ c \in 0..Len(u)
    BY <1>2, <1>5
  <2>2. u = l \o m /\ l \in Seq(T) /\ m \in Seq(T)
    BY <2>1, SplitAt
  <2>3. Len(l) = c /\ Len(m) = Len(u) - c
    BY <2>1, SplitAt
  <2>4. \A i \in 1..c : l[i] = u[i]
    BY <2>1, SplitAt
  <2>5. \A i \in 1..(Len(u) - c) : m[i] = u[c + i]
    BY <2>1, SplitAt
  <2> QED  BY <2>2, <2>3, <2>4, <2>5
<1> HIDE DEF l, m
<1>7. m = t
  <2>1. Len(m) = Len(t) /\ Len(m) = b - a + 1
    <3>1. Len(u) = b /\ Len(m) = Len(u) - c /\ Len(t) = IF a <= b THEN b - a + 1 ELSE 0
      BY <1>2, <1>3, <1>6
    <3> QED  BY <1>1, <1>5, <3>1
  <2>2. ASSUME NEW i \in 1..Len(m) PROVE m[i] = t[i]
    <3>1. i \in 1..(b - a + 1) /\ i \in 1..(Len(u) - c) /\ c + i = a + i - 1 /\ c + i \in 1..b
      BY <1>1, <1>2, <1>5, <2>1
    <3>2. m[i] = u[c + i] /\ u[c + i] = s[c + i] /\ t[i] = s[a + i - 1]
      BY <1>2, <1>3, <1>6, <3>1
    <3> QED  BY <3>1, <3>2
  <2> QED  BY <1>3, <1>6, <2>1, <2>2, SeqEqual
<1>8. Inkless(l)
  <2> SUFFICES ASSUME NEW i \in 1..Len(l) PROVE ~IsInk(l[i])
    BY DEF Inkless
  <2>1. i \in 1..c /\ i \in 1..b /\ i \in 1..Len(s) /\ i < a
    BY <1>1, <1>5, <1>6
  <2>2. l[i] = s[i]
    BY <1>2, <1>6, <2>1
  <2>3. ~IsInk(s[i])
    BY <1>1, <2>1 DEF InkSpan
  <2> QED  BY <2>2, <2>3
<1>9. Inkless(r)
  <2> SUFFICES ASSUME NEW i \in 1..Len(r) PROVE ~IsInk(r[i])
    BY DEF Inkless
  <2>1. i \in 1..(Len(s) - b) /\ b + i \in 1..Len(s) /\ b + i > b
    BY <1>1, <1>2
  <2>2. r[i] = s[b + i]
    BY <1>2, <2>1
  <2>3. ~IsInk(s[b + i])
    BY <1>1, <2>1 DEF InkSpan
  <2> QED  BY <2>2, <2>3
<1>10. s = (l \o t) \o r
  BY <1>2, <1>6, <1>7
<1> QED  BY <1>1, <1>2, <1>3, <1>4, <1>5, <1>6, <1>8, <1>9, <1>10

(* White space at the ends is no ink.                                      *)
LEMMA InkTrim ==
    ASSUME NEW T, NEW s \in Seq(T)
    PROVE  Ink(TrimSpace(s)) = Ink(s)
<1>1. CASE Inkless(s) /\ TrimSpace(s) = <<>>
  <2>1. Ink(s) = <<>>
    BY <1>1, InkOf
  <2> QED  BY <1>1, <2>1, SingleToken
<1>2. ASSUME NEW a \in Nat, NEW b \in Nat, InkSpan(s, a, b) PROVE Ink(TrimSpace(s)) = Ink(s)
  <2> DEFINE m == TrimSpace(s)
  <2>1. PICK l, r \in Seq(T) : s = (l \o m) \o r /\ Inkless(l) /\ Inkless(r) /\ m \in Seq(T)
    BY <1>2, SpanParts
  <2> HIDE DEF m
  <2>2. l \o m \in Seq(T)
    BY <2>1, ConcatProperties
  <2>3. Ink(s) = Ink(l \o m) \o Ink(r) /\ Ink(l \o m) = Ink(l) \o Ink(m)
    BY <2>1, <2>2, InkConcat
  <2>4. Ink(l) = <<>> /\ Ink(r) = <<>> /\ Ink(m) \in Seq(T)
    BY <2>1, InkOf, InkType
  <2>5. Ink(s) = Ink(m)
    BY <2>3, <2>4, ConcatEmptySeq
  <2> QED  BY <2>5 DEF m
<1> QED  BY <1>1, <1>2, TrimSpan

LEMMA InkUnfold ==
    ASSUME NEW T, NEW s \in Seq(T)
    PROVE  Ink(Unfold(s)) = Ink(s)
<1> DEFINE Q == {u \in Seq(T) : Ink(Unfold(u)) = Ink(u)}
<1>1. <<>> \in Q
  BY SingleToken, EmptySeq
<1>2. ASSUME NEW u \in Q, NEW t \in T PROVE u \o <<t>> \in Q
  <2>1. u \in Seq(T) /\ <<t>> \in Seq(T) /\ u \o <<t>> \in Seq(T)
    OBVIOUS
  <2>2. Ink(u \o <<t>>) = Ink(u) \o Ink(<<t>>) /\ Unfold(u \o <<t>>) = Unfold(u) \o Unfold(<<t>>)
    BY <2>1, InkConcat, UnfoldConcat
  <2>3. Unfold(u) \in Seq(T) /\ Unfold(<<t>>) \in Seq(T)
    BY <2>1, InkType
  <2>4. Ink(Unfold(u) \o Unfold(<<t>>)) = Ink(Unfold(u)) \o Ink(Unfold(<<t>>))
    BY <2>3, InkConcat
  <2>5. Ink(Unfold(<<t>>)) = Ink(<<t>>)
    BY SingleToken, TokensDiffer
  <2> QED  BY <2>1, <2>2, <2>4, <2>5
<1> HIDE DEF Q
<1>3. Q \in SUBSET Seq(T)
  BY DEF Q
<1>4. s \in Q
  BY <1>1, <1>2, <1>3, SeqInduct
<1> QED  BY <1>4 DEF Q

-----------------------------------------------------------------------------
(* White space between ink *)

(* How much of the ink comes before the i-th token and with it.            *)
InkUpTo(s, i) == Len(Ink(SubSeq(s, 1, i)))

LEMMA BreaksMember ==
    ASSUME NEW T, NEW s \in Seq(T), NEW x
    PROVE  x \in Breaks(s) <=> \E j \in 1..Len(s) : s[j] = WS /\ x = InkUpTo(s, j)
<1>1. DOMAIN s = 1..Len(s)
  OBVIOUS
<1> QED  BY <1>1 DEF Breaks, InkUpTo

LEMMA InkUpToConcat ==
    ASSUME NEW T, NEW a \in Seq(T), NEW b \in Seq(T)
    PROVE  /\ \A i \in 1..Len(a) : InkUpTo(a \o b, i) = InkUpTo(a, i)
           /\ \A i \in 1..Len(b) : InkUpTo(a \o b, Len(a) + i) = Len(Ink(a)) + InkUpTo(b, i)
<1> DEFINE ab == a \o b
<1>1. /\ Len(a) \in Nat /\ Len(b) \in Nat /\ ab \in Seq(T) /\ Len(ab) = Len(a) + Len(b)
      /\ \A i \in 1..Len(ab) : ab[i] = IF i <= Len(a) THEN a[i] ELSE b[i - Len(a)]
  BY ConcatProperties
<1> HIDE DEF ab
<1>2. ASSUME NEW i \in 1..Len(a) PROVE InkUpTo(ab, i) = InkUpTo(a, i)
  <2> DEFINE p == SubSeq(ab, 1, i)
             q == SubSeq(a, 1, i)
  <2>1. i \in 0..Len(ab) /\ i \in 0..Len(a) /\ i \in Nat
    BY <1>1
  <2>2. p \in Seq(T) /\ Len(p) = i
    BY <1>1, <2>1, SplitAt
  <2>3. \A j \in 1..i : p[j] = ab[j]
    BY <1>1, <2>1, SplitAt
  <2>4. q \in Seq(T) /\ Len(q) = i
    BY <2>1, SplitAt
  <2>5. \A j \in 1..i : q[j] = a[j]
    BY <2>1, SplitAt
  <2>6. \A j \in 1..i : ab[j] = a[j]
    BY <1>1, <2>1
  <2> HIDE DEF p, q
  <2>7. \A j \in 1..Len(p) : p[j] = q[j]
    BY <2>2, <2>3, <2>5, <2>6
  <2>8. p = q
    BY <2>2, <2>4, <2>7, SeqEqual
  <2> QED  BY <2>8 DEF p, q, InkUpTo
<1>3. ASSUME NEW i \in 1..Len(b) PROVE InkUpTo(ab, Len(a) + i) = Len(Ink(a)) + InkUpTo(b, i)
  <2> DEFINE n == Len(a) + i
             p == SubSeq(ab, 1, n)
             q == SubSeq(b, 1, i)
  <2>1. n \in 0..Len(ab) /\ i \in 0..Len(b) /\ i \in Nat /\ n \in Nat /\ n = Len(a) + i
    BY <1>1
  <2> HIDE DEF n
  <2>2. p \in Seq(T) /\ Len(p) = n
    BY <1>1, <2>1, SplitAt
  <2>3. \A j \in 1..n : p[j] = ab[j]
    BY <1>1, <2>1, SplitAt
  <2>4. q \in Seq(T) /\ Len(q) = i
    BY <2>1, SplitAt
  <2>5. \A j \in 1..i : q[j] = b[j]
    BY <2>1, SplitAt
  <2> HIDE DEF p, q
  <2>6. /\ a \o q \in Seq(T) /\ Len(a \o q) = Len(a) + Len(q)
        /\ \A j \in 1..(Len(a) + Len(q)) : (a \o q)[j] = IF j <= Len(a) THEN a[j] ELSE q[j - Len(a)]
    BY <2>4, ConcatProperties
  <2>7. ASSUME NEW j \in 1..Len(p) PROVE p[j] = (a \o q)[j]
    <3>1. j \in 1..n /\ j \in 1..Len(ab) /\ j \in 1..(Len(a) + Len(q))
      BY <1>1, <2>1, <2>2, <2>4
    <3>2. p[j] = ab[j]
      BY <2>3, <3>1
    <3>3. CASE j <= Len(a)
      <4>1. ab[j] = a[j]
        BY <1>1, <3>1, <3>3
      <4>2. (a \o q)[j] = a[j]
        BY <2>6, <3>1, <3>3
      <4> QED  BY <3>2, <4>1, <4>2
    <3>4. CASE ~(j <= Len(a))
      <4>1. j - Len(a) \in 1..i
        BY <1>1, <2>1, <3>1, <3>4
      <4>2. ab[j] = b[j - Len(a)]
        BY <1>1, <3>1, <3>4
      <4>3. (a \o q)[j] = q[j - Len(a)]
        BY <2>6, <3>1, <3>4
      <4>4. q[j - Len(a)] = b[j - Len(a)]
        BY <2>5, <4>1
      <4> QED  BY <3>2, <4>2, <4>3, <4>4
    <3> QED  BY <3>3, <3>4
  <2>8. Len(p) = Len(a \o q)
    BY <2>1, <2>2, <2>4, <2>6
  <2>9. p = a \o q
    BY <2>2, <2>6, <2>7, <2>8, SeqEqual
  <2>10. Ink(p) = Ink(a) \o Ink(q) /\ Ink(a) \in Seq(T) /\ Ink(q) \in Seq(T)
    BY <2>4, <2>9, InkConcat, InkType
  <2>11. Len(Ink(p)) = Len(Ink(a)) + Len(Ink(q))
    BY <2>10, ConcatProperties
  <2> QED  BY <2>11 DEF p, q, n, InkUpTo
<1> QED  BY <1>2, <1>3 DEF ab

LEMMA BreaksConcat ==
    ASSUME NEW T, NEW a \in Seq(T), NEW b \in Seq(T)
    PROVE  Breaks(a \o b) = Breaks(a) \cup {Len(Ink(a)) + y : y \in Breaks(b)}
<1> DEFINE ab == a \o b
<1>1. /\ Len(a) \in Nat /\ Len(b) \in Nat /\ ab \in Seq(T) /\ Len(ab) = Len(a) + Len(b)
      /\ \A i \in 1..Len(ab) : ab[i] = IF i <= Len(a) THEN a[i] ELSE b[i - Len(a)]
  BY ConcatProperties
<1>2. /\ \A i \in 1..Len(a) : InkUpTo(ab, i) = InkUpTo(a, i)
      /\ \A i \in 1..Len(b) : InkUpTo(ab, Len(a) + i) = Len(Ink(a)) + InkUpTo(b, i)
  BY InkUpToConcat
<1> HIDE DEF ab
<1>3. ASSUME NEW x \in Breaks(ab)
      PROVE  x \in Breaks(a) \/ \E y \in Breaks(b) : x = Len(Ink(a)) + y
  <2>1. PICK j \in 1..Len(ab) : ab[j] = WS /\ x = InkUpTo(ab, j)
    BY <1>1, BreaksMember
  <2>2. CASE j <= Len(a)
    <3>1. j \in 1..Len(a) /\ a[j] = WS /\ x = InkUpTo(a, j)
      BY <1>1, <1>2, <2>1, <2>2
    <3> QED  BY <3>1, BreaksMember
  <2>3. CASE ~(j <= Len(a))
    <3>1. j - Len(a) \in 1..Len(b) /\ Len(a) + (j - Len(a)) = j
      BY <1>1, <2>3
    <3>2. b[j - Len(a)] = WS
      BY <1>1, <2>1, <2>3
    <3>3. x = Len(Ink(a)) + InkUpTo(b, j - Len(a))
      BY <1>2, <2>1, <3>1
    <3>4. InkUpTo(b, j - Len(a)) \in Breaks(b)
      BY <3>1, <3>2, BreaksMember
    <3> QED  BY <3>3, <3>4
  <2> QED  BY <2>2, <2>3
<1>4. ASSUME NEW x \in Breaks(a) PROVE x \in Breaks(ab)
  <2>1. PICK j \in 1..Len(a) : a[j] = WS /\ x = InkUpTo(a, j)
    BY BreaksMember
  <2>2. j \in 1..Len(ab) /\ ab[j] = WS /\ x = InkUpTo(ab, j)
    BY <1>1, <1>2, <2>1
  <2> QED  BY <1>1, <2>2, BreaksMember
<1>5. ASSUME NEW y \in Breaks(b) PROVE Len(Ink(a)) + y \in Breaks(ab)
  <2>1. PICK j \in 1..Len(b) : b[j] = WS /\ y = InkUpTo(b, j)
    BY BreaksMember
  <2>2. Len(a) + j \in 1..Len(ab) /\ ~(Len(a) + j <= Len(a)) /\ (Len(a) + j) - Len(a) = j
    BY <1>1
  <2>3. ab[Len(a) + j] = WS
    BY <1>1, <2>1, <2>2
  <2>4. Len(Ink(a)) + y = InkUpTo(ab, Len(a) + j)
    BY <1>2, <2>1
  <2> QED  BY <1>1, <2>2, <2>3, <2>4, BreaksMember
<1> QED  BY <1>3, <1>4, <1>5 DEF ab

LEMMA BreaksSingle ==
    ASSUME NEW t
    PROVE  Breaks(<<>>) = {} /\ Breaks(<<t>>) = IF t = WS THEN {0} ELSE {}
<1>1. Breaks(<<>>) = {}
  BY DEF Breaks
<1> DEFINE T == {t}
           s == <<t>>
<1>2. s \in Seq(T) /\ Len(s) = 1 /\ s[1] = t
  OBVIOUS
<1> HIDE DEF T, s
<1>3. ASSUME t = WS PROVE InkUpTo(s, 1) = 0
  <2>1. 1 \in 0..Len(s)
    BY <1>2
  <2>2. SubSeq(s, 1, 1) \in Seq(T) /\ Len(SubSeq(s, 1, 1)) = 1
    BY <1>2, <2>1, SplitAt
  <2>3. \A j \in 1..1 : SubSeq(s, 1, 1)[j] = s[j]
    BY <1>2, <2>1, SplitAt
  <2>4. Inkless(SubSeq(s, 1, 1))
    BY <1>2, <1>3, <2>2, <2>3, TokensDiffer DEF Inkless
  <2> QED  BY <2>2, <2>4, InkOf DEF InkUpTo
<1>4. \A x : x \in Breaks(s) <=> t = WS /\ x = 0
  <2> TAKE x
  <2>1. x \in Breaks(s) <=> \E j \in 1..Len(s) : s[j] = WS /\ x = InkUpTo(s, j)
    BY <1>2, BreaksMember
  <2> QED  BY <1>2, <1>3, <2>1
<1> QED  BY <1>1, <1>4 DEF s

(* There is at most all of the ink before a token.                         *)
LEMMA BreaksRange ==
    ASSUME NEW T, NEW s \in Seq(T)
    PROVE  /\ \A j \in 1..Len(s) :
                 /\ InkUpTo(s, j) \in 0..Len(Ink(s))
                 /\ (\E i \in 1..j : IsInk(s[i])) => InkUpTo(s, j) >= 1
                 /\ (\E i \in (j + 1)..Len(s) : IsInk(s[i])) => InkUpTo(s, j) <= Len(Ink(s)) - 1
           /\ Breaks(s) \in SUBSET (0..Len(Ink(s)))
           /\ Inkless(s) => Breaks(s) \in SUBSET {0}
<1>1. Len(s) \in Nat /\ Len(Ink(s)) \in Nat
  BY InkType
<1>2. ASSUME NEW j \in 1..Len(s)
      PROVE  /\ InkUpTo(s, j) \in 0..Len(Ink(s))
             /\ (\E i \in 1..j : IsInk(s[i])) => InkUpTo(s, j) >= 1
             /\ (\E i \in (j + 1)..Len(s) : IsInk(s[i])) => InkUpTo(s, j) <= Len(Ink(s)) - 1
  <2> DEFINE p == SubSeq(s, 1, j)
             q == SubSeq(s, j + 1, Len(s))
  <2>1. j \in 0..Len(s) /\ j \in Nat
    BY <1>1
  <2>2. s = p \o q /\ p \in Seq(T) /\ q \in Seq(T)
    BY <2>1, SplitAt
  <2>3. Len(p) = j /\ Len(q) = Len(s) - j
    BY <2>1, SplitAt
  <2>4. \A i \in 1..j : p[i] = s[i]
    BY <2>1, SplitAt
  <2>5. \A i \in 1..(Len(s) - j) : q[i] = s[j + i]
    BY <2>1, SplitAt
  <2>6. InkUpTo(s, j) = Len(Ink(p))
    BY DEF InkUpTo
  <2> HIDE DEF p, q
  <2>7. Ink(s) = Ink(p) \o Ink(q) /\ Ink(p) \in Seq(T) /\ Ink(q) \in Seq(T)
    BY <2>2, InkConcat, InkType
  <2>8. Len(Ink(s)) = Len(Ink(p)) + Len(Ink(q)) /\ Len(Ink(p)) \in Nat /\ Len(Ink(q)) \in Nat
    BY <2>7, ConcatProperties
  <2>9. ASSUME NEW i \in 1..j, IsInk(s[i]) PROVE Len(Ink(p)) >= 1
    <3>1. i \in 1..Len(p) /\ IsInk(p[i])
      BY <2>3, <2>4, <2>9
    <3> QED  BY <2>2, <3>1, InkOf
  <2>10. ASSUME NEW i \in (j + 1)..Len(s), IsInk(s[i]) PROVE Len(Ink(q)) >= 1
    <3>1. i - j \in 1..Len(q) /\ i - j \in 1..(Len(s) - j) /\ j + (i - j) = i
      BY <1>1, <2>1, <2>3
    <3>2. IsInk(q[i - j])
      BY <2>5, <2>10, <3>1
    <3> QED  BY <2>2, <3>1, <3>2, InkOf
  <2> QED  BY <2>6, <2>8, <2>9, <2>10
<1>3. \A x \in Breaks(s) : \E j \in 1..Len(s) : x = InkUpTo(s, j)
  BY BreaksMember
<1>4. Breaks(s) \in SUBSET (0..Len(Ink(s)))
  BY <1>2, <1>3
<1>5. ASSUME Inkless(s) PROVE Breaks(s) \in SUBSET {0}
  <2>1. Len(Ink(s)) = 0
    BY <1>5, InkOf
  <2> QED  BY <1>4, <2>1
<1> QED  BY <1>2, <1>4, <1>5

(* The ends of lines are no white space.                                   *)
LEMMA BreaksUnfold ==
    ASSUME NEW T, NEW s \in Seq(T)
    PROVE  Breaks(Unfold(s)) = Breaks(s)
<1> DEFINE Q == {u \in Seq(T) : Breaks(Unfold(u)) = Breaks(u)}
<1>1. <<>> \in Q
  BY SingleToken, EmptySeq
<1>2. ASSUME NEW u \in Q, NEW t \in T PROVE u \o <<t>> \in Q
  <2>1. u \in Seq(T) /\ <<t>> \in Seq(T) /\ u \o <<t>> \in Seq(T)
    OBVIOUS
  <2> DEFINE v == <<t>>
  <2> HIDE DEF v
  <2>2. Breaks(u \o v) = Breaks(u) \cup {Len(Ink(u)) + y : y \in Breaks(v)}
    BY <2>1, BreaksConcat DEF v
  <2>3. Unfold(u \o v) = Unfold(u) \o Unfold(v) /\ Unfold(u) \in Seq(T) /\ Unfold(v) \in Seq(T)
    BY <2>1, UnfoldConcat, InkType DEF v
  <2>4. Breaks(Unfold(u) \o Unfold(v)) = Breaks(Unfold(u)) \cup {Len(Ink(Unfold(u))) + y : y \in Breaks(Unfold(v))}
    BY <2>3, BreaksConcat
  <2>5. Breaks(Unfold(v)) = Breaks(v)
    BY SingleToken, BreaksSingle, TokensDiffer DEF v
  <2>6. Ink(Unfold(u)) = Ink(u) /\ Breaks(Unfold(u)) = Breaks(u)
    BY <2>1, InkUnfold
  <2>7. Breaks(Unfold(u \o v)) = Breaks(u \o v)
    BY <2>2, <2>3, <2>4, <2>5, <2>6
  <2> QED  BY <2>1, <2>7 DEF v
<1> HIDE DEF Q
<1>3. Q \in SUBSET Seq(T)
  BY DEF Q
<1>4. s \in Q
  BY <1>1, <1>2, <1>3, SeqInduct
<1> QED  BY <1>4 DEF Q

(* White space with ink before and behind.                                 *)
Inner(s) == Breaks(s) \cap 1..(Len(Ink(s)) - 1)

LEMMA BreaksTrim ==
    ASSUME NEW T, NEW s \in Seq(T)
    PROVE  Breaks(TrimSpace(s)) = Inner(s)
<1>1. CASE Inkless(s) /\ TrimSpace(s) = <<>>
  <2>1. Len(Ink(s)) = 0
    BY <1>1, InkOf
  <2>2. Inner(s) = {}
    BY <2>1 DEF Inner
  <2> QED  BY <1>1, <2>2, BreaksSingle
<1>2. ASSUME NEW a \in Nat, NEW b \in Nat, InkSpan(s, a, b) PROVE Breaks(TrimSpace(s)) = Inner(s)
  <2> DEFINE m == TrimSpace(s)
  <2>1. PICK l, r \in Seq(T) :
          /\ s = (l \o m) \o r /\ Inkless(l) /\ Inkless(r) /\ m \in Seq(T) /\ Len(m) = b - a + 1
          /\ \A i \in 1..(b - a + 1) : m[i] = s[a + i - 1]
    BY <1>2, SpanParts
  <2> HIDE DEF m
  <2>2. Len(m) >= 1 /\ Len(m) \in Nat /\ IsInk(m[1]) /\ IsInk(m[Len(m)])
    <3>1. a <= b /\ b - a + 1 \in 1..(b - a + 1) /\ 1 \in 1..(b - a + 1) /\ a + 1 - 1 = a /\ a + (b - a + 1) - 1 = b
      BY <1>2 DEF InkSpan
    <3>2. m[1] = s[a] /\ m[b - a + 1] = s[b]
      BY <2>1, <3>1
    <3> QED  BY <1>2, <2>1, <3>1, <3>2 DEF InkSpan
  <2> DEFINE n == Len(Ink(m))
             lm == l \o m
  <2>3. lm \in Seq(T) /\ s = lm \o r
    BY <2>1, ConcatProperties
  <2>4. Ink(lm) = Ink(l) \o Ink(m) /\ Ink(l) = <<>> /\ Ink(m) \in Seq(T) /\ n \in Nat
    BY <2>1, InkConcat, InkOf, InkType
  <2>5. Ink(lm) = Ink(m)
    BY <2>4, ConcatEmptySeq
  <2>6. Breaks(lm) = Breaks(l) \cup {Len(Ink(l)) + y : y \in Breaks(m)}
    BY <2>1, BreaksConcat
  <2>7. Breaks(s) = Breaks(lm) \cup {Len(Ink(lm)) + y : y \in Breaks(r)}
    <3> HIDE DEF lm
    <3>1. r \in Seq(T)
      BY <2>1
    <3>2. Breaks(lm \o r) = Breaks(lm) \cup {Len(Ink(lm)) + y : y \in Breaks(r)}
      BY <2>3, <3>1, BreaksConcat
    <3> QED  BY <2>3, <3>2
  <2>8. Breaks(l) \in SUBSET {0} /\ Breaks(r) \in SUBSET {0} /\ Breaks(m) \in SUBSET (0..n)
    BY <2>1, BreaksRange
  <2>9. Ink(s) = Ink(m)
    BY InkTrim DEF m
  <2> HIDE DEF lm
  <2>10. Len(Ink(l)) = 0
    BY <2>4
  <2>11. Breaks(m) \in SUBSET (1..(n - 1))
    <3> SUFFICES ASSUME NEW x \in Breaks(m) PROVE x \in 1..(n - 1)
      OBVIOUS
    <3>1. PICK j \in 1..Len(m) : m[j] = WS /\ x = InkUpTo(m, j)
      BY <2>1, BreaksMember
    <3>2. j # 1 /\ j # Len(m)
      BY <2>2, <3>1, TokensDiffer
    <3>3. 1 \in 1..j /\ Len(m) \in (j + 1)..Len(m)
      BY <2>2, <3>2
    <3>4. InkUpTo(m, j) >= 1
      BY <2>1, <2>2, <3>3, BreaksRange
    <3>5. InkUpTo(m, j) <= n - 1
      BY <2>1, <2>2, <3>3, BreaksRange
    <3>6. x \in 0..n
      BY <2>8
    <3> QED  BY <2>4, <3>1, <3>4, <3>5, <3>6
  <2> HIDE DEF n
  <2>12. \A x : x \in Breaks(s) <=> x \in Breaks(l) \/ x \in Breaks(m) \/ (x = n /\ 0 \in Breaks(r))
    <3>1. \A x \in Breaks(m) : x \in Nat /\ 0 + x = x
      BY <2>4, <2>8
    <3>2. \A x : x \in Breaks(lm) <=> x \in Breaks(l) \/ x \in Breaks(m)
      BY <2>6, <2>10, <3>1
    <3>3. \A x : x \in Breaks(s) <=> x \in Breaks(lm) \/ \E y \in Breaks(r) : x = n + y
      BY <2>5, <2>7 DEF n
    <3>4. \A x : (\E y \in Breaks(r) : x = n + y) <=> (x = n /\ 0 \in Breaks(r))
      BY <2>4, <2>8
    <3> QED  BY <3>2, <3>3, <3>4
  <2>13. Inner(s) = Breaks(s) \cap 1..(n - 1)
    BY <2>9 DEF Inner, n
  <2>14. Breaks(m) = Inner(s)
    BY <2>4, <2>8, <2>11, <2>12, <2>13
  <2> QED  BY <2>14 DEF m
<1> QED  BY <1>1, <1>2, TrimSpan

-----------------------------------------------------------------------------
(* Folding *)

LEMMA TrimEnds ==
    ASSUME NEW T, NEW s \in Seq(T)
    PROVE  /\ TrimSpace(s) \in Seq(T) /\ Len(TrimSpace(s)) \in 0..Len(s)
           /\ TrimSpace(s) # <<>> =>
                 /\ Len(TrimSpace(s)) >= 1
                 /\ IsInk(TrimSpace(s)[1]) /\ IsInk(TrimSpace(s)[Len(TrimSpace(s))])
           /\ (Len(s) >= 1 /\ IsInk(s[1])) => TrimSpace(s) # <<>> /\ TrimSpace(s)[1] = s[1]
<1>1. Len(s) \in Nat
  OBVIOUS
<1>2. CASE Inkless(s) /\ TrimSpace(s) = <<>>
  <2>1. ~(Len(s) >= 1 /\ IsInk(s[1]))
    BY <1>1, <1>2 DEF Inkless
  <2>2. <<>> \in Seq(T) /\ Len(<<>>) = 0
    OBVIOUS
  <2> QED  BY <1>1, <1>2, <2>1, <2>2
<1>3. ASSUME NEW a \in Nat, NEW b \in Nat, InkSpan(s, a, b)
      PROVE  /\ TrimSpace(s) \in Seq(T) /\ Len(TrimSpace(s)) \in 1..Len(s)
             /\ IsInk(TrimSpace(s)[1]) /\ IsInk(TrimSpace(s)[Len(TrimSpace(s))])
             /\ (Len(s) >= 1 /\ IsInk(s[1])) => TrimSpace(s)[1] = s[1]
  <2> DEFINE m == TrimSpace(s)
  <2>1. m \in Seq(T) /\ Len(m) = b - a + 1 /\ \A i \in 1..(b - a + 1) : m[i] = s[a + i - 1]
    BY <1>3, SpanParts
  <2> HIDE DEF m
  <2>2. /\ 1 <= a /\ a <= b /\ b <= Len(s) /\ IsInk(s[a]) /\ IsInk(s[b])
        /\ Len(s) >= 1 /\ IsInk(s[1]) => a = 1
    BY <1>1, <1>3 DEF InkSpan
  <2>3. /\ b - a + 1 \in 1..Len(s) /\ b - a + 1 \in 1..(b - a + 1) /\ 1 \in 1..(b - a + 1)
        /\ a + 1 - 1 = a /\ a + (b - a + 1) - 1 = b
    BY <1>1, <2>2
  <2>4. m[1] = s[a] /\ m[b - a + 1] = s[b]
    BY <2>1, <2>3
  <2> QED  BY <2>1, <2>2, <2>3, <2>4 DEF m
<1>4. (Inkless(s) /\ TrimSpace(s) = <<>>) \/ \E a, b \in Nat : InkSpan(s, a, b)
  BY TrimSpan
<1>5. ASSUME NEW a \in Nat, NEW b \in Nat, InkSpan(s, a, b)
      PROVE  TrimSpace(s) # <<>> /\ Len(TrimSpace(s)) >= 1 /\ Len(TrimSpace(s)) \in 0..Len(s)
  <2>1. Len(TrimSpace(s)) \in 1..Len(s)
    BY <1>3, <1>5
  <2>2. Len(<<>>) = 0
    OBVIOUS
  <2> QED  BY <1>1, <2>1, <2>2
<1> QED  BY <1>2, <1>3, <1>4, <1>5

LEMMA MaxOfTwo == \A x, y \in Int : Max({x, y}) \in {x, y} /\ Max({x, y}) >= x /\ Max({x, y}) >= y
<1> TAKE x, y \in Int
<1>1. \E m \in {x, y} : \A z \in {x, y} : m >= z
  OBVIOUS
<1>2. Max({x, y}) \in {x, y} /\ \A z \in {x, y} : Max({x, y}) >= z
  BY <1>1 DEF Max
<1> QED  BY <1>2

LEMMA MinOfTwo == \A x, y \in Int : Min({x, y}) \in {x, y} /\ Min({x, y}) <= x /\ Min({x, y}) <= y
<1> TAKE x, y \in Int
<1>1. \E m \in {x, y} : \A z \in {x, y} : m <= z
  OBVIOUS
<1>2. Min({x, y}) \in {x, y} /\ \A z \in {x, y} : Min({x, y}) <= z
  BY <1>1 DEF Min
<1> QED  BY <1>2

(* At least one character is written, and no more than fit; what follows   *)
(* is white space, unless there is none on the whole line.                 *)
LEMMA CropFits ==
    ASSUME NEW T, NEW r \in Seq(T), Len(r) >= 1, r[1] # WS, NEW w \in 1..(Hard - 1)
    PROVE  /\ Crop(r, w) \in 1..Len(r) /\ Crop(r, w) <= Hard - w
           /\ \/ Crop(r, w) = Len(r)
              \/ r[Crop(r, w) + 1] = WS
              \/ Crop(r, w) = Hard - w /\ \A i \in 1..(Hard - w) : r[i + 1] # WS
<1> DEFINE n == Len(r)
           blank(i) == i < n /\ r[i + 1] = WS
           short == {i \in 1..(Soft - w) : blank(i)}
           from == Max({0, Soft + 1 - w})
           long == {i \in from..(Hard - w) : blank(i)}
           c == Crop(r, w)
<1>1. n \in Nat /\ n >= 1 /\ Soft \in Nat /\ Hard \in Nat /\ Soft <= Hard /\ w \in Nat /\ w >= 1 /\ Hard - w >= 1
  BY LimitAssumption
<1>2. c = IF n <= Soft - w THEN n
          ELSE IF short # {} THEN Max(short)
          ELSE IF long # {} THEN Min(long)
          ELSE Min({Hard - w, n})
  BY DEF Crop
<1>3. from \in Nat /\ (from = 0 \/ from = Soft + 1 - w) /\ from >= Soft + 1 - w
  <2>1. 0 \in Int /\ Soft + 1 - w \in Int
    BY <1>1
  <2>2. from \in {0, Soft + 1 - w} /\ from >= 0 /\ from >= Soft + 1 - w
    BY <2>1, MaxOfTwo
  <2> QED  BY <1>1, <2>2
<1>4. \A i : i \in short <=> i \in 1..(Soft - w) /\ i < n /\ r[i + 1] = WS
  OBVIOUS
<1>5. \A i : i \in long <=> i \in from..(Hard - w) /\ i < n /\ r[i + 1] = WS
  OBVIOUS
<1> HIDE DEF n, short, from, long, c
<1>6. CASE n <= Soft - w
  <2>1. c = n
    BY <1>2, <1>6
  <2> QED  BY <1>1, <1>6, <2>1 DEF n, c
<1>7. CASE ~(n <= Soft - w) /\ short # {}
  <2>1. short \in SUBSET (0..Hard)
    BY <1>1, <1>4
  <2>2. c \in short
    BY <1>1, <1>2, <1>7, <2>1, MaxOf
  <2>3. c \in 1..(Soft - w) /\ c < n /\ r[c + 1] = WS
    BY <1>4, <2>2
  <2> QED  BY <1>1, <2>3 DEF n, c
<1>8. CASE ~(n <= Soft - w) /\ short = {} /\ long # {}
  <2>1. long \in SUBSET Nat
    BY <1>1, <1>3, <1>5
  <2>2. c \in long
    BY <1>2, <1>8, <2>1, MinOf
  <2>3. c \in from..(Hard - w) /\ c < n /\ r[c + 1] = WS
    BY <1>5, <2>2
  <2>4. c # 0
    BY <2>3
  <2> QED  BY <1>1, <1>3, <2>3, <2>4 DEF n, c
<1>9. CASE ~(n <= Soft - w) /\ short = {} /\ long = {}
  <2>1. c = Min({Hard - w, n})
    BY <1>2, <1>9
  <2>2. Hard - w \in Int /\ n \in Int
    BY <1>1
  <2>3. c \in {Hard - w, n} /\ c <= Hard - w /\ c <= n
    BY <2>1, <2>2, MinOfTwo
  <2>4. ASSUME c # n, NEW i \in 1..(Hard - w) PROVE r[i + 1] # WS
    <3>1. i \in Nat /\ i < n
      BY <1>1, <2>3, <2>4
    <3>2. CASE i <= Soft - w
      <4>1. i \in 1..(Soft - w)
        BY <1>1, <3>2
      <4> QED  BY <1>4, <1>9, <3>1, <4>1
    <3>3. CASE ~(i <= Soft - w)
      <4>1. i \in from..(Hard - w)
        BY <1>1, <1>3, <3>1, <3>3
      <4> QED  BY <1>5, <1>9, <3>1, <4>1
    <3> QED  BY <3>2, <3>3
  <2>5. c \in 1..n
    BY <1>1, <2>3
  <2> QED  BY <2>3, <2>4, <2>5 DEF n, c
<1> QED  BY <1>6, <1>7, <1>8, <1>9

-----------------------------------------------------------------------------
(* A line of a folded body *)

Trimmed(r) == r # <<>> => IsInk(r[1]) /\ IsInk(r[Len(r)])

(* What a round writes of what is left, and what it leaves.                *)
Line(r, w) == TrimSpace(SubSeq(r, 1, Crop(r, w)))
Left(r, w) == TrimSpace(SubSeq(r, Crop(r, w) + 1, Len(r)))

(* All white space of a trimmed sequence is between ink.                   *)
LEMMA TrimmedBreaks ==
    ASSUME NEW T, NEW r \in Seq(T), Trimmed(r)
    PROVE  \A y \in Breaks(r) : y \in 1..(Len(Ink(r)) - 1)
<1> SUFFICES ASSUME NEW y \in Breaks(r) PROVE y \in 1..(Len(Ink(r)) - 1)
  OBVIOUS
<1>1. PICK j \in 1..Len(r) : r[j] = WS /\ y = InkUpTo(r, j)
  BY BreaksMember
<1>2. Len(r) \in Nat /\ Len(Ink(r)) \in Nat /\ r # <<>>
  BY <1>1, InkType
<1>3. IsInk(r[1]) /\ IsInk(r[Len(r)]) /\ ~IsInk(r[j])
  BY <1>1, <1>2, TokensDiffer DEF Trimmed
<1>4. 1 \in 1..j /\ Len(r) \in (j + 1)..Len(r)
  <2>1. j # Len(r)
    BY <1>3
  <2> QED  BY <1>2, <2>1
<1>5. y \in 0..Len(Ink(r)) /\ y >= 1 /\ y <= Len(Ink(r)) - 1
  BY <1>1, <1>3, <1>4, BreaksRange
<1> QED  BY <1>2, <1>5

LEMMA CutShape ==
    ASSUME NEW T, CRLF \notin T, NEW r \in Seq(T), Trimmed(r), r # <<>>, NEW w \in 1..(Hard - 1)
    PROVE  /\ Line(r, w) \in Seq(T) /\ Len(Line(r, w)) \in 1..(Hard - w) /\ IsInk(Line(r, w)[1])
           /\ Left(r, w) \in Seq(T) /\ Trimmed(Left(r, w)) /\ Len(Left(r, w)) < Len(r)
           /\ Ink(r) = Ink(Line(r, w)) \o Ink(Left(r, w))
<1> DEFINE c == Crop(r, w)
           p == SubSeq(r, 1, c)
           q == SubSeq(r, c + 1, Len(r))
<1>1. Len(r) \in Nat /\ Len(r) >= 1 /\ IsInk(r[1]) /\ r[1] # WS /\ Hard \in Nat
  BY LimitAssumption, TokensDiffer DEF Trimmed
<1>2. c \in 1..Len(r) /\ c <= Hard - w
  BY <1>1, CropFits
<1>3. c \in 0..Len(r) /\ 1 \in 1..c
  BY <1>1, <1>2
<1> HIDE DEF c
<1>4. /\ r = p \o q /\ p \in Seq(T) /\ q \in Seq(T) /\ Len(p) = c /\ Len(q) = Len(r) - c
      /\ \A i \in 1..c : p[i] = r[i]
  BY <1>3, SplitAt
<1>5. p[1] = r[1]
  BY <1>3, <1>4
<1>6. Line(r, w) = TrimSpace(p) /\ Left(r, w) = TrimSpace(q)
  BY DEF Line, Left, c
<1> HIDE DEF p, q
<1>7. Line(r, w) \in Seq(T) /\ Len(Line(r, w)) \in 1..(Hard - w) /\ IsInk(Line(r, w)[1])
  <2>1. /\ TrimSpace(p) \in Seq(T) /\ Len(TrimSpace(p)) \in 0..Len(p)
        /\ (TrimSpace(p) # <<>> => Len(TrimSpace(p)) >= 1)
        /\ (Len(p) >= 1 /\ IsInk(p[1]) => TrimSpace(p) # <<>> /\ TrimSpace(p)[1] = p[1])
    BY <1>4, TrimEnds
  <2>2. Len(p) >= 1 /\ IsInk(p[1])
    BY <1>1, <1>2, <1>4, <1>5
  <2>3. Len(TrimSpace(p)) \in 1..(Hard - w)
    BY <1>1, <1>2, <1>4, <2>1, <2>2
  <2> QED  BY <1>6, <2>1, <2>2, <2>3
<1>8. Left(r, w) \in Seq(T) /\ Trimmed(Left(r, w)) /\ Len(Left(r, w)) < Len(r)
  <2>1. /\ TrimSpace(q) \in Seq(T) /\ Len(TrimSpace(q)) \in 0..Len(q)
        /\ TrimSpace(q) # <<>> => IsInk(TrimSpace(q)[1]) /\ IsInk(TrimSpace(q)[Len(TrimSpace(q))])
    BY <1>4, TrimEnds
  <2>2. Len(TrimSpace(q)) < Len(r)
    BY <1>1, <1>2, <1>4, <2>1
  <2> QED  BY <1>6, <2>1, <2>2 DEF Trimmed
<1>9. Ink(r) = Ink(Line(r, w)) \o Ink(Left(r, w))
  <2>1. Ink(r) = Ink(p) \o Ink(q)
    BY <1>4, InkConcat
  <2>2. Ink(TrimSpace(p)) = Ink(p) /\ Ink(TrimSpace(q)) = Ink(q)
    BY <1>4, InkTrim
  <2> QED  BY <1>6, <2>1, <2>2
<1> QED  BY <1>7, <1>8, <1>9

(* White space that was there is on the line, between the line and what is *)
(* left, or in what is left.                                               *)
LEMMA CutBreaks ==
    ASSUME NEW T, CRLF \notin T, NEW r \in Seq(T), Trimmed(r), r # <<>>, NEW w \in 1..(Hard - 1)
    PROVE  /\ \A y \in Breaks(r) : \/ y \in Breaks(Line(r, w))
                                   \/ y = Len(Ink(Line(r, w)))
                                   \/ \E z \in Breaks(Left(r, w)) : y = Len(Ink(Line(r, w))) + z
           /\ \A y \in Breaks(Line(r, w)) : y \in Breaks(r)
           /\ \A z \in Breaks(Left(r, w)) : Len(Ink(Line(r, w))) + z \in Breaks(r)
           /\ Crop(r, w) < Len(r) /\ r[Crop(r, w) + 1] = WS => Len(Ink(Line(r, w))) \in Breaks(r)
<1> DEFINE c == Crop(r, w)
           p == SubSeq(r, 1, c)
           q == SubSeq(r, c + 1, Len(r))
           P == Len(Ink(p))
           Q == Len(Ink(q))
<1>1. Len(r) \in Nat /\ Len(r) >= 1 /\ IsInk(r[1]) /\ r[1] # WS
  BY TokensDiffer DEF Trimmed
<1>2. c \in 1..Len(r)
  BY <1>1, CropFits
<1>3. c \in 0..Len(r) /\ c \in Nat
  BY <1>1, <1>2
<1> HIDE DEF c
<1>4. /\ r = p \o q /\ p \in Seq(T) /\ q \in Seq(T) /\ Len(q) = Len(r) - c
      /\ \A i \in 1..(Len(r) - c) : q[i] = r[c + i]
  BY <1>3, SplitAt
<1>5. Line(r, w) = TrimSpace(p) /\ Left(r, w) = TrimSpace(q)
  BY DEF Line, Left, c
<1> HIDE DEF p, q
<1>6. Ink(TrimSpace(p)) = Ink(p) /\ Breaks(TrimSpace(p)) = Inner(p) /\ Breaks(TrimSpace(q)) = Inner(q)
  BY <1>4, InkTrim, BreaksTrim
<1>7. P \in Nat /\ Q \in Nat /\ Ink(r) = Ink(p) \o Ink(q) /\ Ink(p) \in Seq(T) /\ Ink(q) \in Seq(T)
  BY <1>4, InkType, InkConcat
<1>8. Len(Ink(r)) = P + Q
  BY <1>7, ConcatProperties
<1>9. Breaks(r) = Breaks(p) \cup {P + y : y \in Breaks(q)}
  BY <1>4, BreaksConcat
<1>10. Breaks(p) \in SUBSET (0..P) /\ Breaks(q) \in SUBSET (0..Q)
  BY <1>4, BreaksRange
<1>11. \A y \in Breaks(r) : y \in 1..(P + Q - 1)
  BY <1>8, TrimmedBreaks
<1>12. Line(r, w) = TrimSpace(p) /\ Len(Ink(Line(r, w))) = P
  BY <1>5, <1>6
<1> HIDE DEF P, Q
<1>13. ASSUME NEW y \in Breaks(r)
       PROVE  y \in Inner(p) \/ y = P \/ \E z \in Inner(q) : y = P + z
  <2>1. y \in 1..(P + Q - 1)
    BY <1>11
  <2>2. CASE y \in Breaks(p)
    <3>1. y \in 0..P
      BY <1>10, <2>2
    <3>2. y # P => y \in 1..(P - 1)
      BY <1>7, <2>1, <3>1
    <3> QED  BY <2>2, <3>2 DEF Inner, P
  <2>3. CASE y \notin Breaks(p)
    <3>1. PICK z \in Breaks(q) : y = P + z
      BY <1>9, <2>3
    <3>2. z \in 0..Q
      BY <1>10
    <3>3. y # P => z \in 1..(Q - 1)
      BY <1>7, <2>1, <3>1, <3>2
    <3> QED  BY <3>1, <3>3 DEF Inner, Q
  <2> QED  BY <2>2, <2>3
<1>14. (\A y \in Inner(p) : y \in Breaks(r)) /\ \A z \in Inner(q) : P + z \in Breaks(r)
  BY <1>9 DEF Inner
<1>15. ASSUME c < Len(r), r[c + 1] = WS PROVE P \in Breaks(r)
  <2>1. 1 \in 1..(Len(r) - c) /\ 1 \in 1..Len(q)
    BY <1>1, <1>3, <1>4, <1>15
  <2>2. q[1] = WS
    BY <1>4, <1>15, <2>1
  <2>3. PICK z \in Breaks(q) : z = 0
    <3>1. InkUpTo(q, 1) \in Breaks(q)
      BY <1>4, <2>1, <2>2, BreaksMember
    <3>2. SubSeq(q, 1, 1) = <<WS>>
      <4>1. SubSeq(q, 1, 1) \in Seq(T) /\ Len(SubSeq(q, 1, 1)) = 1 /\ SubSeq(q, 1, 1)[1] = q[1]
        <5>1. 1 \in 0..Len(q)
          BY <2>1
        <5>2. /\ SubSeq(q, 1, 1) \in Seq(T) /\ Len(SubSeq(q, 1, 1)) = 1
              /\ \A i \in 1..1 : SubSeq(q, 1, 1)[i] = q[i]
          BY <1>4, <5>1, SplitAt
        <5> QED  BY <5>2
      <4> DEFINE x == SubSeq(q, 1, 1)
      <4>2. x \in Seq(T) /\ Len(x) = 1 /\ x[1] = WS
        BY <2>2, <4>1
      <4> HIDE DEF x
      <4>3. x = <<WS>>
        BY <4>2
      <4> QED  BY <4>3 DEF x
    <3>3. Ink(<<WS>>) = <<>>
      BY SingleToken, TokensDiffer
    <3>4. InkUpTo(q, 1) = 0
      <4>1. InkUpTo(q, 1) = Len(<<>>) /\ Len(<<>>) = 0
        BY <3>2, <3>3 DEF InkUpTo
      <4> QED  BY <4>1
    <3> QED  BY <3>1, <3>4
  <2>4. P + z = P /\ P + z \in Breaks(r)
    BY <1>7, <1>9, <2>3
  <2> QED  BY <2>4
<1>16. Breaks(Line(r, w)) = Inner(p) /\ Breaks(Left(r, w)) = Inner(q) /\ Len(Ink(Line(r, w))) = P
  BY <1>5, <1>6, <1>12
<1> QED  BY <1>13, <1>14, <1>15, <1>16 DEF c

(* There is no word of m tokens or more.                                   *)
NoWord(s, m) == \A a \in 0..(Len(s) - m) : \E j \in 1..m : ~IsInk(s[a + j])

LEMMA PartNoWord ==
    ASSUME NEW T, NEW s \in Seq(T), NEW u \in Seq(T), NEW d \in Nat, d + Len(u) <= Len(s),
           \A i \in 1..Len(u) : u[i] = s[d + i],
           NEW m \in Nat \ {0}, NoWord(s, m)
    PROVE  NoWord(u, m)
<1> SUFFICES ASSUME NEW a \in 0..(Len(u) - m) PROVE \E j \in 1..m : ~IsInk(u[a + j])
  BY DEF NoWord
<1>1. Len(s) \in Nat /\ Len(u) \in Nat
  OBVIOUS
<1>2. d + a \in 0..(Len(s) - m)
  BY <1>1
<1>3. PICK j \in 1..m : ~IsInk(s[(d + a) + j])
  BY <1>2 DEF NoWord
<1>4. a + j \in 1..Len(u) /\ (d + a) + j = d + (a + j)
  BY <1>1
<1> QED  BY <1>3, <1>4

LEMMA TrimNoWord ==
    ASSUME NEW T, NEW s \in Seq(T), NEW m \in Nat \ {0}, NoWord(s, m)
    PROVE  NoWord(TrimSpace(s), m)
<1> DEFINE u == TrimSpace(s)
<1>1. Len(s) \in Nat
  OBVIOUS
<1>2. CASE Inkless(s) /\ u = <<>>
  <2>1. 0..(0 - m) = {}
    BY m \in Nat \ {0}
  <2> QED  BY <1>2, <2>1 DEF NoWord
<1>3. ASSUME NEW a \in Nat, NEW b \in Nat, InkSpan(s, a, b) PROVE NoWord(u, m)
  <2>1. 1 <= a /\ a <= b /\ b <= Len(s)
    BY <1>1, <1>3 DEF InkSpan
  <2>2. u \in Seq(T) /\ Len(u) = b - a + 1 /\ \A i \in 1..(b - a + 1) : u[i] = s[a + i - 1]
    BY <1>3, SpanParts
  <2> HIDE DEF u
  <2>3. a - 1 \in Nat /\ (a - 1) + Len(u) <= Len(s)
    BY <1>1, <2>1, <2>2
  <2>4. \A i \in 1..Len(u) : u[i] = s[(a - 1) + i]
    <3> TAKE i \in 1..Len(u)
    <3>1. (a - 1) + i = a + i - 1 /\ i \in 1..(b - a + 1)
      BY <2>1, <2>2
    <3> QED  BY <2>2, <3>1
  <2> QED  BY <2>2, <2>3, <2>4, PartNoWord
<1> QED  BY <1>2, <1>3, TrimSpan

(* When every word fits on a line, a line ends where white space was.      *)
LEMMA CutWord ==
    ASSUME NEW T, CRLF \notin T, NEW r \in Seq(T), Trimmed(r), r # <<>>, NEW w \in 1..(Hard - 1),
           NEW m \in Nat \ {0}, m <= Hard - w + 1, NoWord(r, m)
    PROVE  /\ NoWord(Left(r, w), m)
           /\ Left(r, w) = <<>> \/ Len(Ink(Line(r, w))) \in Breaks(r)
<1> DEFINE c == Crop(r, w)
           q == SubSeq(r, c + 1, Len(r))
<1>1. /\ Len(r) \in Nat /\ Len(r) >= 1 /\ IsInk(r[1]) /\ r[1] # WS /\ Hard \in Nat
      /\ \A i \in 1..Len(r) : r[i] \in T
  BY LimitAssumption, TokensDiffer DEF Trimmed
<1>2. /\ c \in 1..Len(r) /\ c <= Hard - w
      /\ c = Len(r) \/ r[c + 1] = WS \/ (c = Hard - w /\ \A i \in 1..(Hard - w) : r[i + 1] # WS)
  BY <1>1, CropFits
<1>3. c \in 0..Len(r) /\ c \in Nat
  BY <1>1, <1>2
<1> HIDE DEF c
<1>4. /\ q \in Seq(T) /\ Len(q) = Len(r) - c
      /\ \A i \in 1..(Len(r) - c) : q[i] = r[c + i]
  BY <1>3, SplitAt
<1>5. Left(r, w) = TrimSpace(q)
  BY DEF Left, c
<1> HIDE DEF q
<1>6. NoWord(Left(r, w), m)
  <2>1. c + Len(q) <= Len(r)
    BY <1>1, <1>3, <1>4
  <2>2. NoWord(q, m)
    BY <1>3, <1>4, <2>1, PartNoWord
  <2> QED  BY <1>4, <1>5, <2>2, TrimNoWord
<1>7. CASE c = Len(r)
  <2>1. Len(q) = 0 /\ Inkless(q)
    BY <1>1, <1>3, <1>4, <1>7 DEF Inkless
  <2>2. Len(TrimSpace(q)) \in 0..Len(q) /\ (TrimSpace(q) # <<>> => Len(TrimSpace(q)) >= 1)
    BY <1>4, TrimEnds
  <2>3. TrimSpace(q) = <<>>
    BY <2>1, <2>2
  <2> QED  BY <1>5, <1>6, <2>3
<1>8. CASE c # Len(r) /\ r[c + 1] = WS
  <2>1. Crop(r, w) < Len(r) /\ r[Crop(r, w) + 1] = WS
    BY <1>1, <1>2, <1>3, <1>8 DEF c
  <2>2. Len(Ink(Line(r, w))) \in Breaks(r)
    BY <2>1, CutBreaks
  <2> QED  BY <1>6, <2>2
<1>9. CASE c # Len(r) /\ c = Hard - w /\ \A i \in 1..(Hard - w) : r[i + 1] # WS
  <2>1. 0 \in 0..(Len(r) - m)
    BY <1>1, <1>2, <1>3, <1>9
  <2>2. PICK j \in 1..m : ~IsInk(r[0 + j])
    BY <2>1 DEF NoWord
  <2>3. 0 + j = j /\ j # 1 /\ j - 1 \in 1..(Hard - w) /\ (j - 1) + 1 = j /\ j \in 1..Len(r)
    BY <1>1, <1>2, <1>3, <1>9, <2>2
  <2>4. r[j] # WS /\ r[j] # CRLF
    BY <1>1, <1>9, <2>3
  <2> QED  BY <2>2, <2>3, <2>4 DEF IsInk
<1> QED  BY <1>2, <1>7, <1>8, <1>9

-----------------------------------------------------------------------------
(* The loop of headerWritelnFold *)

(* A written body begins with ink and ends with the end of a line; the     *)
(* lines in between are continued; the first has Hard - w tokens at most,  *)
(* the others Hard.                                                        *)
Folded(u, w) ==
    /\ Len(u) >= 1 /\ IsInk(u[1]) /\ u[Len(u)] = CRLF
    /\ \A i \in 1..(Len(u) - 1) : u[i] = CRLF => u[i + 1] = WS
    /\ \E j \in 1..Len(u) : j <= Hard - w + 1 /\ u[j] = CRLF
    /\ \A i \in 1..(Len(u) - 1) : u[i] = CRLF => \E j \in (i + 1)..Len(u) : j <= i + Hard + 1 /\ u[j] = CRLF

LEMMA FoldedFirst ==
    ASSUME NEW T, CRLF \notin T, NEW t \in Seq(T), NEW w \in 1..(Hard - 1), Len(t) \in 1..(Hard - w), IsInk(t[1])
    PROVE  Folded(t \o <<CRLF>>, w)
<1> DEFINE u == t \o <<CRLF>>
           U == T \cup {CRLF}
<1>1. t \in Seq(U) /\ <<CRLF>> \in Seq(U) /\ Len(<<CRLF>>) = 1 /\ <<CRLF>>[1] = CRLF /\ \A i \in 1..Len(t) : t[i] # CRLF
  OBVIOUS
<1> HIDE DEF U
<1>2. /\ u \in Seq(U) /\ Len(u) = Len(t) + Len(<<CRLF>>)
      /\ \A i \in 1..Len(u) : u[i] = IF i <= Len(t) THEN t[i] ELSE <<CRLF>>[i - Len(t)]
  BY <1>1, ConcatProperties
<1>3. Len(t) \in Nat /\ Hard \in Nat /\ Len(u) = Len(t) + 1
  BY <1>1, <1>2, LimitAssumption
<1> HIDE DEF u
<1>4. \A i \in 1..Len(t) : u[i] = t[i]
  BY <1>2, <1>3
<1>5. u[Len(u)] = CRLF
  <2>1. Len(u) \in 1..Len(u) /\ ~(Len(u) <= Len(t)) /\ Len(u) - Len(t) = 1
    BY <1>3
  <2> QED  BY <1>1, <1>2, <2>1
<1>6. \A i \in 1..(Len(u) - 1) : u[i] # CRLF
  BY <1>1, <1>3, <1>4
<1>7. Len(u) \in 1..Len(u) /\ Len(u) <= Hard - w + 1 /\ Len(u) >= 1 /\ 1 \in 1..Len(t)
  BY <1>3
<1>8. IsInk(u[1])
  BY <1>4, <1>7
<1> QED  BY <1>5, <1>6, <1>7, <1>8 DEF Folded, u

LEMMA FoldedNext ==
    ASSUME NEW T, CRLF \notin T, NEW u \in Seq(T \cup {WS, CRLF}), NEW t \in Seq(T), NEW w \in 1..(Hard - 1),
           Folded(u, w), Len(t) \in 1..(Hard - 1)
    PROVE  Folded(u \o ((<<WS>> \o t) \o <<CRLF>>), w)
<1> DEFINE U == T \cup {WS, CRLF}
           l == (<<WS>> \o t) \o <<CRLF>>
           v == u \o l
           a == Len(u)
           n == Len(t)
<1>1. /\ u \in Seq(U) /\ t \in Seq(U) /\ <<CRLF>> \in Seq(U) /\ Len(<<CRLF>>) = 1 /\ <<CRLF>>[1] = CRLF
      /\ <<WS>> \in Seq(U) /\ Len(<<WS>>) = 1 /\ <<WS>>[1] = WS
      /\ (\A i \in 1..n : t[i] # CRLF) /\ a \in Nat /\ n \in Nat /\ Hard \in Nat
  BY LimitAssumption
<1> HIDE DEF U
<1>2. /\ (<<WS>> \o t) \in Seq(U) /\ Len(<<WS>> \o t) = 1 + n
      /\ \A i \in 1..(n + 1) : (<<WS>> \o t)[i] = IF i <= 1 THEN WS ELSE t[i - 1]
  <2>1. /\ (<<WS>> \o t) \in Seq(U) /\ Len(<<WS>> \o t) = Len(<<WS>>) + Len(t)
        /\ \A i \in 1..Len(<<WS>> \o t) : (<<WS>> \o t)[i] = IF i <= Len(<<WS>>) THEN <<WS>>[i] ELSE t[i - Len(<<WS>>)]
    BY <1>1, ConcatProperties
  <2>2. \A i \in 1..(n + 1) : i <= 1 => i = 1
    BY <1>1
  <2> QED  BY <1>1, <2>1, <2>2
<1> DEFINE k == <<WS>> \o t
<1> HIDE DEF k
<1>3. /\ l \in Seq(U) /\ Len(l) = n + 2
      /\ l[1] = WS /\ l[n + 2] = CRLF /\ \A i \in 1..(n + 1) : l[i] # CRLF
  <2>1. k \in Seq(U) /\ Len(k) = n + 1 /\ \A i \in 1..(n + 1) : k[i] = IF i <= 1 THEN WS ELSE t[i - 1]
    BY <1>1, <1>2 DEF k
  <2>2. l = k \o <<CRLF>>
    BY DEF k
  <2> HIDE DEF l
  <2>3. /\ l \in Seq(U) /\ Len(l) = (n + 1) + 1
        /\ \A i \in 1..((n + 1) + 1) : l[i] = IF i <= n + 1 THEN k[i] ELSE <<CRLF>>[i - (n + 1)]
    BY <1>1, <2>1, <2>2, ConcatProperties
  <2>4. ASSUME NEW i \in 1..(n + 1) PROVE l[i] = k[i] /\ k[i] # CRLF
    <3>1. i \in 1..((n + 1) + 1) /\ i <= n + 1 /\ (~(i <= 1) => i - 1 \in 1..n)
      BY <1>1
    <3>2. l[i] = k[i]
      BY <2>3, <3>1
    <3> QED  BY <1>1, <2>1, <3>1, <3>2, TokensDiffer
  <2>5. l[n + 2] = CRLF
    <3>1. n + 2 \in 1..((n + 1) + 1) /\ ~(n + 2 <= n + 1) /\ (n + 2) - (n + 1) = 1
      BY <1>1
    <3> QED  BY <1>1, <2>3, <3>1
  <2>6. 1 \in 1..(n + 1) /\ 1 <= 1 /\ (n + 1) + 1 = n + 2
    BY <1>1
  <2>7. l[1] = WS
    BY <2>1, <2>4, <2>6
  <2> QED  BY <2>3, <2>4, <2>5, <2>6, <2>7
<1> HIDE DEF l
<1>4. /\ v \in Seq(U) /\ Len(v) = a + (n + 2)
      /\ \A i \in 1..(a + (n + 2)) : v[i] = IF i <= a THEN u[i] ELSE l[i - a]
  <2>1. u \in Seq(U) /\ l \in Seq(U)
    BY <1>1, <1>3
  <2>2. /\ v \in Seq(U) /\ Len(v) = Len(u) + Len(l)
        /\ \A i \in 1..Len(v) : v[i] = IF i <= Len(u) THEN u[i] ELSE l[i - Len(u)]
    BY <2>1, ConcatProperties
  <2> HIDE DEF v
  <2>3. Len(v) = a + (n + 2)
    BY <1>3, <2>2
  <2> QED  BY <2>2, <2>3
<1> HIDE DEF v
<1>5. \A i \in 1..a : v[i] = u[i]
  BY <1>1, <1>4
<1>6. ASSUME NEW i \in 1..(n + 2) PROVE v[a + i] = l[i]
  <2>1. a + i \in 1..(a + (n + 2)) /\ ~(a + i <= a) /\ (a + i) - a = i
    BY <1>1
  <2> QED  BY <1>4, <2>1
<1> HIDE DEF a, n
<1>7. /\ a >= 1 /\ IsInk(u[1]) /\ u[a] = CRLF
      /\ \A i \in 1..(a - 1) : u[i] = CRLF => u[i + 1] = WS
      /\ \E j \in 1..a : j <= Hard - w + 1 /\ u[j] = CRLF
      /\ \A i \in 1..(a - 1) : u[i] = CRLF => \E j \in (i + 1)..a : j <= i + Hard + 1 /\ u[j] = CRLF
  BY DEF Folded, a
<1>8. Len(v) \in Nat /\ Len(v) = a + n + 2 /\ n <= Hard - 1
  BY <1>1, <1>4 DEF n
<1>9. v[Len(v)] = CRLF /\ IsInk(v[1])
  <2>1. n + 2 \in 1..(n + 2) /\ a + (n + 2) = Len(v) /\ 1 \in 1..a
    BY <1>1, <1>7, <1>8
  <2>2. v[a + (n + 2)] = CRLF
    BY <1>3, <1>6, <2>1
  <2> QED  BY <1>5, <1>7, <2>1, <2>2
<1>10. ASSUME NEW i \in 1..(Len(v) - 1), v[i] = CRLF
       PROVE  v[i + 1] = WS /\ \E j \in (i + 1)..Len(v) : j <= i + Hard + 1 /\ v[j] = CRLF
  <2>1. CASE i < a
    <3>1. i \in 1..(a - 1) /\ i \in 1..a /\ i + 1 \in 1..a
      BY <1>1, <2>1
    <3>2. u[i] = CRLF
      BY <1>5, <1>10, <3>1
    <3>3. u[i + 1] = WS
      BY <1>7, <3>1, <3>2
    <3>4. PICK j \in (i + 1)..a : j <= i + Hard + 1 /\ u[j] = CRLF
      BY <1>7, <3>1, <3>2
    <3>5. j \in 1..a /\ j \in (i + 1)..Len(v)
      BY <1>1, <1>8, <3>1
    <3> QED  BY <1>5, <3>1, <3>3, <3>4, <3>5
  <2>2. CASE i = a
    <3>1. a + 1 = i + 1 /\ 1 \in 1..(n + 2) /\ Len(v) \in (i + 1)..Len(v) /\ Len(v) <= i + Hard + 1
      BY <1>1, <1>8, <2>2
    <3>2. v[a + 1] = WS
      BY <1>3, <1>6, <3>1
    <3> QED  BY <1>9, <3>1, <3>2
  <2>3. CASE i > a
    <3>1. i - a \in 1..(n + 1) /\ i - a \in 1..(n + 2) /\ a + (i - a) = i
      BY <1>1, <1>8, <2>3
    <3> QED  BY <1>3, <1>6, <1>10, <3>1
  <2> QED  BY <1>1, <2>1, <2>2, <2>3
<1>11. \E j \in 1..Len(v) : j <= Hard - w + 1 /\ v[j] = CRLF
  <2>1. PICK j \in 1..a : j <= Hard - w + 1 /\ u[j] = CRLF
    BY <1>7
  <2>2. j \in 1..Len(v)
    BY <1>1, <1>8
  <2> QED  BY <1>5, <2>1, <2>2
<1>12. Len(v) >= 1
  BY <1>1, <1>8
<1>13. Folded(v, w)
  BY <1>9, <1>10, <1>11, <1>12 DEF Folded
<1> QED  BY <1>13 DEF v, l

(* The end of a line and the space before one are no ink.                  *)
LEMMA LineInk ==
    ASSUME NEW T, NEW t \in Seq(T), NEW first \in BOOLEAN
    PROVE  LET line == ((IF first THEN <<>> ELSE <<WS>>) \o t) \o <<CRLF>>
           IN  /\ line \in Seq(T \cup {WS, CRLF})
               /\ Ink(line) = Ink(t)
               /\ Breaks(line) = Breaks(t) \cup (IF first THEN {} ELSE {0})
<1> DEFINE U == T \cup {WS, CRLF}
           pre == IF first THEN <<>> ELSE <<WS>>
           k == pre \o t
           e == <<CRLF>>
<1>1. pre \in Seq(U) /\ t \in Seq(U) /\ e \in Seq(U)
  <2>1. <<>> \in Seq(U) /\ <<WS>> \in Seq(U) /\ <<CRLF>> \in Seq(U)
    OBVIOUS
  <2>2. pre \in Seq(U)
    BY <2>1
  <2>3. T \subseteq U
    OBVIOUS
  <2>4. t \in Seq(U)
    BY <2>3
  <2> QED  BY <2>1, <2>2, <2>4
<1>2. Ink(pre) = <<>> /\ Ink(e) = <<>> /\ Breaks(pre) = (IF first THEN {} ELSE {0}) /\ Breaks(e) = {}
  BY SingleToken, BreaksSingle, TokensDiffer
<1> HIDE DEF U, pre, e
<1>3. k \in Seq(U) /\ Ink(k) = Ink(pre) \o Ink(t) /\ Breaks(k) = Breaks(pre) \cup {Len(Ink(pre)) + y : y \in Breaks(t)}
  BY <1>1, ConcatProperties, InkConcat, BreaksConcat
<1>4. Ink(t) \in Seq(U) /\ Len(<<>>) = 0 /\ Breaks(t) \in SUBSET (0..Len(Ink(t))) /\ Len(Ink(t)) \in Nat
  BY <1>1, InkType, BreaksRange
<1>5. Ink(k) = Ink(t)
  BY <1>2, <1>3, <1>4, ConcatEmptySeq
<1>6. Breaks(k) = Breaks(pre) \cup Breaks(t)
  <2>1. {Len(Ink(pre)) + y : y \in Breaks(t)} = Breaks(t)
    BY <1>2, <1>4
  <2> QED  BY <1>3, <2>1
<1> HIDE DEF k
<1>7. /\ (k \o e) \in Seq(U) /\ Ink(k \o e) = Ink(k) \o Ink(e)
      /\ Breaks(k \o e) = Breaks(k) \cup {Len(Ink(k)) + y : y \in Breaks(e)}
  <2>1. k \in Seq(U) /\ e \in Seq(U)
    BY <1>1, <1>3
  <2>2. (k \o e) \in Seq(U)
    BY <2>1, ConcatProperties
  <2>3. Ink(k \o e) = Ink(k) \o Ink(e)
    BY <2>1, InkConcat
  <2>4. Breaks(k \o e) = Breaks(k) \cup {Len(Ink(k)) + y : y \in Breaks(e)}
    BY <2>1, BreaksConcat
  <2> QED  BY <2>2, <2>3, <2>4
<1>8. Ink(k \o e) = Ink(t)
  BY <1>2, <1>4, <1>5, <1>7, ConcatEmptySeq
<1>9. Breaks(k \o e) = Breaks(t) \cup (IF first THEN {} ELSE {0})
  BY <1>2, <1>6, <1>7
<1> QED  BY <1>7, <1>8, <1>9 DEF U, pre, e, k

FoldState(T) == [out: Seq(T \cup {WS, CRLF}), rest: Seq(T)]

(* How many columns the line has already.                                  *)
Column(s, w) == IF s.out = <<>> THEN w ELSE 1

(* What a round does to what it has written.                               *)
LEMMA RoundOut ==
    ASSUME NEW T, CRLF \notin T, NEW s \in FoldState(T), Trimmed(s.rest), s.rest # <<>>,
           NEW w \in 1..(Hard - 1), s.out # <<>> => Folded(s.out, w)
    PROVE  LET v == Round(w, s)
               t == Line(s.rest, Column(s, w))
               n == Len(Ink(s.out))
           IN  /\ v \in FoldState(T) /\ v.rest = Left(s.rest, Column(s, w))
               /\ v.out # <<>> /\ Folded(v.out, w)
               /\ Ink(v.out) = Ink(s.out) \o Ink(t)
               /\ Breaks(v.out) = (Breaks(s.out) \cup (IF s.out = <<>> THEN {} ELSE {n}))
                                     \cup {n + y : y \in Breaks(t)}
<1> DEFINE U == T \cup {WS, CRLF}
           W == Column(s, w)
           t == Line(s.rest, W)
           q == Left(s.rest, W)
           first == s.out = <<>>
           l == ((IF first THEN <<>> ELSE <<WS>>) \o t) \o <<CRLF>>
           n == Len(Ink(s.out))
           o == s.out
           r == s.rest
           out == o \o l
<1>1. o \in Seq(U) /\ r \in Seq(T) /\ first \in BOOLEAN
  BY DEF FoldState
<1>2. W \in 1..(Hard - 1) /\ W >= 1 /\ (first => W = w) /\ (~first => W = 1) /\ Hard \in Nat
  BY LimitAssumption DEF Column
<1>3. Round(w, s) = [out |-> out, rest |-> q]
  <2>1. W = IF s.out = <<>> THEN w ELSE 1
    BY DEF Column
  <2> QED  BY <2>1 DEF Round, Line, Left
<1>4. /\ t \in Seq(T) /\ Len(t) \in 1..(Hard - W) /\ IsInk(t[1])
      /\ q \in Seq(T)
  <2> HIDE DEF W
  <2> QED  BY <1>1, <1>2, CutShape
<1> HIDE DEF t, q, W
<1>5. l \in Seq(U) /\ Ink(l) = Ink(t) /\ Breaks(l) = Breaks(t) \cup (IF first THEN {} ELSE {0})
  <2> HIDE DEF first
  <2> QED  BY <1>1, <1>4, LineInk
<1>6. Folded(out, w)
  <2>1. CASE first
    <3>1. o = <<>>
      BY <2>1
    <3>2. l = (<<>> \o t) \o <<CRLF>>
      BY <2>1
    <3>3. <<>> \o t = t
      BY <1>4, ConcatEmptySeq
    <3>4. out = l
      <4> HIDE DEF l, o
      <4> QED  BY <1>5, <3>1, ConcatEmptySeq
    <3>5. out = t \o <<CRLF>>
      BY <3>2, <3>3, <3>4
    <3>6. Len(t) \in 1..(Hard - w)
      BY <1>2, <1>4, <2>1
    <3> HIDE DEF out
    <3> QED  BY <1>4, <3>5, <3>6, FoldedFirst
  <2>2. CASE ~first
    <3>1. l = (<<WS>> \o t) \o <<CRLF>>
      BY <2>2
    <3>2. Len(t) \in 1..(Hard - 1)
      BY <1>2, <1>4, <2>2
    <3>3. Folded(o, w)
      BY <2>2
    <3>4. o \in Seq(T \cup {WS, CRLF})
      BY <1>1
    <3> HIDE DEF o, l, U
    <3>5. Folded(o \o ((<<WS>> \o t) \o <<CRLF>>), w)
      BY <1>4, <3>2, <3>3, <3>4, FoldedNext
    <3> QED  BY <3>1, <3>5
  <2> QED  BY <2>1, <2>2
<1>7. out \in Seq(U) /\ Ink(out) = Ink(o) \o Ink(t)
      /\ Breaks(out) = (Breaks(o) \cup (IF first THEN {} ELSE {n})) \cup {n + y : y \in Breaks(t)}
  <2> DEFINE B == Breaks(t)
  <2>1. n \in Nat
    <3> HIDE DEF U
    <3> QED  BY <1>1, InkType
  <2>2. B \in SUBSET (0..Len(Ink(t))) /\ Len(Ink(t)) \in Nat
    BY <1>4, BreaksRange, InkType
  <2> HIDE DEF l, o, U, first, B
  <2>3. out \in Seq(U) /\ Ink(out) = Ink(o) \o Ink(l)
    BY <1>1, <1>5, ConcatProperties, InkConcat
  <2>4. Breaks(out) = Breaks(o) \cup {Len(Ink(o)) + y : y \in Breaks(l)}
    BY <1>1, <1>5, BreaksConcat
  <2>5. n = Len(Ink(o))
    BY DEF o
  <2>6. Breaks(l) = B \cup (IF first THEN {} ELSE {0})
    BY <1>5 DEF B
  <2> HIDE DEF n
  <2>7. {n + y : y \in Breaks(l)} = (IF first THEN {} ELSE {n}) \cup {n + y : y \in B}
    <3>1. n + 0 = n
      BY <2>1
    <3>2. CASE first
      <4>1. Breaks(l) = B
        BY <2>6, <3>2
      <4> QED  BY <3>2, <4>1
    <3>3. CASE ~first
      <4>1. Breaks(l) = B \cup {0}
        BY <2>6, <3>3
      <4>2. {n + y : y \in B \cup {0}} = {n + 0} \cup {n + y : y \in B}
        OBVIOUS
      <4> QED  BY <3>1, <3>3, <4>1, <4>2
    <3> QED  BY <3>2, <3>3
  <2> QED  BY <1>5, <2>3, <2>4, <2>5, <2>7 DEF B
<1>8. out # <<>>
  <2> HIDE DEF out
  <2>1. Len(<<>>) = 0 /\ Len(out) >= 1
    BY <1>6 DEF Folded
  <2> QED  BY <2>1
<1> HIDE DEF out
<1>9. Round(w, s) \in FoldState(T)
  BY <1>3, <1>4, <1>7 DEF FoldState
<1> QED  BY <1>3, <1>6, <1>7, <1>8, <1>9 DEF t, q, W, n, first, o

(* White space of the body is on a line, where one ends, or is left.       *)
KeepsBreaks(b, s) ==
    \A x \in Inner(b) : \/ x \in Breaks(s.out)
                        \/ x = Len(Ink(s.out))
                        \/ \E z \in Breaks(s.rest) : x = Len(Ink(s.out)) + z

(* When every word fits, all white space was in the body.                  *)
AddsNoBreak(b, s, m) ==
    /\ NoWord(s.rest, m)
    /\ Breaks(s.out) \subseteq Inner(b)
    /\ \A z \in Breaks(s.rest) : Len(Ink(s.out)) + z \in Inner(b)
    /\ s.out = <<>> \/ s.rest = <<>> \/ Len(Ink(s.out)) \in Inner(b)

Folding(T, b, w) ==
    {s \in FoldState(T) :
       /\ Trimmed(s.rest)
       /\ s.out # <<>> => Folded(s.out, w)
       /\ Ink(s.out) \o Ink(s.rest) = Ink(b)
       /\ KeepsBreaks(b, s)
       /\ NoWord(b, Hard - w + 1) => AddsNoBreak(b, s, Hard - w + 1)}

LEMMA FoldingRound ==
    ASSUME NEW T, CRLF \notin T, NEW b \in Seq(T), NEW w \in 1..(Hard - 1), NEW s \in Folding(T, b, w)
    PROVE  /\ Round(w, s) \in Folding(T, b, w)
           /\ s.rest = <<>> => Round(w, s).rest = <<>>
           /\ s.rest # <<>> => Len(Round(w, s).rest) < Len(s.rest)
<1>1. CASE s.rest = <<>>
  BY <1>1 DEF Round
<1>2. CASE s.rest # <<>>
  <2> DEFINE W == Column(s, w)
             U == T \cup {WS, CRLF}
             v == Round(w, s)
             r == s.rest
             t == Line(r, W)
             q == Left(r, W)
             n == Len(Ink(s.out))
             p == Len(Ink(t))
             m == Hard - w + 1
  <2>1. /\ s \in FoldState(T) /\ s.out \in Seq(U) /\ r \in Seq(T) /\ Trimmed(r) /\ r # <<>>
        /\ (s.out # <<>> => Folded(s.out, w))
        /\ Ink(s.out) \o Ink(r) = Ink(b) /\ KeepsBreaks(b, s)
        /\ (NoWord(b, m) => AddsNoBreak(b, s, m))
    BY <1>2 DEF Folding, FoldState
  <2>2. W \in 1..(Hard - 1) /\ W <= w /\ m \in Nat \ {0} /\ m <= Hard - W + 1
    BY LimitAssumption DEF Column
  <2>3. /\ v \in FoldState(T) /\ v.rest = q /\ v.out # <<>> /\ Folded(v.out, w)
        /\ Ink(v.out) = Ink(s.out) \o Ink(t)
        /\ Breaks(v.out) = (Breaks(s.out) \cup (IF s.out = <<>> THEN {} ELSE {n})) \cup {n + y : y \in Breaks(t)}
    BY <2>1, RoundOut
  <2> HIDE DEF W, m, v
  <2>4. /\ t \in Seq(T) /\ q \in Seq(T) /\ Trimmed(q) /\ Len(q) < Len(r) /\ Ink(r) = Ink(t) \o Ink(q)
    BY <2>1, <2>2, CutShape
  <2>5. /\ \A y \in Breaks(r) : y \in Breaks(t) \/ y = p \/ \E z \in Breaks(q) : y = p + z
        /\ \A y \in Breaks(t) : y \in Breaks(r)
        /\ \A z \in Breaks(q) : p + z \in Breaks(r)
    BY <2>1, <2>2, CutBreaks
  <2>6. NoWord(r, m) => NoWord(q, m) /\ (q = <<>> \/ p \in Breaks(r))
    BY <2>1, <2>2, CutWord
  <2>7. Breaks(q) \in SUBSET (0..Len(Ink(q))) /\ Len(Ink(q)) \in Nat /\ p \in Nat /\ n \in Nat
        /\ Breaks(t) \in SUBSET (0..p)
    <3>1. Len(Ink(q)) \in Nat /\ p \in Nat
      BY <2>4, InkType
    <3>2. n \in Nat
      <4> HIDE DEF U
      <4> QED  BY <2>1, InkType
    <3>3. Breaks(q) \in SUBSET (0..Len(Ink(q))) /\ Breaks(t) \in SUBSET (0..p)
      BY <2>4, BreaksRange
    <3> QED  BY <3>1, <3>2, <3>3
  <2> HIDE DEF t, q
  <2>8. Len(Ink(v.out)) = n + p /\ Ink(v.out) \o Ink(q) = Ink(b)
    <3>1. Ink(s.out) \in Seq(U) /\ Ink(t) \in Seq(U) /\ Ink(q) \in Seq(U)
      <4>1. Ink(t) \in Seq(T) /\ Ink(q) \in Seq(T)
        BY <2>4, InkType
      <4>2. T \subseteq U
        OBVIOUS
      <4>3. Ink(t) \in Seq(U) /\ Ink(q) \in Seq(U)
        BY <4>1, <4>2
      <4> HIDE DEF U
      <4>4. Ink(s.out) \in Seq(U)
        BY <2>1, InkType
      <4> QED  BY <4>3, <4>4
    <3> DEFINE x == Ink(s.out)
               y == Ink(t)
               z == Ink(q)
    <3>2. Ink(v.out) = x \o y /\ Ink(b) = x \o (y \o z)
      BY <2>1, <2>3, <2>4
    <3>3. n = Len(x) /\ p = Len(y)
      OBVIOUS
    <3> HIDE DEF x, y, z, n, p
    <3>4. x \in Seq(U) /\ y \in Seq(U) /\ z \in Seq(U)
      BY <3>1 DEF x, y, z
    <3> HIDE DEF U
    <3>5. (x \o y) \o z = x \o (y \o z) /\ Len(x \o y) = Len(x) + Len(y)
      BY <3>4, ConcatAssociative, ConcatProperties
    <3> QED  BY <3>2, <3>3, <3>5 DEF z
  <2> HIDE DEF n, p
  <2>9. KeepsBreaks(b, v)
    <3> SUFFICES ASSUME NEW x \in Inner(b)
                 PROVE  x \in Breaks(v.out) \/ x = n + p \/ \E z \in Breaks(q) : x = (n + p) + z
      BY <2>3, <2>8 DEF KeepsBreaks
    <3>1. CASE x \in Breaks(s.out)
      BY <2>3, <3>1
    <3>2. CASE x = n
      <4>1. CASE s.out = <<>>
        <5>1. n = 0
          <6>1. n = Len(<<>>) /\ Len(<<>>) = 0
            BY <4>1, SingleToken DEF n
          <6> QED  BY <6>1
        <5>2. x \in 1..(Len(Ink(b)) - 1)
          BY DEF Inner
        <5> QED  BY <3>2, <5>1, <5>2
      <4>2. CASE s.out # <<>>
        BY <2>3, <3>2, <4>2
      <4> QED  BY <4>1, <4>2
    <3>3. ASSUME NEW y \in Breaks(r), x = n + y
          PROVE  x \in Breaks(v.out) \/ x = n + p \/ \E z \in Breaks(q) : x = (n + p) + z
      <4>1. CASE y \in Breaks(t)
        BY <2>3, <3>3, <4>1
      <4>2. CASE y = p
        BY <3>3, <4>2
      <4>3. ASSUME NEW z \in Breaks(q), y = p + z PROVE x = (n + p) + z
        BY <2>7, <3>3, <4>3
      <4> QED  BY <2>5, <4>1, <4>2, <4>3
    <3>4. x \in Breaks(s.out) \/ x = n \/ \E z \in Breaks(r) : x = n + z
      BY <2>1 DEF KeepsBreaks, n
    <3> QED  BY <3>1, <3>2, <3>3, <3>4
  <2>10. ASSUME NoWord(b, m) PROVE AddsNoBreak(b, v, m)
    <3>1. /\ NoWord(r, m) /\ Breaks(s.out) \subseteq Inner(b)
          /\ \A z \in Breaks(r) : n + z \in Inner(b)
          /\ s.out = <<>> \/ n \in Inner(b)
      BY <2>1, <2>10 DEF AddsNoBreak, n
    <3>2. NoWord(q, m) /\ (q = <<>> \/ p \in Breaks(r))
      BY <2>6, <3>1
    <3>3. \A y \in Breaks(t) : n + y \in Inner(b)
      BY <2>5, <3>1
    <3>4. Breaks(v.out) \subseteq Inner(b)
      BY <2>3, <3>1, <3>3
    <3>5. \A z \in Breaks(q) : (n + p) + z \in Inner(b)
      <4> TAKE z \in Breaks(q)
      <4>1. n + (p + z) \in Inner(b)
        BY <2>5, <3>1
      <4>2. n + (p + z) = (n + p) + z
        BY <2>7
      <4> QED  BY <4>1, <4>2
    <3>6. q = <<>> \/ n + p \in Inner(b)
      BY <3>1, <3>2
    <3> QED  BY <2>3, <2>8, <3>2, <3>4, <3>5, <3>6 DEF AddsNoBreak
  <2>11. v \in Folding(T, b, w)
    BY <2>3, <2>4, <2>8, <2>9, <2>10 DEF Folding, m
  <2> QED  BY <1>2, <2>3, <2>4, <2>11 DEF v
<1> QED  BY <1>1, <1>2

(* The loop ends, with nothing left.                                       *)
LEMMA FoldingEnds ==
    ASSUME NEW T, CRLF \notin T, NEW b \in Seq(T), NEW w \in 1..(Hard - 1)
    PROVE  \E s \in Folding(T, b, w) : s.rest = <<>> /\ Lines(b, w) = s.out
<1> DEFINE S == Folding(T, b, w)
           N == Len(b)
           base == [out |-> <<>>, rest |-> TrimSpace(b)]
           step == [p \in Nat \X S |-> Round(w, p[2])]
<1>1. N \in Nat /\ TrimSpace(b) \in Seq(T) /\ Len(TrimSpace(b)) \in 0..N /\ Trimmed(TrimSpace(b))
  BY TrimEnds DEF Trimmed
<1>2. base \in S
  <2>1. Ink(<<>>) = <<>> /\ Len(<<>>) = 0 /\ Breaks(<<>>) = {} /\ <<>> \in Seq(T \cup {WS, CRLF})
    <3>1. Ink(<<>>) = <<>> /\ Breaks(<<>>) = {}
      BY SingleToken, BreaksSingle
    <3>2. Len(<<>>) = 0 /\ <<>> \in Seq(T \cup {WS, CRLF})
      OBVIOUS
    <3> QED  BY <3>1, <3>2
  <2>2. base \in FoldState(T) /\ base.out = <<>> /\ base.rest = TrimSpace(b)
    BY <1>1, <2>1 DEF FoldState
  <2>3. Ink(base.out) \o Ink(base.rest) = Ink(b)
    <3>1. Ink(TrimSpace(b)) = Ink(b) /\ Ink(b) \in Seq(T)
      BY InkTrim, InkType
    <3> HIDE DEF base
    <3> QED  BY <2>1, <2>2, <3>1, ConcatEmptySeq
  <2>4. Breaks(base.rest) = Inner(b) /\ \A z \in Inner(b) : 0 + z = z
    BY <2>2, BreaksTrim DEF Inner
  <2> HIDE DEF base
  <2>5. Len(Ink(base.out)) = 0
    BY <2>1, <2>2
  <2>6. KeepsBreaks(b, base)
    BY <2>4, <2>5 DEF KeepsBreaks
  <2>7. ASSUME NoWord(b, Hard - w + 1) PROVE AddsNoBreak(b, base, Hard - w + 1)
    <3>1. Hard - w + 1 \in Nat \ {0}
      BY LimitAssumption
    <3>2. NoWord(base.rest, Hard - w + 1)
      BY <2>2, <2>7, <3>1, TrimNoWord
    <3> QED  BY <2>1, <2>2, <2>4, <2>5, <3>2 DEF AddsNoBreak
  <2> QED  BY <1>1, <2>2, <2>3, <2>6, <2>7 DEF Folding
<1>3. \A s \in S : Round(w, s) \in S
  BY FoldingRound
<1>4. step \in [Nat \X S -> S]
  BY <1>3
<1>5. \A i \in Nat, x \in S : step[<<i, x>>] = Round(w, x)
  OBVIOUS
<1>6. PICK f \in [0..N -> S] : f[0] = base /\ \A i \in 0..(N - 1) : f[i + 1] = step[<<i, f[i]>>]
  <2> HIDE DEF N, S, base, step
  <2>1. Recursive(S, base, step, N) # {}
    BY <1>1, <1>2, <1>4, RecursionUpTo
  <2> QED  BY <2>1 DEF Recursive
<1>7. base.rest = TrimSpace(b)
  OBVIOUS
<1>8. \A s \in S : /\ s.rest \in Seq(T)
                   /\ s.rest = <<>> => Round(w, s).rest = <<>>
                   /\ s.rest # <<>> => Len(Round(w, s).rest) < Len(s.rest)
  <2> TAKE s \in S
  <2>1. s \in Folding(T, b, w)
    OBVIOUS
  <2>2. s.rest \in Seq(T)
    BY <2>1 DEF Folding, FoldState
  <2> HIDE DEF S
  <2> QED  BY <2>1, <2>2, FoldingRound
<1> HIDE DEF S, base, step
<1>9. ASSUME NEW i \in 0..(N - 1) PROVE i + 1 \in 0..N /\ f[i] \in S /\ f[i + 1] = Round(w, f[i])
  <2>1. i \in 0..N /\ i \in Nat /\ i + 1 \in 0..N
    BY <1>1
  <2> QED  BY <1>5, <1>6, <2>1
<1>10. f[N].rest = <<>>
  <2> DEFINE Shorter(i) == f[i].rest = <<>> \/ Len(f[i].rest) + i <= N
             P == {i \in Nat : i \in 0..N => Shorter(i)}
  <2>1. 0 \in P
    <3>1. f[0].rest = TrimSpace(b)
      BY <1>6, <1>7
    <3> QED  BY <1>1, <3>1
  <2>2. ASSUME NEW i \in P PROVE i + 1 \in P
    <3> SUFFICES ASSUME i + 1 \in 0..N PROVE Shorter(i + 1)
      <4> HIDE DEF Shorter
      <4> QED  OBVIOUS
    <3>1. i \in 0..(N - 1) /\ i \in 0..N /\ i \in Nat
      BY <1>1
    <3>2. f[i] \in S /\ f[i + 1] = Round(w, f[i]) /\ f[i + 1] \in S
      BY <1>9, <3>1
    <3>3. f[i].rest = <<>> \/ Len(f[i].rest) + i <= N
      BY <3>1
    <3>4. CASE f[i].rest = <<>>
      BY <1>8, <3>2, <3>4
    <3>5. CASE f[i].rest # <<>>
      <4>1. Len(f[i + 1].rest) < Len(f[i].rest) /\ Len(f[i].rest) \in Nat /\ Len(f[i + 1].rest) \in Nat
        BY <1>8, <3>2, <3>5
      <4>2. Len(f[i].rest) + i <= N
        BY <3>3, <3>5
      <4> DEFINE x == Len(f[i].rest)
                 y == Len(f[i + 1].rest)
      <4>3. y < x /\ x \in Nat /\ y \in Nat /\ x + i <= N
        BY <4>1, <4>2
      <4> HIDE DEF x, y
      <4>4. y + (i + 1) <= N
        BY <1>1, <3>1, <4>3
      <4> QED  BY <4>4 DEF y
    <3> QED  BY <3>4, <3>5
  <2> HIDE DEF P
  <2>3. P \in SUBSET Nat
    BY DEF P
  <2>4. N \in P
    BY <1>1, <2>1, <2>2, <2>3, NatInduct
  <2>5. f[N].rest = <<>> \/ Len(f[N].rest) + N <= N
    BY <1>1, <2>4 DEF P
  <2>6. f[N].rest \in Seq(T)
    BY <1>1, <1>8
  <2>7. CASE Len(f[N].rest) + N <= N
    <3>1. Len(f[N].rest) = 0
      BY <1>1, <2>6, <2>7
    <3> QED  BY <2>6, <3>1
  <2> QED  BY <2>5, <2>7
<1>11. Lines(b, w) = f[N].out
  <2> DEFINE Def(F) == F = [n \in 0..N |-> IF n = 0 THEN [out |-> <<>>, rest |-> TrimSpace(b)]
                                           ELSE Round(w, F[n - 1])]
             F == CHOOSE F : Def(F)
             g == [n \in 0..N |-> f[n]]
  <2>1. Lines(b, w) = F[N].out
    BY DEF Lines
  <2>2. ASSUME NEW n \in 0..N
        PROVE  f[n] = IF n = 0 THEN [out |-> <<>>, rest |-> TrimSpace(b)] ELSE Round(w, g[n - 1])
    <3>1. CASE n = 0
      BY <1>6, <3>1 DEF base
    <3>2. CASE n # 0
      <4>1. n - 1 \in 0..(N - 1) /\ n - 1 \in 0..N /\ (n - 1) + 1 = n
        BY <1>1, <3>2
      <4>2. g[n - 1] = f[n - 1]
        BY <4>1
      <4> QED  BY <1>9, <3>2, <4>1, <4>2
    <3> QED  BY <3>1, <3>2
  <2>3. Def(g)
    BY <2>2
  <2>4. Def(F)
    <3> HIDE DEF g, Def
    <3> QED  BY <2>3
  <2> HIDE DEF F
  <2> DEFINE P == {n \in Nat : n \in 0..N => F[n] = f[n]}
  <2>5. 0 \in P
    <3>1. 0 \in 0..N
      BY <1>1
    <3>2. F[0] = [out |-> <<>>, rest |-> TrimSpace(b)]
      BY <2>4, <3>1
    <3> QED  BY <1>6, <3>2 DEF base
  <2>6. ASSUME NEW n \in P PROVE n + 1 \in P
    <3> SUFFICES ASSUME n + 1 \in 0..N PROVE F[n + 1] = f[n + 1]
      OBVIOUS
    <3>1. n \in Nat /\ n \in 0..(N - 1) /\ n \in 0..N /\ n + 1 # 0 /\ (n + 1) - 1 = n
      BY <1>1
    <3>2. F[n + 1] = Round(w, F[n])
      BY <2>4, <3>1
    <3>3. F[n] = f[n]
      BY <3>1
    <3> QED  BY <1>9, <3>1, <3>2, <3>3
  <2> HIDE DEF P
  <2>7. P \in SUBSET Nat
    BY DEF P
  <2>8. N \in P
    BY <1>1, <2>5, <2>6, <2>7, NatInduct
  <2>9. F[N] = f[N]
    BY <1>1, <2>8 DEF P
  <2> QED  BY <2>1, <2>9
<1>12. f[N] \in S
  BY <1>1
<1> QED  BY <1>10, <1>11, <1>12 DEF S

(* What headerWritelnFold makes of a body.                                 *)
Written(T, b, w) ==
    /\ Lines(b, w) \in Seq(T \cup {WS, CRLF})
    /\ Ink(Lines(b, w)) = Ink(b)
    /\ Lines(b, w) # <<>> => Folded(Lines(b, w), w)
    /\ Inner(b) \subseteq Breaks(Lines(b, w))
    /\ NoWord(b, Hard - w + 1) => Breaks(Lines(b, w)) \subseteq Inner(b)

(* The loop of headerWritelnFold ends with nothing left, for every body    *)
(* and column: it writes all of the ink, in order, with white space where  *)
(* it was, and only there if every word fits on a line, and no line is too *)
(* long (header.go:98-170).                                                *)
THEOREM LinesWritten ==
    ASSUME NEW T, CRLF \notin T, NEW b \in Seq(T), NEW w \in 1..(Hard - 1)
    PROVE  Written(T, b, w)
<1>1. PICK s \in Folding(T, b, w) : s.rest = <<>> /\ Lines(b, w) = s.out
  BY FoldingEnds
<1> DEFINE u == s.out
<1>2. /\ u \in Seq(T \cup {WS, CRLF}) /\ (u # <<>> => Folded(u, w)) /\ Ink(u) \o Ink(s.rest) = Ink(b)
      /\ KeepsBreaks(b, s) /\ (NoWord(b, Hard - w + 1) => AddsNoBreak(b, s, Hard - w + 1))
  BY DEF Folding, FoldState
<1>3. Ink(s.rest) = <<>> /\ Breaks(s.rest) = {}
  BY <1>1, SingleToken, BreaksSingle
<1> HIDE DEF u
<1>4. Ink(u) \in Seq(T \cup {WS, CRLF})
  BY <1>2, InkType
<1>5. Ink(u) = Ink(b)
  BY <1>2, <1>3, <1>4, ConcatEmptySeq
<1>6. Inner(b) \subseteq Breaks(u)
  <2> SUFFICES ASSUME NEW x \in Inner(b) PROVE x \in Breaks(u)
    OBVIOUS
  <2>1. x \in 1..(Len(Ink(b)) - 1) /\ Len(Ink(b)) \in Nat
    BY InkType DEF Inner
  <2>2. x # Len(Ink(u))
    BY <1>5, <2>1
  <2> QED  BY <1>2, <1>3, <2>2 DEF KeepsBreaks, u
<1>7. NoWord(b, Hard - w + 1) => Breaks(u) \subseteq Inner(b)
  BY <1>2 DEF AddsNoBreak, u
<1> QED  BY <1>1, <1>2, <1>5, <1>6, <1>7 DEF Written, u

-----------------------------------------------------------------------------
(* Types of headers and wires *)

Char  == Token \cup {Name(k) : k \in Range(Keys)}
Glyph == Char \cup {CRLF}

LEMMA CharFacts ==
    /\ Header = [Range(Keys) -> Seq(Seq(Char))]
    /\ CRLF \notin Char /\ WS \in Char /\ CRLF \in Glyph /\ Char \subseteq Glyph
    /\ \A k \in Range(Keys) : Name(k) \in Char
    /\ \A who, addr \in Address : Box(who, addr) \in Char
    /\ \A t \in Word : Text(t) \in Char
    /\ Char \cup {WS, CRLF} = Glyph
  BY DEF Header, Char, Glyph, Token, WS, CRLF, Text, Box, Name

LEMMA KeysFacts ==
    /\ Len(Keys) \in Nat /\ DOMAIN Keys = 1..Len(Keys)
    /\ \A n \in 1..Len(Keys) : Keys[n] \in Range(Keys)
    /\ \A k \in Range(Keys) : \E n \in 1..Len(Keys) : Keys[n] = k
    /\ \A i, j \in 1..Len(Keys) : Keys[i] = Keys[j] => i = j
    /\ {"Content-Type", "From", "List-Id", "Reply-To", "Sender", "To", "X-Spam"} \subseteq Range(Keys)
<1>1. Keys \in Seq(Range(Keys))
  BY WidthAssumption
<1>2. Len(Keys) \in Nat /\ DOMAIN Keys = 1..Len(Keys)
  BY <1>1
<1>3. Range(Keys) = {Keys[n] : n \in DOMAIN Keys}
  BY DEF Range
<1> QED  BY <1>2, <1>3, KeysAssumption

LEMMA AddressListType ==
    ASSUME NEW T, WS \in T, NEW bodies \in Seq(Seq(T))
    PROVE  AddressList(bodies) \in Seq(T)
<1> DEFINE c == [i \in DOMAIN bodies |-> <<WS>> \o bodies[i]]
<1>1. Len(bodies) \in Nat /\ DOMAIN bodies = 1..Len(bodies) /\ \A i \in 1..Len(bodies) : bodies[i] \in Seq(T)
  OBVIOUS
<1>2. ASSUME NEW i \in 1..Len(bodies) PROVE <<WS>> \o bodies[i] \in Seq(T)
  <2>1. <<WS>> \in Seq(T) /\ bodies[i] \in Seq(T)
    BY <1>1
  <2> QED  BY <2>1, ConcatProperties
<1>3. c \in [1..Len(bodies) -> Seq(T)]
  BY <1>1, <1>2
<1> DEFINE S == Seq(T)
           n == Len(bodies)
<1>4. c \in Seq(Seq(T))
  <2>1. c \in [1..n -> S] /\ n \in Nat
    BY <1>1, <1>3
  <2> HIDE DEF c, n, S
  <2>2. c \in Seq(S)
    BY <2>1
  <2> QED  BY <2>2 DEF S
<1> HIDE DEF c, n, S
<1>5. FlattenSeq(c) \in Seq(T)
  BY <1>4, FlattenType
<1>6. TrimSpace(FlattenSeq(c)) \in Seq(T)
  BY <1>5, TrimEnds
<1> QED  BY <1>6 DEF AddressList, c

LEMMA BodiesType ==
    ASSUME NEW T, WS \in T, NEW h, NEW k, h[k] \in Seq(Seq(T))
    PROVE  /\ Bodies(h, k) \in Seq(Seq(T)) /\ Len(Bodies(h, k)) \in Nat
           /\ DOMAIN Bodies(h, k) = 1..Len(Bodies(h, k))
           /\ \A i \in 1..Len(Bodies(h, k)) : Bodies(h, k)[i] \in Seq(T)
           /\ h[k] = <<>> => Bodies(h, k) = <<>>
<1> DEFINE a == AddressList(h[k])
           b == Bodies(h, k)
<1>1. a \in Seq(T)
  BY AddressListType
<1>2. b = IF k \in Joined /\ Len(h[k]) > 1 THEN <<a>> ELSE h[k]
  BY DEF Bodies
<1> HIDE DEF a
<1>3. <<a>> \in Seq(Seq(T))
  BY <1>1
<1>4. h[k] = <<>> => ~(Len(h[k]) > 1)
  OBVIOUS
<1> HIDE DEF b
<1>5. b \in Seq(Seq(T)) /\ (h[k] = <<>> => b = <<>>)
  BY <1>2, <1>3, <1>4
<1>6. Len(b) \in Nat /\ DOMAIN b = 1..Len(b) /\ \A i \in 1..Len(b) : b[i] \in Seq(T)
  BY <1>5
<1> QED  BY <1>5, <1>6 DEF b

(* Fields of a header that can be written.                                 *)
Fits(k) == k \in Range(Keys) /\ Width[k] <= Hard - 3

LEMMA FitsColumn ==
    ASSUME NEW k, Fits(k)
    PROVE  Width[k] \in Nat /\ Width[k] + 2 \in 1..(Hard - 1) /\ Name(k) \in Char
<1>1. Width[k] \in Nat \ {0} /\ Hard \in Nat
  BY LimitAssumption, WidthAssumption DEF Fits
<1> QED  BY <1>1, CharFacts DEF Fits

LEMMA LinesType ==
    ASSUME NEW k, Fits(k), NEW b \in Seq(Char)
    PROVE  Written(Char, b, Width[k] + 2) /\ Lines(b, Width[k] + 2) \in Seq(Glyph)
<1>1. CRLF \notin Char /\ Width[k] + 2 \in 1..(Hard - 1) /\ Char \cup {WS, CRLF} = Glyph
  BY FitsColumn, CharFacts
<1>2. Written(Char, b, Width[k] + 2)
  BY <1>1, LinesWritten
<1> QED  BY <1>1, <1>2 DEF Written

LEMMA FieldType ==
    ASSUME NEW k, Fits(k), NEW b \in Seq(Char)
    PROVE  headerWritelnFold(k, b) \in Seq(Glyph)
<1> DEFINE l == Lines(b, Width[k] + 2)
<1>1. l \in Seq(Glyph)
  BY LinesType
<1>2. <<Name(k)>> \in Seq(Glyph)
  <2>1. Name(k) \in Glyph
    BY FitsColumn, CharFacts
  <2> QED  BY <2>1
<1> HIDE DEF l
<1>3. <<Name(k)>> \o l \in Seq(Glyph)
  BY <1>1, <1>2, ConcatProperties
<1> QED  BY <1>3 DEF headerWritelnFold, l

(* The fields of one key, and of all keys.                                 *)
KeyFields(h, k) == [i \in DOMAIN Bodies(h, k) |-> headerWritelnFold(k, Bodies(h, k)[i])]
KeyWire(h, k)   == FlattenSeq(KeyFields(h, k))
KeyWires(h)     == [n \in DOMAIN Keys |-> KeyWire(h, Keys[n])]

LEMMA WriteHeaderIs ==
    ASSUME NEW h
    PROVE  WriteHeader(h) = FlattenSeq(KeyWires(h)) \o <<CRLF>>
  BY DEF WriteHeader, KeyWires, KeyWire, KeyFields

LEMMA WritableFits ==
    ASSUME NEW h, Writable(h), NEW k \in Range(Keys), h[k] # <<>>
    PROVE  Fits(k)
  BY DEF Writable, Fits

(* A set of sequences that is closed contains what is written, if it       *)
(* contains the fields.                                                    *)
LEMMA WireClosed ==
    ASSUME NEW S \in SUBSET Seq(Glyph), <<>> \in S, \A a, b \in S : a \o b \in S,
           NEW h \in Header,
           \A k \in Range(Keys) : \A i \in 1..Len(Bodies(h, k)) : headerWritelnFold(k, Bodies(h, k)[i]) \in S
    PROVE  /\ FlattenSeq(KeyWires(h)) \in S
           /\ \A k \in Range(Keys) : KeyWire(h, k) \in S
<1>1. ASSUME NEW ss \in Seq(S) PROVE FlattenSeq(ss) \in S
  <2>1. Flattening(S, ss) # {} /\ Len(ss) \in Nat
    BY FlattenRec
  <2>2. PICK f \in [0..Len(ss) -> S] : FlattenSeq(ss) = f[Len(ss)]
    BY <2>1 DEF Flattening
  <2> QED  BY <2>1, <2>2
<1>2. ASSUME NEW k \in Range(Keys) PROVE KeyWire(h, k) \in S
  <2> DEFINE b == Bodies(h, k)
  <2>1. h[k] \in Seq(Seq(Char)) /\ WS \in Char
    BY CharFacts
  <2>2. Len(b) \in Nat /\ DOMAIN b = 1..Len(b)
    BY <2>1, BodiesType
  <2>3. KeyFields(h, k) = [i \in 1..Len(b) |-> headerWritelnFold(k, b[i])]
    BY <2>2 DEF KeyFields
  <2> HIDE DEF b
  <2>4. KeyFields(h, k) \in [1..Len(b) -> S]
    BY <2>3 DEF b
  <2>5. KeyFields(h, k) \in Seq(S)
    BY <2>2, <2>4
  <2> QED  BY <1>1, <2>5 DEF KeyWire
<1>3. KeyWires(h) \in Seq(S)
  <2>1. KeyWires(h) = [n \in 1..Len(Keys) |-> KeyWire(h, Keys[n])]
    BY KeysFacts DEF KeyWires
  <2>2. KeyWires(h) \in [1..Len(Keys) -> S]
    BY <1>2, <2>1, KeysFacts
  <2> DEFINE n == Len(Keys)
             g == KeyWires(h)
  <2>3. n \in Nat /\ g \in [1..n -> S]
    BY <2>2, KeysFacts
  <2> HIDE DEF n, g
  <2>4. g \in Seq(S)
    BY <2>3
  <2> QED  BY <2>4 DEF g
<1> QED  BY <1>1, <1>2, <1>3

LEMMA WriteType ==
    ASSUME NEW h \in Header, Writable(h)
    PROVE  WriteHeader(h) \in Seq(Glyph)
<1> DEFINE S == Seq(Glyph)
<1>1. S \in SUBSET Seq(Glyph) /\ <<>> \in S /\ (\A a, b \in S : a \o b \in S) /\ <<CRLF>> \in S
  <2>1. CRLF \in Glyph
    BY CharFacts
  <2>2. <<>> \in Seq(Glyph) /\ <<CRLF>> \in Seq(Glyph)
    BY <2>1
  <2> QED  BY <2>2, ConcatProperties
<1>2. ASSUME NEW k \in Range(Keys), NEW i \in 1..Len(Bodies(h, k))
      PROVE  headerWritelnFold(k, Bodies(h, k)[i]) \in S
  <2>1. h[k] \in Seq(Seq(Char)) /\ WS \in Char
    BY CharFacts
  <2>2. Bodies(h, k)[i] \in Seq(Char) /\ (h[k] = <<>> => Bodies(h, k) = <<>>)
    BY <2>1, BodiesType
  <2>3. h[k] # <<>>
    BY <2>2
  <2> QED  BY <2>2, <2>3, WritableFits, FieldType
<1> HIDE DEF S
<1>3. FlattenSeq(KeyWires(h)) \in S
  BY <1>1, <1>2, WireClosed
<1> QED  BY <1>1, <1>3, WriteHeaderIs DEF S

(* What Unfold leaves is no end of a line.                                 *)
LEMMA UnfoldType ==
    ASSUME NEW T, NEW s \in Seq(T \cup {CRLF})
    PROVE  Unfold(s) \in Seq(T)
<1> DEFINE U == T \cup {CRLF}
           I == {i \in DOMAIN s : s[i] # CRLF}
           u == At(s, I)
<1>1. DOMAIN s = 1..Len(s) /\ Len(s) \in Nat /\ \A i \in 1..Len(s) : s[i] \in U
  OBVIOUS
<1>2. \A i \in I : s[i] \in T
  BY <1>1
<1> HIDE DEF U, I
<1>3. s \in Seq(U)
  BY DEF U
<1>4. u \in Seq(U)
  BY <1>3, ChosenType
<1>5. \A x \in 1..Len(u) : \E i \in 1..Len(s) : i \in I /\ u[x] = s[i]
  BY <1>3, AtElements
<1> HIDE DEF u
<1>6. \A x \in 1..Len(u) : u[x] \in T
  BY <1>2, <1>5
<1>7. u \in [1..Len(u) -> T] /\ Len(u) \in Nat
  BY <1>4, <1>6
<1>8. u \in Seq(T)
  BY <1>7
<1> QED  BY <1>8 DEF u, I, Unfold

LEMMA ComposedType ==
    ASSUME NEW h \in Header
    PROVE  Composed(h) \in Seq(Glyph)
<1> DEFINE S == Seq(Glyph)
           N == Len(Keys)
           fields(k) == [i \in DOMAIN h[k] |-> (<<Name(k)>> \o h[k][i]) \o <<CRLF>>]
           all == [n \in DOMAIN Keys |-> FlattenSeq(fields(Keys[n]))]
<1>1. <<CRLF>> \in S /\ \A ss \in Seq(S) : FlattenSeq(ss) \in S
  <2>1. CRLF \in Glyph
    BY CharFacts
  <2>2. <<CRLF>> \in S
    BY <2>1
  <2> QED  BY <2>2, FlattenType
<1>2. ASSUME NEW k \in Range(Keys) PROVE FlattenSeq(fields(k)) \in S
  <2> DEFINE b == h[k]
             C == Seq(Char)
  <2>1. b \in Seq(C)
    BY CharFacts
  <2>2. <<Name(k)>> \in S
    <3>1. Name(k) \in Glyph
      BY CharFacts
    <3> QED  BY <3>1
  <2>3. \A c \in C : c \in S
    BY CharFacts
  <2> HIDE DEF b, C
  <2>4. DOMAIN b = 1..Len(b) /\ Len(b) \in Nat /\ \A i \in 1..Len(b) : b[i] \in C
    BY <2>1
  <2>5. ASSUME NEW i \in 1..Len(b) PROVE (<<Name(k)>> \o b[i]) \o <<CRLF>> \in S
    <3>1. b[i] \in S
      BY <2>3, <2>4
    <3>2. <<Name(k)>> \o b[i] \in S
      BY <2>2, <3>1, ConcatProperties
    <3> QED  BY <1>1, <3>2, ConcatProperties
  <2>6. fields(k) = [i \in 1..Len(b) |-> (<<Name(k)>> \o b[i]) \o <<CRLF>>]
    BY <2>4 DEF b
  <2> HIDE DEF S, fields
  <2>7. fields(k) \in [1..Len(b) -> S]
    BY <2>5, <2>6
  <2>8. fields(k) \in Seq(S)
    BY <2>4, <2>7
  <2> QED  BY <1>1, <2>8
<1> HIDE DEF S, fields, N
<1>3. N \in Nat /\ DOMAIN Keys = 1..N /\ \A n \in 1..N : Keys[n] \in Range(Keys)
  BY KeysFacts DEF N
<1>4. all \in [1..N -> S]
  BY <1>2, <1>3
<1>5. all \in Seq(S)
  BY <1>3, <1>4
<1> HIDE DEF all
<1>6. FlattenSeq(all) \in S
  BY <1>1, <1>5
<1>7. FlattenSeq(all) \o <<CRLF>> \in S
  BY <1>1, <1>6, ConcatProperties DEF S
<1> QED  BY <1>7 DEF Composed, S, all, fields

LEMMA EndType ==
    ASSUME NEW W \in Seq(Glyph)
    PROVE  HeaderEnd(W) \in 1..(Len(W) + 1)
<1>1. Len(W) \in Nat /\ DOMAIN W = 1..Len(W)
  OBVIOUS
<1>2. Terminators(W) \in SUBSET (1..Len(W))
  BY <1>1 DEF Terminators
<1>3. Terminators(W) # {} => Min(Terminators(W)) \in Terminators(W)
  <2>1. Terminators(W) \in SUBSET Nat
    BY <1>1, <1>2
  <2> QED  BY <2>1, MinOf
<1> QED  BY <1>1, <1>2, <1>3 DEF HeaderEnd, Terminated

LEMMA ReadType ==
    ASSUME NEW W \in Seq(Glyph)
    PROVE  ReadHeader(W) \in Header
<1> DEFINE end == HeaderEnd(W)
           starts == Starts(W, end)
           S == Seq(Char)
           bodies == [i \in DOMAIN W |-> Body(W, end, starts, i)]
<1>1. Len(W) \in Nat /\ DOMAIN W = 1..Len(W) /\ end \in 1..(Len(W) + 1)
  BY EndType
<1>2. starts \in SUBSET (1..Len(W))
  BY <1>1 DEF Starts
<1> HIDE DEF end, starts
<1>3. ASSUME NEW i \in 1..Len(W) PROVE Body(W, end, starts, i) \in S
  <2> DEFINE X == {j \in starts : i < j} \cup {end}
             stop == Min(X)
             s == SubSeq(W, i + 1, stop - 1)
  <2>1. X \in SUBSET (1..(Len(W) + 1)) /\ X \in SUBSET Nat /\ X # {}
    <3>1. \A x \in X : x \in 1..(Len(W) + 1)
      BY <1>1, <1>2
    <3>2. X # {} /\ \A x \in 1..(Len(W) + 1) : x \in Nat
      BY <1>1
    <3> HIDE DEF X
    <3> QED  BY <3>1, <3>2
  <2>2. stop \in X
    BY <2>1, MinOf
  <2>3. stop - 1 \in Nat /\ stop - 1 <= Len(W) /\ i + 1 \in Nat \ {0}
    BY <1>1, <2>1, <2>2
  <2> HIDE DEF stop
  <2>4. s \in Seq(Glyph)
    BY <2>3, PartOf
  <2> HIDE DEF s
  <2>5. Unfold(s) \in Seq(Char)
    BY <2>4, UnfoldType DEF Glyph
  <2>6. TrimSpace(Unfold(s)) \in Seq(Char)
    BY <2>5, TrimEnds
  <2> QED  BY <2>6 DEF Body, Unfold, s, stop
<1> HIDE DEF S
<1>4. bodies \in [1..Len(W) -> S]
  BY <1>1, <1>3
<1>5. bodies \in Seq(S)
  BY <1>1, <1>4
<1> HIDE DEF bodies
<1>6. \A I : At(bodies, I) \in Seq(S)
  BY <1>5, ChosenType
<1>7. ReadHeader(W) = [k \in Range(Keys) |-> At(bodies, {i \in starts : W[i] = Name(k)})]
  BY DEF ReadHeader, bodies, end, starts
<1> QED  BY <1>6, <1>7, CharFacts DEF S

-----------------------------------------------------------------------------
(* Types of what is made of a header *)

BoxChar == {x \in Char : IsBox(x)}

LEMMA BoxFacts ==
    /\ \A x \in BoxChar : x \in Char /\ x[2] \in Address /\ x[3] \in Address
    /\ \A who, addr : IsBox(Box(who, addr)) /\ Box(who, addr)[2] = who /\ Box(who, addr)[3] = addr
<1>1. ASSUME NEW x \in BoxChar PROVE x[2] \in Address /\ x[3] \in Address
  <2>1. IsBox(x) /\ x \in Char
    BY DEF BoxChar
  <2>2. \E who, addr \in Address : x = Box(who, addr)
    BY <2>1 DEF Char, Token, IsBox, WS, Text, Box, Name
  <2> QED  BY <2>2 DEF Box
<1> QED  BY <1>1 DEF BoxChar, IsBox, Box

LEMMA GetType ==
    ASSUME NEW T, NEW h, NEW k, h[k] \in Seq(Seq(T))
    PROVE  /\ Get(h, k) \in Seq(T)
           /\ Boxes(h, k) \in Seq({x \in T : IsBox(x)})
<1> DEFINE S == Seq(T)
           b == h[k]
           g == Get(h, k)
           I == {i \in DOMAIN g : IsBox(g[i])}
           B == {x \in T : IsBox(x)}
<1>1. g \in Seq(T)
  <2>1. b \in Seq(S) /\ <<>> \in S
    OBVIOUS
  <2> HIDE DEF S, b
  <2>2. b # <<>> => b[1] \in S
    BY <2>1
  <2>3. b # <<>> => TrimSpace(b[1]) \in S
    BY <2>2, TrimEnds DEF S
  <2> QED  BY <2>1, <2>3 DEF Get, S, b
<1> HIDE DEF g
<1>2. DOMAIN g = 1..Len(g) /\ \A i \in I : g[i] \in B
  BY <1>1
<1> DEFINE u == At(g, I)
<1> HIDE DEF I, B
<1>3. u \in Seq(T)
  BY <1>1, ChosenType
<1>4. \A x \in 1..Len(u) : \E i \in 1..Len(g) : i \in I /\ u[x] = g[i]
  BY <1>1, AtElements
<1> HIDE DEF u
<1>5. u \in [1..Len(u) -> B] /\ Len(u) \in Nat
  BY <1>2, <1>3, <1>4
<1>6. u \in Seq(B)
  <2> DEFINE n == Len(u)
  <2>1. u \in [1..n -> B] /\ n \in Nat
    BY <1>5
  <2> HIDE DEF n
  <2> QED  BY <2>1
<1> QED  BY <1>1, <1>6 DEF u, I, B, g, Boxes

(* Who is named where the senders were.                                    *)
Via(h, l)    == [i \in DOMAIN Boxes(h, "From") |-> Box(Boxes(h, "From")[i][2], l)]
ReplyTo(h)   == AddressList([i \in DOMAIN Boxes(h, "From") |-> <<Boxes(h, "From")[i]>>])

LEMMA ViaType ==
    ASSUME NEW T \in SUBSET Char, NEW h, Boxes(h, "From") \in Seq({x \in T : IsBox(x)}), WS \in T, NEW l \in Address
    PROVE  /\ Via(h, l) \in Seq({Box(x[2], l) : x \in {y \in T : IsBox(y)}})
           /\ Via(h, l) \in Seq(Char)
           /\ ReplyTo(h) \in Seq(T)
<1> DEFINE f == Boxes(h, "From")
           B == {x \in T : IsBox(x)}
           V == {Box(x[2], l) : x \in B}
           r == [i \in DOMAIN f |-> <<f[i]>>]
           S == Seq(T)
<1>1. f \in Seq(B)
  OBVIOUS
<1>2. \A x \in B : <<x>> \in S
  OBVIOUS
<1>3. V \subseteq Char
  <2> SUFFICES ASSUME NEW x \in B PROVE Box(x[2], l) \in Char
    OBVIOUS
  <2>1. x \in BoxChar
    BY DEF BoxChar
  <2> QED  BY <2>1, BoxFacts, CharFacts
<1>4. Via(h, l) = [i \in DOMAIN f |-> Box(f[i][2], l)]
  BY DEF Via
<1> HIDE DEF f, S
<1>5. DOMAIN f = 1..Len(f) /\ Len(f) \in Nat /\ \A i \in 1..Len(f) : f[i] \in B
  BY <1>1
<1>6. Via(h, l) \in [1..Len(f) -> V] /\ r \in [1..Len(f) -> S]
  BY <1>2, <1>4, <1>5
<1> DEFINE v == Via(h, l)
<1> HIDE DEF r, V, v
<1>7. v \in Seq(V) /\ r \in Seq(S)
  <2> DEFINE n == Len(f)
  <2>1. v \in [1..n -> V] /\ r \in [1..n -> S] /\ n \in Nat
    BY <1>5, <1>6 DEF v
  <2> HIDE DEF n
  <2> QED  BY <2>1
<1>8. AddressList(r) \in Seq(T)
  BY <1>7, AddressListType DEF S
<1>9. v \in Seq(Char)
  BY <1>3, <1>7
<1> QED  BY <1>7, <1>8, <1>9 DEF ReplyTo, r, f, v, V

LEMMA RewrittenType ==
    ASSUME NEW h \in Header, NEW l \in ListAddr
    PROVE  Rewritten(l, h) \in Header
<1> DEFINE B == Seq(Char)
           S == Seq(B)
           type == Get(h, "Content-Type")
<1>1. /\ h \in [Range(Keys) -> S] /\ Header = [Range(Keys) -> S]
      /\ {"Content-Type", "From", "List-Id", "Reply-To", "Sender", "X-Spam"} \subseteq Range(Keys)
  BY CharFacts, KeysFacts
<1>2. \A b \in B : <<b>> \in S
  OBVIOUS
<1>3. <<>> \in S /\ l \in Address
  BY DEF Address
<1>4. type \in B /\ Footer(type) \in B
  <2>1. h["Content-Type"] \in Seq(Seq(Char))
    BY <1>1
  <2>2. type \in B
    BY <2>1, GetType
  <2>3. Text("mixed") \in Char
    BY CharFacts, WordAssumption
  <2>4. <<Text("mixed")>> \in B
    BY <2>3
  <2> QED  BY <2>2, <2>4 DEF Footer
<1>5. <<Box(l, l)>> \in B /\ Via(h, l) \in B /\ ReplyTo(h) \in B
  <2>1. Box(l, l) \in Char /\ WS \in Char /\ Char \in SUBSET Char
    BY <1>3, CharFacts
  <2>2. h["From"] \in Seq(Seq(Char))
    BY <1>1
  <2>3. <<Box(l, l)>> \in B
    BY <2>1
  <2>4. Boxes(h, "From") \in Seq({x \in Char : IsBox(x)})
    BY <2>2, GetType
  <2>5. Via(h, l) \in B /\ ReplyTo(h) \in B
    BY <1>3, <2>1, <2>4, ViaType
  <2> QED  BY <2>3, <2>5
<1>6. Rewritten(l, h) =
        [h EXCEPT !["X-Spam"] = <<>>,
                  !["List-Id"] = <<<<Box(l, l)>>>>,
                  !["From"] = <<IF l \in conf.hide THEN <<Box(l, l)>> ELSE Via(h, l)>>,
                  !["Reply-To"] = IF l \in conf.hide THEN <<>> ELSE <<ReplyTo(h)>>,
                  !["Sender"] = <<>>,
                  !["Content-Type"] = IF type = <<>> THEN @ ELSE <<Footer(type)>>]
  BY DEF Rewritten, Via, ReplyTo
<1> HIDE DEF B, S, type
<1> DEFINE hide == l \in conf.hide
           from == <<IF hide THEN <<Box(l, l)>> ELSE Via(h, l)>>
           rt == IF hide THEN <<>> ELSE <<ReplyTo(h)>>
           id == <<<<Box(l, l)>>>>
           ft == <<Footer(type)>>
<1>7. from \in S /\ rt \in S /\ id \in S /\ ft \in S
  BY <1>2, <1>3, <1>4, <1>5
<1> HIDE DEF from, rt, id, ft
<1>8. Rewritten(l, h) =
        [h EXCEPT !["X-Spam"] = <<>>, !["List-Id"] = id, !["From"] = from, !["Reply-To"] = rt,
                  !["Sender"] = <<>>, !["Content-Type"] = IF type = <<>> THEN @ ELSE ft]
  BY <1>6 DEF from, rt, id, ft
<1> QED  BY <1>1, <1>3, <1>7, <1>8

-----------------------------------------------------------------------------
(* Where mails come from *)

Mail ==
    [from: {Null} \cup [addr: Address, bounce: BOOLEAN], to: Address, bounce: BOOLEAN,
     header: Header, by: {"mta", "ulist"}, hidden: SUBSET Person]

Kept == [list: ListAddr, header: Header, by: {"ulist"}, hidden: SUBSET Person]

(* A mail that was in transit, with another recipient; a notification of   *)
(* the MTA; a notification by a list.                                      *)
Redirected(u) == \E t \in transit : \E a \in ListAddr : u = [t EXCEPT !.to = a]
Notified(u)   == \E t \in transit : u \in Notice(t)
Reported(u)   ==
    \E l \in ListAddr : \E from \in {Null, Bounces(l)} : \E r \in Address : \E a \in Address :
       u = Letter(from, r, FALSE, FromList(l, a), "ulist", {})

(* A mail that was read, and rewritten by a list.                          *)
Sent(u) ==
    \E s \in transit \cup held : \E l \in ListAddr :
       /\ ~ForwardFails(l, ReadHeader(Wire(s)))
       /\ u \in Forwarded(l, ReadHeader(Wire(s)), s.hidden)

(* A mail that was read, and written to a file.                            *)
Stored(m) ==
    \E t \in transit : \E l \in ListAddr :
       /\ Writable(ReadHeader(Wire(t))) /\ ~NoFrom(ReadHeader(Wire(t)))
       /\ m = Filed(l, ReadHeader(Wire(t)), t.hidden)

LEMMA ConfFacts ==
    ASSUME conf \in Config
    PROVE  \A l \in ListAddr : /\ conf.receivers[l] \subseteq Address /\ conf.bounces[l] \subseteq Address
                               /\ conf.notifieds[l] \subseteq Address
  BY DEF Config

LEMMA ReportsOf ==
    ASSUME TypeOK, NEW l \in ListAddr
    PROVE  /\ \A u \in NotifyMods(l) : Reported(u)
           /\ \A u \in {Letter(Null, r, FALSE, FromList(l, l), "ulist", {}) : r \in conf.bounces[l]} : Reported(u)
<1>1. conf.bounces[l] \subseteq Address /\ conf.notifieds[l] \subseteq Address /\ l \in Address
  BY ConfFacts DEF TypeOK, Address
<1>2. ASSUME NEW u \in NotifyMods(l) PROVE Reported(u)
  <2>1. PICK r \in conf.notifieds[l] : u = Letter(Bounces(l), r, FALSE, FromList(l, r), "ulist", {})
    BY <1>2 DEF NotifyMods
  <2> QED  BY <1>1, <2>1 DEF Reported
<1>3. ASSUME NEW r \in conf.bounces[l] PROVE Reported(Letter(Null, r, FALSE, FromList(l, l), "ulist", {}))
  BY <1>1 DEF Reported
<1> QED  BY <1>2, <1>3

LEMMA StepCases ==
    ASSUME TypeOK, [Next]_vars
    PROVE  /\ conf' = conf
           /\ \A u \in transit' : u \in transit \/ Redirected(u) \/ Notified(u) \/ Reported(u) \/ Sent(u)
           /\ \A m \in held' : m \in held \/ Stored(m)
<1> USE DEF Pass
<1>1. ASSUME NEW t \in transit, Receive(t)
      PROVE  /\ conf' = conf
             /\ \A u \in transit' : u \in transit \/ Redirected(u) \/ Notified(u) \/ Reported(u) \/ Sent(u)
             /\ \A m \in held' : m \in held \/ Stored(m)
  <2> DEFINE l == t.to
             h == ReadHeader(Wire(t))
             perm == t.from = Null \/ BccSpam(l, h) \/ Loop(l, h) \/ NoFrom(h) \/ GetAction(l, h) = "reject"
  <2>1. /\ conf' = conf /\ l \in ListAddr
        /\ \/ Pass(t, Notice(t)) /\ UNCHANGED held
           \/ Pass(t, Forwarded(l, h, t.hidden)) /\ UNCHANGED held /\ ~ForwardFails(l, h)
           \/ /\ Pass(t, NotifyMods(l)) /\ held' = held \cup {Filed(l, h, t.hidden)}
              /\ Writable(h) /\ ~NoFrom(h)
    BY <1>1 DEF Receive
  <2> HIDE DEF l, h
  <2>2. CASE Pass(t, Notice(t)) /\ UNCHANGED held
    BY <2>1, <2>2 DEF Notified
  <2>3. CASE Pass(t, Forwarded(l, h, t.hidden)) /\ UNCHANGED held /\ ~ForwardFails(l, h)
    <3>1. \A u \in Forwarded(l, h, t.hidden) : Sent(u)
      BY <2>1, <2>3 DEF Sent, h
    <3> QED  BY <2>1, <2>3, <3>1
  <2>4. CASE /\ Pass(t, NotifyMods(l)) /\ held' = held \cup {Filed(l, h, t.hidden)}
             /\ Writable(h) /\ ~NoFrom(h)
    <3>1. Stored(Filed(l, h, t.hidden))
      BY <2>1, <2>4 DEF Stored, h
    <3>2. \A u \in NotifyMods(l) : Reported(u)
      BY <2>1, ReportsOf
    <3> QED  BY <2>1, <2>4, <3>1, <3>2
  <2> QED  BY <2>1, <2>2, <2>3, <2>4
<1>2. ASSUME NEW t \in transit, Bounce(t)
      PROVE  /\ conf' = conf
             /\ \A u \in transit' : u \in transit \/ Redirected(u) \/ Notified(u) \/ Reported(u) \/ Sent(u)
             /\ \A m \in held' : m \in held \/ Stored(m)
  <2>1. /\ conf' = conf /\ held' = held /\ t.to \in ListAddr
        /\ \/ transit' = (transit \ {t}) \cup Notice(t)
           \/ transit' = (transit \ {t}) \cup
                            {Letter(Null, r, FALSE, FromList(t.to, t.to), "ulist", {}) : r \in conf.bounces[t.to]}
    BY <1>2 DEF Bounce
  <2>2. \A u \in {Letter(Null, r, FALSE, FromList(t.to, t.to), "ulist", {}) : r \in conf.bounces[t.to]} : Reported(u)
    BY <2>1, ReportsOf
  <2>3. \A u \in Notice(t) : Notified(u)
    BY DEF Notified
  <2> QED  BY <2>1, <2>2, <2>3
<1>3. ASSUME NEW t \in transit, Deliver(t)
      PROVE  /\ conf' = conf
             /\ \A u \in transit' : u \in transit \/ Redirected(u) \/ Notified(u) \/ Reported(u) \/ Sent(u)
             /\ \A m \in held' : m \in held \/ Stored(m)
  <2>1. /\ conf' = conf /\ held' = held
        /\ \/ \E a \in ListAddr : transit' = (transit \ {t}) \cup {[t EXCEPT !.to = a]}
           \/ transit' = (transit \ {t}) \cup {}
           \/ transit' = (transit \ {t}) \cup Notice(t)
    BY <1>3 DEF Deliver
  <2>2. \A a \in ListAddr : Redirected([t EXCEPT !.to = a])
    BY DEF Redirected
  <2>3. \A u \in Notice(t) : Notified(u)
    BY DEF Notified
  <2> QED  BY <2>1, <2>2, <2>3
<1>4. ASSUME NEW m \in held, Moderate(m)
      PROVE  /\ conf' = conf
             /\ \A u \in transit' : u \in transit \/ Redirected(u) \/ Notified(u) \/ Reported(u) \/ Sent(u)
             /\ \A x \in held' : x \in held \/ Stored(x)
  <2> DEFINE h == ReadHeader(Wire(m))
  <2>1. m.by = "ulist" /\ m.list \in ListAddr
    BY DEF TypeOK
  <2>2. Wire(m) = WriteHeader(m.header)
    BY <2>1 DEF Wire
  <2>3. /\ conf' = conf /\ held' = held \ {m}
        /\ \/ ~ForwardFails(m.list, h) /\ transit' = transit \cup Forwarded(m.list, h, m.hidden)
           \/ transit' = transit
    BY <1>4, <2>2 DEF Moderate
  <2> HIDE DEF h
  <2>4. ASSUME ~ForwardFails(m.list, h) PROVE \A u \in Forwarded(m.list, h, m.hidden) : Sent(u)
    BY <2>1, <2>4 DEF Sent, h
  <2> QED  BY <2>3, <2>4
<1>5. CASE UNCHANGED vars
  BY <1>5 DEF vars
<1>6. CASE Next
  BY <1>1, <1>2, <1>3, <1>4, <1>6 DEF Next
<1> QED  BY <1>5, <1>6

LEMMA NoHeaderFacts ==
    /\ NoHeader \in Header /\ Writable(NoHeader)
    /\ \A l \in ListAddr : \A a \in Address : FromList(l, a) \in Header /\ Writable(FromList(l, a))
<1> DEFINE S == Seq(Seq(Char))
           t == <<<<Text("plain")>>>>
<1>1. Header = [Range(Keys) -> S] /\ <<>> \in S
  BY CharFacts
<1>2. NoHeader \in Header /\ \A k \in Range(Keys) : NoHeader[k] = <<>>
  BY <1>1 DEF NoHeader
<1>3. Writable(NoHeader)
  BY <1>2 DEF Writable
<1>4. ASSUME NEW l \in ListAddr, NEW a \in Address
      PROVE  FromList(l, a) \in Header /\ Writable(FromList(l, a))
  <2> DEFINE x == <<<<Box(l, l)>>>>
             y == <<<<Box(a, a)>>>>
  <2>1. Box(l, l) \in Char /\ Box(a, a) \in Char /\ Text("plain") \in Char
    BY CharFacts, WordAssumption DEF Address
  <2>2. x \in S /\ y \in S /\ t \in S
    BY <2>1
  <2>3. FromList(l, a) = [NoHeader EXCEPT !["Content-Type"] = t, !["From"] = x, !["To"] = y]
    BY DEF FromList
  <2> HIDE DEF x, y, t, S
  <2>4. FromList(l, a) \in Header
    BY <1>1, <1>2, <2>2, <2>3
  <2>5. \A k \in Range(Keys) : k \notin {"Content-Type", "From", "To"} => FromList(l, a)[k] = <<>>
    BY <1>1, <1>2, <2>3
  <2>6. Writable(FromList(l, a))
    BY <2>5, KeysAssumption DEF Writable
  <2> QED  BY <2>4, <2>6
<1> QED  BY <1>2, <1>3, <1>4

(* What ulist has written is read as it was written.                       *)
WrittenFits == \A t \in transit \cup held : t.by = "ulist" => Writable(t.header)

LEMMA WireType ==
    ASSUME NEW s, s.header \in Header, s.by = "ulist" => Writable(s.header)
    PROVE  Wire(s) \in Seq(Glyph) /\ ReadHeader(Wire(s)) \in Header
<1>1. Wire(s) \in Seq(Glyph)
  BY WriteType, ComposedType DEF Wire
<1> QED  BY <1>1, ReadType

LEMMA NoticeType ==
    ASSUME NEW t \in Mail
    PROVE  \A u \in Notice(t) : u \in Mail /\ u.by = "mta" /\ u.hidden = {} /\ u.header = NoHeader
<1> SUFFICES ASSUME NEW u \in Notice(t) PROVE u \in Mail /\ u.by = "mta" /\ u.hidden = {} /\ u.header = NoHeader
  OBVIOUS
<1>1. t.from # Null /\ u = Letter(Null, t.from.addr, t.from.bounce, NoHeader, "mta", {})
  BY DEF Notice
<1>2. t.from \in [addr: Address, bounce: BOOLEAN]
  BY <1>1 DEF Mail
<1> QED  BY <1>1, <1>2, NoHeaderFacts DEF Letter, Mail

LEMMA ForwardedType ==
    ASSUME conf \in Config, NEW l \in ListAddr, NEW h \in Header, NEW hidden \in SUBSET Person
    PROVE  \A u \in Forwarded(l, h, hidden) : /\ u \in Mail /\ u.by = "ulist" /\ u.header = Rewritten(l, h)
                                              /\ l \in conf.hide => u.hidden = hidden \cup Named(h)
                                              /\ l \notin conf.hide => u.hidden = hidden
<1> DEFINE H == IF l \in conf.hide THEN hidden \cup Named(h) ELSE hidden
           g == Rewritten(l, h)
<1> SUFFICES ASSUME NEW u \in Forwarded(l, h, hidden)
             PROVE  u \in Mail /\ u.by = "ulist" /\ u.header = g /\ u.hidden = H
  BY Zenon
<1>1. PICK r \in conf.receivers[l] : u = Letter(Bounces(l), r, FALSE, g, "ulist", H)
  BY DEF Forwarded
<1>2. r \in Address /\ l \in Address
  BY <1>1, ConfFacts DEF Address
<1>3. g \in Header
  BY RewrittenType
<1>4. H \in SUBSET Person
  BY DEF Named, PeopleIn
<1>5. Bounces(l) \in [addr: Address, bounce: BOOLEAN]
  BY <1>2 DEF Bounces
<1> HIDE DEF H, g
<1> QED  BY <1>1, <1>2, <1>3, <1>4, <1>5 DEF Letter, Mail

LEMMA TypeInit ==
    ASSUME Init
    PROVE  TypeOK /\ WrittenFits
<1>1. PICK c \in Cases :
        /\ conf = c.conf
        /\ transit = {Letter([addr |-> c.sender, bounce |-> FALSE], l, FALSE, c.header, "mta", {}) :
                        l \in ListAddr \cap Addrs(c.header, "To")}
        /\ held = {}
  BY DEF Init
<1>2. c.conf \in Config /\ c.sender \in Person /\ c.header \in [Range(Keys) -> Seq(Seq(Token))]
  BY CasesAssumption
<1>3. c.header \in Header
  <2>1. Seq(Token) \subseteq Seq(Char)
    BY DEF Char
  <2>2. Seq(Seq(Token)) \subseteq Seq(Seq(Char))
    BY <2>1
  <2> QED  BY <1>2, <2>2, CharFacts
<1>4. [addr |-> c.sender, bounce |-> FALSE] \in [addr: Address, bounce: BOOLEAN]
  BY <1>2 DEF Address
<1>5. ASSUME NEW t \in transit PROVE t \in Mail /\ t.by = "mta"
  <2> DEFINE a == [addr |-> c.sender, bounce |-> FALSE]
             h == c.header
  <2>1. PICK l \in ListAddr : t = Letter(a, l, FALSE, h, "mta", {})
    BY <1>1
  <2>2. a \in [addr: Address, bounce: BOOLEAN] /\ h \in Header /\ l \in Address
    BY <1>3, <1>4 DEF Address
  <2> HIDE DEF a, h
  <2> QED  BY <2>1, <2>2 DEF Letter, Mail
<1>6. transit \subseteq Mail /\ held = {}
  BY <1>1, <1>5
<1> QED  BY <1>1, <1>2, <1>5, <1>6 DEF TypeOK, Mail, WrittenFits

LEMMA TypeStep ==
    ASSUME TypeOK, WrittenFits, [Next]_vars
    PROVE  TypeOK' /\ WrittenFits'
<1>1. conf \in Config /\ transit \subseteq Mail /\ held \subseteq Kept
  BY DEF TypeOK, Mail, Kept
<1>2. /\ conf' = conf
      /\ \A u \in transit' : u \in transit \/ Redirected(u) \/ Notified(u) \/ Reported(u) \/ Sent(u)
      /\ \A m \in held' : m \in held \/ Stored(m)
  BY StepCases
<1>3. ASSUME NEW s \in transit \cup held
      PROVE  ReadHeader(Wire(s)) \in Header /\ s.hidden \in SUBSET Person
  <2>1. s.header \in Header /\ s.hidden \in SUBSET Person /\ (s.by = "ulist" => Writable(s.header))
    BY <1>1 DEF Mail, Kept, WrittenFits
  <2> QED  BY <2>1, WireType
<1>4. ASSUME NEW u \in transit' PROVE u \in Mail /\ (u.by = "ulist" => Writable(u.header))
  <2>1. CASE u \in transit
    BY <1>1, <2>1 DEF WrittenFits
  <2>2. CASE Redirected(u)
    <3>1. PICK t \in transit, a \in ListAddr : u = [t EXCEPT !.to = a]
      BY <2>2 DEF Redirected
    <3>2. t \in Mail /\ a \in Address /\ (t.by = "ulist" => Writable(t.header))
      BY <1>1 DEF Address, WrittenFits
    <3> QED  BY <3>1, <3>2 DEF Mail
  <2>3. CASE Notified(u)
    BY <1>1, <2>3, NoticeType DEF Notified
  <2>4. CASE Reported(u)
    <3>0. PICK l \in ListAddr : \E from \in {Null, Bounces(l)} : \E r \in Address : \E a \in Address :
            u = Letter(from, r, FALSE, FromList(l, a), "ulist", {})
      BY <2>4 DEF Reported
    <3>1. PICK from \in {Null, Bounces(l)}, r \in Address, a \in Address :
            u = Letter(from, r, FALSE, FromList(l, a), "ulist", {})
      BY <3>0
    <3>2. FromList(l, a) \in Header /\ Writable(FromList(l, a))
      BY NoHeaderFacts
    <3>3. from \in {Null} \cup [addr: Address, bounce: BOOLEAN]
      <4>1. l \in Address
        BY <3>0 DEF Address
      <4>2. CASE from = Null
        BY <4>2
      <4>3. CASE from = Bounces(l)
        BY <4>1, <4>3 DEF Bounces
      <4> QED  BY <3>1, <4>2, <4>3
    <3> QED  BY <3>1, <3>2, <3>3 DEF Letter, Mail
  <2>5. CASE Sent(u)
    <3>1. PICK s \in transit \cup held, l \in ListAddr :
            ~ForwardFails(l, ReadHeader(Wire(s))) /\ u \in Forwarded(l, ReadHeader(Wire(s)), s.hidden)
      BY <2>5 DEF Sent
    <3>2. u \in Mail /\ u.header = Rewritten(l, ReadHeader(Wire(s)))
      BY <1>1, <1>3, <3>1, ForwardedType
    <3> QED  BY <3>1, <3>2 DEF ForwardFails
  <2> QED  BY <1>2, <2>1, <2>2, <2>3, <2>4, <2>5
<1>5. ASSUME NEW m \in held' PROVE m \in Kept /\ Writable(m.header)
  <2>1. CASE m \in held
    BY <1>1, <2>1 DEF WrittenFits, Kept
  <2>2. CASE Stored(m)
    <3>1. PICK t \in transit, l \in ListAddr :
            Writable(ReadHeader(Wire(t))) /\ m = Filed(l, ReadHeader(Wire(t)), t.hidden)
      BY <2>2 DEF Stored
    <3>2. ReadHeader(Wire(t)) \in Header /\ t.hidden \in SUBSET Person
      BY <1>3
    <3> QED  BY <3>1, <3>2 DEF Filed, Kept
  <2> QED  BY <1>2, <2>1, <2>2
<1>6. TypeOK'
  <2>1. conf' \in Config /\ transit' \subseteq Mail /\ held' \subseteq Kept
    BY <1>1, <1>2, <1>4, <1>5
  <2> QED  BY <2>1 DEF TypeOK, Mail, Kept
<1>7. WrittenFits'
  BY <1>4, <1>5 DEF WrittenFits
<1> QED  BY <1>6, <1>7

(* Every header that is sent, kept or read is one: each body is made of    *)
(* words, addresses, white space and names of fields, and no end of a line *)
(* comes to be in one (header.go:98-170, lmtp.go:155-321).                 *)
THEOREM ForwardTypes == Spec => []TypeOK
<1>1. Init => TypeOK /\ WrittenFits
  BY TypeInit
<1>2. (TypeOK /\ WrittenFits) /\ [Next]_vars => (TypeOK /\ WrittenFits)'
  BY TypeStep
<1> QED  BY <1>1, <1>2, PTL DEF Spec

-----------------------------------------------------------------------------
(* Where fields begin on the wire *)

IsName(t) == \E k \in Range(Keys) : t = Name(k)

(* Fields begin with a name, and never an empty line.                      *)
Fields ==
    {u \in Seq(Glyph) :
       u # <<>> => /\ IsName(u[1])
                   /\ u[Len(u)] = CRLF \/ IsName(u[Len(u)])
                   /\ \A i \in 1..(Len(u) - 1) : u[i] = CRLF => u[i + 1] # CRLF}

(* Another field may follow on a line of its own.                          *)
Closed(u) == u = <<>> \/ u[Len(u)] = CRLF

Begins(u)  == {i \in 1..Len(u) : BeginsLine(u, i) /\ u[i] # WS}
Stop(u, i) == Min({j \in Begins(u) : i < j} \cup {Len(u) + 1})
Rest(u, i) == SubSeq(u, i + 1, Stop(u, i) - 1)

LEMMA StopOf ==
    ASSUME NEW T, NEW u \in Seq(T), NEW i \in 1..Len(u)
    PROVE  /\ Stop(u, i) \in (i + 1)..(Len(u) + 1)
           /\ Stop(u, i) = Len(u) + 1 \/ Stop(u, i) \in Begins(u)
           /\ \A j \in Begins(u) : i < j => Stop(u, i) <= j
<1> DEFINE X == {j \in Begins(u) : i < j} \cup {Len(u) + 1}
<1>1. Len(u) \in Nat /\ i \in Nat /\ i <= Len(u)
  OBVIOUS
<1>2. \A j \in Begins(u) : j \in 1..Len(u)
  BY DEF Begins
<1>3. \A x \in X : x \in (i + 1)..(Len(u) + 1) /\ (x = Len(u) + 1 \/ x \in Begins(u))
  BY <1>1, <1>2
<1>4. X # {} /\ X \in SUBSET Nat
  <2>1. \A x \in (i + 1)..(Len(u) + 1) : x \in Nat
    BY <1>1
  <2> QED  BY <1>3, <2>1
<1>5. Min(X) \in X /\ \A x \in X : Min(X) <= x
  BY <1>4, MinOf
<1>6. \A j \in Begins(u) : i < j => j \in X
  OBVIOUS
<1> HIDE DEF X
<1> QED  BY <1>3, <1>5, <1>6 DEF Stop, X

LEMMA StopIs ==
    ASSUME NEW T, NEW u \in Seq(T), NEW i \in 1..Len(u), NEW x \in (i + 1)..(Len(u) + 1),
           x = Len(u) + 1 \/ x \in Begins(u), \A j \in Begins(u) : i < j => x <= j
    PROVE  Stop(u, i) = x
<1>1. Len(u) \in Nat /\ i \in Nat /\ i <= Len(u)
  OBVIOUS
<1>2. /\ Stop(u, i) \in (i + 1)..(Len(u) + 1)
      /\ Stop(u, i) = Len(u) + 1 \/ Stop(u, i) \in Begins(u)
      /\ \A j \in Begins(u) : i < j => Stop(u, i) <= j
  BY StopOf
<1>3. Stop(u, i) <= x
  BY <1>1, <1>2
<1>4. x <= Stop(u, i)
  BY <1>1, <1>2
<1> QED  BY <1>1, <1>2, <1>3, <1>4

LEMMA RestType ==
    ASSUME NEW T, NEW u \in Seq(T), NEW i \in 1..Len(u)
    PROVE  /\ Rest(u, i) \in Seq(T) /\ Len(Rest(u, i)) = Stop(u, i) - 1 - i
           /\ \A j \in 1..(Stop(u, i) - 1 - i) : Rest(u, i)[j] = u[i + j]
<1> DEFINE x == Stop(u, i)
<1>1. x \in (i + 1)..(Len(u) + 1)
  BY StopOf
<1> HIDE DEF x
<1>2. Len(u) \in Nat /\ i + 1 \in Nat \ {0} /\ x - 1 \in Nat /\ x - 1 <= Len(u)
  BY <1>1
<1>3. /\ SubSeq(u, i + 1, x - 1) \in Seq(T)
      /\ Len(SubSeq(u, i + 1, x - 1)) = IF i + 1 <= x - 1 THEN (x - 1) - (i + 1) + 1 ELSE 0
      /\ \A j \in 1..((x - 1) - (i + 1) + 1) : SubSeq(u, i + 1, x - 1)[j] = u[(i + 1) + j - 1]
  BY <1>2, PartOf
<1>4. \A j \in 1..(x - 1 - i) : j \in 1..((x - 1) - (i + 1) + 1) /\ (i + 1) + j - 1 = i + j
  BY <1>1, <1>2
<1>5. Len(SubSeq(u, i + 1, x - 1)) = x - 1 - i
  BY <1>1, <1>2, <1>3
<1> QED  BY <1>3, <1>4, <1>5 DEF Rest, x

(* Equal parts of two sequences.                                           *)
LEMMA SamePart ==
    ASSUME NEW T, NEW a \in Seq(T), NEW b \in Seq(T), NEW d \in Nat, NEW i \in Nat \ {0}, NEW x \in Nat,
           d + x <= Len(a), x <= Len(b), \A j \in i..x : a[d + j] = b[j]
    PROVE  SubSeq(a, d + i, d + x) = SubSeq(b, i, x)
<1> DEFINE p == SubSeq(a, d + i, d + x)
           q == SubSeq(b, i, x)
<1>1. d + i \in Nat \ {0} /\ d + x \in Nat /\ i \in Nat /\ i >= 1
  OBVIOUS
<1>2. /\ p \in Seq(T) /\ Len(p) = (IF d + i <= d + x THEN (d + x) - (d + i) + 1 ELSE 0)
      /\ \A j \in 1..((d + x) - (d + i) + 1) : p[j] = a[(d + i) + j - 1]
  BY <1>1, PartOf
<1>3. /\ q \in Seq(T) /\ Len(q) = (IF i <= x THEN x - i + 1 ELSE 0)
      /\ \A j \in 1..(x - i + 1) : q[j] = b[i + j - 1]
  BY PartOf
<1> HIDE DEF p, q
<1>4. Len(p) = Len(q)
  BY <1>1, <1>2, <1>3
<1>5. ASSUME NEW j \in 1..Len(p) PROVE p[j] = q[j]
  <2>1. i <= x /\ j \in 1..(x - i + 1) /\ j \in 1..((d + x) - (d + i) + 1)
    BY <1>1, <1>2
  <2>2. i + j - 1 \in i..x /\ (d + i) + j - 1 = d + (i + j - 1)
    BY <1>1, <2>1
  <2>3. p[j] = a[(d + i) + j - 1] /\ q[j] = b[i + j - 1]
    BY <1>2, <1>3, <2>1
  <2> QED  BY <2>2, <2>3
<1>6. p = q
  BY <1>2, <1>3, <1>4, <1>5, SeqEqual
<1> QED  BY <1>6 DEF p, q

LEMMA FieldsType ==
    ASSUME NEW u \in Fields
    PROVE  /\ u \in Seq(Glyph) /\ Len(u) \in Nat
           /\ u # <<>> => /\ Len(u) >= 1 /\ IsName(u[1]) /\ 1 \in Begins(u)
                          /\ u[Len(u)] = CRLF \/ IsName(u[Len(u)])
           /\ u = <<>> => Len(u) = 0
           /\ \A i \in 1..(Len(u) - 1) : u[i] = CRLF => u[i + 1] # CRLF
<1>1. u \in Seq(Glyph) /\ Len(u) \in Nat
  BY DEF Fields
<1>2. u # <<>> => Len(u) >= 1
  BY <1>1
<1>3. u = <<>> => Len(u) = 0
  OBVIOUS
<1>4. u # <<>> => IsName(u[1]) /\ (u[Len(u)] = CRLF \/ IsName(u[Len(u)]))
  BY DEF Fields
<1>5. \A i \in 1..(Len(u) - 1) : u[i] = CRLF => u[i + 1] # CRLF
  BY <1>1, <1>3 DEF Fields
<1>6. \A t : IsName(t) => t # WS
  BY TokensDiffer DEF IsName
<1>7. u # <<>> => 1 \in Begins(u)
  BY <1>1, <1>2, <1>4, <1>6 DEF Begins, BeginsLine
<1> QED  BY <1>1, <1>2, <1>3, <1>4, <1>5, <1>7

(* What is known of two sequences of fields, one after the other.          *)
LEMMA BeginsConcat ==
    ASSUME NEW a \in Fields, NEW b \in Seq(Glyph)
    PROVE  /\ \A i \in 1..Len(a) : i \in Begins(a \o b) <=> i \in Begins(a)
           /\ \A j \in 1..Len(b) : Len(a) + j \in Begins(a \o b)
                                      <=> (b[j] # WS /\ IF j = 1 THEN Closed(a) ELSE b[j - 1] = CRLF)
<1> DEFINE ab == a \o b
<1>1. a \in Seq(Glyph) /\ Len(a) \in Nat /\ Len(b) \in Nat /\ (a = <<>> <=> Len(a) = 0)
  BY FieldsType
<1>2. /\ ab \in Seq(Glyph) /\ Len(ab) = Len(a) + Len(b)
      /\ \A i \in 1..Len(ab) : ab[i] = IF i <= Len(a) THEN a[i] ELSE b[i - Len(a)]
  BY <1>1, ConcatProperties
<1> HIDE DEF ab
<1>3. \A i \in 1..Len(a) : i \in 1..Len(ab) /\ ab[i] = a[i]
  BY <1>1, <1>2
<1>4. ASSUME NEW j \in 1..Len(b) PROVE Len(a) + j \in 1..Len(ab) /\ ab[Len(a) + j] = b[j]
  <2>1. Len(a) + j \in 1..Len(ab) /\ ~(Len(a) + j <= Len(a)) /\ (Len(a) + j) - Len(a) = j
    BY <1>1, <1>2
  <2> QED  BY <1>2, <2>1
<1>5. ASSUME NEW i \in 1..Len(a) PROVE i \in Begins(ab) <=> i \in Begins(a)
  <2>1. BeginsLine(ab, i) <=> BeginsLine(a, i)
    <3>1. CASE i = 1
      BY <3>1 DEF BeginsLine
    <3>2. CASE i # 1
      <4>1. i - 1 \in 1..Len(a)
        BY <1>1, <3>2
      <4>2. ab[i - 1] = a[i - 1]
        BY <1>3, <4>1
      <4> QED  BY <3>2, <4>2 DEF BeginsLine
    <3> QED  BY <3>1, <3>2
  <2> QED  BY <1>3, <2>1 DEF Begins
<1>6. ASSUME NEW j \in 1..Len(b)
      PROVE  Len(a) + j \in Begins(ab) <=> (b[j] # WS /\ IF j = 1 THEN Closed(a) ELSE b[j - 1] = CRLF)
  <2>1. CASE j = 1
    <3>1. Len(a) + 1 = 1 <=> a = <<>>
      BY <1>1
    <3>2. (Len(a) + 1) - 1 = Len(a)
      BY <1>1
    <3>3. a # <<>> => ab[Len(a)] = a[Len(a)]
      <4>1. a # <<>> => Len(a) \in 1..Len(a)
        BY <1>1
      <4> QED  BY <1>3, <4>1
    <3>4. BeginsLine(ab, Len(a) + 1) <=> Closed(a)
      BY <3>1, <3>2, <3>3 DEF BeginsLine, Closed
    <3> QED  BY <1>4, <2>1, <3>4 DEF Begins
  <2>2. CASE j # 1
    <3>1. j - 1 \in 1..Len(b) /\ (Len(a) + j) - 1 = Len(a) + (j - 1) /\ Len(a) + j # 1
      BY <1>1, <2>2
    <3>2. ab[(Len(a) + j) - 1] = b[j - 1]
      BY <1>4, <3>1
    <3>3. BeginsLine(ab, Len(a) + j) <=> b[j - 1] = CRLF
      BY <3>1, <3>2 DEF BeginsLine
    <3> QED  BY <1>4, <2>2, <3>3 DEF Begins
  <2> QED  BY <2>1, <2>2
<1> QED  BY <1>5, <1>6 DEF ab

LEMMA FieldsConcat ==
    ASSUME NEW a \in Fields, NEW b \in Fields
    PROVE  a \o b \in Fields /\ (Closed(a) /\ Closed(b) => Closed(a \o b))
<1> DEFINE ab == a \o b
           n == Len(a)
<1>1. /\ a \in Seq(Glyph) /\ n \in Nat
      /\ (a # <<>> => n >= 1 /\ IsName(a[1]) /\ (a[n] = CRLF \/ IsName(a[n])))
      /\ (a = <<>> => n = 0)
      /\ \A i \in 1..(n - 1) : a[i] = CRLF => a[i + 1] # CRLF
  BY FieldsType
<1>2. /\ b \in Seq(Glyph) /\ Len(b) \in Nat
      /\ (b # <<>> => Len(b) >= 1 /\ IsName(b[1]) /\ (b[Len(b)] = CRLF \/ IsName(b[Len(b)])))
      /\ (b = <<>> => Len(b) = 0)
      /\ \A i \in 1..(Len(b) - 1) : b[i] = CRLF => b[i + 1] # CRLF
  BY FieldsType
<1>3. CASE b = <<>>
  <2>1. ab = a
    BY <1>1, <1>3, ConcatEmptySeq
  <2> QED  BY <2>1
<1>4. CASE a = <<>>
  <2>1. ab = b
    BY <1>2, <1>4, ConcatEmptySeq
  <2> QED  BY <2>1
<1>5. CASE a # <<>> /\ b # <<>>
  <2>1. /\ ab \in Seq(Glyph) /\ Len(ab) = n + Len(b)
        /\ \A i \in 1..Len(ab) : ab[i] = IF i <= n THEN a[i] ELSE b[i - n]
    BY <1>1, <1>2, ConcatProperties
  <2> HIDE DEF ab
  <2>2. \A i \in 1..n : ab[i] = a[i]
    BY <1>1, <1>2, <2>1
  <2>3. ASSUME NEW j \in 1..Len(b) PROVE ab[n + j] = b[j]
    <3>1. n + j \in 1..Len(ab) /\ ~(n + j <= n) /\ (n + j) - n = j
      BY <1>1, <1>2, <2>1
    <3> QED  BY <2>1, <3>1
  <2>4. 1 \in 1..n /\ 1 \in 1..Len(b) /\ Len(b) \in 1..Len(b) /\ n + Len(b) = Len(ab) /\ Len(ab) >= 1
    BY <1>1, <1>2, <1>5, <2>1
  <2>5. ab[1] = a[1] /\ ab[Len(ab)] = b[Len(b)] /\ ab[n + 1] = b[1]
    BY <2>2, <2>3, <2>4
  <2> HIDE DEF n
  <2>6. ASSUME NEW i \in 1..(Len(ab) - 1), ab[i] = CRLF PROVE ab[i + 1] # CRLF
    <3>1. CASE i < n
      <4>1. i \in 1..(n - 1) /\ i \in 1..n /\ i + 1 \in 1..n
        BY <1>1, <3>1
      <4> QED  BY <1>1, <2>2, <2>6, <4>1
    <3>2. CASE i = n
      BY <1>2, <1>5, <2>5, <3>2, TokensDiffer DEF IsName
    <3>3. CASE i > n
      <4>1. i - n \in 1..(Len(b) - 1) /\ i - n \in 1..Len(b) /\ (i - n) + 1 \in 1..Len(b)
            /\ n + (i - n) = i /\ n + ((i - n) + 1) = i + 1
        BY <1>1, <1>2, <2>1, <3>3
      <4>2. ab[i] = b[i - n] /\ ab[i + 1] = b[(i - n) + 1]
        BY <2>3, <4>1
      <4> QED  BY <1>2, <2>6, <4>1, <4>2
    <3> QED  BY <1>1, <2>1, <3>1, <3>2, <3>3
  <2>7. ab \in Fields
    BY <1>1, <1>2, <1>5, <2>1, <2>5, <2>6 DEF Fields
  <2>8. Closed(b) => Closed(ab)
    BY <1>5, <2>5 DEF Closed
  <2> QED  BY <2>7, <2>8 DEF ab
<1> QED  BY <1>3, <1>4, <1>5

(* The body of a field in the second sequence is where it was.             *)
LEMMA RestConcatRight ==
    ASSUME NEW a \in Fields, NEW b \in Fields, NEW j \in 1..Len(b)
    PROVE  Rest(a \o b, Len(a) + j) = Rest(b, j)
<1> DEFINE ab == a \o b
           n == Len(a)
           x == Stop(b, j)
<1>1. a \in Seq(Glyph) /\ n \in Nat /\ b \in Seq(Glyph) /\ Len(b) \in Nat /\ j \in Nat /\ j >= 1 /\ j <= Len(b)
  BY FieldsType
<1>2. /\ ab \in Seq(Glyph) /\ Len(ab) = n + Len(b)
      /\ \A i \in 1..Len(ab) : ab[i] = IF i <= n THEN a[i] ELSE b[i - n]
  BY <1>1, ConcatProperties
<1>3. \A y \in 1..Len(b) : n + y \in Begins(ab) <=> (b[y] # WS /\ IF y = 1 THEN Closed(a) ELSE b[y - 1] = CRLF)
  BY <1>1, BeginsConcat
<1> HIDE DEF ab, n
<1>4. /\ x \in (j + 1)..(Len(b) + 1)
      /\ x = Len(b) + 1 \/ x \in Begins(b)
      /\ \A y \in Begins(b) : j < y => x <= y
  BY <1>1, StopOf
<1> HIDE DEF x
<1>5. \A y \in 2..Len(b) : n + y \in Begins(ab) <=> y \in Begins(b)
  <2> TAKE y \in 2..Len(b)
  <2>1. y \in 1..Len(b) /\ y # 1
    BY <1>1
  <2>2. y \in Begins(b) <=> b[y] # WS /\ b[y - 1] = CRLF
    BY <2>1 DEF Begins, BeginsLine
  <2> QED  BY <1>3, <2>1, <2>2
<1>6. n + j \in 1..Len(ab) /\ n + x \in ((n + j) + 1)..(Len(ab) + 1)
  BY <1>1, <1>2, <1>4
<1>7. n + x = Len(ab) + 1 \/ n + x \in Begins(ab)
  <2>1. CASE x = Len(b) + 1
    BY <1>1, <1>2, <2>1
  <2>2. CASE x # Len(b) + 1
    <3>1. x \in 2..Len(b) /\ x \in Begins(b)
      BY <1>1, <1>4, <2>2
    <3> QED  BY <1>5, <3>1
  <2> QED  BY <2>1, <2>2
<1>8. ASSUME NEW y \in Begins(ab), n + j < y PROVE n + x <= y
  <2>1. y \in 1..Len(ab)
    BY DEF Begins
  <2>2. y - n \in 2..Len(b) /\ n + (y - n) = y
    BY <1>1, <1>2, <1>8, <2>1
  <2>3. y - n \in Begins(b)
    BY <1>5, <2>2
  <2>4. j < y - n
    BY <1>1, <1>8, <2>1
  <2>5. x <= y - n
    BY <1>4, <2>3, <2>4
  <2> QED  BY <1>1, <1>4, <2>1, <2>5
<1>9. Stop(ab, n + j) = n + x
  BY <1>2, <1>6, <1>7, <1>8, StopIs
<1>10. SubSeq(ab, n + (j + 1), n + (x - 1)) = SubSeq(b, j + 1, x - 1)
  <2>1. j + 1 \in Nat \ {0} /\ x - 1 \in Nat /\ n + (x - 1) <= Len(ab) /\ x - 1 <= Len(b)
    BY <1>1, <1>2, <1>4
  <2>2. \A y \in (j + 1)..(x - 1) : ab[n + y] = b[y]
    <3> TAKE y \in (j + 1)..(x - 1)
    <3>1. n + y \in 1..Len(ab) /\ ~(n + y <= n) /\ (n + y) - n = y
      BY <1>1, <1>2, <1>4
    <3> QED  BY <1>2, <3>1
  <2> DEFINE p == j + 1
             q == x - 1
  <2>3. /\ ab \in Seq(Glyph) /\ b \in Seq(Glyph) /\ n \in Nat /\ p \in Nat \ {0} /\ q \in Nat
        /\ n + q <= Len(ab) /\ q <= Len(b) /\ \A y \in p..q : ab[n + y] = b[y]
    BY <1>1, <1>2, <2>1, <2>2
  <2> HIDE DEF p, q
  <2>4. SubSeq(ab, n + p, n + q) = SubSeq(b, p, q)
    BY <2>3, SamePart
  <2> QED  BY <2>4 DEF p, q
<1>11. n + (j + 1) = (n + j) + 1 /\ n + (x - 1) = (n + x) - 1
  BY <1>1, <1>4
<1>12. Rest(ab, n + j) = Rest(b, j)
  BY <1>9, <1>10, <1>11 DEF Rest, x
<1> QED  BY <1>12 DEF ab, n

(* So is that of a field in the first - or, if its line is not ended, it   *)
(* goes on with what follows.                                              *)
GoesOn(a, r, s, t) ==
    /\ ~Closed(a)
    /\ \E c \in Seq(Glyph) : r = s \o c /\ Len(c) >= 1 /\ c[1] = t

LEMMA RestConcatLeft ==
    ASSUME NEW a \in Fields, NEW b \in Seq(Glyph), b # <<>> => b[1] # WS, NEW i \in 1..Len(a)
    PROVE  \/ Rest(a \o b, i) = Rest(a, i)
           \/ /\ Stop(a, i) = Len(a) + 1 /\ b # <<>>
              /\ GoesOn(a, Rest(a \o b, i), Rest(a, i), b[1])
<1> DEFINE ab == a \o b
           n == Len(a)
           x == Stop(a, i)
           y == Stop(ab, i)
<1>1. a \in Seq(Glyph) /\ n \in Nat /\ b \in Seq(Glyph) /\ Len(b) \in Nat /\ i \in Nat /\ i >= 1 /\ i <= n
  BY FieldsType
<1>2. /\ ab \in Seq(Glyph) /\ Len(ab) = n + Len(b)
      /\ \A z \in 1..Len(ab) : ab[z] = IF z <= n THEN a[z] ELSE b[z - n]
  BY <1>1, ConcatProperties
<1>3. /\ \A z \in 1..n : z \in Begins(ab) <=> z \in Begins(a)
      /\ \A z \in 1..Len(b) : n + z \in Begins(ab) <=> (b[z] # WS /\ IF z = 1 THEN Closed(a) ELSE b[z - 1] = CRLF)
  BY <1>1, BeginsConcat
<1> HIDE DEF ab, n
<1>4. /\ x \in (i + 1)..(n + 1)
      /\ x = n + 1 \/ x \in Begins(a)
      /\ \A z \in Begins(a) : i < z => x <= z
  BY <1>1, StopOf DEF n
<1>5. /\ y \in (i + 1)..(Len(ab) + 1) /\ i \in 1..Len(ab)
      /\ y = Len(ab) + 1 \/ y \in Begins(ab)
      /\ \A z \in Begins(ab) : i < z => y <= z
  <2>1. i \in 1..Len(ab)
    BY <1>1, <1>2
  <2> QED  BY <1>2, <2>1, StopOf
<1>6. \A z \in Begins(ab) : z \in 1..Len(ab)
  BY DEF Begins
<1> HIDE DEF x, y
<1>7. ASSUME y = x PROVE Rest(ab, i) = Rest(a, i)
  <2>1. i + 1 \in Nat \ {0} /\ x - 1 \in Nat /\ 0 + (x - 1) <= Len(ab) /\ x - 1 <= Len(a) /\ 0 \in Nat
    BY <1>1, <1>2, <1>4 DEF n
  <2>2. \A z \in (i + 1)..(x - 1) : ab[0 + z] = a[z]
    BY <1>1, <1>2, <1>4
  <2>3. SubSeq(ab, 0 + (i + 1), 0 + (x - 1)) = SubSeq(a, i + 1, x - 1)
    BY <1>1, <1>2, <2>1, <2>2, SamePart
  <2>4. 0 + (i + 1) = i + 1 /\ 0 + (x - 1) = y - 1
    BY <1>1, <1>4, <1>7
  <2> QED  BY <2>3, <2>4 DEF Rest, x, y
<1>8. CASE x # n + 1
  <2>1. x \in Begins(ab) /\ i < x /\ x \in 1..n
    BY <1>1, <1>3, <1>4, <1>8
  <2>2. y <= x
    BY <1>5, <2>1
  <2>3. y \in 1..n
    BY <1>1, <1>4, <1>5, <2>1, <2>2
  <2>4. y \in Begins(a)
    BY <1>1, <1>2, <1>3, <1>5, <2>3
  <2>5. x <= y
    BY <1>4, <1>5, <1>1, <2>4
  <2>6. y = x
    BY <1>4, <1>5, <1>1, <2>2, <2>5
  <2> QED  BY <1>7, <2>6 DEF ab
<1>9. CASE x = n + 1
  <2>1. y > n
    <3> SUFFICES ASSUME y <= n PROVE FALSE
      BY <1>1, <1>5
    <3>1. y \in 1..n
      BY <1>1, <1>5
    <3>2. y \in Begins(a)
      BY <1>1, <1>2, <1>3, <1>5, <3>1
    <3>3. x <= y
      BY <1>1, <1>4, <1>5, <3>2
    <3> QED  BY <1>1, <1>9, <3>1, <3>3
  <2>2. CASE b = <<>>
    <3>1. Len(b) = 0
      BY <2>2
    <3>2. y = n + 1
      BY <1>1, <1>2, <1>5, <2>1, <3>1
    <3> QED  BY <1>7, <1>9, <3>2 DEF ab
  <2>3. CASE b # <<>> /\ Closed(a)
    <3>1. 1 \in 1..Len(b)
      BY <1>1, <2>3
    <3>2. n + 1 \in Begins(ab) /\ i < n + 1
      BY <1>1, <1>3, <2>3, <3>1
    <3>3. y <= n + 1
      BY <1>5, <3>2
    <3>4. y = n + 1
      BY <1>1, <1>5, <2>1, <3>3
    <3> QED  BY <1>7, <1>9, <3>4 DEF ab
  <2>4. CASE b # <<>> /\ ~Closed(a)
    <3>1. 1 \in 1..Len(b)
      BY <1>1, <2>4
    <3>2. n + 1 \notin Begins(ab)
      BY <1>3, <2>4, <3>1
    <3>3. y # n + 1
      <4>1. Len(b) >= 1 /\ Len(ab) + 1 # n + 1
        BY <1>1, <1>2, <3>1
      <4>2. y = Len(ab) + 1 \/ y \in Begins(ab)
        BY <1>5
      <4> QED  BY <3>2, <4>1, <4>2
    <3>4. y - 1 \in (n + 1)..Len(ab)
      BY <1>1, <1>2, <1>5, <2>1, <3>3
    <3> DEFINE c == SubSeq(ab, n + 1, y - 1)
    <3>5. i + 1 \in 1..(Len(ab) + 1) /\ n \in ((i + 1) - 1)..Len(ab) /\ y - 1 \in n..Len(ab)
      BY <1>1, <1>2, <3>4
    <3>6. SubSeq(ab, i + 1, n) \o c = SubSeq(ab, i + 1, y - 1)
      BY <1>2, <3>5, ConcatAdjacentSubSeq
    <3>7. SubSeq(ab, i + 1, n) = SubSeq(a, i + 1, n)
      <4>1. i + 1 \in Nat \ {0} /\ n \in Nat /\ 0 + n <= Len(ab) /\ n <= Len(a) /\ 0 \in Nat
        BY <1>1, <1>2 DEF n
      <4>2. \A z \in (i + 1)..n : ab[0 + z] = a[z]
        BY <1>1, <1>2
      <4>3. SubSeq(ab, 0 + (i + 1), 0 + n) = SubSeq(a, i + 1, n)
        BY <1>1, <1>2, <4>1, <4>2, SamePart
      <4>4. 0 + (i + 1) = i + 1 /\ 0 + n = n
        BY <1>1
      <4> QED  BY <4>3, <4>4
    <3>8. c \in Seq(Glyph) /\ Len(c) >= 1 /\ c[1] = b[1]
      <4>1. n + 1 \in Nat \ {0} /\ y - 1 \in Nat /\ y - 1 <= Len(ab) /\ n + 1 <= y - 1
        BY <1>1, <1>2, <3>4
      <4>2. /\ c \in Seq(Glyph) /\ Len(c) = (IF n + 1 <= y - 1 THEN (y - 1) - (n + 1) + 1 ELSE 0)
            /\ \A z \in 1..((y - 1) - (n + 1) + 1) : c[z] = ab[(n + 1) + z - 1]
        BY <1>2, <4>1, PartOf
      <4> HIDE DEF c
      <4>3. 1 \in 1..((y - 1) - (n + 1) + 1) /\ (n + 1) + 1 - 1 = n + 1
        BY <1>1, <4>1
      <4>4. c[1] = ab[n + 1]
        BY <4>2, <4>3
      <4>5. n + 1 \in 1..Len(ab) /\ ~(n + 1 <= n) /\ (n + 1) - n = 1
        BY <1>1, <1>2, <3>1
      <4>6. ab[n + 1] = b[1]
        BY <1>2, <4>5
      <4>7. Len(c) >= 1
        BY <1>1, <4>1, <4>2
      <4> QED  BY <4>2, <4>4, <4>6, <4>7
    <3> HIDE DEF c
    <3>9. x - 1 = n
      BY <1>1, <1>9
    <3>10. Rest(ab, i) = Rest(a, i) \o c
      BY <3>6, <3>7, <3>9 DEF Rest, x, y
    <3>11. GoesOn(a, Rest(ab, i), Rest(a, i), b[1])
      BY <2>4, <3>8, <3>10 DEF GoesOn
    <3> QED  BY <1>9, <2>4, <3>11 DEF ab, x, n
  <2> QED  BY <2>2, <2>3, <2>4
<1> QED  BY <1>8, <1>9

(* A field by itself.                                                      *)
LEMMA FieldIs ==
    ASSUME NEW k, Fits(k), NEW b \in Seq(Char)
    PROVE  LET u == headerWritelnFold(k, b)
               l == Lines(b, Width[k] + 2)
           IN  /\ u \in Fields /\ u # <<>> /\ u[1] = Name(k) /\ Len(u) = Len(l) + 1
               /\ Begins(u) = {1} /\ Rest(u, 1) = l
               /\ Closed(u) <=> l # <<>>
               /\ l \in Seq(Glyph) /\ \A i \in 1..Len(l) : u[i + 1] = l[i]
<1> DEFINE l == Lines(b, Width[k] + 2)
           u == headerWritelnFold(k, b)
           e == <<Name(k)>>
           n == Len(l)
<1>1. l \in Seq(Glyph) /\ n \in Nat /\ (l # <<>> => Folded(l, Width[k] + 2)) /\ (l = <<>> <=> n = 0)
  <2>1. l \in Seq(Glyph) /\ (l # <<>> => Folded(l, Width[k] + 2))
    BY LinesType DEF Written
  <2> HIDE DEF l
  <2> QED  BY <2>1
<1>2. e \in Seq(Glyph) /\ Len(e) = 1 /\ e[1] = Name(k) /\ IsName(Name(k))
  <2>1. Name(k) \in Glyph
    BY FitsColumn, CharFacts
  <2> QED  BY <2>1 DEF IsName, Fits
<1>3. u = e \o l
  BY DEF headerWritelnFold
<1> HIDE DEF u, l, e
<1>4. /\ u \in Seq(Glyph) /\ Len(u) = n + 1
      /\ \A i \in 1..(n + 1) : u[i] = IF i <= 1 THEN e[i] ELSE l[i - 1]
  <2>1. /\ u \in Seq(Glyph) /\ Len(u) = Len(e) + Len(l)
        /\ \A i \in 1..(Len(e) + Len(l)) : u[i] = IF i <= Len(e) THEN e[i] ELSE l[i - Len(e)]
    BY <1>1, <1>2, <1>3, ConcatProperties
  <2>2. Len(e) + Len(l) = n + 1
    BY <1>1, <1>2
  <2> QED  BY <1>2, <2>1, <2>2
<1>5. /\ \A i \in 1..(n - 1) : l[i] = CRLF => l[i + 1] = WS
      /\ n # 0 => l[n] = CRLF
  BY <1>1 DEF Folded
<1> HIDE DEF n
<1>6. u[1] = Name(k)
  <2>1. 1 \in 1..(n + 1)
    BY <1>1
  <2> QED  BY <1>2, <1>4, <2>1
<1>7. \A i \in 1..n : u[i + 1] = l[i]
  <2> TAKE i \in 1..n
  <2>1. i + 1 \in 1..(n + 1) /\ ~(i + 1 <= 1) /\ (i + 1) - 1 = i
    BY <1>1
  <2> QED  BY <1>4, <2>1
<1>8. Name(k) # CRLF /\ Name(k) # WS /\ WS # CRLF
  BY TokensDiffer
<1>9. ASSUME NEW i \in 2..(n + 1), u[i - 1] = CRLF PROVE u[i] = WS
  <2>1. i # 2
    BY <1>6, <1>8, <1>9
  <2>2. i - 2 \in 1..(n - 1) /\ i - 2 \in 1..n /\ i - 1 \in 1..n /\ (i - 2) + 1 = i - 1 /\ (i - 1) + 1 = i
    BY <1>1, <2>1
  <2>3. l[i - 2] = CRLF
    BY <1>7, <1>9, <2>2
  <2>4. l[i - 1] = WS
    BY <1>5, <2>2, <2>3
  <2> QED  BY <1>7, <2>2, <2>4
<1>10. Begins(u) = {1}
  <2>1. 1 \in Begins(u)
    <3>1. 1 \in 1..Len(u)
      BY <1>1, <1>4
    <3> QED  BY <1>6, <1>8, <3>1 DEF Begins, BeginsLine
  <2>2. ASSUME NEW i \in Begins(u), i # 1 PROVE FALSE
    <3>1. i \in 2..(n + 1) /\ u[i - 1] = CRLF /\ u[i] # WS
      BY <1>1, <1>4, <2>2 DEF Begins, BeginsLine
    <3> QED  BY <1>9, <3>1
  <2> QED  BY <2>1, <2>2
<1>11. u[Len(u)] = CRLF <=> l # <<>>
  <2>1. CASE n = 0
    BY <1>1, <1>4, <1>6, <1>8, <2>1
  <2>2. CASE n # 0
    <3>1. n \in 1..n /\ Len(u) = n + 1
      BY <1>1, <1>4, <2>2
    <3> QED  BY <1>1, <1>5, <1>7, <2>2, <3>1
  <2> QED  BY <2>1, <2>2
<1>12. u # <<>> /\ (Closed(u) <=> l # <<>>)
  <2>1. u # <<>>
    BY <1>1, <1>4
  <2> QED  BY <1>11, <2>1 DEF Closed
<1>13. u \in Fields
  <2>1. u[Len(u)] = CRLF \/ IsName(u[Len(u)])
    <3>1. n = 0 => u[Len(u)] = Name(k)
      BY <1>4, <1>6
    <3> QED  BY <1>1, <1>2, <1>11, <3>1
  <2>2. ASSUME NEW i \in 1..(Len(u) - 1), u[i] = CRLF PROVE u[i + 1] # CRLF
    <3>1. i + 1 \in 2..(n + 1) /\ (i + 1) - 1 = i
      BY <1>1, <1>4
    <3> QED  BY <1>8, <1>9, <2>2, <3>1
  <2> QED  BY <1>2, <1>4, <1>6, <2>1, <2>2 DEF Fields
<1>14. Rest(u, 1) = l
  <2>1. 1 \in 1..Len(u) /\ Len(u) + 1 \in (1 + 1)..(Len(u) + 1)
    BY <1>1, <1>4
  <2>2. Stop(u, 1) = Len(u) + 1
    BY <1>4, <1>10, <2>1, StopIs
  <2>3. /\ Rest(u, 1) \in Seq(Glyph) /\ Len(Rest(u, 1)) = Stop(u, 1) - 1 - 1
        /\ \A j \in 1..(Stop(u, 1) - 1 - 1) : Rest(u, 1)[j] = u[1 + j]
    BY <1>4, <2>1, RestType
  <2>4. Stop(u, 1) - 1 - 1 = n
    BY <1>1, <1>4, <2>2
  <2>5. \A j \in 1..n : Rest(u, 1)[j] = l[j]
    <3> TAKE j \in 1..n
    <3>1. 1 + j = j + 1
      BY <1>1
    <3> QED  BY <1>7, <2>3, <2>4, <3>1
  <2> DEFINE r == Rest(u, 1)
  <2>6. r \in Seq(Glyph) /\ Len(r) = Len(l) /\ \A j \in 1..Len(r) : r[j] = l[j]
    BY <2>3, <2>4, <2>5 DEF n
  <2> HIDE DEF r
  <2>7. r = l
    BY <1>1, <2>6, SeqEqual
  <2> QED  BY <2>7 DEF r
<1>15. Len(u) = Len(l) + 1 /\ \A i \in 1..Len(l) : u[i + 1] = l[i]
  BY <1>4, <1>7 DEF n
<1> QED  BY <1>1, <1>6, <1>10, <1>12, <1>13, <1>14, <1>15 DEF u, l

(* What a reader makes of fields.                                          *)
BodyAt(u, i)    == TrimSpace(Unfold(Rest(u, i)))
BodiesAt(u)     == [i \in 1..Len(u) |-> BodyAt(u, i)]
NamedAt(u, k)   == {i \in Begins(u) : u[i] = Name(k)}
ReadField(u, k) == At(BodiesAt(u), NamedAt(u, k))

LEMMA BodiesAtType ==
    ASSUME NEW u \in Seq(Glyph)
    PROVE  BodiesAt(u) \in Seq(Seq(Char)) /\ Len(BodiesAt(u)) = Len(u)
<1> DEFINE S == Seq(Char)
           n == Len(u)
           v == BodiesAt(u)
<1>1. ASSUME NEW i \in 1..n PROVE BodyAt(u, i) \in S
  <2>1. Rest(u, i) \in Seq(Char \cup {CRLF})
    BY RestType DEF Glyph
  <2>2. Unfold(Rest(u, i)) \in Seq(Char)
    BY <2>1, UnfoldType
  <2> QED  BY <2>2, TrimEnds DEF BodyAt
<1> HIDE DEF S
<1>2. v \in [1..n -> S] /\ n \in Nat
  BY <1>1 DEF BodiesAt
<1> HIDE DEF v, n
<1>3. v \in Seq(S) /\ Len(v) = n
  BY <1>2
<1> QED  BY <1>3 DEF v, n, S

(* The reader of a whole header finds the same fields.                     *)
LEMMA EndIs ==
    ASSUME NEW u \in Fields
    PROVE  LET W == u \o <<CRLF>>
           IN  /\ HeaderEnd(W) = IF Closed(u) THEN Len(u) + 1 ELSE Len(u) + 2
               /\ Terminators(W) = IF Closed(u) THEN {Len(u) + 1} ELSE {}
               /\ Starts(W, HeaderEnd(W)) = Begins(u)
               /\ \A i \in 1..Len(u) : i \in Begins(W) <=> i \in Begins(u)
               /\ Len(u) + 1 \in Begins(W) <=> Closed(u)
               /\ W \in Seq(Glyph) /\ Len(W) = Len(u) + 1
               /\ \A i \in 1..Len(u) : W[i] = u[i]
               /\ W[Len(u) + 1] = CRLF
<1> DEFINE e == <<CRLF>>
           W == u \o e
           n == Len(u)
<1>1. /\ u \in Seq(Glyph) /\ n \in Nat /\ (u # <<>> => IsName(u[1])) /\ (u = <<>> <=> n = 0)
      /\ \A i \in 1..(n - 1) : u[i] = CRLF => u[i + 1] # CRLF
  BY FieldsType
<1>2. e \in Seq(Glyph) /\ Len(e) = 1 /\ e[1] = CRLF /\ CRLF # WS
  <2>1. CRLF \in Glyph
    BY CharFacts
  <2> QED  BY <2>1, TokensDiffer
<1> HIDE DEF e
<1>3. /\ W \in Seq(Glyph) /\ Len(W) = n + 1
      /\ \A i \in 1..(n + 1) : W[i] = IF i <= n THEN u[i] ELSE e[i - n]
  <2>1. /\ W \in Seq(Glyph) /\ Len(W) = Len(u) + Len(e)
        /\ \A i \in 1..(Len(u) + Len(e)) : W[i] = IF i <= Len(u) THEN u[i] ELSE e[i - Len(u)]
    <3>1. u \in Seq(Glyph) /\ e \in Seq(Glyph)
      BY <1>1, <1>2
    <3> HIDE DEF n
    <3> QED  BY <3>1, ConcatProperties
  <2> HIDE DEF W
  <2>2. Len(u) + Len(e) = n + 1
    BY <1>2
  <2> QED  BY <2>1, <2>2
<1>4. /\ \A i \in 1..n : i \in Begins(W) <=> i \in Begins(u)
      /\ \A j \in 1..1 : n + j \in Begins(W) <=> (e[j] # WS /\ IF j = 1 THEN Closed(u) ELSE e[j - 1] = CRLF)
  BY <1>1, <1>2, BeginsConcat
<1> HIDE DEF W, n
<1>5. n + 1 \in Begins(W) <=> Closed(u)
  <2>1. 1 \in 1..1
    OBVIOUS
  <2> QED  BY <1>2, <1>4, <2>1
<1>6. (\A i \in 1..n : W[i] = u[i]) /\ W[n + 1] = CRLF
  <2>1. n + 1 \in 1..(n + 1) /\ ~(n + 1 <= n) /\ (n + 1) - n = 1
    BY <1>1
  <2>2. W[n + 1] = CRLF
    BY <1>2, <1>3, <2>1
  <2>3. \A i \in 1..n : i \in 1..(n + 1) /\ i <= n
    BY <1>1
  <2> QED  BY <1>3, <2>2, <2>3
<1>7. \A i \in 1..(n + 1) : i \in Begins(W) <=> BeginsLine(W, i) /\ W[i] # WS
  BY <1>3 DEF Begins
<1>8. ASSUME NEW i \in 1..n, W[i] = CRLF PROVE ~BeginsLine(W, i)
  <2>1. u[i] = CRLF
    BY <1>6, <1>8
  <2>2. i # 1
    BY <1>1, <2>1, TokensDiffer DEF IsName
  <2>3. i - 1 \in 1..n /\ i - 1 \in 1..(n - 1) /\ (i - 1) + 1 = i
    BY <1>1, <2>2
  <2>4. W[i - 1] # CRLF
    BY <1>1, <1>6, <2>1, <2>3
  <2> QED  BY <2>2, <2>4 DEF BeginsLine
<1>9. Terminators(W) = IF Closed(u) THEN {n + 1} ELSE {}
  <2>1. DOMAIN W = 1..(n + 1)
    BY <1>3
  <2>2. \A i \in Terminators(W) : i \in 1..(n + 1) /\ i \notin 1..n
    BY <1>8, <2>1 DEF Terminators
  <2>3. \A i \in Terminators(W) : i = n + 1
    BY <1>1, <2>2
  <2>4. n + 1 \in 1..(n + 1)
    BY <1>1
  <2>5. n + 1 \in Terminators(W) <=> Closed(u)
    BY <1>2, <1>5, <1>6, <1>7, <2>1, <2>4 DEF Terminators
  <2> QED  BY <2>3, <2>5
<1>10. HeaderEnd(W) = IF Closed(u) THEN n + 1 ELSE n + 2
  <2>1. CASE Closed(u)
    <3>1. Min({n + 1}) = n + 1
      BY <1>1, MinOf
    <3> QED  BY <1>9, <2>1, <3>1 DEF HeaderEnd, Terminated
  <2>2. CASE ~Closed(u)
    BY <1>1, <1>3, <1>9, <2>2 DEF HeaderEnd, Terminated
  <2> QED  BY <2>1, <2>2
<1>11. Starts(W, HeaderEnd(W)) = Begins(u)
  <2>1. \A i \in 1..(n + 1) : i \in Starts(W, HeaderEnd(W)) <=> i \in Begins(W) /\ (i = n + 1 => ~Closed(u))
    BY <1>1, <1>7, <1>10 DEF Starts
  <2>2. \A i \in Starts(W, HeaderEnd(W)) : i \in 1..(n + 1)
    BY <1>1, <1>10 DEF Starts
  <2>3. \A i \in Begins(u) : i \in 1..n
    BY DEF Begins, n
  <2>4. \A i \in 1..(n + 1) : i = n + 1 \/ (i \in 1..n /\ i # n + 1)
    BY <1>1
  <2>5. n + 1 \notin 1..n /\ \A i \in 1..n : i \in 1..(n + 1)
    BY <1>1
  <2>6. \A i \in Starts(W, HeaderEnd(W)) : i \in Begins(u)
    BY <1>4, <1>5, <2>1, <2>2, <2>4
  <2>7. \A i \in Begins(u) : i \in Starts(W, HeaderEnd(W))
    BY <1>4, <2>1, <2>3, <2>5
  <2> QED  BY <2>6, <2>7
<1> QED  BY <1>3, <1>4, <1>5, <1>6, <1>9, <1>10, <1>11 DEF W, e, n

LEMMA BodyIs ==
    ASSUME NEW u \in Fields, NEW i \in 1..Len(u)
    PROVE  LET W == u \o <<CRLF>>
               end == HeaderEnd(W)
           IN  Body(W, end, Starts(W, end), i) = BodyAt(u, i)
<1> DEFINE e == <<CRLF>>
           W == u \o e
           n == Len(u)
           end == HeaderEnd(W)
           starts == Starts(W, end)
           X == {j \in starts : i < j} \cup {end}
           x == Min(X)
           s == SubSeq(W, i + 1, x - 1)
<1>1. /\ end = (IF Closed(u) THEN n + 1 ELSE n + 2) /\ starts = Begins(u)
      /\ \A j \in 1..n : j \in Begins(W) <=> j \in Begins(u)
      /\ n + 1 \in Begins(W) <=> Closed(u)
      /\ W \in Seq(Glyph) /\ Len(W) = n + 1
  BY EndIs
<1>2. u \in Seq(Glyph) /\ n \in Nat /\ i \in Nat /\ i >= 1 /\ i <= n /\ u # <<>>
  BY FieldsType
<1>3. Body(W, end, starts, i) = TrimSpace(Unfold(s))
  BY DEF Body, Unfold
<1>4. e \in Seq(Glyph) /\ Len(e) = 1 /\ e[1] = CRLF /\ CRLF # WS
  <2>1. CRLF \in Glyph
    BY CharFacts
  <2> QED  BY <2>1, TokensDiffer
<1>5. \/ Rest(W, i) = Rest(u, i)
      \/ Stop(u, i) = n + 1 /\ GoesOn(u, Rest(W, i), Rest(u, i), CRLF)
  <2> HIDE DEF e
  <2>1. e # <<>> => e[1] # WS
    BY <1>4
  <2> QED  BY <1>4, <2>1, RestConcatLeft
<1> HIDE DEF W, n, end, starts
<1>6. (\A j \in Begins(W) : j \in 1..(n + 1)) /\ (\A j \in Begins(u) : j \in 1..n)
  BY <1>1 DEF Begins, n
<1>7. Stop(W, i) = x
  <2>1. \A y \in X : y \in (i + 1)..(n + 2) /\ (y = n + 2 \/ y \in Begins(W))
    BY <1>1, <1>2, <1>6
  <2>2. X # {} /\ X \in SUBSET Nat
    <3>1. \A y \in (i + 1)..(n + 2) : y \in Nat
      BY <1>2
    <3> QED  BY <2>1, <3>1
  <2>3. x \in X /\ \A y \in X : x <= y
    BY <2>2, MinOf
  <2>4. \A j \in Begins(W) : i < j => j \in X
    <3> TAKE j \in Begins(W)
    <3>1. j \in 1..n \/ (j = n + 1 /\ Closed(u))
      BY <1>1, <1>2, <1>6
    <3> QED  BY <1>1, <3>1
  <2> HIDE DEF X, x
  <2>5. /\ i \in 1..Len(W) /\ x \in (i + 1)..(Len(W) + 1) /\ (x = Len(W) + 1 \/ x \in Begins(W))
        /\ \A j \in Begins(W) : i < j => x <= j
    BY <1>1, <1>2, <2>1, <2>3, <2>4
  <2> QED  BY <1>1, <2>5, StopIs
<1>8. s = Rest(W, i)
  BY <1>7 DEF Rest
<1> HIDE DEF s, x, X
<1>9. Unfold(Rest(W, i)) = Unfold(Rest(u, i))
  <2> DEFINE r == Rest(u, i)
             v == Rest(W, i)
  <2>1. /\ v \in Seq(Glyph) /\ Len(v) = Stop(W, i) - 1 - i /\ Stop(W, i) \in (i + 1)..(n + 2)
    <3>1. i \in 1..Len(W)
      BY <1>1, <1>2
    <3> QED  BY <1>1, <1>2, <3>1, RestType, StopOf
  <2>2. r \in Seq(Glyph) /\ Len(r) = Stop(u, i) - 1 - i /\ Stop(u, i) \in (i + 1)..(n + 1)
    BY <1>2, RestType, StopOf DEF n
  <2> HIDE DEF r, v
  <2>3. CASE v = r
    BY <2>3 DEF r, v
  <2>4. ASSUME Stop(u, i) = n + 1, NEW c \in Seq(Glyph), v = r \o c, Len(c) >= 1, c[1] = CRLF
        PROVE  Unfold(v) = Unfold(r)
    <3>0. Len(c) \in Nat /\ Len(r) \in Nat
      BY <2>2, <2>4
    <3>1. Len(v) = Len(r) + Len(c)
      <4>1. r \in Seq(Glyph) /\ c \in Seq(Glyph)
        BY <2>2
      <4>2. Len(r \o c) = Len(r) + Len(c)
        BY <4>1, ConcatProperties
      <4> QED  BY <2>4, <4>2
    <3>2. Len(c) = 1
      <4> DEFINE p == Len(v)
                 q == Len(r)
                 m == Len(c)
                 y == Stop(W, i)
      <4>1. p = y - 1 - i /\ y \in (i + 1)..(n + 2) /\ q = (n + 1) - 1 - i /\ p = q + m /\ m >= 1 /\ m \in Nat
        BY <2>1, <2>2, <2>4, <3>0, <3>1
      <4> HIDE DEF p, q, m, y
      <4>2. m = 1
        BY <1>2, <4>1
      <4> QED  BY <4>2 DEF m
    <3>3. c = <<CRLF>>
      BY <2>4, <3>2
    <3>4. Unfold(v) = Unfold(r) \o Unfold(c)
      BY <2>2, <2>4, UnfoldConcat
    <3>5. Unfold(c) = <<>> /\ Unfold(r) \in Seq(Glyph)
      BY <2>2, <3>3, SingleToken, InkType
    <3> QED  BY <3>4, <3>5, ConcatEmptySeq
  <2> QED  BY <1>5, <2>3, <2>4 DEF GoesOn, r, v
<1>10. Body(W, end, starts, i) = BodyAt(u, i)
  BY <1>3, <1>8, <1>9 DEF BodyAt
<1> QED  BY <1>10 DEF W, e, end, starts

LEMMA ReadIs ==
    ASSUME NEW u \in Fields, NEW k \in Range(Keys)
    PROVE  ReadHeader(u \o <<CRLF>>)[k] = ReadField(u, k)
<1> DEFINE W == u \o <<CRLF>>
           n == Len(u)
           end == HeaderEnd(W)
           starts == Starts(W, end)
           T == {Body(W, end, starts, i) : i \in 1..(n + 1)}
           V == [i \in DOMAIN W |-> Body(W, end, starts, i)]
           K == {i \in starts : W[i] = Name(k)}
           v == <<Body(W, end, starts, n + 1)>>
           a == BodiesAt(u)
           I == NamedAt(u, k)
<1>1. /\ starts = Begins(u)
      /\ W \in Seq(Glyph) /\ Len(W) = n + 1
      /\ \A i \in 1..n : W[i] = u[i]
  BY EndIs
<1>2. n \in Nat /\ (\A i \in 1..n : i \in 1..(n + 1)) /\ n + 1 \in 1..(n + 1)
  BY FieldsType
<1>3. \A i \in 1..n : Body(W, end, starts, i) = BodyAt(u, i)
  BY BodyIs
<1>4. ReadHeader(W)[k] = At(V, K)
  BY DEF ReadHeader
<1>5. DOMAIN W = 1..(n + 1)
  BY <1>1
<1>6. \A i \in starts : i \in 1..n
  BY <1>1 DEF Begins
<1> HIDE DEF W, n, end, starts
<1>7. a \in [1..n -> T] /\ \A i \in 1..n : a[i] = Body(W, end, starts, i)
  BY <1>2, <1>3 DEF BodiesAt, n
<1>8. Body(W, end, starts, n + 1) \in T
  BY <1>2
<1>9. \A i \in 1..(n + 1) : V[i] = Body(W, end, starts, i)
  BY <1>5
<1>10. V \in [1..(n + 1) -> T]
  BY <1>5
<1> HIDE DEF T, V, a
<1>11. a \in Seq(T) /\ Len(a) = n /\ v \in Seq(T) /\ Len(v) = 1 /\ V \in Seq(T) /\ Len(V) = n + 1
  <2>1. n + 1 \in Nat
    BY <1>2
  <2> QED  BY <1>2, <1>7, <1>8, <1>10, <2>1
<1>12. v[1] = Body(W, end, starts, n + 1)
  OBVIOUS
<1> HIDE DEF v
<1>13. V = a \o v
  <2>1. /\ a \o v \in Seq(T) /\ Len(a \o v) = n + 1
        /\ \A i \in 1..(n + 1) : (a \o v)[i] = IF i <= n THEN a[i] ELSE v[i - n]
    <3>1. a \in Seq(T) /\ v \in Seq(T)
      BY <1>11
    <3>2. /\ a \o v \in Seq(T) /\ Len(a \o v) = Len(a) + Len(v)
          /\ \A i \in 1..(Len(a) + Len(v)) : (a \o v)[i] = IF i <= Len(a) THEN a[i] ELSE v[i - Len(a)]
      BY <3>1, ConcatProperties
    <3> QED  BY <1>11, <3>2
  <2>2. ASSUME NEW i \in 1..(n + 1) PROVE (a \o v)[i] = V[i]
    <3>1. CASE i <= n
      <4>1. i \in 1..n
        BY <1>2, <3>1
      <4> QED  BY <1>7, <1>9, <2>1, <3>1, <4>1
    <3>2. CASE ~(i <= n)
      <4>1. i = n + 1 /\ i - n = 1
        BY <1>2, <3>2
      <4> QED  BY <1>9, <1>12, <2>1, <3>2, <4>1
    <3> QED  BY <3>1, <3>2
  <2> DEFINE av == a \o v
  <2>3. av \in Seq(T) /\ Len(av) = n + 1 /\ \A i \in 1..(n + 1) : av[i] = V[i]
    BY <2>1, <2>2
  <2> HIDE DEF av
  <2>4. V = av
    BY <1>11, <2>3, SeqEqual
  <2> QED  BY <2>4 DEF av
<1>14. InParts(a, v, I, {}, K)
  <2>1. \A i \in 1..n : i \in K <=> i \in I
    BY <1>1 DEF NamedAt
  <2>2. n + 1 \notin K
    <3>1. n + 1 \notin 1..n
      BY <1>2
    <3> QED  BY <1>6, <3>1
  <2>3. \A i \in 1..1 : n + i \notin K
    <3>1. \A i \in 1..1 : i = 1
      OBVIOUS
    <3> QED  BY <2>2, <3>1
  <2> QED  BY <1>11, <2>1, <2>3 DEF InParts
<1>15. At(V, K) = At(a, I) \o At(v, {})
  <2> HIDE DEF K, I
  <2> QED  BY <1>11, <1>13, <1>14, AtConcat
<1>16. At(v, {}) = <<>> /\ At(a, I) \in Seq(T)
  <2> HIDE DEF I
  <2> QED  BY <1>11, AtNone, ChosenType
<1>17. At(V, K) = At(a, I)
  BY <1>15, <1>16, ConcatEmptySeq
<1> QED  BY <1>4, <1>17 DEF ReadField, W, a

(* Fields that are read one after the other.                               *)
LEMMA ReadConcat ==
    ASSUME NEW a \in Fields, NEW b \in Fields, Closed(a), NEW k \in Range(Keys)
    PROVE  ReadField(a \o b, k) = ReadField(a, k) \o ReadField(b, k)
<1> DEFINE ab == a \o b
           n == Len(a)
           S == Seq(Char)
           x == BodiesAt(a)
           y == BodiesAt(b)
           z == BodiesAt(ab)
<1>1. a \in Seq(Glyph) /\ n \in Nat /\ b \in Seq(Glyph) /\ Len(b) \in Nat
  BY FieldsType
<1>2. ab \in Seq(Glyph) /\ Len(ab) = n + Len(b)
      /\ \A i \in 1..Len(ab) : ab[i] = IF i <= n THEN a[i] ELSE b[i - n]
  BY <1>1, ConcatProperties
<1>3. ASSUME NEW i \in 1..n PROVE Rest(ab, i) = Rest(a, i)
  <2>1. b # <<>> => b[1] # WS
    BY FieldsType, TokensDiffer DEF IsName
  <2> QED  BY <1>1, <2>1, RestConcatLeft DEF GoesOn
<1>4. \A j \in 1..Len(b) : Rest(ab, n + j) = Rest(b, j)
  BY RestConcatRight
<1>5. /\ \A i \in 1..n : i \in Begins(ab) <=> i \in Begins(a)
      /\ \A j \in 1..Len(b) : n + j \in Begins(ab) <=> j \in Begins(b)
  <2>1. \A j \in 1..Len(b) : j \in Begins(b) <=> (b[j] # WS /\ IF j = 1 THEN Closed(a) ELSE b[j - 1] = CRLF)
    BY DEF Begins, BeginsLine
  <2> QED  BY <1>1, <2>1, BeginsConcat
<1> HIDE DEF ab, n
<1>6. (\A i \in 1..n : ab[i] = a[i]) /\ \A j \in 1..Len(b) : ab[n + j] = b[j]
  <2>1. \A i \in 1..n : i \in 1..Len(ab) /\ i <= n
    BY <1>1, <1>2
  <2>2. \A j \in 1..Len(b) : n + j \in 1..Len(ab) /\ ~(n + j <= n) /\ (n + j) - n = j
    BY <1>1, <1>2
  <2> QED  BY <1>2, <2>1, <2>2
<1>7. /\ x \in Seq(S) /\ Len(x) = n /\ y \in Seq(S) /\ Len(y) = Len(b) /\ z \in Seq(S) /\ Len(z) = n + Len(b)
  BY <1>1, <1>2, BodiesAtType DEF n
<1>8. /\ \A i \in 1..n : x[i] = BodyAt(a, i)
      /\ \A j \in 1..Len(b) : y[j] = BodyAt(b, j)
      /\ \A i \in 1..(n + Len(b)) : z[i] = BodyAt(ab, i)
  BY <1>2 DEF BodiesAt, n
<1> HIDE DEF x, y, z, S
<1>9. z = x \o y
  <2> DEFINE xy == x \o y
  <2>1. /\ xy \in Seq(S) /\ Len(xy) = n + Len(b)
        /\ \A i \in 1..(n + Len(b)) : xy[i] = IF i <= n THEN x[i] ELSE y[i - n]
    <3>1. /\ xy \in Seq(S) /\ Len(xy) = Len(x) + Len(y)
          /\ \A i \in 1..(Len(x) + Len(y)) : xy[i] = IF i <= Len(x) THEN x[i] ELSE y[i - Len(x)]
      BY <1>7, ConcatProperties
    <3> QED  BY <1>7, <3>1
  <2> HIDE DEF xy
  <2>2. ASSUME NEW i \in 1..(n + Len(b)) PROVE z[i] = xy[i]
    <3>1. CASE i <= n
      <4>1. i \in 1..n
        BY <1>1, <3>1
      <4>2. BodyAt(ab, i) = BodyAt(a, i)
        BY <1>3, <4>1 DEF BodyAt
      <4> QED  BY <1>8, <2>1, <3>1, <4>1, <4>2
    <3>2. CASE ~(i <= n)
      <4>1. i - n \in 1..Len(b) /\ n + (i - n) = i
        BY <1>1, <3>2
      <4>2. BodyAt(ab, i) = BodyAt(b, i - n)
        BY <1>4, <4>1 DEF BodyAt
      <4> QED  BY <1>8, <2>1, <3>2, <4>1, <4>2
    <3> QED  BY <3>1, <3>2
  <2>3. z = xy
    BY <1>7, <2>1, <2>2, SeqEqual
  <2> QED  BY <2>3 DEF xy
<1> DEFINE I == NamedAt(a, k)
           J == NamedAt(b, k)
           K == NamedAt(ab, k)
<1>10. InParts(x, y, I, J, K)
  <2>1. \A i \in 1..n : i \in K <=> i \in I
    BY <1>5, <1>6 DEF NamedAt
  <2>2. \A j \in 1..Len(b) : n + j \in K <=> j \in J
    BY <1>5, <1>6 DEF NamedAt
  <2> QED  BY <1>7, <2>1, <2>2 DEF InParts
<1> HIDE DEF I, J, K
<1>11. At(z, K) = At(x, I) \o At(y, J)
  BY <1>7, <1>9, <1>10, AtConcat
<1> QED  BY <1>11 DEF ReadField, ab, x, y, z, I, J, K

(* A field that is read by itself.                                         *)
LEMMA ReadSingle ==
    ASSUME NEW k, Fits(k), NEW b \in Seq(Char), NEW key \in Range(Keys)
    PROVE  ReadField(headerWritelnFold(k, b), key)
             = IF key = k THEN <<TrimSpace(Unfold(Lines(b, Width[k] + 2)))>> ELSE <<>>
<1> DEFINE u == headerWritelnFold(k, b)
           v == BodiesAt(u)
           I == NamedAt(u, key)
           S == Seq(Char)
           n == Len(u)
<1>1. /\ u \in Fields /\ u[1] = Name(k) /\ Len(u) >= 1 /\ Begins(u) = {1} /\ Rest(u, 1) = Lines(b, Width[k] + 2)
      /\ u \in Seq(Glyph) /\ n \in Nat
  <2>1. u \in Fields /\ u # <<>> /\ u[1] = Name(k) /\ Begins(u) = {1} /\ Rest(u, 1) = Lines(b, Width[k] + 2)
    BY FieldIs
  <2> HIDE DEF u
  <2> QED  BY <2>1, FieldsType
<1> HIDE DEF u
<1>2. v \in Seq(S) /\ Len(v) = n
  BY <1>1, BodiesAtType
<1>3. v[1] = TrimSpace(Unfold(Lines(b, Width[k] + 2)))
  <2>1. 1 \in 1..Len(u)
    BY <1>1
  <2>2. v[1] = BodyAt(u, 1)
    BY <2>1 DEF BodiesAt
  <2> QED  BY <1>1, <2>2 DEF BodyAt
<1>4. I = IF key = k THEN {1} ELSE {}
  <2>1. Name(k) = Name(key) <=> key = k
    BY TokensDiffer
  <2> QED  BY <1>1, <2>1 DEF NamedAt
<1> HIDE DEF v, S, I
<1>5. CASE key # k
  <2>1. \A i \in 1..Len(v) : i \notin I
    BY <1>4, <1>5
  <2>2. At(v, I) = <<>>
    BY <1>2, <2>1, AtNone
  <2> QED  BY <1>5, <2>2 DEF ReadField, u, v, I
<1>6. CASE key = k
  <2>1. PICK f \in AtSteps(S, v, I) : TRUE
    BY <1>2, AtRec
  <2>2. /\ f \in [0..n -> Seq(S)] /\ f[0] = <<>> /\ At(v, I) = f[n]
        /\ \A i \in 1..n : f[i] = IF i \in I THEN f[i - 1] \o <<v[i]>> ELSE f[i - 1]
    BY <1>2, <2>1 DEF AtSteps
  <2>3. v[1] \in S /\ <<v[1]>> \in Seq(S)
    BY <1>1, <1>2
  <2> DEFINE P == {i \in Nat : i + 1 \in 1..n => f[i + 1] = <<v[1]>>}
  <2>4. 0 \in P
    <3>1. 1 \in 1..n /\ 1 \in I /\ 1 - 1 = 0 /\ 0 + 1 = 1
      BY <1>1, <1>4, <1>6
    <3>2. f[1] = f[0] \o <<v[1]>>
      BY <2>2, <3>1
    <3>3. f[1] = <<v[1]>>
      BY <2>2, <2>3, <3>2, ConcatEmptySeq
    <3> QED  BY <3>1, <3>3
  <2>5. ASSUME NEW i \in P PROVE i + 1 \in P
    <3> SUFFICES ASSUME (i + 1) + 1 \in 1..n PROVE f[(i + 1) + 1] = <<v[1]>>
      OBVIOUS
    <3>1. i + 1 \in 1..n /\ ((i + 1) + 1) - 1 = i + 1 /\ (i + 1) + 1 # 1
      BY <1>1
    <3>2. (i + 1) + 1 \notin I
      BY <1>4, <1>6, <3>1
    <3> QED  BY <2>2, <3>1, <3>2
  <2> HIDE DEF P
  <2>6. P \in SUBSET Nat
    BY DEF P
  <2>7. n - 1 \in P
    <3>1. n - 1 \in Nat
      BY <1>1
    <3> QED  BY <2>4, <2>5, <2>6, <3>1, NatInduct
  <2>8. f[n] = <<v[1]>>
    <3>1. (n - 1) + 1 = n /\ n \in 1..n
      BY <1>1
    <3> QED  BY <2>7, <3>1 DEF P
  <2> QED  BY <1>3, <1>6, <2>2, <2>8 DEF ReadField, u, v, I
<1> QED  BY <1>5, <1>6

-----------------------------------------------------------------------------
(* Who is hidden stays hidden *)

Reveals(x, H) == IsBox(x) /\ {x[2], x[3]} \cap H # {}

(* No hidden person is named, or the body is not a list of addresses and   *)
(* is never parsed as one.                                                 *)
Clean(r, H) == (\E i \in 1..Len(r) : IsName(r[i])) \/ \A i \in 1..Len(r) : ~Reveals(r[i], H)

Discreet(H) == {x \in Char : ~Reveals(x, H)}

CleanFields(H) == {u \in Fields : \A i \in Begins(u) : u[i] = Name("From") => Clean(Rest(u, i), H)}

LEMMA CleanType ==
    ASSUME NEW H, NEW r \in Seq(Glyph)
    PROVE  (\A i \in 1..Len(r) : ~Reveals(r[i], H)) <=> r \in Seq(Discreet(H) \cup {WS, CRLF})
<1> DEFINE D == Discreet(H) \cup {WS, CRLF}
           n == Len(r)
<1>1. ~Reveals(WS, H) /\ ~Reveals(CRLF, H)
  BY DEF Reveals, IsBox, WS, CRLF
<1>2. \A x \in Glyph : x \in D <=> ~Reveals(x, H)
  BY <1>1, CharFacts DEF Discreet, Glyph
<1> HIDE DEF D
<1>3. n \in Nat /\ (\A i \in 1..n : r[i] \in Glyph) /\ r \in [1..n -> Glyph]
  OBVIOUS
<1>4. ASSUME \A i \in 1..n : ~Reveals(r[i], H) PROVE r \in Seq(D)
  <2>1. r \in [1..n -> D]
    BY <1>2, <1>3, <1>4
  <2> HIDE DEF n
  <2> QED  BY <1>3, <2>1
<1>5. ASSUME r \in Seq(D) PROVE \A i \in 1..n : ~Reveals(r[i], H)
  <2>1. \A i \in 1..n : r[i] \in D
    BY <1>5
  <2> QED  BY <1>2, <1>3, <2>1
<1> QED  BY <1>4, <1>5 DEF D

(* A name is in a body if it is in its ink.                                *)
LEMMA NameInk ==
    ASSUME NEW r \in Seq(Glyph)
    PROVE  (\E i \in 1..Len(r) : IsName(r[i])) <=> \E i \in 1..Len(Ink(r)) : IsName(Ink(r)[i])
<1> DEFINE I == {i \in DOMAIN r : IsInk(r[i])}
<1>1. DOMAIN r = 1..Len(r)
  OBVIOUS
<1>2. \A i \in 1..Len(r) : i \in I <=> IsInk(r[i])
  BY <1>1
<1>3. \A t : IsName(t) => IsInk(t)
  BY TokensDiffer DEF IsName
<1> HIDE DEF I
<1>4. /\ \A x \in 1..Len(At(r, I)) : \E i \in 1..Len(r) : i \in I /\ At(r, I)[x] = r[i]
      /\ \A i \in 1..Len(r) : i \in I => \E x \in 1..Len(At(r, I)) : At(r, I)[x] = r[i]
  BY AtElements
<1>5. Ink(r) = At(r, I)
  BY DEF Ink, I
<1> QED  BY <1>2, <1>3, <1>4, <1>5

LEMMA SameInkClean ==
    ASSUME NEW H, NEW r \in Seq(Glyph), NEW s \in Seq(Glyph), Ink(s) = Ink(r), Clean(r, H),
           r \in Seq(Discreet(H) \cup {WS, CRLF}) => s \in Seq(Discreet(H) \cup {WS, CRLF})
    PROVE  Clean(s, H)
  BY CleanType, NameInk DEF Clean

(* Folding, and reading what was folded.                                   *)
LEMMA CleanLines ==
    ASSUME NEW H, NEW k, Fits(k), NEW b \in Seq(Char), Clean(b, H)
    PROVE  Clean(Lines(b, Width[k] + 2), H)
<1> DEFINE D == Discreet(H)
           l == Lines(b, Width[k] + 2)
           w == Width[k] + 2
<1>1. b \in Seq(Glyph) /\ l \in Seq(Glyph) /\ Ink(l) = Ink(b) /\ w \in 1..(Hard - 1)
  BY LinesType, CharFacts, FitsColumn DEF Written
<1>2. ASSUME b \in Seq(D \cup {WS, CRLF}) PROVE l \in Seq(D \cup {WS, CRLF})
  <2> DEFINE E == D \cup {WS}
  <2>1. CRLF \notin E /\ E \cup {WS, CRLF} = D \cup {WS, CRLF}
    BY CharFacts, TokensDiffer DEF Discreet
  <2>2. b \in Seq(E)
    <3>1. \A i \in 1..Len(b) : b[i] \in E
      BY <1>2, CharFacts
    <3> DEFINE n == Len(b)
    <3>2. b \in [1..n -> E] /\ n \in Nat
      BY <3>1
    <3> HIDE DEF n, E
    <3> QED  BY <3>2
  <2> HIDE DEF E, l, w
  <2>3. Written(E, b, w)
    BY <1>1, <2>1, <2>2, LinesWritten
  <2>4. l = Lines(b, w)
    BY DEF l, w
  <2> QED  BY <2>1, <2>3, <2>4 DEF Written
<1> HIDE DEF l, w, D
<1>3. Clean(l, H)
  BY <1>1, <1>2, SameInkClean DEF D
<1> QED  BY <1>3 DEF l

LEMMA CleanRead ==
    ASSUME NEW H, NEW r \in Seq(Glyph), Clean(r, H)
    PROVE  Clean(TrimSpace(Unfold(r)), H)
<1> DEFINE D == Discreet(H) \cup {WS, CRLF}
           s == Unfold(r)
           t == TrimSpace(s)
<1>1. s \in Seq(Glyph) /\ Ink(s) = Ink(r)
  BY InkType, InkUnfold
<1>2. t \in Seq(Glyph) /\ Ink(t) = Ink(r)
  BY <1>1, TrimEnds, InkTrim
<1>3. ASSUME r \in Seq(D) PROVE t \in Seq(D)
  <2> HIDE DEF D
  <2>1. s \in Seq(D)
    BY <1>3, InkType
  <2> QED  BY <2>1, TrimEnds
<1> HIDE DEF t, s
<1>4. Clean(t, H)
  BY <1>2, <1>3, SameInkClean
<1> QED  BY <1>4 DEF t, s

LEMMA CleanConcat ==
    ASSUME NEW H, NEW a \in CleanFields(H), NEW b \in CleanFields(H)
    PROVE  a \o b \in CleanFields(H)
<1> DEFINE ab == a \o b
           n == Len(a)
<1>1. /\ a \in Fields /\ \A i \in Begins(a) : a[i] = Name("From") => Clean(Rest(a, i), H)
      /\ b \in Fields /\ \A i \in Begins(b) : b[i] = Name("From") => Clean(Rest(b, i), H)
  BY DEF CleanFields
<1>2. /\ a \in Seq(Glyph) /\ n \in Nat /\ b \in Seq(Glyph) /\ Len(b) \in Nat
      /\ b # <<>> => IsName(b[1]) /\ b[1] # WS
  <2>1. b # <<>> => IsName(b[1])
    BY <1>1, FieldsType
  <2> QED  BY <1>1, <2>1, FieldsType, TokensDiffer DEF IsName
<1>3. ab \in Fields
  BY <1>1, FieldsConcat
<1>4. /\ ab \in Seq(Glyph) /\ Len(ab) = n + Len(b)
      /\ \A i \in 1..Len(ab) : ab[i] = IF i <= n THEN a[i] ELSE b[i - n]
  BY <1>2, ConcatProperties
<1>5. ASSUME NEW i \in Begins(ab), ab[i] = Name("From") PROVE Clean(Rest(ab, i), H)
  <2>1. i \in 1..Len(ab)
    BY DEF Begins
  <2>2. CASE i <= n
    <3>1. i \in 1..n /\ ab[i] = a[i]
      BY <1>2, <1>4, <2>1, <2>2
    <3>2. i \in Begins(a)
      BY <1>1, <1>2, <3>1, BeginsConcat
    <3>3. Clean(Rest(a, i), H)
      BY <1>1, <1>5, <3>1, <3>2
    <3>4. CASE Rest(ab, i) = Rest(a, i)
      BY <3>3, <3>4
    <3>5. ASSUME b # <<>>, NEW c \in Seq(Glyph), Rest(ab, i) = Rest(a, i) \o c, Len(c) >= 1, c[1] = b[1]
          PROVE  Clean(Rest(ab, i), H)
      <4> DEFINE r == Rest(a, i)
                 m == Len(r)
      <4>1. r \in Seq(Glyph) /\ m \in Nat /\ Len(c) \in Nat
        BY <1>2, <3>1, RestType
      <4> HIDE DEF r
      <4>2. /\ Len(r \o c) = Len(r) + Len(c)
            /\ \A j \in 1..(Len(r) + Len(c)) : (r \o c)[j] = IF j <= Len(r) THEN r[j] ELSE c[j - Len(r)]
        BY <4>1, ConcatProperties
      <4>3. m + 1 \in 1..(m + Len(c)) /\ ~(m + 1 <= m) /\ (m + 1) - m = 1
        BY <3>5, <4>1
      <4>4. (r \o c)[m + 1] = b[1] /\ m + 1 \in 1..Len(r \o c)
        BY <3>5, <4>2, <4>3
      <4>5. \E j \in 1..Len(r \o c) : IsName((r \o c)[j])
        BY <1>2, <3>5, <4>4
      <4> QED  BY <3>5, <4>5 DEF Clean, r
    <3>6. \/ Rest(ab, i) = Rest(a, i)
          \/ b # <<>> /\ GoesOn(a, Rest(ab, i), Rest(a, i), b[1])
      BY <1>1, <1>2, <3>1, RestConcatLeft
    <3> HIDE DEF ab
    <3> QED  BY <3>4, <3>5, <3>6 DEF GoesOn
  <2>3. CASE ~(i <= n)
    <3> DEFINE j == i - n
    <3>1. j \in 1..Len(b) /\ n + j = i /\ ab[i] = b[j]
      BY <1>2, <1>4, <2>1, <2>3
    <3> HIDE DEF j
    <3>2. j \in Begins(b)
      <4>1. n + j \in Begins(ab)
        BY <1>5, <3>1
      <4>2. b[j] # WS /\ IF j = 1 THEN Closed(a) ELSE b[j - 1] = CRLF
        BY <1>1, <1>2, <3>1, <4>1, BeginsConcat
      <4> QED  BY <3>1, <4>2 DEF Begins, BeginsLine
    <3>3. Clean(Rest(b, j), H)
      BY <1>1, <1>5, <3>1, <3>2
    <3>4. Rest(ab, n + j) = Rest(b, j)
      BY <1>1, <3>1, RestConcatRight
    <3> QED  BY <3>1, <3>3, <3>4
  <2> QED  BY <2>2, <2>3
<1> HIDE DEF ab
<1>6. ab \in CleanFields(H)
  BY <1>3, <1>5 DEF CleanFields
<1> QED  BY <1>6 DEF ab

(* What is clean is read as something clean from the wire.                 *)
LEMMA CleanWire ==
    ASSUME NEW H, NEW h \in Header, Writable(h), \A i \in 1..Len(h["From"]) : Clean(h["From"][i], H)
    PROVE  \A i \in 1..Len(ReadHeader(WriteHeader(h))["From"]) : Clean(ReadHeader(WriteHeader(h))["From"][i], H)
<1> DEFINE S == CleanFields(H)
           u == FlattenSeq(KeyWires(h))
           from == "From"
<1>1. S \in SUBSET Seq(Glyph) /\ <<>> \in S /\ \A a, b \in S : a \o b \in S
  <2>1. \A a \in S : a \in Seq(Glyph)
    BY DEF CleanFields, Fields
  <2>2. <<>> \in S
    <3>1. <<>> \in Fields
      BY DEF Fields
    <3>2. Begins(<<>>) = {}
      BY DEF Begins
    <3> QED  BY <3>1, <3>2 DEF CleanFields
  <2>3. \A a, b \in S : a \o b \in S
    BY CleanConcat
  <2> QED  BY <2>1, <2>2, <2>3
<1>2. ASSUME NEW k \in Range(Keys), NEW i \in 1..Len(Bodies(h, k))
      PROVE  headerWritelnFold(k, Bodies(h, k)[i]) \in S
  <2> DEFINE b == Bodies(h, k)[i]
             f == headerWritelnFold(k, b)
  <2>1. h[k] \in Seq(Seq(Char)) /\ WS \in Char
    BY CharFacts
  <2>2. b \in Seq(Char) /\ (h[k] = <<>> => Bodies(h, k) = <<>>)
    BY <2>1, BodiesType
  <2>3. h[k] # <<>>
    BY <2>2
  <2>4. Fits(k)
    BY <2>3, WritableFits
  <2>5. k = "From" => Clean(b, H)
    BY KeysAssumption DEF Bodies
  <2> HIDE DEF b
  <2>6. f \in Fields /\ f[1] = Name(k) /\ Begins(f) = {1} /\ Rest(f, 1) = Lines(b, Width[k] + 2)
    BY <2>2, <2>4, FieldIs
  <2>7. Name(k) = Name("From") => k = "From"
    BY TokensDiffer
  <2>8. k = "From" => Clean(Lines(b, Width[k] + 2), H)
    BY <2>2, <2>4, <2>5, CleanLines
  <2> HIDE DEF f
  <2>9. f \in S
    BY <2>6, <2>7, <2>8 DEF CleanFields
  <2> QED  BY <2>9 DEF f, b
<1> HIDE DEF S
<1>3. u \in S
  BY <1>1, <1>2, WireClosed
<1>4. /\ u \in Fields /\ u \in Seq(Glyph)
      /\ \A i \in Begins(u) : u[i] = Name("From") => Clean(Rest(u, i), H)
  BY <1>3, FieldsType DEF S, CleanFields
<1>5. ReadHeader(WriteHeader(h))["From"] = ReadField(u, "From")
  BY <1>4, WriteHeaderIs, ReadIs, KeysFacts
<1> HIDE DEF u
<1> DEFINE v == BodiesAt(u)
           I == NamedAt(u, "From")
<1>6. v \in Seq(Seq(Char)) /\ Len(v) = Len(u)
  BY <1>4, BodiesAtType
<1>7. \A x \in 1..Len(At(v, I)) : \E i \in 1..Len(v) : i \in I /\ At(v, I)[x] = v[i]
  <2> DEFINE T == Seq(Char)
  <2> HIDE DEF v, I, T
  <2>1. v \in Seq(T)
    BY <1>6 DEF T
  <2> QED  BY <2>1, AtElements
<1>8. ASSUME NEW i \in 1..Len(u), i \in I PROVE Clean(v[i], H)
  <2>1. Clean(Rest(u, i), H) /\ Rest(u, i) \in Seq(Glyph)
    BY <1>4, <1>8, RestType DEF NamedAt
  <2> QED  BY <2>1, CleanRead DEF BodiesAt, BodyAt
<1> HIDE DEF v, I
<1>9. \A x \in 1..Len(At(v, I)) : Clean(At(v, I)[x], H)
  BY <1>6, <1>7, <1>8
<1> QED  BY <1>5, <1>9 DEF ReadField, v, I

(* What is hidden with a mail is not said in its From field, and only      *)
(* ulist hides somebody.                                                   *)
Secret(s) ==
    /\ s.by = "mta" => s.hidden = {}
    /\ \A i \in 1..Len(s.header["From"]) : Clean(s.header["From"][i], s.hidden)

AllSecret == \A s \in transit \cup held : Secret(s)

LEMMA SecretRead ==
    ASSUME NEW s, s.header \in Header, s.by \in {"mta", "ulist"}, s.by = "ulist" => Writable(s.header), Secret(s)
    PROVE  \A i \in 1..Len(ReadHeader(Wire(s))["From"]) : Clean(ReadHeader(Wire(s))["From"][i], s.hidden)
<1>1. CASE s.by = "mta"
  <2>1. s.hidden = {}
    BY <1>1 DEF Secret
  <2> QED  BY <2>1 DEF Clean, Reveals
<1>2. CASE s.by = "ulist"
  BY <1>2, CleanWire DEF Wire, Secret
<1> QED  BY <1>1, <1>2

(* Whom ulist finds in a From field that says nothing of the hidden.       *)
LEMMA DiscreetBoxes ==
    ASSUME NEW H, NEW h \in Header, \A i \in 1..Len(h["From"]) : Clean(h["From"][i], H), Parses(h, "From")
    PROVE  Boxes(h, "From") \in Seq({x \in Discreet(H) : IsBox(x)})
<1> DEFINE g == Get(h, "From")
           I == {i \in DOMAIN g : IsBox(g[i])}
           B == {x \in Discreet(H) : IsBox(x)}
           u == Boxes(h, "From")
<1>1. h["From"] \in Seq(Seq(Char))
  BY CharFacts, KeysFacts
<1>2. g \in Seq(Char) /\ u \in Seq({x \in Char : IsBox(x)})
  BY <1>1, GetType
<1>3. Clean(g, H)
  <2>1. CASE h["From"] = <<>>
    BY <2>1 DEF Get, Clean
  <2>2. CASE h["From"] # <<>>
    <3> DEFINE b == h["From"][1]
    <3>1. 1 \in 1..Len(h["From"])
      <4> DEFINE S == Seq(Char)
      <4> HIDE DEF S
      <4>1. h["From"] \in Seq(S)
        BY <1>1 DEF S
      <4> QED  BY <2>2, <4>1
    <3>2. Clean(b, H) /\ b \in Seq(Char)
      BY <1>1, <3>1
    <3>3. b \in Seq(Glyph) /\ g = TrimSpace(b)
      BY <2>2, <3>2, CharFacts DEF Get
    <3> HIDE DEF b
    <3>4. g \in Seq(Glyph) /\ Ink(g) = Ink(b)
      BY <3>3, TrimEnds, InkTrim
    <3> DEFINE D == Discreet(H) \cup {WS, CRLF}
    <3>5. ASSUME b \in Seq(D) PROVE g \in Seq(D)
      <4> HIDE DEF D
      <4> QED  BY <3>3, <3>5, TrimEnds
    <3> HIDE DEF g
    <3> QED  BY <3>2, <3>3, <3>4, <3>5, SameInkClean
  <2> QED  BY <2>1, <2>2
<1>4. ASSUME NEW i \in 1..Len(g) PROVE ~Reveals(g[i], H)
  <2>1. \A j \in 1..Len(g) : IsBox(g[j]) \/ g[j] = WS
    BY <1>2 DEF Parses
  <2>2. \A j \in 1..Len(g) : ~IsName(g[j])
    BY <2>1, TokensDiffer DEF IsName, IsBox, Name, WS
  <2> QED  BY <1>3, <2>2 DEF Clean
<1>5. \A i \in 1..Len(g) : i \in I => g[i] \in B
  BY <1>2, <1>4 DEF Discreet
<1>6. u = At(g, I)
  BY DEF Boxes
<1> HIDE DEF g, I, u, B
<1>7. \A x \in 1..Len(u) : \E i \in 1..Len(g) : i \in I /\ u[x] = g[i]
  BY <1>2, <1>6, AtElements
<1>8. u \in Seq(B)
  <2> DEFINE n == Len(u)
  <2>1. u \in [1..n -> B] /\ n \in Nat
    BY <1>2, <1>5, <1>7
  <2> HIDE DEF n
  <2> QED  BY <2>1
<1> QED  BY <1>8 DEF u, B

LEMMA RangeOf == Range(<<>>) = {} /\ \A x : Range(<<x>>) = {x}
<1>1. ASSUME NEW x PROVE Range(<<x>>) = {x}
  <2>1. DOMAIN <<x>> = {1} /\ <<x>>[1] = x
    OBVIOUS
  <2> QED  BY <2>1 DEF Range
<1>2. Range(<<>>) = {}
  BY DEF Range
<1> QED  BY <1>1, <1>2

(* What a list writes of somebody who is hidden, and whom it hides.        *)
LEMMA RewrittenSecret ==
    ASSUME NEW h \in Header, NEW l \in ListAddr, NEW H \in SUBSET Person, NEW K,
           K = IF l \in conf.hide THEN H \cup Named(h) ELSE H,
           \A i \in 1..Len(h["From"]) : Clean(h["From"][i], H), ~ForwardFails(l, h)
    PROVE  /\ K \cap Named(Rewritten(l, h)) = {}
           /\ \A i \in 1..Len(Rewritten(l, h)["From"]) : Clean(Rewritten(l, h)["From"][i], K)
<1> DEFINE g == Rewritten(l, h)
<1>1. K \subseteq Person /\ l \notin K /\ l \notin Person
  BY AddressAssumption DEF Named, PeopleIn
<1>2. {"Content-Type", "From", "List-Id", "Reply-To", "Sender", "X-Spam"} \subseteq Range(Keys)
  BY KeysFacts
<1>3. DOMAIN h = Range(Keys)
  BY DEF Header
<1>4. CASE l \in conf.hide
  <2>1. g["From"] = <<<<Box(l, l)>>>> /\ g["Reply-To"] = <<>> /\ g["Sender"] = <<>>
    BY <1>2, <1>3, <1>4 DEF Rewritten
  <2> HIDE DEF g
  <2>2. Range(<<<<Box(l, l)>>>>) = {<<Box(l, l)>>} /\ Range(<<Box(l, l)>>) = {Box(l, l)} /\ Range(<<>>) = {}
    BY RangeOf
  <2>3. \A p \in Named(g) : p = l
    BY <2>1, <2>2, BoxFacts DEF Named, PeopleIn
  <2>4. ~Reveals(Box(l, l), K)
    BY <1>1, BoxFacts DEF Reveals
  <2>5. \A i \in 1..Len(g["From"]) : Clean(g["From"][i], K)
    BY <2>1, <2>4 DEF Clean
  <2> QED  BY <1>1, <2>3, <2>5 DEF g
<1>5. CASE l \notin conf.hide
  <2> DEFINE B == {x \in Discreet(H) : IsBox(x)}
             V == {Box(x[2], l) : x \in B}
             v == Via(h, l)
             r == ReplyTo(h)
  <2>1. K = H /\ Parses(h, "From")
    BY <1>5 DEF ForwardFails
  <2>2. g["From"] = <<v>> /\ g["Reply-To"] = <<r>> /\ g["Sender"] = <<>>
    BY <1>2, <1>3, <1>5 DEF Rewritten, Via, ReplyTo
  <2>3. Discreet(H) \in SUBSET Char /\ WS \in Discreet(H) /\ l \in Address
    BY CharFacts DEF Discreet, Address, Reveals, IsBox, WS
  <2>4. v \in Seq(V) /\ r \in Seq(Discreet(H))
    <3>1. Boxes(h, "From") \in Seq(B)
      BY <2>1, DiscreetBoxes
    <3> QED  BY <2>3, <3>1, ViaType
  <2> HIDE DEF g, v, r
  <2>5. ASSUME NEW x \in V PROVE ~Reveals(x, H)
    <3>1. PICK y \in B : x = Box(y[2], l)
      BY <2>5
    <3>2. y[2] \notin H
      BY DEF Discreet, Reveals
    <3> QED  BY <1>1, <2>1, <3>1, <3>2, BoxFacts DEF Reveals
  <2>6. \A x \in Discreet(H) : ~Reveals(x, H)
    BY DEF Discreet
  <2> HIDE DEF V, B
  <2>7. (\A x \in Range(v) : ~Reveals(x, H)) /\ (\A x \in Range(r) : ~Reveals(x, H))
    BY <2>4, <2>5, <2>6 DEF Range
  <2>8. Range(<<v>>) = {v} /\ Range(<<r>>) = {r} /\ Range(<<>>) = {}
    BY RangeOf
  <2>9. ASSUME NEW p \in Named(g), p \in H PROVE FALSE
    <3>1. PICK x \in Range(v) \cup Range(r) : IsBox(x) /\ p \in {x[2], x[3]}
      BY <2>2, <2>8 DEF Named, PeopleIn
    <3> QED  BY <2>7, <2>9, <3>1 DEF Reveals
  <2>10. Clean(v, K)
    <3>1. \A i \in 1..Len(v) : v[i] \in Range(v)
      BY <2>4 DEF Range
    <3> QED  BY <2>1, <2>7, <3>1 DEF Clean
  <2>11. \A i \in 1..Len(g["From"]) : Clean(g["From"][i], K)
    BY <2>2, <2>10
  <2> QED  BY <2>1, <2>9, <2>11 DEF g
<1> QED  BY <1>4, <1>5

LEMMA ForwardedSecret ==
    ASSUME conf \in Config, NEW h \in Header, NEW l \in ListAddr, NEW H \in SUBSET Person,
           \A i \in 1..Len(h["From"]) : Clean(h["From"][i], H), ~ForwardFails(l, h), NEW u \in Forwarded(l, h, H)
    PROVE  u.hidden \cap Named(u.header) = {} /\ Secret(u)
<1> DEFINE K == IF l \in conf.hide THEN H \cup Named(h) ELSE H
           g == Rewritten(l, h)
<1>1. u.by = "ulist" /\ u.header = g /\ u.hidden = K
  <2>1. u.by = "ulist" /\ u.header = g
    BY ForwardedType
  <2>2. l \in conf.hide => u.hidden = H \cup Named(h)
    BY ForwardedType
  <2>3. l \notin conf.hide => u.hidden = H
    BY ForwardedType
  <2> QED  BY <2>1, <2>2, <2>3
<1>2. /\ K \cap Named(g) = {}
      /\ \A i \in 1..Len(g["From"]) : Clean(g["From"][i], K)
  BY RewrittenSecret
<1> HIDE DEF K, g
<1> QED  BY <1>1, <1>2 DEF Secret

HiddenInv == TypeOK /\ WrittenFits /\ HiddenNotNamedAsSender /\ AllSecret

LEMMA HiddenInit ==
    ASSUME Init
    PROVE  HiddenInv
<1>1. TypeOK /\ WrittenFits
  BY TypeInit
<1>2. held = {} /\ \A t \in transit : t.hidden = {}
  BY DEF Init, Letter
<1> QED  BY <1>1, <1>2 DEF HiddenInv, HiddenNotNamedAsSender, AllSecret, Secret, Clean, Reveals

LEMMA HiddenStep ==
    ASSUME HiddenInv, [Next]_vars
    PROVE  HiddenInv'
<1>1. TypeOK /\ WrittenFits /\ TypeOK' /\ WrittenFits'
  BY TypeStep DEF HiddenInv
<1>2. conf \in Config /\ transit \subseteq Mail /\ held \subseteq Kept
  BY <1>1 DEF TypeOK, Mail, Kept
<1>3. /\ \A u \in transit' : u \in transit \/ Redirected(u) \/ Notified(u) \/ Reported(u) \/ Sent(u)
      /\ \A m \in held' : m \in held \/ Stored(m)
  BY <1>1, StepCases
<1>4. ASSUME NEW s \in transit \cup held
      PROVE  /\ ReadHeader(Wire(s)) \in Header /\ s.hidden \in SUBSET Person /\ Secret(s)
             /\ \A i \in 1..Len(ReadHeader(Wire(s))["From"]) : Clean(ReadHeader(Wire(s))["From"][i], s.hidden)
  <2>1. /\ s.header \in Header /\ s.by \in {"mta", "ulist"} /\ s.hidden \in SUBSET Person
        /\ s.by = "ulist" => Writable(s.header)
    BY <1>1, <1>2 DEF Mail, Kept, WrittenFits
  <2>2. Secret(s)
    BY DEF HiddenInv, AllSecret
  <2> QED  BY <2>1, <2>2, SecretRead, WireType
<1>5. ASSUME NEW u \in transit' PROVE u.hidden \cap Named(u.header) = {} /\ Secret(u)
  <2>1. CASE u \in transit
    BY <1>4, <2>1 DEF HiddenInv, HiddenNotNamedAsSender
  <2>2. CASE Redirected(u)
    <3>1. PICK t \in transit, a \in ListAddr : u = [t EXCEPT !.to = a]
      BY <2>2 DEF Redirected
    <3>2. u.header = t.header /\ u.hidden = t.hidden /\ u.by = t.by
      BY <1>2, <3>1 DEF Mail
    <3>3. Secret(t) /\ t.hidden \cap Named(t.header) = {}
      BY <1>4 DEF HiddenInv, HiddenNotNamedAsSender
    <3> QED  BY <3>2, <3>3 DEF Secret
  <2>3. CASE Notified(u)
    <3>1. u.hidden = {}
      BY <1>2, <2>3, NoticeType DEF Notified
    <3> QED  BY <3>1 DEF Secret, Clean, Reveals
  <2>4. CASE Reported(u)
    <3>1. u.hidden = {}
      BY <2>4 DEF Reported, Letter
    <3> QED  BY <3>1 DEF Secret, Clean, Reveals
  <2>5. CASE Sent(u)
    <3>1. PICK s \in transit \cup held, l \in ListAddr :
            ~ForwardFails(l, ReadHeader(Wire(s))) /\ u \in Forwarded(l, ReadHeader(Wire(s)), s.hidden)
      BY <2>5 DEF Sent
    <3> QED  BY <1>2, <1>4, <3>1, ForwardedSecret
  <2> QED  BY <1>3, <2>1, <2>2, <2>3, <2>4, <2>5
<1>6. ASSUME NEW m \in held' PROVE Secret(m)
  <2>1. CASE m \in held
    BY <1>4, <2>1
  <2>2. CASE Stored(m)
    <3>1. PICK t \in transit, l \in ListAddr : m = Filed(l, ReadHeader(Wire(t)), t.hidden)
      BY <2>2 DEF Stored
    <3>2. m.header = ReadHeader(Wire(t)) /\ m.by = "ulist" /\ m.hidden = t.hidden
      BY <3>1 DEF Filed
    <3> QED  BY <1>4, <3>2 DEF Secret
  <2> QED  BY <1>3, <2>1, <2>2
<1>7. HiddenNotNamedAsSender' /\ AllSecret'
  BY <1>5, <1>6 DEF HiddenNotNamedAsSender, AllSecret
<1> QED  BY <1>1, <1>7 DEF HiddenInv

(* Whichever lists a mail passes, and however often its header is folded   *)
(* and read again: the fields From, Reply-To and Sender of a mail on its   *)
(* way name nobody whom they named when a list with HideFrom forwarded it  *)
(* (ulist.go:237-272, header.go:98-170).  Other fields of a mail are       *)
(* forwarded as they are.                                                  *)
THEOREM HiddenStays == Spec => []HiddenNotNamedAsSender
<1>1. Init => HiddenInv
  BY HiddenInit
<1>2. HiddenInv /\ [Next]_vars => HiddenInv'
  BY HiddenStep
<1>3. HiddenInv => HiddenNotNamedAsSender
  BY DEF HiddenInv
<1> QED  BY <1>1, <1>2, <1>3, PTL DEF Spec

-----------------------------------------------------------------------------
(* A header without an empty field is read as it was written *)

(* A field, and all that is written if no field is empty, ends its line.   *)
Complete == {u \in Fields : Closed(u)}

LEMMA CompleteClosed ==
    /\ Complete \in SUBSET Seq(Glyph) /\ <<>> \in Complete
    /\ \A a, b \in Complete : a \o b \in Complete
<1>1. \A u \in Complete : u \in Seq(Glyph)
  BY DEF Complete, Fields
<1>2. <<>> \in Complete
  BY DEF Complete, Fields, Closed
<1>3. \A a, b \in Complete : a \o b \in Complete
  BY FieldsConcat DEF Complete
<1> QED  BY <1>1, <1>2, <1>3

(* Bodies that are joined have the ink of each.                            *)
LEMMA AddressListInk ==
    ASSUME NEW bodies \in Seq(Seq(Char)), bodies # <<>>, \A i \in 1..Len(bodies) : Ink(bodies[i]) # <<>>
    PROVE  Ink(AddressList(bodies)) # <<>>
<1> DEFINE S == {s \in Seq(Char) : s = <<>> \/ Ink(s) # <<>>}
           ss == [i \in DOMAIN bodies |-> <<WS>> \o bodies[i]]
           n == Len(bodies)
<1>1. n \in Nat /\ n >= 1 /\ DOMAIN bodies = 1..n /\ \A i \in 1..n : bodies[i] \in Seq(Char)
  <2> DEFINE B == Seq(Char)
  <2> HIDE DEF B
  <2>1. bodies \in Seq(B)
    BY DEF B
  <2>2. n \in Nat /\ n >= 1 /\ DOMAIN bodies = 1..n /\ \A i \in 1..n : bodies[i] \in B
    BY <2>1
  <2> QED  BY <2>2 DEF B
<1>2. ASSUME NEW a \in Seq(Char), NEW b \in Seq(Char), Ink(a) # <<>> \/ Ink(b) # <<>>
      PROVE  Ink(a \o b) # <<>>
  <2> DEFINE x == Ink(a)
             y == Ink(b)
  <2>1. x \in Seq(Char) /\ y \in Seq(Char) /\ Ink(a \o b) = x \o y
    BY InkConcat, InkType
  <2>2. x # <<>> \/ y # <<>>
    BY <1>2
  <2> HIDE DEF x, y
  <2>3. Len(x \o y) = Len(x) + Len(y) /\ Len(x) \in Nat /\ Len(y) \in Nat
    BY <2>1
  <2>4. Len(x) # 0 \/ Len(y) # 0
    BY <2>1, <2>2
  <2>5. Len(x \o y) # 0
    BY <2>3, <2>4
  <2> QED  BY <2>1, <2>5
<1>3. S \in SUBSET Seq(Char) /\ <<>> \in S
  OBVIOUS
<1>4. ASSUME NEW a \in S, NEW b \in S PROVE a \o b \in S
  <2>1. a \in Seq(Char) /\ b \in Seq(Char) /\ a \o b \in Seq(Char)
    OBVIOUS
  <2>2. CASE a = <<>> /\ b = <<>>
    BY <2>2
  <2>3. CASE Ink(a) # <<>> \/ Ink(b) # <<>>
    BY <1>2, <2>1, <2>3
  <2> QED  BY <2>2, <2>3
<1>5. ASSUME NEW i \in 1..n PROVE <<WS>> \o bodies[i] \in S /\ <<WS>> \o bodies[i] # <<>>
  <2>1. bodies[i] \in Seq(Char) /\ <<WS>> \in Seq(Char) /\ Ink(bodies[i]) # <<>>
    BY <1>1, CharFacts
  <2> DEFINE x == <<WS>>
             y == bodies[i]
  <2> HIDE DEF x, y
  <2>2. x \in Seq(Char) /\ y \in Seq(Char) /\ Ink(y) # <<>>
    BY <2>1 DEF x, y
  <2>3. x \o y \in Seq(Char) /\ Ink(x \o y) # <<>>
    BY <1>2, <2>2
  <2>4. Ink(<<>>) = <<>>
    BY SingleToken
  <2>5. x \o y # <<>>
    BY <2>3, <2>4
  <2> QED  BY <2>3, <2>5 DEF x, y
<1> HIDE DEF S, n
<1>6. ss \in Seq(S) /\ Len(ss) = n /\ \A i \in 1..n : ss[i] = <<WS>> \o bodies[i]
  <2>1. ss \in [1..n -> S]
    BY <1>1, <1>5
  <2>2. \A i \in 1..n : ss[i] = <<WS>> \o bodies[i]
    BY <1>1
  <2> HIDE DEF ss
  <2> QED  BY <1>1, <2>1, <2>2
<1> DEFINE v == FlattenSeq(ss)
<1> HIDE DEF ss
<1>7. PICK f \in Flattening(S, ss) : TRUE
  BY <1>3, <1>4, <1>6, FlattenRec
<1>8. f \in [0..n -> S] /\ f[n] = f[n - 1] \o ss[n] /\ v = f[n] /\ n - 1 \in 0..n
  BY <1>1, <1>6, <1>7 DEF Flattening
<1>9. f[n - 1] \in Seq(Char) /\ f[n] \in S /\ ss[n] \in Seq(Char) /\ ss[n] # <<>>
  <2>1. n \in 1..n
    BY <1>1
  <2>2. ss[n] \in S /\ ss[n] # <<>>
    BY <1>5, <1>6, <2>1
  <2>3. n \in 0..n
    BY <1>1
  <2>4. f[n - 1] \in S /\ f[n] \in S
    BY <1>8, <2>3
  <2> QED  BY <1>3, <2>2, <2>4
<1>10. f[n] # <<>>
  <2> DEFINE x == f[n - 1]
             y == ss[n]
  <2>1. x \in Seq(Char) /\ y \in Seq(Char) /\ y # <<>> /\ f[n] = x \o y
    BY <1>8, <1>9
  <2> HIDE DEF x, y
  <2>2. Len(x \o y) = Len(x) + Len(y) /\ Len(x) \in Nat /\ Len(y) \in Nat /\ Len(y) # 0
    BY <2>1
  <2>3. Len(x \o y) # 0
    BY <2>2
  <2> QED  BY <2>1, <2>3
<1>11. v \in Seq(Char) /\ Ink(v) # <<>>
  BY <1>8, <1>9, <1>10 DEF S
<1>12. AddressList(bodies) = TrimSpace(v)
  BY DEF AddressList, v, ss
<1> HIDE DEF v
<1> QED  BY <1>11, <1>12, InkTrim

LEMMA BodiesInk ==
    ASSUME NEW h \in Header, ~HasEmptyField(h), NEW k \in Range(Keys)
    PROVE  \A i \in 1..Len(Bodies(h, k)) : Bodies(h, k)[i] \in Seq(Char) /\ Ink(Bodies(h, k)[i]) # <<>>
<1>1. h[k] \in Seq(Seq(Char)) /\ WS \in Char
  BY CharFacts
<1>2. \A i \in 1..Len(Bodies(h, k)) : Bodies(h, k)[i] \in Seq(Char)
  BY <1>1, BodiesType
<1>3. \A i \in 1..Len(h[k]) : Ink(h[k][i]) # <<>>
  <2>1. DOMAIN h[k] = 1..Len(h[k])
    BY <1>1
  <2> QED  BY <2>1 DEF HasEmptyField
<1>4. CASE k \in Joined /\ Len(h[k]) > 1
  <2>1. h[k] # <<>>
    BY <1>4
  <2>2. Ink(AddressList(h[k])) # <<>>
    BY <1>1, <1>3, <2>1, AddressListInk
  <2>3. Bodies(h, k) = <<AddressList(h[k])>>
    BY <1>4 DEF Bodies
  <2> QED  BY <1>2, <2>2, <2>3
<1>5. CASE ~(k \in Joined /\ Len(h[k]) > 1)
  BY <1>2, <1>3, <1>5 DEF Bodies
<1> QED  BY <1>4, <1>5

(* What a reader makes of a body that was written.                         *)
Back(k, b) == TrimSpace(Unfold(Lines(b, Width[k] + 2)))

LEMMA CompleteField ==
    ASSUME NEW h \in Header, Writable(h), ~HasEmptyField(h), NEW k \in Range(Keys), NEW i \in 1..Len(Bodies(h, k))
    PROVE  /\ Fits(k) /\ Bodies(h, k)[i] \in Seq(Char) /\ Lines(Bodies(h, k)[i], Width[k] + 2) # <<>>
           /\ headerWritelnFold(k, Bodies(h, k)[i]) \in Complete
<1> DEFINE b == Bodies(h, k)[i]
<1>1. h[k] \in Seq(Seq(Char)) /\ WS \in Char
  BY CharFacts
<1>2. h[k] = <<>> => Bodies(h, k) = <<>>
  BY <1>1, BodiesType
<1>3. h[k] # <<>>
  BY <1>2
<1>4. Fits(k)
  BY <1>3, WritableFits
<1>5. b \in Seq(Char) /\ Ink(b) # <<>>
  BY BodiesInk
<1> HIDE DEF b
<1>6. Ink(Lines(b, Width[k] + 2)) = Ink(b)
  BY <1>4, <1>5, LinesType DEF Written
<1>7. Lines(b, Width[k] + 2) # <<>>
  BY <1>5, <1>6, SingleToken
<1>8. headerWritelnFold(k, b) \in Complete
  BY <1>4, <1>5, <1>7, FieldIs DEF Complete
<1> QED  BY <1>4, <1>5, <1>7, <1>8 DEF b

LEMMA ReadFieldType ==
    ASSUME NEW u \in Seq(Glyph), NEW key
    PROVE  ReadField(u, key) \in Seq(Seq(Char)) /\ (u = <<>> => ReadField(u, key) = <<>>)
<1> DEFINE T == Seq(Char)
           v == BodiesAt(u)
           I == NamedAt(u, key)
<1>1. v \in Seq(T) /\ Len(v) = Len(u)
  BY BodiesAtType
<1>2. u = <<>> => Len(u) = 0
  OBVIOUS
<1> HIDE DEF T, v, I
<1>3. At(v, I) \in Seq(T)
  BY <1>1, ChosenType
<1>4. ASSUME u = <<>> PROVE At(v, I) = <<>>
  <2>1. \A i \in 1..Len(v) : i \notin I
    BY <1>1, <1>2, <1>4
  <2> QED  BY <1>1, <2>1, AtNone
<1> QED  BY <1>3, <1>4 DEF ReadField, T, v, I

(* Fields that are put together are read one after the other.              *)
LEMMA ReadNext ==
    ASSUME NEW a \in Complete, NEW b \in Complete, NEW key \in Range(Keys)
    PROVE  /\ ReadField(a \o b, key) = ReadField(a, key) \o ReadField(b, key)
           /\ ReadField(a, key) \in Seq(Seq(Char)) /\ ReadField(b, key) \in Seq(Seq(Char))
<1>1. a \in Fields /\ b \in Fields /\ Closed(a) /\ a \in Seq(Glyph) /\ b \in Seq(Glyph)
  BY DEF Complete, Fields
<1> QED  BY <1>1, ReadConcat, ReadFieldType

(* The bodies of a key, as they are read.                                  *)
BodiesBack(h, k) == [i \in 1..Len(Bodies(h, k)) |-> Back(k, Bodies(h, k)[i])]

LEMMA KeyWireRead ==
    ASSUME NEW h \in Header, Writable(h), ~HasEmptyField(h), NEW k \in Range(Keys), NEW key \in Range(Keys)
    PROVE  /\ KeyWire(h, k) \in Complete
           /\ ReadField(KeyWire(h, k), key) = IF key = k THEN BodiesBack(h, k) ELSE <<>>
<1> DEFINE n == Len(Bodies(h, k))
           ss == KeyFields(h, k)
           B(i) == Back(k, Bodies(h, k)[i])
           S == Seq(Char)
<1>1. n \in Nat /\ DOMAIN Bodies(h, k) = 1..n
  <2>1. h[k] \in Seq(Seq(Char)) /\ WS \in Char
    BY CharFacts
  <2> QED  BY <2>1, BodiesType
<1>2. ASSUME NEW i \in 1..n
      PROVE  /\ headerWritelnFold(k, Bodies(h, k)[i]) \in Complete
             /\ ReadField(headerWritelnFold(k, Bodies(h, k)[i]), key) = IF key = k THEN <<B(i)>> ELSE <<>>
  <2>1. /\ Fits(k) /\ Bodies(h, k)[i] \in Seq(Char)
        /\ headerWritelnFold(k, Bodies(h, k)[i]) \in Complete
    BY CompleteField
  <2> QED  BY <2>1, ReadSingle DEF Back
<1>3. ss \in Seq(Complete) /\ Len(ss) = n
      /\ \A i \in 1..n : ss[i] \in Complete /\ ReadField(ss[i], key) = IF key = k THEN <<B(i)>> ELSE <<>>
  <2> DEFINE m == n
  <2>1. ss = [i \in 1..m |-> headerWritelnFold(k, Bodies(h, k)[i])] /\ m \in Nat
    BY <1>1 DEF KeyFields
  <2> HIDE DEF ss
  <2>2. \A i \in 1..m : ss[i] = headerWritelnFold(k, Bodies(h, k)[i])
    BY <2>1
  <2>3. \A i \in 1..m : ss[i] \in Complete /\ ReadField(ss[i], key) = IF key = k THEN <<B(i)>> ELSE <<>>
    BY <1>2, <2>2
  <2> HIDE DEF m, B
  <2>4. ss \in [1..m -> Complete]
    BY <2>1, <2>3
  <2>5. ss \in Seq(Complete) /\ Len(ss) = m
    BY <2>1, <2>4
  <2> QED  BY <2>3, <2>5 DEF m
<1> HIDE DEF ss, n
<1>4. PICK f \in Flattening(Complete, ss) : TRUE
  BY <1>3, CompleteClosed, FlattenRec
<1>5. /\ f \in [0..n -> Complete] /\ f[0] = <<>> /\ KeyWire(h, k) = f[n]
      /\ \A i \in 1..n : f[i] = f[i - 1] \o ss[i]
  BY <1>3, <1>4 DEF Flattening, KeyWire, ss
<1> DEFINE r(i) == ReadField(f[i], key)
           Good(i) == /\ key = k => Len(r(i)) = i /\ \A j \in 1..i : r(i)[j] = B(j)
                      /\ key # k => r(i) = <<>>
           P == {i \in Nat : i \in 0..n => Good(i)}
<1>6. 0 \in P
  <2>1. r(0) = <<>>
    <3>1. <<>> \in Seq(Glyph) /\ f[0] = <<>>
      BY <1>5
    <3> HIDE DEF r
    <3>2. ReadField(f[0], key) = <<>>
      BY <3>1, ReadFieldType
    <3> QED  BY <3>2 DEF r
  <2>2. Len(<<>>) = 0 /\ 1..0 = {}
    OBVIOUS
  <2> HIDE DEF r
  <2> QED  BY <2>1, <2>2
<1>7. ASSUME NEW i \in P PROVE i + 1 \in P
  <2> SUFFICES ASSUME i + 1 \in 0..n PROVE Good(i + 1)
    OBVIOUS
  <2>1. i \in Nat /\ i \in 0..n /\ i + 1 \in 1..n /\ (i + 1) - 1 = i
    BY <1>1
  <2>2. Good(i)
    BY <2>1
  <2> DEFINE x == ReadField(f[i], key)
             y == ReadField(ss[i + 1], key)
  <2>3. f[i] \in Complete /\ ss[i + 1] \in Complete /\ f[i + 1] = f[i] \o ss[i + 1]
    BY <1>3, <1>5, <2>1
  <2>4. r(i + 1) = x \o y /\ x \in Seq(S) /\ y \in Seq(S)
    BY <2>3, ReadNext
  <2>5. y = IF key = k THEN <<B(i + 1)>> ELSE <<>>
    BY <1>3, <2>1
  <2>6. r(i) = x
    OBVIOUS
  <2> HIDE DEF x, y, r, S, B
  <2>7. CASE key # k
    <3>1. x = <<>> /\ y = <<>>
      BY <2>2, <2>5, <2>6, <2>7
    <3>2. x \o y = <<>>
      BY <3>1
    <3> QED  BY <2>4, <2>7, <3>2
  <2>8. CASE key = k
    <3>1. Len(x) = i /\ (\A j \in 1..i : x[j] = B(j)) /\ y = <<B(i + 1)>>
      BY <2>2, <2>5, <2>6, <2>8
    <3>2. Len(y) = 1 /\ y[1] = B(i + 1)
      BY <3>1
    <3>3. Len(x \o y) = Len(x) + Len(y)
          /\ \A j \in 1..(Len(x) + Len(y)) : (x \o y)[j] = IF j <= Len(x) THEN x[j] ELSE y[j - Len(x)]
      BY <2>4, ConcatProperties
    <3>4. ASSUME NEW j \in 1..(i + 1) PROVE (x \o y)[j] = B(j)
      <4>1. CASE j <= i
        BY <2>1, <3>1, <3>2, <3>3, <4>1
      <4>2. CASE j = i + 1
        <5>1. ~(j <= i) /\ j - i = 1 /\ j \in 1..(i + 1)
          BY <2>1, <4>2
        <5>2. (x \o y)[j] = y[1]
          BY <3>1, <3>2, <3>3, <5>1
        <5> QED  BY <3>2, <4>2, <5>2
      <4>3. j <= i \/ j = i + 1
        BY <2>1
      <4> QED  BY <4>1, <4>2, <4>3
    <3> QED  BY <2>4, <2>8, <3>1, <3>2, <3>3, <3>4
  <2> QED  BY <2>7, <2>8
<1>8. Good(n)
  <2> HIDE DEF Good
  <2>1. P \in SUBSET Nat
    OBVIOUS
  <2> HIDE DEF P
  <2>2. n \in P
    BY <1>1, <1>6, <1>7, <2>1, NatInduct
  <2> QED  BY <1>1, <2>2 DEF P
<1>9. f[n] \in Complete /\ r(n) \in Seq(S) /\ KeyWire(h, k) = f[n]
  <2>1. n \in 0..n
    BY <1>1
  <2>2. f[n] \in Complete
    BY <1>5, <2>1
  <2> QED  BY <1>5, <2>2, ReadFieldType, CompleteClosed
<1> DEFINE R == r(n)
<1>10. /\ key = k => Len(R) = n /\ \A j \in 1..n : R[j] = B(j)
       /\ key # k => R = <<>>
  BY <1>8
<1>11. R \in Seq(S) /\ ReadField(KeyWire(h, k), key) = R
  BY <1>9
<1> HIDE DEF R, S, B, r
<1>12. ASSUME key = k PROVE R = [j \in 1..n |-> B(j)]
  BY <1>1, <1>10, <1>11, <1>12
<1> QED  BY <1>9, <1>10, <1>11, <1>12 DEF BodiesBack, n, B

(* A reader gets, of each key, what was written of it.                     *)
LEMMA WireRead ==
    ASSUME NEW h \in Header, Writable(h), ~HasEmptyField(h), NEW key \in Range(Keys)
    PROVE  ReadHeader(WriteHeader(h))[key] = BodiesBack(h, key)
<1> DEFINE n == Len(Keys)
           ss == KeyWires(h)
           X == BodiesBack(h, key)
           S == Seq(Char)
<1>1. n \in Nat /\ DOMAIN Keys = 1..n /\ (\A i \in 1..n : Keys[i] \in Range(Keys))
      /\ \A i, j \in 1..n : Keys[i] = Keys[j] => i = j
  BY KeysFacts
<1>2. PICK m \in 1..n : Keys[m] = key
  BY KeysFacts
<1>3. ASSUME NEW i \in 1..n
      PROVE  /\ KeyWire(h, Keys[i]) \in Complete
             /\ ReadField(KeyWire(h, Keys[i]), key) = IF i = m THEN X ELSE <<>>
  <2>1. Keys[i] \in Range(Keys) /\ (i = m <=> Keys[i] = key)
    BY <1>1, <1>2
  <2> QED  BY <2>1, KeyWireRead
<1>4. ss \in Seq(Complete) /\ Len(ss) = n
      /\ \A i \in 1..n : ss[i] \in Complete /\ ReadField(ss[i], key) = IF i = m THEN X ELSE <<>>
  <2> DEFINE q == n
  <2>1. ss = [i \in 1..q |-> KeyWire(h, Keys[i])] /\ q \in Nat
    BY <1>1 DEF KeyWires
  <2> HIDE DEF ss, X
  <2>2. \A i \in 1..q : ss[i] = KeyWire(h, Keys[i])
    BY <2>1
  <2>3. \A i \in 1..q : ss[i] \in Complete /\ ReadField(ss[i], key) = IF i = m THEN X ELSE <<>>
    BY <1>3, <2>2
  <2> HIDE DEF q
  <2>4. ss \in [1..q -> Complete]
    BY <2>1, <2>3
  <2>5. ss \in Seq(Complete) /\ Len(ss) = q
    BY <2>1, <2>4
  <2> QED  BY <2>3, <2>5 DEF q
<1> HIDE DEF ss, n
<1>5. PICK f \in Flattening(Complete, ss) : TRUE
  BY <1>4, CompleteClosed, FlattenRec
<1>6. /\ f \in [0..n -> Complete] /\ f[0] = <<>> /\ FlattenSeq(ss) = f[n]
      /\ \A i \in 1..n : f[i] = f[i - 1] \o ss[i]
  BY <1>4, <1>5 DEF Flattening
<1> DEFINE r(i) == ReadField(f[i], key)
           Good(i) == r(i) = IF i < m THEN <<>> ELSE X
           P == {i \in Nat : i \in 0..n => Good(i)}
<1>7. 0 \in P
  <2>1. r(0) = <<>> /\ 0 < m
    <3>1. <<>> \in Seq(Glyph) /\ f[0] = <<>> /\ 0 < m
      BY <1>6
    <3> HIDE DEF r
    <3>2. ReadField(f[0], key) = <<>>
      BY <3>1, ReadFieldType
    <3> QED  BY <3>1, <3>2 DEF r
  <2> HIDE DEF r, X
  <2> QED  BY <2>1
<1>8. ASSUME NEW i \in P PROVE i + 1 \in P
  <2> SUFFICES ASSUME i + 1 \in 0..n PROVE Good(i + 1)
    OBVIOUS
  <2>1. i \in Nat /\ i \in 0..n /\ i + 1 \in 1..n /\ (i + 1) - 1 = i
    BY <1>1
  <2>2. Good(i)
    BY <2>1
  <2> DEFINE x == ReadField(f[i], key)
             y == ReadField(ss[i + 1], key)
  <2>3. f[i] \in Complete /\ ss[i + 1] \in Complete /\ f[i + 1] = f[i] \o ss[i + 1]
    BY <1>4, <1>6, <2>1
  <2>4. r(i + 1) = x \o y /\ x \in Seq(S) /\ y \in Seq(S)
    BY <2>3, ReadNext
  <2>5. y = IF i + 1 = m THEN X ELSE <<>>
    BY <1>4, <2>1
  <2>6. r(i) = x
    OBVIOUS
  <2> HIDE DEF x, y, r, S, X
  <2>7. x \o <<>> = x /\ <<>> \o y = y
    BY <2>4, ConcatEmptySeq
  <2>8. x = (IF i < m THEN <<>> ELSE X)
    BY <2>2, <2>6
  <2>9. CASE i + 1 < m
    <3>1. i < m /\ i + 1 # m
      BY <2>1, <2>9
    <3>2. r(i + 1) = <<>>
      BY <2>4, <2>5, <2>7, <2>8, <3>1
    <3> QED  BY <2>9, <3>2
  <2>10. CASE i + 1 = m
    <3>1. i < m /\ ~(i + 1 < m)
      BY <2>1, <2>10
    <3>2. r(i + 1) = X
      BY <2>4, <2>5, <2>7, <2>8, <2>10, <3>1
    <3> QED  BY <3>1, <3>2
  <2>11. CASE i + 1 > m
    <3>1. ~(i < m) /\ i + 1 # m /\ ~(i + 1 < m)
      BY <2>1, <2>11
    <3>2. r(i + 1) = X
      BY <2>4, <2>5, <2>7, <2>8, <3>1
    <3> QED  BY <3>1, <3>2
  <2> QED  BY <2>1, <2>9, <2>10, <2>11
<1>9. Good(n)
  <2> HIDE DEF Good
  <2>1. P \in SUBSET Nat
    OBVIOUS
  <2> HIDE DEF P
  <2>2. n \in P
    BY <1>1, <1>7, <1>8, <2>1, NatInduct
  <2> QED  BY <1>1, <2>2 DEF P
<1>10. ReadField(FlattenSeq(ss), key) = X
  <2> HIDE DEF X
  <2>1. ~(n < m)
    BY <1>1
  <2> QED  BY <1>6, <1>9, <2>1
<1>11. FlattenSeq(ss) \in Fields
  <2>1. n \in 0..n
    BY <1>1
  <2> QED  BY <1>6, <2>1 DEF Complete
<1>12. ReadHeader(WriteHeader(h))[key] = ReadField(FlattenSeq(ss), key)
  BY <1>11, ReadIs, WriteHeaderIs DEF ss
<1> QED  BY <1>10, <1>12

(* The words of a body are known by the longest.                           *)
LEMMA LongestFits ==
    ASSUME NEW s \in Seq(Glyph), NEW m \in Nat \ {0}, LongestWord(s) < m
    PROVE  NoWord(s, m)
<1> DEFINE L == {n \in 1..Len(s) : \E i \in 1..(Len(s) - n + 1) : \A j \in i..(i + n - 1) : IsInk(s[j])}
           S == {0} \cup L
<1> SUFFICES ASSUME NEW a \in 0..(Len(s) - m), \A j \in 1..m : IsInk(s[a + j])
             PROVE  FALSE
  BY Zenon DEF NoWord
<1>1. Len(s) \in Nat
  OBVIOUS
<1>2. m \in L
  <2>1. m \in 1..Len(s) /\ a + 1 \in 1..(Len(s) - m + 1) /\ (a + 1) + m - 1 = a + m
    BY <1>1
  <2>2. ASSUME NEW j \in (a + 1)..(a + m) PROVE IsInk(s[j])
    <3> DEFINE x == j - a
    <3>1. x \in 1..m /\ a + x = j
      BY <1>1
    <3> HIDE DEF x
    <3> QED  BY <3>1
  <2> QED  BY <2>1, <2>2
<1>3. S \in SUBSET (0..Len(s)) /\ S # {} /\ m \in S
  BY <1>1, <1>2
<1>4. LongestWord(s) = Max(S)
  BY DEF LongestWord
<1> HIDE DEF S, L
<1>5. Max(S) \in S /\ m <= Max(S)
  BY <1>1, <1>3, MaxOf
<1>6. Max(S) \in 0..Len(s)
  BY <1>3, <1>5
<1> DEFINE x == Max(S)
<1>7. x \in Nat /\ m <= x /\ x < m
  BY <1>1, <1>4, <1>5, <1>6
<1> HIDE DEF x
<1> QED  BY <1>7

LEMMA BackReads ==
    ASSUME NEW k, Fits(k), NEW b \in Seq(Char)
    PROVE  /\ Ink(Back(k, b)) = Ink(b)
           /\ Breaks(TrimSpace(b)) \subseteq Breaks(Back(k, b))
           /\ LongestWord(b) <= Hard - (Width[k] + 2) => Breaks(TrimSpace(b)) = Breaks(Back(k, b))
<1> DEFINE w == Width[k] + 2
           l == Lines(b, w)
           v == Unfold(l)
           I == 1..(Len(Ink(b)) - 1)
<1>1. w \in 1..(Hard - 1) /\ Hard \in Nat
  BY FitsColumn, LimitAssumption
<1>2. /\ l \in Seq(Glyph) /\ Ink(l) = Ink(b) /\ Inner(b) \subseteq Breaks(l)
      /\ NoWord(b, Hard - w + 1) => Breaks(l) \subseteq Inner(b)
  BY LinesType DEF Written
<1>3. b \in Seq(Glyph)
  BY CharFacts
<1> HIDE DEF l
<1>4. v \in Seq(Glyph) /\ Ink(v) = Ink(b) /\ Breaks(v) = Breaks(l)
  BY <1>2, InkType, InkUnfold, BreaksUnfold
<1>5. Back(k, b) = TrimSpace(v)
  BY DEF Back, l
<1> HIDE DEF v
<1>6. Ink(Back(k, b)) = Ink(b) /\ Breaks(Back(k, b)) = Inner(v)
  BY <1>4, <1>5, InkTrim, BreaksTrim
<1>7. Breaks(TrimSpace(b)) = Inner(b)
  BY <1>3, BreaksTrim
<1>8. Inner(v) = Breaks(l) \cap I /\ Inner(b) \subseteq I
  BY <1>4 DEF Inner
<1>9. Inner(b) \subseteq Inner(v)
  BY <1>2, <1>8
<1>10. ASSUME LongestWord(b) <= Hard - w PROVE Inner(v) \subseteq Inner(b)
  <2> DEFINE m == Hard - w + 1
  <2>1. m \in Nat \ {0} /\ m - 1 = Hard - w
    BY <1>1
  <2>2. LongestWord(b) \in Int
    <3> DEFINE S == {0} \cup {n \in 1..Len(b) : \E i \in 1..(Len(b) - n + 1) : \A j \in i..(i + n - 1) : IsInk(b[j])}
    <3>1. S \in SUBSET (0..Len(b)) /\ S # {} /\ Len(b) \in Nat
      BY <1>3
    <3>2. LongestWord(b) = Max(S)
      BY DEF LongestWord
    <3> HIDE DEF S
    <3>3. Max(S) \in S
      BY <3>1, MaxOf
    <3>4. Max(S) \in 0..Len(b)
      BY <3>1, <3>3
    <3> QED  BY <3>1, <3>2, <3>4
  <2>3. LongestWord(b) < m
    BY <1>1, <1>10, <2>2
  <2> HIDE DEF m
  <2>4. NoWord(b, m)
    BY <1>3, <2>1, <2>3, LongestFits
  <2>5. Breaks(l) \subseteq Inner(b)
    BY <1>2, <2>4 DEF m
  <2> QED  BY <1>8, <2>5
<1>11. LongestWord(b) <= Hard - w => Inner(b) = Inner(v)
  BY <1>9, <1>10
<1> QED  BY <1>6, <1>7, <1>9, <1>11

LEMMA HeaderReadsBack ==
    ASSUME NEW h \in Header, Writable(h), ~HasEmptyField(h)
    PROVE  ReadsBack(h, ReadHeader(WriteHeader(h)))
<1> DEFINE read == ReadHeader(WriteHeader(h))
<1>1. ASSUME NEW k \in Range(Keys)
      PROVE  LET written == Bodies(h, k)
             IN  /\ Len(read[k]) = Len(written)
                 /\ \A i \in DOMAIN written :
                       LET breaks == Breaks(TrimSpace(written[i]))
                       IN  /\ Ink(read[k][i]) = Ink(written[i])
                           /\ breaks \subseteq Breaks(read[k][i])
                           /\ LongestWord(written[i]) <= Hard - (Width[k] + 2) => breaks = Breaks(read[k][i])
  <2> DEFINE written == Bodies(h, k)
             n == Len(written)
  <2>1. read[k] = [i \in 1..n |-> Back(k, written[i])]
    BY WireRead DEF BodiesBack
  <2>2. n \in Nat /\ DOMAIN written = 1..n
    <3>1. h[k] \in Seq(Seq(Char)) /\ WS \in Char
      BY CharFacts
    <3> QED  BY <3>1, BodiesType
  <2> HIDE DEF read
  <2>3. Len(read[k]) = n
    <3> HIDE DEF n
    <3> QED  BY <2>1, <2>2
  <2>4. ASSUME NEW i \in DOMAIN written
        PROVE  LET breaks == Breaks(TrimSpace(written[i]))
               IN  /\ Ink(read[k][i]) = Ink(written[i])
                   /\ breaks \subseteq Breaks(read[k][i])
                   /\ LongestWord(written[i]) <= Hard - (Width[k] + 2) => breaks = Breaks(read[k][i])
    <3>1. i \in 1..n
      BY <2>2
    <3>2. read[k][i] = Back(k, written[i])
      BY <2>1, <3>1
    <3>3. Fits(k) /\ written[i] \in Seq(Char)
      BY <3>1, CompleteField
    <3> QED  BY <3>2, <3>3, BackReads
  <2> QED  BY <2>3, <2>4
<1> QED  BY <1>1 DEF ReadsBack

-----------------------------------------------------------------------------
(* No line is too long *)

(* How far a line reaches to which a token at its beginning belongs.       *)
Reach(t) == IF IsName(t) THEN Width[t[2]] + 1 ELSE 0

FitsAt(u, i) == \E j \in i..Len(u) : u[j] = CRLF /\ Reach(u[i]) + (j - i) <= Hard

ShortLines == {u \in Complete : \A i \in 1..Len(u) : BeginsLine(u, i) => FitsAt(u, i)}

LEMMA ReachType == \A t : Reach(t) \in Nat
<1>1. ASSUME NEW t, IsName(t) PROVE Reach(t) \in Nat
  <2>1. PICK k \in Range(Keys) : t = Name(k)
    BY <1>1 DEF IsName
  <2>2. t[2] = k /\ Width[k] \in Nat
    BY <2>1, TokensDiffer, WidthAssumption
  <2> QED  BY <1>1, <2>2 DEF Reach
<1>2. ASSUME NEW t, ~IsName(t) PROVE Reach(t) \in Nat
  BY <1>2 DEF Reach
<1> QED  BY <1>1, <1>2

LEMMA ShortConcat ==
    ASSUME NEW a \in ShortLines, NEW b \in ShortLines
    PROVE  a \o b \in ShortLines
<1> DEFINE ab == a \o b
           n == Len(a)
           m == Len(b)
<1>1. a \in Seq(Glyph) /\ n \in Nat /\ b \in Seq(Glyph) /\ m \in Nat /\ ab \in Complete
  BY CompleteClosed DEF ShortLines
<1>2. Len(ab) = n + m /\ \A i \in 1..(n + m) : ab[i] = IF i <= n THEN a[i] ELSE b[i - n]
  BY <1>1, ConcatProperties
<1>3. (\A i \in 1..n : BeginsLine(a, i) => FitsAt(a, i)) /\ (\A i \in 1..m : BeginsLine(b, i) => FitsAt(b, i))
  BY DEF ShortLines
<1> HIDE DEF ab, n, m
<1>4. (\A i \in 1..n : i \in 1..(n + m) /\ ab[i] = a[i]) /\ \A j \in 1..m : n + j \in 1..(n + m) /\ ab[n + j] = b[j]
  <2>1. \A i \in 1..n : i \in 1..(n + m) /\ ab[i] = a[i]
    BY <1>1, <1>2
  <2>2. ASSUME NEW j \in 1..m PROVE n + j \in 1..(n + m) /\ ab[n + j] = b[j]
    <3>1. n + j \in 1..(n + m) /\ ~(n + j <= n) /\ (n + j) - n = j
      BY <1>1
    <3> QED  BY <1>2, <3>1
  <2> QED  BY <2>1, <2>2
<1>5. ASSUME NEW i \in 1..n, BeginsLine(ab, i) PROVE FitsAt(ab, i)
  <2>1. BeginsLine(a, i)
    <3>1. i # 1 => i - 1 \in 1..n
      BY <1>1
    <3> QED  BY <1>4, <1>5, <3>1 DEF BeginsLine
  <2>2. PICK j \in i..n : a[j] = CRLF /\ Reach(a[i]) + (j - i) <= Hard
    BY <1>3, <2>1 DEF FitsAt, n
  <2>3. j \in 1..n /\ j \in i..(n + m)
    BY <1>1
  <2> QED  BY <1>2, <1>4, <2>2, <2>3 DEF FitsAt
<1>6. ASSUME NEW i \in 1..m, BeginsLine(ab, n + i) PROVE FitsAt(ab, n + i)
  <2>1. BeginsLine(b, i)
    <3>1. CASE i = 1
      BY <3>1 DEF BeginsLine
    <3>2. CASE i # 1
      <4> DEFINE x == i - 1
      <4>1. x \in 1..m /\ (n + i) - 1 = n + x /\ n + i # 1
        BY <1>1, <3>2
      <4>2. ab[n + x] = CRLF
        BY <1>6, <4>1 DEF BeginsLine
      <4>3. b[x] = CRLF
        BY <1>4, <4>1, <4>2
      <4> QED  BY <4>3 DEF BeginsLine
    <3> QED  BY <3>1, <3>2
  <2>2. PICK j \in i..m : b[j] = CRLF /\ Reach(b[i]) + (j - i) <= Hard
    BY <1>3, <2>1 DEF FitsAt, m
  <2>3. j \in 1..m /\ n + j \in (n + i)..(n + m) /\ (n + j) - (n + i) = j - i
    BY <1>1
  <2>4. ab[n + j] = CRLF /\ Reach(ab[n + i]) = Reach(b[i])
    BY <1>4, <2>2, <2>3
  <2> QED  BY <1>2, <2>2, <2>3, <2>4 DEF FitsAt
<1>7. ASSUME NEW i \in 1..Len(ab), BeginsLine(ab, i) PROVE FitsAt(ab, i)
  <2>1. CASE i <= n
    BY <1>1, <1>2, <1>5, <1>7, <2>1
  <2>2. CASE ~(i <= n)
    <3> DEFINE x == i - n
    <3>1. x \in 1..m /\ n + x = i
      BY <1>1, <1>2, <2>2
    <3> HIDE DEF x
    <3> QED  BY <1>6, <1>7, <3>1
  <2> QED  BY <2>1, <2>2
<1>8. ab \in ShortLines
  BY <1>1, <1>7 DEF ShortLines
<1> QED  BY <1>8 DEF ab

(* A field's first line has its name, which is counted as written.         *)
LEMMA ShortField ==
    ASSUME NEW k, Fits(k), NEW b \in Seq(Char), Lines(b, Width[k] + 2) # <<>>
    PROVE  headerWritelnFold(k, b) \in ShortLines
<1> DEFINE w == Width[k] + 2
           l == Lines(b, w)
           u == headerWritelnFold(k, b)
           n == Len(l)
<1>1. w \in 1..(Hard - 1) /\ Hard \in Nat /\ Width[k] \in Nat /\ k \in Range(Keys)
  BY FitsColumn, LimitAssumption DEF Fits
<1>2. l \in Seq(Glyph) /\ n \in Nat /\ Folded(l, w)
  BY LinesType DEF Written
<1>3. /\ u \in Complete /\ u[1] = Name(k) /\ Len(u) = n + 1
      /\ \A i \in 1..n : u[i + 1] = l[i]
  BY FieldIs DEF Complete
<1> HIDE DEF l, u, n
<1>4. /\ \A i \in 1..(n - 1) : l[i] = CRLF => l[i + 1] = WS
      /\ \E j \in 1..n : j <= Hard - w + 1 /\ l[j] = CRLF
      /\ \A i \in 1..(n - 1) : l[i] = CRLF => \E j \in (i + 1)..n : j <= i + Hard + 1 /\ l[j] = CRLF
  BY <1>2 DEF Folded, n
<1>5. FitsAt(u, 1)
  <2>1. PICK j \in 1..n : j <= Hard - w + 1 /\ l[j] = CRLF
    BY <1>4
  <2>2. Reach(u[1]) = Width[k] + 1
    BY <1>1, <1>3, TokensDiffer DEF Reach, IsName
  <2>3. u[j + 1] = CRLF
    BY <1>3, <2>1
  <2>4. j + 1 \in 1..Len(u)
    BY <1>2, <1>3, <2>1 DEF n
  <2>5. (Width[k] + 1) + ((j + 1) - 1) <= Hard
    <3> DEFINE x == Width[k]
    <3>1. x \in Nat /\ j \in Int /\ j <= Hard - (x + 2) + 1
      BY <1>1, <2>1
    <3> HIDE DEF x
    <3>2. (x + 1) + ((j + 1) - 1) <= Hard
      BY <1>1, <3>1
    <3> QED  BY <3>2 DEF x
  <2> QED  BY <2>2, <2>3, <2>4, <2>5 DEF FitsAt
<1>6. ASSUME NEW i \in 1..Len(u), i # 1, BeginsLine(u, i) PROVE FitsAt(u, i)
  <2>1. u[i - 1] = CRLF
    BY <1>6 DEF BeginsLine
  <2>2. i # 2
    BY <1>3, <2>1, TokensDiffer
  <2> DEFINE x == i - 2
  <2>3. x \in 1..(n - 1) /\ x + 1 = i - 1 /\ (x + 1) + 1 = i /\ x \in 1..n /\ x + 1 \in 1..n
    BY <1>2, <1>3, <1>6, <2>2 DEF n
  <2> HIDE DEF x
  <2>4. l[x] = CRLF
    BY <1>3, <2>1, <2>3
  <2>5. u[i] = WS
    BY <1>3, <1>4, <2>3, <2>4
  <2>6. Reach(u[i]) = 0
    BY <2>5, TokensDiffer DEF Reach, IsName
  <2>7. \E j \in (x + 1)..n : j <= x + Hard + 1 /\ l[j] = CRLF
    BY <1>4, <2>3, <2>4
  <2>8. PICK j \in (x + 1)..n : j <= x + Hard + 1 /\ l[j] = CRLF
    BY <2>7
  <2>9. j \in 1..n /\ j + 1 \in i..Len(u) /\ (j + 1) - i <= Hard
    BY <1>1, <1>2, <1>3, <2>3, <2>8 DEF n
  <2>10. u[j + 1] = CRLF
    BY <1>3, <2>8, <2>9
  <2>11. Reach(u[i]) + ((j + 1) - i) <= Hard
    BY <1>1, <2>6, <2>9
  <2> QED  BY <2>9, <2>10, <2>11 DEF FitsAt
<1>7. u \in ShortLines
  BY <1>3, <1>5, <1>6 DEF ShortLines
<1> QED  BY <1>7 DEF u

LEMMA NameToken == \A t \in Glyph : t[1] = "name" => IsName(t)
  BY DEF Glyph, Char, Token, Text, Box, WS, CRLF, Name, IsName

(* The width of a line that ends in time.                                  *)
LEMMA FitsWidth ==
    ASSUME NEW W \in Seq(Glyph), NEW i \in 1..Len(W), FitsAt(W, i)
    PROVE  LineWidth(SubSeq(W, i, Min({j \in i..Len(W) : W[j] = CRLF}) - 1)) <= Hard
<1> DEFINE S == {j \in i..Len(W) : W[j] = CRLF}
           M == Min(S)
           line == SubSeq(W, i, M - 1)
           n == Len(W)
           r == Reach(W[i])
<1>1. n \in Nat /\ W[i] \in Glyph /\ i \in Nat \ {0} /\ Hard \in Nat
  BY LimitAssumption
<1>2. r \in Nat
  BY ReachType
<1>3. PICK j \in i..n : W[j] = CRLF /\ r + (j - i) <= Hard
  BY DEF FitsAt
<1>4. j \in S /\ S \in SUBSET Nat
  BY <1>1, <1>3
<1> HIDE DEF S
<1>5. M \in S /\ M <= j
  BY <1>4, MinOf
<1>6. M \in i..n
  BY <1>5 DEF S
<1> HIDE DEF M
<1>7. Len(line) = M - i /\ (M > i => line[1] = W[i])
  <2> DEFINE b == M - 1
  <2>1. /\ b \in Nat /\ b <= Len(W) /\ (i <= b <=> M > i)
        /\ M > i => b - i + 1 = M - i /\ 1 \in 1..(b - i + 1) /\ i + 1 - 1 = i
        /\ ~(M > i) => M - i = 0
    BY <1>1, <1>6
  <2> HIDE DEF b
  <2>2. Len(SubSeq(W, i, b)) = IF i <= b THEN b - i + 1 ELSE 0
    BY <1>1, <2>1, PartOf
  <2>3. \A x \in 1..(b - i + 1) : SubSeq(W, i, b)[x] = W[i + x - 1]
    BY <1>1, <2>1, PartOf
  <2>4. Len(SubSeq(W, i, b)) = M - i /\ (M > i => SubSeq(W, i, b)[1] = W[i])
    BY <2>1, <2>2, <2>3
  <2> QED  BY <2>4 DEF b
<1>8. line \in Seq(Glyph)
  <2>1. M - 1 \in Nat /\ M - 1 <= Len(W)
    BY <1>1, <1>6
  <2> QED  BY <1>1, <2>1, PartOf
<1> HIDE DEF line, r, n
<1>9. r + Len(line) <= Hard /\ Len(line) \in Nat
  BY <1>1, <1>2, <1>3, <1>5, <1>6, <1>7
<1>10. CASE line # <<>> /\ line[1][1] = "name"
  <2>1. M > i
    <3>1. Len(line) # 0
      BY <1>8, <1>10
    <3> QED  BY <1>1, <1>6, <1>7, <3>1
  <2>2. line[1] = W[i] /\ IsName(W[i])
    BY <1>1, <1>7, <1>10, <2>1, NameToken
  <2>3. LineWidth(line) = r + Len(line)
    BY <1>10, <2>2 DEF LineWidth, Reach, r
  <2> QED  BY <1>9, <2>3 DEF line, M, S
<1>11. CASE ~(line # <<>> /\ line[1][1] = "name")
  <2>1. LineWidth(line) = Len(line)
    BY <1>11 DEF LineWidth
  <2>2. LineWidth(line) <= Hard
    BY <1>1, <1>2, <1>9, <2>1
  <2> QED  BY <2>2 DEF line, M, S
<1> QED  BY <1>10, <1>11

LEMMA HeaderLinesFit ==
    ASSUME NEW h \in Header, Writable(h), ~HasEmptyField(h)
    PROVE  Terminated(WriteHeader(h)) /\ LinesFit(WriteHeader(h))
<1> DEFINE u == FlattenSeq(KeyWires(h))
           W == u \o <<CRLF>>
           n == Len(u)
<1>1. ShortLines \in SUBSET Seq(Glyph) /\ <<>> \in ShortLines /\ \A a, b \in ShortLines : a \o b \in ShortLines
  <2>1. \A a \in ShortLines : a \in Seq(Glyph)
    BY CompleteClosed DEF ShortLines
  <2>2. <<>> \in ShortLines
    BY CompleteClosed DEF ShortLines
  <2> QED  BY <2>1, <2>2, ShortConcat
<1>2. ASSUME NEW k \in Range(Keys), NEW i \in 1..Len(Bodies(h, k))
      PROVE  headerWritelnFold(k, Bodies(h, k)[i]) \in ShortLines
  BY CompleteField, ShortField
<1>3. u \in ShortLines
  BY <1>1, <1>2, WireClosed
<1>4. WriteHeader(h) = W
  BY WriteHeaderIs
<1>5. /\ u \in Fields /\ Closed(u) /\ u \in Seq(Glyph) /\ n \in Nat
      /\ \A i \in 1..n : BeginsLine(u, i) => FitsAt(u, i)
  BY <1>1, <1>3 DEF ShortLines, Complete
<1> HIDE DEF u
<1>10. Terminated(W)
  BY <1>5, EndIs DEF Terminated
<1>6. W \in Seq(Glyph) /\ Len(W) = n + 1 /\ (\A i \in 1..n : W[i] = u[i]) /\ W[n + 1] = CRLF
  BY <1>5, EndIs
<1> HIDE DEF W, n
<1>7. ASSUME NEW i \in 1..Len(W), BeginsLine(W, i) PROVE FitsAt(W, i)
  <2>1. CASE i <= n
    <3>1. i \in 1..n /\ (i # 1 => i - 1 \in 1..n)
      BY <1>5, <1>6, <2>1
    <3>2. BeginsLine(u, i)
      BY <1>6, <1>7, <3>1 DEF BeginsLine
    <3>3. FitsAt(u, i)
      BY <1>5, <3>1, <3>2
    <3>4. PICK j \in i..n : u[j] = CRLF /\ Reach(u[i]) + (j - i) <= Hard
      BY <3>3 DEF FitsAt, n
    <3>5. j \in 1..n /\ j \in i..Len(W)
      BY <1>5, <1>6, <3>1
    <3> QED  BY <1>6, <3>1, <3>4, <3>5 DEF FitsAt
  <2>2. CASE ~(i <= n)
    <3>1. i = n + 1 /\ i \in i..Len(W)
      BY <1>5, <1>6, <2>2
    <3>2. W[i] = CRLF /\ Reach(CRLF) = 0
      BY <1>6, <3>1, TokensDiffer DEF Reach, IsName
    <3>3. Reach(W[i]) + (i - i) <= Hard
      BY <1>5, <3>1, <3>2, LimitAssumption
    <3> QED  BY <3>1, <3>2, <3>3 DEF FitsAt
  <2> QED  BY <2>1, <2>2
<1>8. DOMAIN W = 1..Len(W)
  BY <1>6
<1>9. LinesFit(W)
  BY <1>6, <1>7, <1>8, FitsWidth DEF LinesFit
<1> QED  BY <1>4, <1>9, <1>10

(* What ulist writes to sendmail, or to a file of the moderation queue,    *)
(* ends, and is read again with every field and every word, on lines that  *)
(* are not too long, whichever lists and files it has passed before -      *)
(* unless a field is empty (header.go:90-231, lmtp.go:155-329).            *)
THEOREM HeaderIsRead == Spec => []HeaderSurvives
<1>1. Init => TypeOK /\ WrittenFits
  BY TypeInit
<1>2. (TypeOK /\ WrittenFits) /\ [Next]_vars => (TypeOK /\ WrittenFits)'
  BY TypeStep
<1>3. TypeOK /\ WrittenFits => HeaderSurvives
  <2> SUFFICES ASSUME TypeOK, WrittenFits, NEW t \in transit \cup held, t.by = "ulist", ~HasEmptyField(t.header)
               PROVE  /\ Terminated(WriteHeader(t.header)) /\ LinesFit(WriteHeader(t.header))
                      /\ ReadsBack(t.header, ReadHeader(WriteHeader(t.header)))
    BY DEF HeaderSurvives
  <2>1. t.header \in Header /\ Writable(t.header)
    BY DEF TypeOK, WrittenFits
  <2> QED  BY <2>1, HeaderLinesFit, HeaderReadsBack
<1> QED  BY <1>1, <1>2, <1>3, PTL DEF Spec
=============================================================================
