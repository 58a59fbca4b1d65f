---------------------------- MODULE SequenceLemmas ----------------------------
(***************************************************************************)
(* What the models' proofs use of sequences, for sequences of any length:  *)
(* cutting and joining, and FlattenSeq of the community modules, which is  *)
(* a recursive function and is unfolded here by induction over its domain. *)
(***************************************************************************)
EXTENDS Integers, Sequences, SequencesExt, SequenceTheorems, WellFoundedInduction, TLAPS

(* Induction, for a set in place of a predicate: the library states it for *)
(* an operator.                                                            *)
LEMMA SetInduction ==
    ASSUME NEW T, T \subseteq Nat, 0 \in T, \A n \in T : n + 1 \in T
    PROVE  T = Nat
<1> DEFINE R == OpToRel(<, Nat)
           U == Nat \ T
<1>1. SUFFICES ASSUME U # {} PROVE FALSE
  OBVIOUS
<1>2. PICK x \in U : \A y \in U : <<y, x>> \notin R
  <2>1. IsWellFoundedOn(R, Nat)
    BY NatLessThanWellFounded
  <2>2. U \subseteq Nat
    OBVIOUS
  <2> HIDE DEF U, R
  <2> QED
    BY <1>1, <2>1, <2>2, WFMin
<1>3. x - 1 \in T
  <2>1. CASE x - 1 \in U
    <3>1. <<x - 1, x>> \in R
      BY <2>1 DEF OpToRel
    <3> QED
      BY <1>2, <2>1, <3>1
  <2>2. x # 0
    OBVIOUS
  <2> QED
    BY <2>1, <2>2
<1> QED
  BY <1>3

(* Up to a bound.                                                          *)
LEMMA BoundedInduction ==
    ASSUME NEW m \in Nat, NEW T, 0 \in T, \A n \in 0 .. m - 1 : n \in T => n + 1 \in T
    PROVE  \A n \in 0 .. m : n \in T
<1> DEFINE U == {n \in Nat : n <= m => n \in T}
<1>1. U = Nat
  <2>1. 0 \in U /\ U \subseteq Nat
    OBVIOUS
  <2>2. ASSUME NEW n \in U PROVE n + 1 \in U
    OBVIOUS
  <2> HIDE DEF U
  <2> QED
    BY <2>1, <2>2, SetInduction
<1> QED
  BY <1>1

-----------------------------------------------------------------------------
(* f[i] is the first i sequences of seqs, joined.                          *)
Joins(f, seqs) ==
    f = [i \in 1 .. Len(seqs) |-> IF i = 1 THEN seqs[i] ELSE f[i - 1] \o seqs[i]]

LEMMA JoinsExists ==
    ASSUME NEW seqs, Len(seqs) \in Nat
    PROVE  \E f : Joins(f, seqs)
<1> DEFINE Upto(f, n) == f = [i \in 1 .. n |-> IF i = 1 THEN seqs[i] ELSE f[i - 1] \o seqs[i]]
           T == {n \in Nat : \E f : Upto(f, n)}
<1>1. 0 \in T
  <2>1. Upto([i \in 1 .. 0 |-> i], 0)
    OBVIOUS
  <2> QED
    BY <2>1
<1>2. ASSUME NEW n \in T PROVE n + 1 \in T
  <2>1. n \in Nat /\ \E f : Upto(f, n)
    OBVIOUS
  <2>2. PICK f : f = [i \in 1 .. n |-> IF i = 1 THEN seqs[i] ELSE f[i - 1] \o seqs[i]]
    BY <2>1
  <2>3. \A i \in 1 .. n : f[i] = IF i = 1 THEN seqs[i] ELSE f[i - 1] \o seqs[i]
    BY ONLY <2>2, Zenon
  <2> DEFINE g == [i \in 1 .. n + 1 |-> IF i <= n THEN f[i] ELSE IF i = 1 THEN seqs[i] ELSE f[n] \o seqs[i]]
  <2>4. g = [i \in 1 .. n + 1 |-> IF i = 1 THEN seqs[i] ELSE g[i - 1] \o seqs[i]]
    <3> SUFFICES ASSUME NEW i \in 1 .. n + 1
                 PROVE  g[i] = IF i = 1 THEN seqs[i] ELSE g[i - 1] \o seqs[i]
      OBVIOUS
    <3>1. CASE i <= n
      <4>1. g[i] = f[i] /\ (i # 1 => g[i - 1] = f[i - 1])
        BY <2>1, <3>1
      <4>2. f[i] = IF i = 1 THEN seqs[i] ELSE f[i - 1] \o seqs[i]
        BY <2>1, <2>3, <3>1
      <4> QED
        BY <4>1, <4>2
    <3>2. CASE i = n + 1
      <4>1. i # 1 => g[i - 1] = f[n]
        BY <2>1, <3>2
      <4> QED
        BY <2>1, <3>2, <4>1
    <3> QED
      BY <2>1, <3>1, <3>2
  <2>5. Upto(g, n + 1)
    BY <2>4
  <2> HIDE DEF g, Upto
  <2>6. \E h : Upto(h, n + 1)
    BY <2>5
  <2>7. n + 1 \in Nat
    BY <2>1
  <2> QED
    BY <2>6, <2>7
<1>3. T = Nat
  <2>1. T \subseteq Nat
    OBVIOUS
  <2> HIDE DEF T
  <2> QED
    BY <1>1, <1>2, <2>1, SetInduction
<1> QED
  BY <1>3 DEF Joins

LEMMA FlattenJoins ==
    ASSUME NEW seqs, Len(seqs) \in Nat \ {0}
    PROVE  \E f : Joins(f, seqs) /\ FlattenSeq(seqs) = f[Len(seqs)]
<1> DEFINE F == CHOOSE f : Joins(f, seqs)
<1>1. Joins(F, seqs)
  BY JoinsExists
<1>2. FlattenSeq(seqs) = F[Len(seqs)]
  BY DEF FlattenSeq, Joins
<1> QED
  BY <1>1, <1>2

LEMMA JoinsUnfold ==
    ASSUME NEW f, NEW seqs, Joins(f, seqs)
    PROVE  \A i \in 1 .. Len(seqs) : f[i] = IF i = 1 THEN seqs[i] ELSE f[i - 1] \o seqs[i]
BY Zenon DEF Joins

(* The first of the joins do not depend on the sequences that follow.      *)
LEMMA JoinsAgree ==
    ASSUME NEW s, NEW t, NEW f, NEW g, Joins(f, s), Joins(g, t),
           NEW n \in Nat, Len(s) \in Nat, Len(t) \in Nat, n <= Len(s), n <= Len(t),
           \A i \in 1 .. n : s[i] = t[i]
    PROVE  \A i \in 1 .. n : f[i] = g[i]
<1> DEFINE T == {i \in Nat : i > 0 => f[i] = g[i]}
<1>1. ASSUME NEW i \in 0 .. n - 1, i \in T
      PROVE  i + 1 \in T
  <2>1. /\ f[i + 1] = IF i + 1 = 1 THEN s[i + 1] ELSE f[i + 1 - 1] \o s[i + 1]
        /\ g[i + 1] = IF i + 1 = 1 THEN t[i + 1] ELSE g[i + 1 - 1] \o t[i + 1]
    BY JoinsUnfold
  <2>2. s[i + 1] = t[i + 1] /\ (i # 0 => f[i] = g[i]) /\ i + 1 - 1 = i
    BY <1>1
  <2> QED
    BY <2>1, <2>2
<1>2. \A i \in 0 .. n : i \in T
  <2>1. 0 \in T
    OBVIOUS
  <2> HIDE DEF T
  <2> QED
    BY <1>1, <2>1, BoundedInduction
<1> QED
  BY <1>2

LEMMA SequenceInduction ==
    ASSUME NEW S, NEW T, T \subseteq Seq(S), <<>> \in T,
           \A s \in T : \A e \in S : Append(s, e) \in T
    PROVE  T = Seq(S)
<1> DEFINE U == {n \in Nat : \A s \in Seq(S) : Len(s) = n => s \in T}
<1>1. 0 \in U
  BY EmptySeq
<1>2. ASSUME NEW n \in U
      PROVE  n + 1 \in U
  <2> SUFFICES ASSUME NEW s \in Seq(S), Len(s) = n + 1
               PROVE  s \in T
    OBVIOUS
  <2>1. s # <<>>
    BY EmptySeq
  <2>2. PICK r \in Seq(S), e \in S : s = Append(r, e)
    BY <2>1, SequenceEmptyOrAppend
  <2>3. Len(r) = n
    BY <2>2, AppendProperties, LenProperties
  <2> QED
    BY <2>2, <2>3
<1>3. U = Nat
  <2>1. U \subseteq Nat
    OBVIOUS
  <2> HIDE DEF U
  <2> QED
    BY <1>1, <1>2, <2>1, SetInduction
<1> QED
  BY <1>3, LenProperties

-----------------------------------------------------------------------------
LEMMA FlattenEmpty == FlattenSeq(<<>>) = <<>>
BY DEF FlattenSeq

LEMMA FlattenAppend ==
    ASSUME NEW S, NEW seqs \in Seq(Seq(S)), NEW last \in Seq(S)
    PROVE  FlattenSeq(Append(seqs, last)) = IF seqs = <<>> THEN last ELSE FlattenSeq(seqs) \o last
<1> DEFINE all == Append(seqs, last)
           n == Len(seqs)
<1>1. n \in Nat /\ Len(all) = n + 1 /\ all[n + 1] = last /\ \A i \in 1 .. n : all[i] = seqs[i]
  BY AppendProperties, LenProperties
<1> HIDE DEF all
<1>2. PICK g : Joins(g, all) /\ FlattenSeq(all) = g[n + 1]
  BY <1>1, FlattenJoins
<1>3. g[n + 1] = IF n + 1 = 1 THEN last ELSE g[n + 1 - 1] \o last
  BY <1>1, <1>2, JoinsUnfold
<1>4. CASE seqs = <<>>
  BY <1>2, <1>3, <1>4 DEF all
<1>5. CASE seqs # <<>>
  <2>1. n \in Nat \ {0}
    BY <1>5, EmptySeq
  <2>2. PICK f : Joins(f, seqs) /\ FlattenSeq(seqs) = f[n]
    BY <2>1, FlattenJoins
  <2>3. \A i \in 1 .. n : f[i] = g[i]
    <3>1. /\ Len(seqs) \in Nat /\ Len(all) \in Nat /\ n \in Nat
          /\ n <= Len(seqs) /\ n <= Len(all) /\ \A i \in 1 .. n : seqs[i] = all[i]
      BY <1>1
    <3> HIDE DEF n
    <3>2. Joins(f, seqs) /\ Joins(g, all)
      BY <1>2, <2>2
    <3> QED
      BY ONLY <3>1, <3>2, JoinsAgree
  <2>4. f[n] = g[n] /\ n + 1 # 1 /\ n + 1 - 1 = n
    BY <2>1, <2>3
  <2> QED
    BY <1>2, <1>3, <1>5, <2>2, <2>4 DEF all
<1> QED
  BY <1>4, <1>5

LEMMA FlattenType ==
    ASSUME NEW S, NEW seqs \in Seq(Seq(S))
    PROVE  FlattenSeq(seqs) \in Seq(S)
<1> DEFINE T == {s \in Seq(Seq(S)) : FlattenSeq(s) \in Seq(S)}
<1>1. <<>> \in T
  BY FlattenEmpty, EmptySeq
<1>2. ASSUME NEW s \in T, NEW e \in Seq(S)
      PROVE  Append(s, e) \in T
  <2>1. s \in Seq(Seq(S)) /\ FlattenSeq(s) \in Seq(S)
    OBVIOUS
  <2>2. FlattenSeq(Append(s, e)) \in Seq(S) /\ Append(s, e) \in Seq(Seq(S))
    BY <2>1, FlattenAppend, ConcatProperties, AppendProperties
  <2> QED
    BY <2>2
<1>3. T = Seq(Seq(S))
  <2>1. T \subseteq Seq(Seq(S))
    OBVIOUS
  <2> HIDE DEF T
  <2> QED
    BY <1>1, <1>2, <2>1, SequenceInduction
<1> QED
  BY <1>3

(* In both cases, what is appended follows.                                *)
LEMMA FlattenMore ==
    ASSUME NEW S, NEW seqs \in Seq(Seq(S)), NEW last \in Seq(S)
    PROVE  FlattenSeq(Append(seqs, last)) = FlattenSeq(seqs) \o last
BY FlattenAppend, FlattenEmpty, ConcatEmptySeq

LEMMA AppendAssociates ==
    ASSUME NEW S, NEW s \in Seq(S), NEW t \in Seq(S), NEW e \in S
    PROVE  s \o Append(t, e) = Append(s \o t, e)
<1>1. <<e>> \in Seq(S) /\ s \o t \in Seq(S)
  BY ConcatProperties
<1>2. (s \o t) \o <<e>> = s \o (t \o <<e>>)
  BY <1>1, ConcatAssociative
<1> QED
  BY <1>1, <1>2, AppendIsConcat

LEMMA FlattenConcatMore ==
    ASSUME NEW S, NEW seqs \in Seq(Seq(S)), NEW more \in Seq(Seq(S)), NEW last \in Seq(S),
           FlattenSeq(seqs \o more) = FlattenSeq(seqs) \o FlattenSeq(more)
    PROVE  FlattenSeq(seqs \o Append(more, last)) = FlattenSeq(seqs) \o FlattenSeq(Append(more, last))
<1>1. seqs \o Append(more, last) = Append(seqs \o more, last) /\ seqs \o more \in Seq(Seq(S))
  BY AppendAssociates, ConcatProperties
<1>2. /\ FlattenSeq(Append(seqs \o more, last)) = FlattenSeq(seqs \o more) \o last
      /\ FlattenSeq(Append(more, last)) = FlattenSeq(more) \o last
  BY <1>1, FlattenMore
<1>3. FlattenSeq(seqs) \in Seq(S) /\ FlattenSeq(more) \in Seq(S)
  BY FlattenType
<1>4. (FlattenSeq(seqs) \o FlattenSeq(more)) \o last = FlattenSeq(seqs) \o (FlattenSeq(more) \o last)
  BY <1>3, ConcatAssociative
<1> QED
  BY <1>1, <1>2, <1>4

LEMMA FlattenConcat ==
    ASSUME NEW S, NEW seqs \in Seq(Seq(S)), NEW more \in Seq(Seq(S))
    PROVE  FlattenSeq(seqs \o more) = FlattenSeq(seqs) \o FlattenSeq(more)
<1> DEFINE T == {s \in Seq(Seq(S)) : FlattenSeq(seqs \o s) = FlattenSeq(seqs) \o FlattenSeq(s)}
<1>1. <<>> \in T
  BY FlattenEmpty, FlattenType, ConcatEmptySeq, EmptySeq
<1>2. ASSUME NEW s \in T, NEW e \in Seq(S)
      PROVE  Append(s, e) \in T
  BY FlattenConcatMore, AppendProperties
<1>3. T = Seq(Seq(S))
  <2>1. T \subseteq Seq(Seq(S))
    OBVIOUS
  <2> HIDE DEF T
  <2> QED
    BY <1>1, <1>2, <2>1, SequenceInduction
<1> QED
  BY <1>3

(* The first of the sequences goes before the others.                      *)
LEMMA FlattenFirst ==
    ASSUME NEW S, NEW first \in Seq(S), NEW more \in Seq(Seq(S))
    PROVE  FlattenSeq(<<first>> \o more) = first \o FlattenSeq(more)
<1>1. <<first>> = Append(<<>>, first) /\ <<>> \in Seq(Seq(S)) /\ <<first>> \in Seq(Seq(S))
  OBVIOUS
<1>2. FlattenSeq(<<first>>) = first
  BY <1>1, FlattenAppend
<1> QED
  BY <1>1, <1>2, FlattenConcat

-----------------------------------------------------------------------------
(* A sequence cut in two.                                                  *)
LEMMA CutInTwo ==
    ASSUME NEW S, NEW bytes \in Seq(S), NEW n \in 0 .. Len(bytes)
    PROVE  /\ SubSeq(bytes, 1, n) \in Seq(S)
           /\ SubSeq(bytes, n + 1, Len(bytes)) \in Seq(S)
           /\ SubSeq(bytes, 1, n) \o SubSeq(bytes, n + 1, Len(bytes)) = bytes
<1>1. Len(bytes) \in Nat /\ \A i \in 1 .. Len(bytes) : bytes[i] \in S
  BY LenProperties, ElementOfSeq
<1>2. \A i \in 1 .. n : bytes[i] \in S
  BY <1>1
<1>3. \A i \in n + 1 .. Len(bytes) : bytes[i] \in S
  BY <1>1
<1>4. SubSeq(bytes, 1, n) \in Seq(S)
  BY <1>1, <1>2, SubSeqProperties
<1>5. SubSeq(bytes, n + 1, Len(bytes)) \in Seq(S)
  BY <1>1, <1>3, SubSeqProperties
<1>6. SubSeq(bytes, 1, n) \o SubSeq(bytes, n + 1, Len(bytes)) = SubSeq(bytes, 1, Len(bytes))
  <2>1. /\ 1 \in 1 .. Len(bytes) + 1
        /\ n \in 1 - 1 .. Len(bytes)
        /\ Len(bytes) \in n .. Len(bytes)
    BY <1>1
  <2> QED
    BY ONLY <2>1, bytes \in Seq(S), ConcatAdjacentSubSeq
<1>7. SubSeq(bytes, 1, Len(bytes)) = bytes
  BY <1>1, SubSeqFull
<1> QED
  BY <1>4, <1>5, <1>6, <1>7

(* Concatenation associates; AreSeqs keeps the provers from applying it to *)
(* all the sequences they know.                                            *)
AreSeqs(S, s, t, u) == s \in Seq(S) /\ t \in Seq(S) /\ u \in Seq(S)

LEMMA Associate ==
    ASSUME NEW S, NEW s, NEW t, NEW u, AreSeqs(S, s, t, u)
    PROVE  (s \o t) \o u = s \o (t \o u)
BY ConcatAssociative DEF AreSeqs

(* A part of a sequence, and the part that follows.                        *)
LEMMA PartOf ==
    ASSUME NEW S, NEW s \in Seq(S), NEW m \in Nat, NEW n \in Nat, n <= Len(s)
    PROVE  /\ SubSeq(s, m + 1, n) \in Seq(S)
           /\ m <= n => Len(SubSeq(s, m + 1, n)) = n - m
<1>1. PICK first \in Int : first = m + 1
  OBVIOUS
<1>2. \A i \in first .. n : s[i] \in S
  BY <1>1, ElementOfSeq, LenProperties
<1>3. /\ SubSeq(s, first, n) \in Seq(S)
      /\ Len(SubSeq(s, first, n)) = IF first <= n THEN n - first + 1 ELSE 0
  BY <1>2, SubSeqProperties
<1> QED
  BY <1>1, <1>3

LEMMA CutPart ==
    ASSUME NEW S, NEW s \in Seq(S), NEW m \in Nat, NEW k \in Nat, m <= k, k <= Len(s)
    PROVE  SubSeq(s, m + 1, Len(s)) = SubSeq(s, m + 1, k) \o SubSeq(s, k + 1, Len(s))
<1>1. Len(s) \in Nat
  BY LenProperties
<1>2. PICK first \in 1 .. Len(s) + 1 : first = m + 1
  BY <1>1
<1>3. k \in first - 1 .. Len(s) /\ Len(s) \in k .. Len(s)
  BY <1>1, <1>2
<1>4. SubSeq(s, first, Len(s)) = SubSeq(s, first, k) \o SubSeq(s, k + 1, Len(s))
  BY ONLY <1>3, first \in 1 .. Len(s) + 1, s \in Seq(S), ConcatAdjacentSubSeq
<1> QED
  BY <1>2, <1>4

(* A sequence that another one begins with.                                *)
LEMMA FirstPart ==
    ASSUME NEW S, NEW s \in Seq(S), NEW t \in Seq(S)
    PROVE  SubSeq(s \o t, 1, Len(s)) = s
<1>1. Len(s) \in Nat /\ Len(t) \in Nat
  BY LenProperties
<1>2. s \o t \in Seq(S) /\ Len(s \o t) = Len(s) + Len(t)
  BY ConcatProperties
<1>3. \A i \in 1 .. Len(s) : (s \o t)[i] = s[i] /\ s[i] \in S
  BY <1>1, ConcatProperties, ElementOfSeq
<1>4. /\ SubSeq(s \o t, 1, Len(s)) \in Seq(S)
      /\ Len(SubSeq(s \o t, 1, Len(s))) = Len(s)
      /\ \A i \in 1 .. Len(s) : SubSeq(s \o t, 1, Len(s))[i] = (s \o t)[i]
  <2> DEFINE u == s \o t
  <2>1. \A i \in 1 .. Len(s) : u[i] \in S
    BY <1>3
  <2> HIDE DEF u
  <2>2. /\ SubSeq(u, 1, Len(s)) \in Seq(S)
        /\ Len(SubSeq(u, 1, Len(s))) = IF 1 <= Len(s) THEN Len(s) - 1 + 1 ELSE 0
        /\ \A i \in 1 .. Len(s) - 1 + 1 : SubSeq(u, 1, Len(s))[i] = u[1 + i - 1]
    BY <1>1, <2>1, SubSeqProperties
  <2> QED
    BY <1>1, <2>2 DEF u
<1> QED
  BY <1>3, <1>4, SeqEqual
=============================================================================
