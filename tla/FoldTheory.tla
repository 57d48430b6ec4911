------------------------------ MODULE FoldTheory ------------------------------
(***************************************************************************)
(* FoldLeft of SequencesExt, for any step: what it makes of a sequence it      *)
(* makes one element at a time.  And induction on natural numbers, over a      *)
(* set instead of a predicate.                                                 *)
(***************************************************************************)
EXTENDS Naturals, SequencesExt, SequenceTheorems, WellFoundedInduction, TLAPS

CONSTANT Step(_, _)

(* Every set of natural numbers that is not empty has a least element.         *)
LEMMA LeastNat ==
  ASSUME NEW T \in SUBSET Nat, T # {}
  PROVE  \E m \in T : \A k \in T : m <= k
  <1> DEFINE R == OpToRel(<, Nat)
  <1>1. IsWellFoundedOn(R, Nat)
      BY NatLessThanWellFounded
  <1>2. \A x, y \in T : <<y, x>> \in R <=> y < x
      BY DEF OpToRel
  <1> HIDE DEF R
  <1>3. \E x \in T : \A y \in T : ~ (<<y, x>> \in R)
      BY <1>1, WFMin
  <1>4. PICK m \in T : \A y \in T : ~ (y < m)
      BY <1>2, <1>3
  <1>5. \A y \in T : m <= y
      BY <1>4
  <1> QED
      BY <1>5

(* A set of natural numbers that holds 0 and the successor of each of its      *)
(* members holds them all.                                                     *)
LEMMA InductionNat ==
  ASSUME NEW T \in SUBSET Nat, 0 \in T, \A n \in T : n + 1 \in T
  PROVE  T = Nat
  <1> SUFFICES ASSUME Nat \ T # {} PROVE FALSE
      OBVIOUS
  <1>1. PICK m \in Nat \ T : \A k \in Nat \ T : m <= k
      BY LeastNat
  <1>2. m # 0 /\ m - 1 \in Nat
      BY <1>1
  <1>3. m - 1 \in T
      BY <1>1, <1>2
  <1> QED
      BY <1>1, <1>2, <1>3

(* And a set of sequences that holds the empty one and, with each, all that    *)
(* have one element more, holds them all.                                      *)
LEMMA InductionSeq ==
  ASSUME NEW S, NEW T \in SUBSET Seq(S), << >> \in T,
         \A s \in T : \A e \in S : Append(s, e) \in T
  PROVE  T = Seq(S)
  <1> DEFINE Lengths == {n \in Nat : \A s \in Seq(S) : Len(s) = n => s \in T}
  <1>1. 0 \in Lengths
      BY EmptySeq
  <1>2. ASSUME NEW n \in Lengths PROVE n + 1 \in Lengths
    <2>1. ASSUME NEW s \in Seq(S), Len(s) = n + 1 PROVE s \in T
      <3>1. s # << >>
          BY <2>1
      <3>2. PICK r \in Seq(S), e \in S : s = Append(r, e)
          BY <3>1, SequenceEmptyOrAppend
      <3>3. Len(r) = n
          BY <2>1, <3>2, AppendProperties, LenProperties
      <3> QED
          BY <1>2, <3>2, <3>3
    <2> QED
        BY <2>1
  <1> HIDE DEF Lengths
  <1>3. Lengths = Nat
      BY <1>1, <1>2, InductionNat DEF Lengths
  <1> QED
      BY <1>3, LenProperties DEF Lengths

-------------------------------------------------------------------------------
Fold(base, seq) == FoldLeft(Step, base, seq)

(* The function FoldLeft computes with, on the sets of positions up to n.      *)
Folds(f, base, seq, n) ==
    f = [s \in SUBSET (1..n) |-> IF s = {} THEN base
                                 ELSE Step(f[s \ {Max(s)}], seq[Max(s)])]

(* The largest element of a set, as Folds picks it.                            *)
LEMMA MaxIs ==
  ASSUME NEW S \in SUBSET Nat, NEW m \in S, \A k \in S : k <= m
  PROVE  Max(S) = m
  <1>1. \A x \in S : (\A y \in S : x >= y) => x = m
      OBVIOUS
  <1>2. \A y \in S : m >= y
      OBVIOUS
  <1> QED
      BY <1>1, <1>2 DEF Max

(* There is such a function, for every n.                                      *)
LEMMA FoldsExists ==
  ASSUME NEW base, NEW seq, NEW n \in Nat
  PROVE  \E f : Folds(f, base, seq, n)
  <1> DEFINE T == {k \in Nat : \E f : Folds(f, base, seq, k)}
  <1>1. 0 \in T
    <2> DEFINE f == [s \in SUBSET (1..0) |-> base]
    <2>1. 1..0 = {}
        OBVIOUS
    <2>2. Folds(f, base, seq, 0)
        BY <2>1 DEF Folds
    <2> QED
        BY <2>2
  <1>2. ASSUME NEW k \in T PROVE k + 1 \in T
    <2>1. PICK f : Folds(f, base, seq, k)
        BY <1>2
    <2> DEFINE g == [s \in SUBSET (1..(k + 1)) |->
                        IF k + 1 \in s THEN Step(f[s \ {k + 1}], seq[k + 1]) ELSE f[s]]
    <2> HIDE DEF g
    <2>2. ASSUME NEW s \in SUBSET (1..(k + 1))
          PROVE  g[s] = IF s = {} THEN base ELSE Step(g[s \ {Max(s)}], seq[Max(s)])
      <3>1. CASE k + 1 \in s
        <4>1. Max(s) = k + 1
            BY <3>1, MaxIs
        <4>2. g[s] = Step(f[s \ {k + 1}], seq[k + 1])
            BY <3>1 DEF g
        <4>3. s \ {k + 1} \in SUBSET (1..(k + 1)) /\ k + 1 \notin s \ {k + 1}
            OBVIOUS
        <4>4. g[s \ {k + 1}] = f[s \ {k + 1}]
            BY <4>3 DEF g
        <4> QED
            BY <3>1, <4>1, <4>2, <4>4
      <3>2. CASE k + 1 \notin s
        <4>1. s \in SUBSET (1..k)
            BY <3>2
        <4>2. g[s] = f[s]
            BY <3>2 DEF g
        <4>3. f[s] = IF s = {} THEN base ELSE Step(f[s \ {Max(s)}], seq[Max(s)])
            BY <2>1, <4>1 DEF Folds
        <4>4. s \ {Max(s)} \in SUBSET (1..(k + 1)) /\ k + 1 \notin s \ {Max(s)}
            BY <3>2
        <4>5. g[s \ {Max(s)}] = f[s \ {Max(s)}]
            BY <4>4 DEF g
        <4> QED
            BY <4>2, <4>3, <4>5
      <3> QED
          BY <3>1, <3>2
    <2>3. g = [s \in SUBSET (1..(k + 1)) |-> g[s]]
        BY DEF g
    <2>4. Folds(g, base, seq, k + 1)
        BY <2>2, <2>3 DEF Folds
    <2> QED
        BY <2>4
  <1>3. T = Nat
      BY <1>1, <1>2, InductionNat
  <1> QED
      BY <1>3

(* The fold of a sequence is the last of the values it goes through.           *)
Trace(h, base, seq) ==
    /\ h = [i \in 0..Len(seq) |-> h[i]]
    /\ h[0] = base
    /\ \A i \in 1..Len(seq) : h[i] = Step(h[i - 1], seq[i])

(* FoldLeft is the last of the values that Step goes through, element by       *)
(* element from the first: the definition folds over sets of positions by      *)
(* their largest element.                                                      *)
THEOREM FoldTrace ==
  ASSUME NEW S, NEW seq \in Seq(S), NEW base
  PROVE  \E h : Trace(h, base, seq) /\ Fold(base, seq) = h[Len(seq)]
  <1> DEFINE n == Len(seq)
  <1> DEFINE f == CHOOSE f : Folds(f, base, seq, n)
  <1>1. n \in Nat /\ DOMAIN seq = 1..n
      BY LenProperties
  <1>2. Folds(f, base, seq, n)
      BY <1>1, FoldsExists
  <1>3. Fold(base, seq) = f[1..n]
      BY <1>1 DEF Fold, FoldLeft, MapThenFoldSet, Folds
  <1> DEFINE h == [i \in 0..n |-> f[1..i]]
  <1> HIDE DEF f
  <1>4. h[0] = base
    <2>1. f[{}] = base
        BY <1>2 DEF Folds
    <2> QED
        BY <1>1, <2>1
  <1>5. ASSUME NEW i \in 1..n PROVE h[i] = Step(h[i - 1], seq[i])
    <2>1. 1..i \in SUBSET (1..n) /\ 1..i # {} /\ i \in Nat
      <3>1. i \in Nat /\ i <= n /\ 1 \in 1..i
          BY <1>1
      <3>2. \A j \in 1..i : j \in 1..n
          BY <1>1, <3>1
      <3> QED
          BY <3>1, <3>2
    <2>2. Max(1..i) = i
        BY <2>1, MaxIs
    <2>3. (1..i) \ {i} = 1..(i - 1)
        BY <1>1
    <2>4. f[1..i] = Step(f[1..(i - 1)], seq[i])
        BY <1>2, <2>1, <2>2, <2>3 DEF Folds
    <2>5. i \in 0..n /\ i - 1 \in 0..n
        BY <1>1
    <2> QED
        BY <2>4, <2>5
  <1>6. Trace(h, base, seq)
      BY <1>4, <1>5 DEF Trace
  <1> QED
      BY <1>1, <1>3, <1>6

(* Nothing is folded to the base.                                              *)
LEMMA FoldEmpty ==
  ASSUME NEW base
  PROVE  Fold(base, << >>) = base
  <1>1. << >> \in Seq({}) /\ Len(<< >>) = 0
      BY EmptySeq
  <1>2. \E h : Trace(h, base, << >>) /\ Fold(base, << >>) = h[Len(<< >>)]
      BY <1>1, FoldTrace
  <1> QED
      BY <1>1, <1>2 DEF Trace

(* One element more is one step more.                                          *)
LEMMA FoldAppend ==
  ASSUME NEW S, NEW seq \in Seq(S), NEW e \in S, NEW base
  PROVE  Fold(base, Append(seq, e)) = Step(Fold(base, seq), e)
  <1> DEFINE n == Len(seq)
             long == Append(seq, e)
  <1>1. /\ n \in Nat /\ long \in Seq(S) /\ Len(long) = n + 1
        /\ long[n + 1] = e /\ \A i \in 1..n : long[i] = seq[i]
      BY AppendProperties, LenProperties
  <1>2. PICK h : Trace(h, base, seq) /\ Fold(base, seq) = h[n]
      BY FoldTrace
  <1>3. PICK g : Trace(g, base, long) /\ Fold(base, long) = g[Len(long)]
      BY <1>1, FoldTrace
  <1> DEFINE Same == {i \in Nat : i <= n => h[i] = g[i]}
  <1>4. 0 \in Same
      BY <1>2, <1>3 DEF Trace
  <1>5. ASSUME NEW i \in Same PROVE i + 1 \in Same
    <2>1. CASE i + 1 <= n
      <3>1. i + 1 \in 1..n /\ i + 1 \in 1..Len(long) /\ (i + 1) - 1 = i /\ h[i] = g[i]
          BY <1>1, <1>5, <2>1
      <3>2. h[i + 1] = Step(h[i], seq[i + 1])
          BY <1>2, <3>1 DEF Trace
      <3>3. g[i + 1] = Step(g[i], long[i + 1])
          BY <1>3, <3>1 DEF Trace
      <3>4. h[i + 1] = g[i + 1]
          BY <1>1, <3>1, <3>2, <3>3
      <3> QED
          BY <3>4
    <2>2. CASE ~(i + 1 <= n)
        BY <2>2
    <2> QED
        BY <2>1, <2>2
  <1> HIDE DEF Same
  <1>6. Same = Nat
      BY <1>4, <1>5, InductionNat DEF Same
  <1>7. h[n] = g[n]
      BY <1>1, <1>6 DEF Same
  <1>8. n + 1 \in 1..Len(long) /\ (n + 1) - 1 = n
      BY <1>1
  <1>9. g[n + 1] = Step(g[n], long[n + 1])
      BY <1>3, <1>8 DEF Trace
  <1> QED
      BY <1>1, <1>2, <1>3, <1>7, <1>9

(* One element is one step.                                                    *)
LEMMA FoldOne ==
  ASSUME NEW base, NEW e
  PROVE  Fold(base, <<e>>) = Step(base, e)
  <1>1. << >> \in Seq({e}) /\ Append(<< >>, e) = <<e>>
      OBVIOUS
  <1> QED
      BY <1>1, FoldAppend, FoldEmpty

(* Appending to the second part is appending to the whole.                     *)
LEMMA ConcatAppend ==
  ASSUME NEW S, NEW s \in Seq(S), NEW t \in Seq(S), NEW e \in S
  PROVE  s \o Append(t, e) = Append(s \o t, e)
  OBVIOUS

(* Folding a joined sequence is folding its first part, then its second.       *)
LEMMA FoldConcat ==
  ASSUME NEW S, NEW s \in Seq(S), NEW t \in Seq(S), NEW base
  PROVE  Fold(base, s \o t) = Fold(Fold(base, s), t)
  <1> DEFINE T == {u \in Seq(S) : Fold(base, s \o u) = Fold(Fold(base, s), u)}
  <1>1. << >> \in T
      BY EmptySeq, ConcatEmptySeq, FoldEmpty
  <1>2. ASSUME NEW u \in T, NEW e \in S PROVE Append(u, e) \in T
    <2>1. s \o Append(u, e) = Append(s \o u, e)
        BY ConcatAppend
    <2>2. s \o u \in Seq(S) /\ Append(u, e) \in Seq(S)
        OBVIOUS
    <2>3. Fold(base, Append(s \o u, e)) = Step(Fold(base, s \o u), e)
        BY <2>2, FoldAppend
    <2>4. Fold(Fold(base, s), Append(u, e)) = Step(Fold(Fold(base, s), u), e)
        BY FoldAppend
    <2> QED
        BY <1>2, <2>1, <2>2, <2>3, <2>4
  <1> HIDE DEF T
  <1>3. T = Seq(S)
      BY <1>1, <1>2, InductionSeq DEF T
  <1> QED
      BY <1>3 DEF T

(* What every step keeps, the fold keeps.                                      *)
LEMMA FoldKeeps ==
  ASSUME NEW S, NEW seq \in Seq(S), NEW I, NEW base \in I,
         \A x \in I : \A e \in S : Step(x, e) \in I
  PROVE  Fold(base, seq) \in I
  <1> DEFINE T == {s \in Seq(S) : Fold(base, s) \in I}
  <1>1. << >> \in T
      BY EmptySeq, FoldEmpty
  <1>2. ASSUME NEW s \in T, NEW e \in S PROVE Append(s, e) \in T
      BY FoldAppend, AppendProperties
  <1> HIDE DEF T
  <1>3. T = Seq(S)
      BY <1>1, <1>2, InductionSeq DEF T
  <1> QED
      BY <1>3 DEF T

-------------------------------------------------------------------------------
(* The function FlattenSeq computes with, on the first n sequences.            *)
Flattens(f, seqs, n) ==
    f = [i \in 1..n |-> IF i = 1 THEN seqs[i] ELSE f[i - 1] \o seqs[i]]

(* There is such a function, for every n.                                      *)
LEMMA FlattensExists ==
  ASSUME NEW seqs, NEW n \in Nat
  PROVE  \E f : Flattens(f, seqs, n)
  <1> DEFINE T == {k \in Nat : \E f : Flattens(f, seqs, k)}
  <1>1. 0 \in T
    <2> DEFINE f == [i \in 1..0 |-> seqs]
    <2>1. 1..0 = {}
        OBVIOUS
    <2>2. Flattens(f, seqs, 0)
        BY <2>1 DEF Flattens
    <2> QED
        BY <2>2
  <1>2. ASSUME NEW k \in T PROVE k + 1 \in T
    <2>1. PICK f : Flattens(f, seqs, k)
        BY <1>2
    <2> DEFINE g == [i \in 1..(k + 1) |->
                        IF i = 1 THEN seqs[1]
                        ELSE IF i = k + 1 THEN f[k] \o seqs[i] ELSE f[i]]
    <2>2. ASSUME NEW i \in 1..(k + 1)
          PROVE  g[i] = IF i = 1 THEN seqs[i] ELSE g[i - 1] \o seqs[i]
      <3>0. k \in Nat
          OBVIOUS
      <3>1. CASE i = 1
          BY <3>1
      <3>2. CASE i # 1 /\ i = k + 1
        <4>1. k \in 1..(k + 1) /\ k \in 1..k /\ i - 1 = k
            BY <3>0, <3>2
        <4>2. g[k] = f[k]
            BY <2>1, <4>1 DEF Flattens
        <4> QED
            BY <3>2, <4>1, <4>2
      <3>3. CASE i # 1 /\ i # k + 1
        <4>1. i \in 1..k /\ i - 1 \in 1..k /\ i - 1 \in 1..(k + 1) /\ i - 1 # k + 1
            BY <3>0, <3>3
        <4>2. f[i] = f[i - 1] \o seqs[i]
            BY <2>1, <3>3, <4>1 DEF Flattens
        <4>3. f[i - 1] = IF i - 1 = 1 THEN seqs[1] ELSE f[(i - 1) - 1] \o seqs[i - 1]
            BY <2>1, <4>1 DEF Flattens
        <4>4. g[i - 1] = f[i - 1]
            BY <4>1, <4>3
        <4> QED
            BY <3>3, <4>2, <4>4
      <3> QED
          BY <3>1, <3>2, <3>3
    <2>3. g = [i \in 1..(k + 1) |-> g[i]]
        OBVIOUS
    <2> HIDE DEF g
    <2>4. Flattens(g, seqs, k + 1)
        BY <2>2, <2>3 DEF Flattens
    <2> QED
        BY <2>4
  <1> HIDE DEF T
  <1>3. T = Nat
    <2>1. T \in SUBSET Nat
        BY DEF T
    <2> QED
        BY <1>1, <1>2, <2>1, InductionNat
  <1> QED
      BY <1>3 DEF T

(* FlattenSeq is its value at the last sequence.                               *)
LEMMA FlattenTrace ==
  ASSUME NEW seqs, NEW n \in Nat \ {0}, Len(seqs) = n
  PROVE  \E h : Flattens(h, seqs, n) /\ FlattenSeq(seqs) = h[n]
  <1> DEFINE f == CHOOSE f : Flattens(f, seqs, n)
  <1>1. Flattens(f, seqs, n)
      BY FlattensExists
  <1>2. FlattenSeq(seqs) = f[n]
      BY DEF FlattenSeq, Flattens
  <1> QED
      BY <1>1, <1>2

(* One sequence more is joined to the end.                                     *)
LEMMA FlattenAppend ==
  ASSUME NEW S, NEW seqs \in Seq(Seq(S)), NEW s \in Seq(S)
  PROVE  FlattenSeq(Append(seqs, s)) = FlattenSeq(seqs) \o s
  <1> DEFINE n == Len(seqs)
             long == Append(seqs, s)
  <1>1. /\ n \in Nat /\ Len(long) = n + 1 /\ n + 1 \in Nat \ {0}
        /\ long[n + 1] = s /\ \A i \in 1..n : long[i] = seqs[i]
      BY AppendProperties, LenProperties
  <1>2. PICK g : Flattens(g, long, n + 1) /\ FlattenSeq(long) = g[n + 1]
      BY <1>1, FlattenTrace
  <1>3. CASE n = 0
    <2>1. FlattenSeq(seqs) = << >> /\ seqs = << >>
        BY <1>3, EmptySeq DEF FlattenSeq
    <2>2. g[1] = s
        BY <1>1, <1>2, <1>3 DEF Flattens
    <2> QED
        BY <1>2, <1>3, <2>1, <2>2
  <1>4. CASE n # 0
    <2>1. PICK h : Flattens(h, seqs, n) /\ FlattenSeq(seqs) = h[n]
        BY <1>1, <1>4, FlattenTrace
    <2> DEFINE Same == {i \in Nat : i + 1 <= n => h[i + 1] = g[i + 1]}
    <2>2. 0 \in Same
      <3>1. 1 \in 1..n /\ 1 \in 1..(n + 1)
          BY <1>1, <1>4
      <3>2. h[1] = seqs[1] /\ g[1] = long[1]
          BY <1>2, <2>1, <3>1 DEF Flattens
      <3> QED
          BY <1>1, <3>1, <3>2
    <2>3. ASSUME NEW i \in Same PROVE i + 1 \in Same
      <3>1. CASE i + 2 <= n
        <4>1. /\ i + 2 \in 1..n /\ i + 2 \in 1..(n + 1) /\ i + 2 # 1
              /\ (i + 2) - 1 = i + 1 /\ h[i + 1] = g[i + 1]
            BY <1>1, <2>3, <3>1
        <4>2. h[i + 2] = h[i + 1] \o seqs[i + 2]
            BY <2>1, <4>1 DEF Flattens
        <4>3. g[i + 2] = g[i + 1] \o long[i + 2]
            BY <1>2, <4>1 DEF Flattens
        <4>4. long[i + 2] = seqs[i + 2]
            BY <1>1, <4>1
        <4>5. h[i + 2] = g[i + 2]
            BY <4>1, <4>2, <4>3, <4>4
        <4>6. i \in Nat /\ (i + 1) + 1 = i + 2
            OBVIOUS
        <4> QED
            BY <4>5, <4>6
      <3>2. CASE ~(i + 2 <= n)
          BY <3>2
      <3> QED
          BY <3>1, <3>2
    <2> HIDE DEF Same
    <2>4. Same = Nat
      <3>1. Same \in SUBSET Nat
          BY DEF Same
      <3> QED
          BY <2>2, <2>3, <3>1, InductionNat
    <2>5. h[n] = g[n]
      <3>1. n - 1 \in Same
          BY <1>1, <1>4, <2>4
      <3> QED
          BY <1>1, <3>1 DEF Same
    <2>6. n + 1 \in 1..(n + 1) /\ n + 1 # 1 /\ (n + 1) - 1 = n
        BY <1>1, <1>4
    <2>7. g[n + 1] = g[n] \o long[n + 1]
        BY <1>2, <2>6 DEF Flattens
    <2> QED
        BY <1>1, <1>2, <2>1, <2>5, <2>7
  <1> QED
      BY <1>3, <1>4

(* No sequences are flattened to nothing.                                      *)
LEMMA FlattenEmpty == FlattenSeq(<< >>) = << >>
  BY EmptySeq DEF FlattenSeq

(* Sequences over S are flattened to a sequence over S.                        *)
LEMMA FlattenType ==
  ASSUME NEW S, NEW seqs \in Seq(Seq(S))
  PROVE  FlattenSeq(seqs) \in Seq(S)
  <1> DEFINE T == {q \in Seq(Seq(S)) : FlattenSeq(q) \in Seq(S)}
  <1>1. << >> \in T
      BY EmptySeq, FlattenEmpty
  <1>2. ASSUME NEW q \in T, NEW s \in Seq(S) PROVE Append(q, s) \in T
    <2>1. FlattenSeq(Append(q, s)) = FlattenSeq(q) \o s
        BY FlattenAppend
    <2>2. FlattenSeq(q) \o s \in Seq(S) /\ Append(q, s) \in Seq(Seq(S))
        BY ConcatProperties, AppendProperties
    <2> QED
        BY <2>1, <2>2
  <1> HIDE DEF T
  <1>3. T = Seq(Seq(S))
    <2>1. T \in SUBSET Seq(Seq(S))
        BY DEF T
    <2> QED
        BY <1>1, <1>2, <2>1, InductionSeq
  <1> QED
      BY <1>3 DEF T

===============================================================================
