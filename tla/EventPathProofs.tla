--------------------------- MODULE EventPathProofs --------------------------
(***************************************************************************)
(* The way of the events through HalProxy, for any sub-HALs, batches, queue*)
(* sizes and bounds: SizeAccounting, the refinement of LossyFifo, InOrder; *)
(* and that the count of the shared wake lock covers every WAKE_UP event   *)
(* on this way, CountCoversOutstanding, so that the device stays awake for *)
(* it.                                                                     *)
(***************************************************************************)
EXTENDS HalProxyProofs, WellFoundedInduction

-----------------------------------------------------------------------------
(***************************************************************************)
(* Flattening a sequence of sequences, by induction on its length.  The    *)
(* induction is the argument of the least counterexample.                  *)
(***************************************************************************)

\* A set of natural numbers has a least one: what stands for induction here.
LEMMA LeastNumber ==
  ASSUME NEW T, T \subseteq Nat, T # {}
  PROVE  \E m \in T : \A k \in T : m <= k
<1> DEFINE R == OpToRel(<, Nat)
<1>1. IsWellFoundedOn(R, Nat)
  BY NatLessThanWellFounded
<1> HIDE DEF R
<1>2. PICK m \in T : \A k \in T : ~ (<<k, m>> \in R)
  BY <1>1, WFMin
<1>3. ASSUME NEW k \in T PROVE m <= k
  <2>1. ~(k < m)
    BY <1>2 DEF R, OpToRel
  <2> QED
    BY <2>1
<1> QED
  BY <1>2, <1>3

\* The first n values of the function that FlattenSeq defines recursively: the
\* i-th is the first i of the sequences, one after the other.
IsFlattening(f, seqs, n) ==
  f = [i \in 1 .. n |-> IF i = 1 THEN seqs[i] ELSE f[i - 1] \o seqs[i]]

LEMMA FlatteningAt ==
  ASSUME NEW f, NEW seqs, NEW n \in Nat, IsFlattening(f, seqs, n), NEW i \in 1 .. n
  PROVE  f[i] = IF i = 1 THEN seqs[i] ELSE f[i - 1] \o seqs[i]
BY DEF IsFlattening

LEMMA FlatteningBy ==
  ASSUME NEW S, NEW seqs, NEW n \in Nat, NEW f \in [1 .. n -> S],
         \A i \in 1 .. n : f[i] = IF i = 1 THEN seqs[i] ELSE f[i - 1] \o seqs[i]
  PROVE  IsFlattening(f, seqs, n)
BY DEF IsFlattening

\* It exists ...
LEMMA FlatteningExists ==
  ASSUME NEW S, NEW seqs \in Seq(Seq(S)), NEW n \in 0 .. Len(seqs)
  PROVE  \E f \in [1 .. n -> Seq(S)] : IsFlattening(f, seqs, n)
<1> DEFINE T == {k \in 0 .. Len(seqs) : \A f \in [1 .. k -> Seq(S)] : ~IsFlattening(f, seqs, k)}
<1>1. SUFFICES ASSUME T # {} PROVE FALSE
  OBVIOUS
<1>2. PICK m \in T : \A k \in T : m <= k
  <2>1. T \subseteq Nat
    OBVIOUS
  <2> HIDE DEF T
  <2> QED
    BY <1>1, <2>1, LeastNumber
<1>3. CASE m = 0
  <2>1. <<>> \in [1 .. 0 -> Seq(S)] /\ IsFlattening(<<>>, seqs, 0)
    BY DEF IsFlattening
  <2> QED
    BY <1>3, <2>1
<1>4. CASE m # 0
  <2>1. m - 1 \in 0 .. Len(seqs) /\ m \in 1 .. Len(seqs)
    BY <1>4
  <2>2. m - 1 \notin T
    <3> m \in Nat /\ ~(m <= m - 1)
      BY <2>1
    <3> HIDE DEF T
    <3> QED
      BY <1>2
  <2>3. PICK f \in [1 .. m - 1 -> Seq(S)] : IsFlattening(f, seqs, m - 1)
    BY <2>1, <2>2
  <2> DEFINE last == IF m = 1 THEN seqs[m] ELSE f[m - 1] \o seqs[m]
             g == [i \in 1 .. m |-> IF i = m THEN last ELSE f[i]]
  <2>4. last \in Seq(S)
    <3>1. seqs[m] \in Seq(S)
      BY <2>1
    <3>2. m # 1 => f[m - 1] \in Seq(S)
      BY <2>1
    <3> QED
      BY <3>1, <3>2, ConcatProperties
  <2>5. g \in [1 .. m -> Seq(S)]
    <3> HIDE DEF last
    <3> QED
      BY <2>1, <2>4
  <2>6. ASSUME NEW i \in 1 .. m PROVE g[i] = IF i = 1 THEN seqs[i] ELSE g[i - 1] \o seqs[i]
    <3>1. CASE i = m
      BY <3>1, <2>1
    <3>2. CASE i # m
      <4>1. i \in 1 .. m - 1 /\ g[i] = f[i] /\ (i # 1 => g[i - 1] = f[i - 1])
        BY <3>2, <2>1
      <4>2. m - 1 \in Nat
        BY <2>1
      <4>3. f[i] = IF i = 1 THEN seqs[i] ELSE f[i - 1] \o seqs[i]
        BY <2>3, <4>1, <4>2 DEF IsFlattening
      <4> QED
        BY <4>1, <4>3
    <3> QED
      BY <3>1, <3>2
  <2> HIDE DEF g
  <2>7. IsFlattening(g, seqs, m)
    <3>1. m \in Nat
      BY <2>1
    <3> QED
      BY <2>5, <2>6, <3>1, FlatteningBy
  <2> QED
    BY <2>5, <2>7
<1> QED
  BY <1>3, <1>4

\* ... and there is no other.
LEMMA OneFlattening ==
  ASSUME NEW seqs, NEW n \in Nat, NEW f, NEW g, IsFlattening(f, seqs, n), IsFlattening(g, seqs, n)
  PROVE  f = g
<1> DEFINE T == {k \in 1 .. n : f[k] # g[k]}
<1>1. CASE T = {}
  <2>1. \A k \in 1 .. n : f[k] = g[k]
    BY <1>1
  <2>2. f = [k \in 1 .. n |-> f[k]] /\ g = [k \in 1 .. n |-> g[k]]
    BY DEF IsFlattening
  <2> QED
    BY <2>1, <2>2
<1>2. CASE T # {}
  <2>1. T \subseteq Nat
    OBVIOUS
  <2> HIDE DEF T
  <2>2. PICK m \in T : \A k \in T : m <= k
    BY <1>2, <2>1, LeastNumber
  <2> USE DEF T
  <2>3. CASE m = 1
    BY <2>3, FlatteningAt
  <2>4. CASE m # 1
    <3>1. m - 1 \in 1 .. n /\ f[m - 1] = g[m - 1]
      BY <2>2, <2>4
    <3>2. f[m] = f[m - 1] \o seqs[m] /\ g[m] = g[m - 1] \o seqs[m]
      BY <2>4, FlatteningAt
    <3> QED
      BY <3>1, <3>2
  <2> QED
    BY <2>3, <2>4
<1> QED
  BY <1>1, <1>2

\* So FlattenSeq is its last value.
LEMMA FlattenSeqIs ==
  ASSUME NEW seqs, Len(seqs) \in Nat \ {0}, NEW g, IsFlattening(g, seqs, Len(seqs))
  PROVE  FlattenSeq(seqs) = g[Len(seqs)]
<1> DEFINE f == CHOOSE f : IsFlattening(f, seqs, Len(seqs))
<1>1. IsFlattening(f, seqs, Len(seqs))
  OBVIOUS
<1>2. FlattenSeq(seqs) = f[Len(seqs)]
  BY DEF FlattenSeq, IsFlattening
<1> HIDE DEF f
<1>3. f = g
  BY <1>1, OneFlattening
<1> QED
  BY <1>2, <1>3

LEMMA ConcatOfThree ==
  \A S : \A a, b, c \in Seq(S) : (a \o b) \o c = a \o (b \o c)
<1> SUFFICES ASSUME NEW S, NEW a \in Seq(S), NEW b \in Seq(S), NEW c \in Seq(S)
             PROVE  (a \o b) \o c = a \o (b \o c)
  OBVIOUS
<1> QED
  BY ConcatAssociative

LEMMA FlattenEmpty == FlattenSeq(<<>>) = <<>>
BY DEF FlattenSeq

LEMMA FlattenIsSeq ==
  ASSUME NEW S, NEW seqs \in Seq(Seq(S))
  PROVE  FlattenSeq(seqs) \in Seq(S)
<1>1. CASE seqs = <<>>
  <2>1. <<>> \in Seq(S)
    OBVIOUS
  <2> QED
    BY <1>1, <2>1, FlattenEmpty, Zenon
<1>2. CASE seqs # <<>>
  <2> DEFINE n == Len(seqs)
  <2>1. n \in Nat \ {0} /\ n \in 0 .. n /\ n \in 1 .. n
    BY <1>2
  <2>2. PICK f \in [1 .. n -> Seq(S)] : IsFlattening(f, seqs, n)
    BY <2>1, FlatteningExists
  <2>3. FlattenSeq(seqs) = f[n]
    BY <2>1, <2>2, FlattenSeqIs
  <2> HIDE DEF n
  <2>4. f[n] \in Seq(S)
    BY <2>1
  <2> QED
    BY <2>3, <2>4
<1> QED
  BY <1>1, <1>2

\* A sequence more at the end.
LEMMA FlattenAppend ==
  ASSUME NEW S, NEW seqs \in Seq(Seq(S)), NEW seq \in Seq(S)
  PROVE  FlattenSeq(Append(seqs, seq)) = FlattenSeq(seqs) \o seq
<1> DEFINE n == Len(seqs)
           longer == Append(seqs, seq)
           whole == FlattenSeq(seqs) \o seq
<1>0. /\ n \in Nat /\ longer \in Seq(Seq(S)) /\ Len(longer) = n + 1
      /\ longer[n + 1] = seq
      /\ \A i \in 1 .. n : longer[i] = seqs[i]
  OBVIOUS
<1> HIDE DEF longer
<1>1. PICK f \in [1 .. n -> Seq(S)] : IsFlattening(f, seqs, n)
  BY FlatteningExists
<1>f. \A i \in 1 .. n : f[i] = IF i = 1 THEN seqs[i] ELSE f[i - 1] \o seqs[i]
  BY <1>1 DEF IsFlattening
<1>2. n # 0 => FlattenSeq(seqs) = f[n]
  BY <1>0, <1>1, FlattenSeqIs
<1>3. n = 0 => whole = seq
  BY FlattenEmpty
<1>4. whole \in Seq(S)
  BY FlattenIsSeq, ConcatProperties
<1>5. n # 0 => whole = f[n] \o seq
  BY <1>2
<1> HIDE DEF whole
<1> DEFINE g == [i \in 1 .. n + 1 |-> IF i = n + 1 THEN whole ELSE f[i]]
<1>6. g \in [1 .. n + 1 -> Seq(S)]
  BY <1>0, <1>4
<1>7. ASSUME NEW i \in 1 .. n + 1
      PROVE  g[i] = IF i = 1 THEN longer[i] ELSE g[i - 1] \o longer[i]
  <2>1. CASE i = n + 1
    <3>1. g[i] = whole /\ (n # 0 => g[i - 1] = f[n])
      BY <2>1, <1>0
    <3> QED
      BY <2>1, <3>1, <1>0, <1>3, <1>5
  <2>2. CASE i # n + 1
    <3>1. i \in 1 .. n /\ g[i] = f[i] /\ (i # 1 => g[i - 1] = f[i - 1])
      BY <2>2, <1>0, SMTT(30)
    <3>2. f[i] = IF i = 1 THEN seqs[i] ELSE f[i - 1] \o seqs[i]
      BY <3>1, <1>f, Zenon
    <3> QED
      BY <3>1, <3>2, <1>0
  <2> QED
    BY <2>1, <2>2
<1>8. g[n + 1] = whole
  BY <1>0
<1> HIDE DEF g
<1>9. IsFlattening(g, longer, n + 1)
  <2>1. n + 1 \in Nat
    BY <1>0
  <2> QED
    BY <2>1, <1>6, <1>7, FlatteningBy
<1>10. FlattenSeq(longer) = g[n + 1]
  BY <1>0, <1>9, FlattenSeqIs
<1> QED
  BY <1>8, <1>10 DEF longer, whole

\* From the flattening of all sequences but the first to that of all.
OneInFront(first, f, n) == [i \in 1 .. n |-> IF i = 1 THEN first ELSE first \o f[i - 1]]

LEMMA FlatteningOneInFront ==
  ASSUME NEW S, NEW seqs \in Seq(Seq(S)), seqs # <<>>, NEW f,
         f \in [1 .. Len(seqs) - 1 -> Seq(S)], IsFlattening(f, Tail(seqs), Len(seqs) - 1)
  PROVE  IsFlattening(OneInFront(seqs[1], f, Len(seqs)), seqs, Len(seqs))
<1> DEFINE n == Len(seqs)
           tail == Tail(seqs)
           first == seqs[1]
           g == OneInFront(first, f, n)
<1>a. /\ n \in Nat \ {0} /\ first \in Seq(S)
      /\ \A i \in 2 .. n : tail[i - 1] = seqs[i] /\ seqs[i] \in Seq(S)
  OBVIOUS
<1>b. f \in [1 .. n - 1 -> Seq(S)] /\ first = seqs[1]
  OBVIOUS
<1>c. \A i \in 1 .. n - 1 : f[i] = IF i = 1 THEN tail[i] ELSE f[i - 1] \o tail[i]
  BY DEF IsFlattening
<1> HIDE DEF n, tail, first
<1>1. \A i \in 1 .. n - 1 : f[i] \in Seq(S) /\ first \o f[i] \in Seq(S)
  <2> SUFFICES ASSUME NEW i \in 1 .. n - 1 PROVE f[i] \in Seq(S) /\ first \o f[i] \in Seq(S)
    OBVIOUS
  <2>1. f[i] \in Seq(S)
    BY <1>b
  <2> QED
    BY <1>a, <2>1, ConcatProperties
<1>2. g \in [1 .. n -> Seq(S)]
  <2>1. \A i \in 1 .. n : i # 1 => i - 1 \in 1 .. n - 1
    BY <1>a
  <2> QED
    BY <1>a, <1>1, <2>1 DEF OneInFront
<1>3. ASSUME NEW i \in 1 .. n, i > 2
      PROVE  g[i] = g[i - 1] \o seqs[i]
  <2>1. /\ n - 1 \in Nat /\ i - 1 \in 1 .. n - 1 /\ i - 2 \in 1 .. n - 1 /\ i \in 2 .. n
        /\ i # 1 /\ i - 1 # 1 /\ (i - 1) - 1 = i - 2 /\ i - 1 \in 1 .. n
    BY <1>a, <1>3
  <2>2. f[i - 1] = f[(i - 1) - 1] \o tail[i - 1]
    BY <1>c, <2>1
  <2>3. f[i - 2] \in Seq(S) /\ seqs[i] \in Seq(S) /\ tail[i - 1] = seqs[i]
    BY <1>a, <1>1, <2>1, Zenon
  <2>4. g[i] = first \o f[i - 1]
    BY <2>1 DEF OneInFront
  <2>5. g[i - 1] = first \o f[(i - 1) - 1]
    BY <2>1 DEF OneInFront
  <2>6. (first \o f[i - 2]) \o seqs[i] = first \o (f[i - 2] \o seqs[i])
    <3> DEFINE b == f[i - 2]
               c == seqs[i]
    <3>1. first \in Seq(S) /\ b \in Seq(S) /\ c \in Seq(S)
      BY <1>a, <2>3, Zenon
    <3> HIDE DEF b, c
    <3>2. (first \o b) \o c = first \o (b \o c)
      BY <3>1, ConcatAssociative, SMTT(60)
    <3> QED
      BY <3>2 DEF b, c
  <2> HIDE DEF g
  <2> QED
    BY <2>1, <2>2, <2>3, <2>4, <2>5, <2>6, Zenon
<1>4. ASSUME 2 \in 1 .. n
      PROVE  g[2] = g[1] \o seqs[2]
  <2>1. n - 1 \in Nat /\ 1 \in 1 .. n - 1 /\ 1 \in 1 .. n /\ 2 \in 2 .. n /\ 2 - 1 = 1 /\ 2 # 1
    BY <1>a, <1>4
  <2>2. f[1] = tail[1]
    BY <1>c, <2>1
  <2>3. tail[2 - 1] = seqs[2]
    BY <1>a, <2>1, Zenon
  <2>4. g[1] = first
    BY <2>1 DEF OneInFront
  <2>5. g[2] = first \o f[2 - 1]
    BY <2>1 DEF OneInFront
  <2> HIDE DEF g
  <2> QED
    BY <2>1, <2>2, <2>3, <2>4, <2>5, Zenon
<1>5. g[1] = seqs[1]
  BY <1>a, <1>b DEF OneInFront
<1> HIDE DEF g
<1>6. ASSUME NEW i \in 1 .. n
      PROVE  g[i] = IF i = 1 THEN seqs[i] ELSE g[i - 1] \o seqs[i]
  <2>1. CASE i = 1
    BY <1>5, <2>1
  <2>2. CASE i = 2
    <3>1. g[2] = g[1] \o seqs[2]
      BY <1>4, <2>2
    <3>2. i = 2 /\ i - 1 = 1 /\ i # 1
      BY <2>2
    <3> QED
      BY <3>1, <3>2, Zenon
  <2>3. CASE i > 2
    <3>1. g[i] = g[i - 1] \o seqs[i]
      BY <2>3, <1>3, Zenon
    <3>2. i # 1
      BY <2>3
    <3> QED
      BY <3>1, <3>2, Zenon
  <2>4. i = 1 \/ i = 2 \/ i > 2
    OBVIOUS
  <2> QED
    BY <2>1, <2>2, <2>3, <2>4, Zenon
<1> QED
  BY <1>a, <1>2, <1>6, FlatteningBy DEF g, n, first

\* The first sequence taken off.
LEMMA FlattenTail ==
  ASSUME NEW S, NEW seqs \in Seq(Seq(S)), seqs # <<>>
  PROVE  FlattenSeq(seqs) = Head(seqs) \o FlattenSeq(Tail(seqs))
<1> DEFINE n == Len(seqs)
           tail == Tail(seqs)
           first == seqs[1]
<1>1. /\ n \in Nat \ {0} /\ tail \in Seq(Seq(S)) /\ Len(tail) = n - 1
      /\ Head(seqs) = first /\ first \in Seq(S)
  OBVIOUS
<1>2. first = seqs[1] /\ n = Len(seqs) /\ tail = Tail(seqs)
  OBVIOUS
<1>3. n - 1 \in 0 .. Len(tail)
  BY <1>1
<1> HIDE DEF n, tail, first
<1>4. PICK f \in [1 .. n - 1 -> Seq(S)] : IsFlattening(f, tail, n - 1)
  BY <1>1, <1>3, FlatteningExists
<1> DEFINE g == OneInFront(first, f, n)
<1>5. IsFlattening(g, seqs, n)
  BY <1>4, FlatteningOneInFront DEF n, tail, first
<1>6. g[n] = IF n = 1 THEN first ELSE first \o f[n - 1]
  <2>1. n \in Nat /\ n \in 1 .. n
    BY <1>1
  <2> QED
    BY <2>1 DEF OneInFront
<1> HIDE DEF g
<1>7. FlattenSeq(seqs) = g[n]
  BY <1>1, <1>2, <1>5, FlattenSeqIs, Zenon
<1>8. CASE n = 1
  <2>1. tail = <<>>
    BY <1>1, <1>8
  <2>2. first \o <<>> = first
    BY <1>1, ConcatEmptySeq
  <2> QED
    BY <1>1, <1>2, <1>6, <1>7, <1>8, <2>1, <2>2, FlattenEmpty, Zenon
<1>9. CASE n # 1
  <2>1. n - 1 \in Nat \ {0}
    BY <1>1, <1>9
  <2>2. FlattenSeq(tail) = f[n - 1]
    BY <1>1, <1>4, <2>1, FlattenSeqIs, Zenon
  <2> QED
    BY <1>1, <1>2, <1>6, <1>7, <1>9, <2>2, Zenon
<1> QED
  BY <1>8, <1>9

-----------------------------------------------------------------------------
(***************************************************************************)
(* Cutting sequences.                                                      *)
(***************************************************************************)

\* The two parts of a concatenation.
LEMMA Parts ==
  ASSUME NEW S, NEW a \in Seq(S), NEW b \in Seq(S), NEW whole, whole = a \o b
  PROVE  /\ SubSeq(whole, 1, Len(a)) = a
         /\ SubSeq(whole, Len(a) + 1, Len(whole)) = b
<1> DEFINE front == SubSeq(whole, 1, Len(a))
           back == SubSeq(whole, Len(a) + 1, Len(whole))
<1>1. /\ whole \in Seq(S) /\ Len(whole) = Len(a) + Len(b)
      /\ \A i \in 1 .. Len(a) + Len(b) : whole[i] = IF i <= Len(a) THEN a[i] ELSE b[i - Len(a)]
  BY ConcatProperties
<1>2. Len(a) \in Nat /\ Len(b) \in Nat
  OBVIOUS
<1>3. /\ front \in Seq(S) /\ Len(front) = Len(a)
      /\ \A i \in 1 .. Len(a) : front[i] = whole[i]
  BY <1>1, <1>2, SubSeqProperties
<1>4. /\ back \in Seq(S) /\ Len(back) = Len(b)
      /\ \A i \in 1 .. Len(b) : back[i] = whole[Len(a) + i]
  BY <1>1, <1>2, SubSeqProperties
<1> HIDE DEF front, back
<1>5. front = a
  <2>1. ASSUME NEW i \in 1 .. Len(front) PROVE front[i] = a[i]
    BY <1>1, <1>2, <1>3
  <2> QED
    BY <1>3, <2>1, SeqEqual
<1>6. back = b
  <2>1. ASSUME NEW i \in 1 .. Len(back) PROVE back[i] = b[i]
    BY <1>1, <1>2, <1>4
  <2> QED
    BY <1>4, <2>1, SeqEqual
<1> QED
  BY <1>5, <1>6 DEF front, back

LEMMA Split ==
  ASSUME NEW S, NEW s \in Seq(S), NEW k \in 0 .. Len(s)
  PROVE  /\ SubSeq(s, 1, k) \in Seq(S) /\ Len(SubSeq(s, 1, k)) = k
         /\ SubSeq(s, k + 1, Len(s)) \in Seq(S) /\ Len(SubSeq(s, k + 1, Len(s))) = Len(s) - k
         /\ s = SubSeq(s, 1, k) \o SubSeq(s, k + 1, Len(s))
<1>1. k \in Nat /\ Len(s) \in Nat /\ k \in 1 - 1 .. Len(s) /\ Len(s) \in k .. Len(s) /\ 1 \in 1 .. Len(s) + 1
  OBVIOUS
<1>2. SubSeq(s, 1, k) \in Seq(S) /\ Len(SubSeq(s, 1, k)) = k
  BY <1>1, SubSeqProperties
<1>3. SubSeq(s, k + 1, Len(s)) \in Seq(S) /\ Len(SubSeq(s, k + 1, Len(s))) = Len(s) - k
  BY <1>1, SubSeqProperties
<1>4. SubSeq(s, 1, k) \o SubSeq(s, k + 1, Len(s)) = SubSeq(s, 1, Len(s))
  BY <1>1, ConcatAdjacentSubSeq
<1>5. SubSeq(s, 1, Len(s)) = s
  BY SubSeqFull
<1>6. s = SubSeq(s, 1, k) \o SubSeq(s, k + 1, Len(s))
  BY <1>4, <1>5, Zenon
<1> QED
  BY <1>2, <1>3, <1>6, Zenon

\* The first events are taken from the first part.
LEMMA CutFront ==
  ASSUME NEW S, NEW a \in Seq(S), NEW b \in Seq(S), NEW n \in 0 .. Len(a)
  PROVE  SubSeq(a \o b, n + 1, Len(a \o b)) = SubSeq(a, n + 1, Len(a)) \o b
<1> DEFINE p == SubSeq(a, 1, n)
           q == SubSeq(a, n + 1, Len(a))
           r == q \o b
           whole == a \o b
<1>1. p \in Seq(S) /\ Len(p) = n /\ q \in Seq(S) /\ a = p \o q
  BY Split, Zenon
<1> HIDE DEF p, q
<1>2. whole = p \o r
  <2>1. (p \o q) \o b = p \o (q \o b)
    BY <1>1, ConcatAssociative
  <2> QED
    BY <1>1, <2>1
<1>3. r \in Seq(S)
  BY <1>1, ConcatProperties
<1> HIDE DEF whole, r
<1>4. SubSeq(whole, Len(p) + 1, Len(whole)) = r
  BY <1>1, <1>2, <1>3, Parts
<1> QED
  BY <1>1, <1>4 DEF q, r, whole

-----------------------------------------------------------------------------
(***************************************************************************)
(* Adding up the values of a function over a finite set.                   *)
(***************************************************************************)

\* Among subsets of a finite set there is a smallest one: what stands for
\* induction over finite sets here.
LEMMA LeastSubset ==
  ASSUME NEW S, IsFiniteSet(S), NEW T, T \subseteq SUBSET S, T # {}
  PROVE  \E U \in T : \A V \in T : V \subseteq U => V = U
<1> DEFINE R == StrictSubsetOrdering(S)
<1>1. IsWellFoundedOn(R, SUBSET S)
  BY FS_StrictSubsetOrderingWellFounded, FS_FiniteSubsetsOfFinite
<1> HIDE DEF R
<1>2. PICK U \in T : \A V \in T : ~(<<V, U>> \in R)
  BY <1>1, WFMin
<1>3. ASSUME NEW V \in T, V \subseteq U PROVE V = U
  <2>1. V \in SUBSET S /\ U \in SUBSET S
    OBVIOUS
  <2> QED
    BY <1>2, <1>3, <2>1 DEF R, StrictSubsetOrdering
<1> QED
  BY <1>2, <1>3

-----------------------------------------------------------------------------
(***************************************************************************)
(* FoldSeq(+, 0, q) adds the elements of q in an order of its own.  The sum*)
(* is the size of a heap with q[x] tokens for each x.                      *)
(***************************************************************************)

Some(s) == CHOOSE x \in s : TRUE

IsSum(g, q, S) ==
  g = [s \in SUBSET S |-> IF s = {} THEN 0 ELSE q[Some(s)] + g[s \ {Some(s)}]]

Tokens(q, x) == {x} \X (1 .. q[x])

Heap(q, s) == UNION {Tokens(q, x) : x \in s}

LEMMA TokensSize ==
  ASSUME NEW q, NEW x, q[x] \in Nat
  PROVE  IsFiniteSet(Tokens(q, x)) /\ Cardinality(Tokens(q, x)) = q[x]
<1>1. IsFiniteSet({x}) /\ Cardinality({x}) = 1
  BY FS_Singleton
<1>2. IsFiniteSet(1 .. q[x]) /\ Cardinality(1 .. q[x]) = q[x]
  <2>1. \A n \in Nat : IsFiniteSet(1 .. n) /\ Cardinality(1 .. n) = n
    BY FS_Interval
  <2> QED
    BY <2>1
<1>3. /\ IsFiniteSet({x} \X (1 .. q[x]))
      /\ Cardinality({x} \X (1 .. q[x])) = Cardinality({x}) * Cardinality(1 .. q[x])
  BY <1>1, <1>2, FS_Product, Zenon
<1>4. Cardinality({x} \X (1 .. q[x])) = q[x]
  BY <1>1, <1>2, <1>3
<1> QED
  BY <1>3, <1>4, Zenon DEF Tokens

LEMMA HeapWithout ==
  ASSUME NEW q, NEW s, NEW x \in s
  PROVE  /\ Heap(q, s) = Heap(q, s \ {x}) \cup Tokens(q, x)
         /\ Heap(q, s \ {x}) \cap Tokens(q, x) = {}
<1>1. Heap(q, s) = Heap(q, s \ {x}) \cup Tokens(q, x)
  BY DEF Heap
<1>2. \A p \in Heap(q, s \ {x}) : p[1] # x
  BY DEF Heap, Tokens
<1>3. \A p \in Tokens(q, x) : p[1] = x
  BY DEF Tokens
<1> QED
  BY <1>1, <1>2, <1>3

LEMMA HeapIsFinite ==
  ASSUME NEW q, NEW S, IsFiniteSet(S), \A x \in S : q[x] \in Nat
  PROVE  IsFiniteSet(Heap(q, S)) /\ Cardinality(Heap(q, S)) \in Nat
<1> DEFINE f == [x \in S |-> Tokens(q, x)]
           T == {Tokens(q, x) : x \in S}
<1>1. f \in Surjection(S, T)
  BY DEF Surjection
<1>2. \A t \in T : IsFiniteSet(t)
  BY TokensSize
<1> HIDE DEF f, T
<1>3. IsFiniteSet(T)
  BY <1>1, FS_Surjection
<1>4. IsFiniteSet(UNION T)
  BY <1>2, <1>3, FS_UNION
<1> QED
  BY <1>4, FS_CardinalityType DEF T, Heap

LEMMA UpToFinite == ASSUME NEW n \in Nat PROVE IsFiniteSet(1 .. n)
BY FS_Interval

LEMMA HeapSize ==
  ASSUME NEW q, NEW S, IsFiniteSet(S), \A x \in S : q[x] \in Nat, NEW x \in S
  PROVE  Cardinality(Heap(q, S)) = q[x] + Cardinality(Heap(q, S \ {x}))
<1> DEFINE rest == S \ {x}
<1>1. IsFiniteSet(rest) /\ \A y \in rest : q[y] \in Nat
  BY FS_RemoveElement
<1>2. IsFiniteSet(Heap(q, rest)) /\ Cardinality(Heap(q, rest)) \in Nat
  BY <1>1, HeapIsFinite
<1>3. IsFiniteSet(Tokens(q, x)) /\ Cardinality(Tokens(q, x)) = q[x]
  BY TokensSize
<1>4. Heap(q, S) = Heap(q, rest) \cup Tokens(q, x) /\ Heap(q, rest) \cap Tokens(q, x) = {}
  BY HeapWithout
<1> HIDE DEF rest
<1>5. Cardinality(Heap(q, rest) \cup Tokens(q, x))
        = Cardinality(Heap(q, rest)) + Cardinality(Tokens(q, x))
            - Cardinality(Heap(q, rest) \cap Tokens(q, x))
  BY <1>2, <1>3, FS_Union
<1>6. Cardinality(Heap(q, rest) \cap Tokens(q, x)) = 0
  BY <1>4, FS_EmptySet
<1> QED
  BY <1>2, <1>3, <1>4, <1>5, <1>6 DEF rest

LEMMA SumExists ==
  ASSUME NEW q, NEW S, IsFiniteSet(S), \A x \in S : q[x] \in Nat
  PROVE  IsSum([s \in SUBSET S |-> Cardinality(Heap(q, s))], q, S)
<1> DEFINE g == [s \in SUBSET S |-> Cardinality(Heap(q, s))]
<1>1. ASSUME NEW s \in SUBSET S
      PROVE  g[s] = IF s = {} THEN 0 ELSE q[Some(s)] + g[s \ {Some(s)}]
  <2>1. CASE s = {}
    <3>1. Heap(q, s) = {}
      BY <2>1 DEF Heap
    <3> QED
      BY <2>1, <3>1, FS_EmptySet
  <2>2. CASE s # {}
    <3>1. Some(s) \in s
      BY <2>2 DEF Some
    <3>2. IsFiniteSet(s) /\ \A x \in s : q[x] \in Nat
      BY FS_Subset
    <3>3. Cardinality(Heap(q, s)) = q[Some(s)] + Cardinality(Heap(q, s \ {Some(s)}))
      BY <3>1, <3>2, HeapSize
    <3> QED
      BY <2>2, <3>3
  <2> QED
    BY <2>1, <2>2
<1>2. g = [s \in SUBSET S |-> g[s]]
  OBVIOUS
<1> HIDE DEF g
<1>3. g = [s \in SUBSET S |-> IF s = {} THEN 0 ELSE q[Some(s)] + g[s \ {Some(s)}]]
  BY <1>1, <1>2
<1> QED
  BY <1>3 DEF IsSum, g

LEMMA SumAt ==
  ASSUME NEW q, NEW S, NEW g, IsSum(g, q, S), NEW s \in SUBSET S
  PROVE  g[s] = IF s = {} THEN 0 ELSE q[Some(s)] + g[s \ {Some(s)}]
BY DEF IsSum

LEMMA OneSum ==
  ASSUME NEW q, NEW S, IsFiniteSet(S), NEW f, NEW g, IsSum(f, q, S), IsSum(g, q, S)
  PROVE  f[S] = g[S]
<1> DEFINE T == {s \in SUBSET S : f[s] # g[s]}
<1>1. SUFFICES ASSUME T # {} PROVE FALSE
  OBVIOUS
<1>2. PICK s \in T : \A t \in T : t \subseteq s => t = s
  <2>1. T \subseteq SUBSET S
    OBVIOUS
  <2> HIDE DEF T
  <2> QED
    BY <1>1, <2>1, LeastSubset
<1>3. CASE s = {}
  BY <1>3, SumAt
<1>4. CASE s # {}
  <2>1. Some(s) \in s
    BY <1>4 DEF Some
  <2> DEFINE t == s \ {Some(s)}
  <2>2. t \in SUBSET S /\ t # s /\ t \subseteq s
    BY <2>1
  <2>3. f[t] = g[t]
    BY <1>2, <2>2
  <2> QED
    BY <1>4, <2>3, SumAt
<1> QED
  BY <1>3, <1>4

Total(q) == FoldSeq(+, 0, q)

LEMMA TotalIs ==
  ASSUME NEW q \in Seq(Nat)
  PROVE  Total(q) = Cardinality(Heap(q, 1 .. Len(q)))
<1> DEFINE S == 1 .. Len(q)
           f == CHOOSE f : IsSum(f, q, S)
           g == [s \in SUBSET S |-> Cardinality(Heap(q, s))]
<1>0. \A x \in 1 .. Len(q) : q[x] \in Nat
  OBVIOUS
<1>1. IsFiniteSet(S) /\ (\A x \in S : q[x] \in Nat) /\ DOMAIN q = S
  <2>1. IsFiniteSet(1 .. Len(q))
    BY FS_Interval
  <2>2. DOMAIN q = 1 .. Len(q)
    OBVIOUS
  <2> QED
    BY <1>0, <2>1, <2>2
<1>2. IsSum(g, q, S)
  BY <1>1, SumExists
<1>3. IsSum(f, q, S)
  BY <1>2
<1>4. Total(q) = f[S]
  BY <1>1 DEF Total, FoldSeq, FoldFunction, FoldFunctionOnSet, MapThenFoldSet, IsSum, Some
<1> HIDE DEF f
<1>5. f[S] = g[S]
  BY <1>1, <1>2, <1>3, OneSum
<1> QED
  BY <1>4, <1>5

LEMMA TotalIsNat == ASSUME NEW q \in Seq(Nat) PROVE Total(q) \in Nat
<1>1. IsFiniteSet(1 .. Len(q)) /\ \A x \in 1 .. Len(q) : q[x] \in Nat
  <2>1. Len(q) \in Nat
    OBVIOUS
  <2>2. IsFiniteSet(1 .. Len(q))
    BY <2>1, UpToFinite
  <2> QED
    BY <2>2
<1> QED
  BY <1>1, TotalIs, HeapIsFinite

LEMMA TotalOfNone == Total(<<>>) = 0
<1>1. <<>> \in Seq(Nat) /\ 1 .. Len(<<>>) = {}
  OBVIOUS
<1>2. Heap(<<>>, {}) = {}
  BY DEF Heap
<1> QED
  BY <1>1, <1>2, TotalIs, FS_EmptySet

LEMMA TotalAppend ==
  ASSUME NEW q \in Seq(Nat), NEW n \in Nat
  PROVE  Total(Append(q, n)) = Total(q) + n
<1> DEFINE more == Append(q, n)
           l == Len(q)
<1>1. /\ more \in Seq(Nat) /\ Len(more) = l + 1 /\ more[l + 1] = n /\ l \in Nat
      /\ \A x \in 1 .. l : more[x] = q[x] /\ q[x] \in Nat
  OBVIOUS
<1> HIDE DEF more, l
<1>2. \A x \in 1 .. l + 1 : more[x] \in Nat
  BY <1>1
<1>3. IsFiniteSet(1 .. l + 1) /\ l + 1 \in 1 .. l + 1 /\ (1 .. l + 1) \ {l + 1} = 1 .. l
  <2>1. l + 1 \in Nat /\ l + 1 \in 1 .. l + 1 /\ (1 .. l + 1) \ {l + 1} = 1 .. l
    BY <1>1
  <2> QED
    BY <2>1, UpToFinite
<1>4. Cardinality(Heap(more, 1 .. l + 1)) = n + Cardinality(Heap(more, 1 .. l))
  BY <1>1, <1>2, <1>3, HeapSize, SMTT(30)
<1>5. Heap(more, 1 .. l) = Heap(q, 1 .. l)
  BY <1>1 DEF Heap, Tokens
<1>6. Total(more) = Cardinality(Heap(more, 1 .. l + 1))
  BY <1>1, TotalIs
<1>7. Total(q) = Cardinality(Heap(q, 1 .. l)) /\ Total(q) \in Nat
  BY TotalIs, TotalIsNat DEF l
<1> QED
  BY <1>4, <1>5, <1>6, <1>7 DEF more

LEMMA TotalTail ==
  ASSUME NEW q \in Seq(Nat), q # <<>>
  PROVE  Total(q) = Head(q) + Total(Tail(q))
<1> DEFINE r == Tail(q)
           l == Len(r)
<1>1. /\ r \in Seq(Nat) /\ Len(q) = l + 1 /\ Head(q) = q[1] /\ l \in Nat
      /\ \A x \in 1 .. l : r[x] = q[x + 1]
      /\ \A x \in 1 .. Len(q) : q[x] \in Nat
  OBVIOUS
<1> HIDE DEF r, l
<1>2. \A x \in 1 .. l + 1 : q[x] \in Nat
  BY <1>1
<1>3. IsFiniteSet(1 .. l + 1) /\ 1 \in 1 .. l + 1 /\ (1 .. l + 1) \ {1} = 2 .. l + 1
  <2>1. l + 1 \in Nat /\ 1 \in 1 .. l + 1 /\ (1 .. l + 1) \ {1} = 2 .. l + 1
    BY <1>1
  <2> QED
    BY <2>1, UpToFinite
<1>4. Cardinality(Heap(q, 1 .. l + 1)) = q[1] + Cardinality(Heap(q, 2 .. l + 1))
  <2>1. Cardinality(Heap(q, 1 .. l + 1)) = q[1] + Cardinality(Heap(q, (1 .. l + 1) \ {1}))
    <3> DEFINE S == 1 .. l + 1
    <3>1. IsFiniteSet(S) /\ 1 \in S /\ \A x \in S : q[x] \in Nat
      BY <1>2, <1>3
    <3> HIDE DEF S
    <3>2. Cardinality(Heap(q, S)) = q[1] + Cardinality(Heap(q, S \ {1}))
      BY <3>1, HeapSize
    <3> QED
      BY <3>2 DEF S
  <2> QED
    BY <1>3, <2>1
<1>5. Cardinality(Heap(q, 2 .. l + 1)) = Cardinality(Heap(r, 1 .. l))
  <2> DEFINE A == Heap(r, 1 .. l)
             B == Heap(q, 2 .. l + 1)
             f == [p \in A |-> <<p[1] + 1, p[2]>>]
  <2>0. \A p : p \in A <=> \E x \in 1 .. l : \E k \in 1 .. r[x] : p = <<x, k>>
    BY DEF Heap, Tokens
  <2>1. \A p : p \in A <=> \E x \in 1 .. l : \E k \in 1 .. q[x + 1] : p = <<x, k>>
    <3> HIDE DEF A
    <3> QED
      BY <1>1, <2>0
  <2>2. \A p : p \in B <=> \E x \in 2 .. l + 1 : \E k \in 1 .. q[x] : p = <<x, k>>
    BY DEF Heap, Tokens
  <2> HIDE DEF A, B
  <2>3. ASSUME NEW p \in A PROVE f[p] \in B
    <3>1. PICK x \in 1 .. l : \E k \in 1 .. q[x + 1] : p = <<x, k>>
      BY <2>1
    <3>2. PICK k \in 1 .. q[x + 1] : p = <<x, k>>
      BY <3>1
    <3>3. x + 1 \in 2 .. l + 1 /\ f[p] = <<x + 1, k>>
      BY <1>1, <3>2
    <3> QED
      BY <2>2, <3>3
  <2>4. ASSUME NEW p \in A, NEW o \in A, f[p] = f[o] PROVE p = o
    <3>1. PICK x \in 1 .. l : \E k \in 1 .. q[x + 1] : p = <<x, k>>
      BY <2>1
    <3>2. PICK y \in 1 .. l : \E k \in 1 .. q[y + 1] : o = <<y, k>>
      BY <2>1
    <3> QED
      BY <1>1, <2>4, <3>1, <3>2
  <2>5. ASSUME NEW o \in B PROVE \E p \in A : f[p] = o
    <3>1. PICK y \in 2 .. l + 1 : \E k \in 1 .. q[y] : o = <<y, k>>
      BY <2>2
    <3>2. PICK k \in 1 .. q[y] : o = <<y, k>>
      BY <3>1
    <3>3. y - 1 \in 1 .. l /\ (y - 1) + 1 = y
      BY <1>1
    <3>4. <<y - 1, k>> \in A
      BY <2>1, <3>3
    <3> QED
      BY <3>2, <3>3, <3>4
  <2>6. f \in Bijection(A, B)
    <3> HIDE DEF f
    <3>1. f \in [A -> B]
      BY <2>3 DEF f
    <3> QED
      BY <2>4, <2>5, <3>1 DEF Bijection, Injection, Surjection, IsInjective
  <2>7. IsFiniteSet(A)
    <3>1. IsFiniteSet(1 .. l) /\ \A x \in 1 .. l : r[x] \in Nat
      <4>1. \A x \in 1 .. l : r[x] \in Nat
        BY <1>1 DEF l
      <4> QED
        BY <1>1, <4>1, UpToFinite
    <3> QED
      BY <3>1, HeapIsFinite DEF A
  <2> HIDE DEF f
  <2>8. Cardinality(B) = Cardinality(A)
    BY <2>6, <2>7, FS_Bijection DEF ExistsBijection
  <2> QED
    BY <2>8 DEF A, B
<1>6. Total(q) = Cardinality(Heap(q, 1 .. l + 1))
  BY <1>1, TotalIs
<1>7. Total(r) = Cardinality(Heap(r, 1 .. l))
  BY <1>1, TotalIs DEF l
<1> QED
  BY <1>1, <1>4, <1>5, <1>6, <1>7 DEF r

-----------------------------------------------------------------------------
(***************************************************************************)
(* Counting WAKE_UP events.                                                *)
(***************************************************************************)

WakeAt(events) == {i \in 1 .. Len(events) : events[i].wake}

LEMMA WakeupsIs ==
  ASSUME NEW events \in Seq(Event)
  PROVE  /\ WakeupsIn(events) = Cardinality(WakeAt(events))
         /\ IsFiniteSet(WakeAt(events))
         /\ WakeupsIn(events) \in Nat
<1>1. Len(events) \in Nat
  OBVIOUS
<1>2. IsFiniteSet(WakeAt(events))
  <2>1. IsFiniteSet(1 .. Len(events))
    BY <1>1, UpToFinite
  <2> QED
    BY <2>1, FS_Subset DEF WakeAt
<1>3. WakeupsIn(events) = Cardinality(WakeAt(events))
  BY DEF WakeupsIn, CountNumWakeupEvents, WakeAt
<1> QED
  BY <1>2, <1>3, FS_CardinalityType

LEMMA WakeupsNone == WakeupsIn(<<>>) = 0
<1>1. <<>> \in Seq(Event) /\ WakeAt(<<>>) = {}
  BY DEF WakeAt
<1> QED
  BY <1>1, WakeupsIs, FS_EmptySet

LEMMA WakeupsConcat ==
  ASSUME NEW a \in Seq(Event), NEW b \in Seq(Event)
  PROVE  WakeupsIn(a \o b) = WakeupsIn(a) + WakeupsIn(b)
<1> DEFINE whole == a \o b
           A == WakeAt(a)
           B == WakeAt(b)
           l == Len(a)
           C == {i + l : i \in B}
           f == [i \in B |-> i + l]
<1>1. /\ whole \in Seq(Event) /\ Len(whole) = Len(a) + Len(b)
      /\ \A i \in 1 .. Len(a) + Len(b) : whole[i] = IF i <= Len(a) THEN a[i] ELSE b[i - Len(a)]
  BY ConcatProperties
<1>2. l \in Nat /\ Len(b) \in Nat /\ l = Len(a)
  OBVIOUS
<1>3. B \subseteq 1 .. Len(b) /\ A \subseteq 1 .. l
  BY DEF WakeAt
<1> HIDE DEF whole, l
<1>4. WakeAt(whole) = A \cup C
  <2>1. ASSUME NEW i \in WakeAt(whole) PROVE i \in A \cup C
    <3>1. i \in 1 .. l + Len(b) /\ whole[i].wake
      BY <1>1, <1>2 DEF WakeAt
    <3>2. CASE i <= l
      BY <1>1, <1>2, <3>1, <3>2 DEF WakeAt
    <3>3. CASE ~(i <= l)
      <4>1. i - l \in 1 .. Len(b) /\ whole[i] = b[i - l] /\ (i - l) + l = i
        BY <1>1, <1>2, <3>1, <3>3
      <4>2. i - l \in B
        BY <3>1, <4>1 DEF WakeAt
      <4> QED
        BY <4>1, <4>2
    <3> QED
      BY <3>2, <3>3
  <2>2. ASSUME NEW i \in A PROVE i \in WakeAt(whole)
    <3>1. i \in 1 .. l /\ a[i].wake
      BY <1>2 DEF WakeAt
    <3> QED
      BY <1>1, <1>2, <3>1 DEF WakeAt
  <2>3. ASSUME NEW i \in B PROVE i + l \in WakeAt(whole)
    <3>1. i \in 1 .. Len(b) /\ b[i].wake
      BY DEF WakeAt
    <3>2. i + l \in 1 .. Len(a) + Len(b) /\ ~(i + l <= Len(a)) /\ (i + l) - Len(a) = i
      BY <1>2, <3>1
    <3>3. whole[i + l] = b[i]
      BY <1>1, <3>2
    <3> QED
      BY <1>1, <3>1, <3>2, <3>3 DEF WakeAt
  <2> HIDE DEF A, B
  <2> QED
    BY <2>1, <2>2, <2>3
<1>5. IsFiniteSet(A) /\ IsFiniteSet(B)
  BY WakeupsIs
<1> HIDE DEF A, B
<1>6. f \in Bijection(B, C)
  BY <1>2, <1>3 DEF Bijection, Injection, Surjection, IsInjective
<1>7. A \cap C = {}
  BY <1>2, <1>3
<1> HIDE DEF C, f
<1>8. IsFiniteSet(C) /\ Cardinality(C) = Cardinality(B)
  BY <1>5, <1>6, FS_Bijection DEF ExistsBijection
<1>9. Cardinality(A \cup C) = Cardinality(A) + Cardinality(C) - Cardinality(A \cap C)
  BY <1>5, <1>8, FS_Union
<1>10. Cardinality(A \cap C) = 0
  BY <1>7, FS_EmptySet
<1>11. /\ WakeupsIn(a) = Cardinality(A) /\ WakeupsIn(a) \in Nat
       /\ WakeupsIn(b) = Cardinality(B) /\ WakeupsIn(b) \in Nat
       /\ WakeupsIn(whole) = Cardinality(A \cup C)
  BY <1>1, <1>4, WakeupsIs DEF A, B
<1> QED
  BY <1>8, <1>9, <1>10, <1>11 DEF whole

LEMMA WakeupsSplit ==
  ASSUME NEW events \in Seq(Event), NEW n \in 0 .. Len(events)
  PROVE  /\ WakeupsIn(events)
              = WakeupsIn(SubSeq(events, 1, n)) + WakeupsIn(SubSeq(events, n + 1, Len(events)))
         /\ WakeupsIn(SubSeq(events, 1, n)) = CountNumWakeupEvents(events, n)
         /\ WakeupsIn(SubSeq(events, 1, n)) \in Nat
         /\ WakeupsIn(SubSeq(events, n + 1, Len(events))) \in Nat
<1> DEFINE first == SubSeq(events, 1, n)
           rest == SubSeq(events, n + 1, Len(events))
<1>1. first \in Seq(Event) /\ Len(first) = n /\ rest \in Seq(Event) /\ events = first \o rest
  BY Split
<1>2. 1 \in 1 .. Len(events) + 1 /\ n \in Nat
  OBVIOUS
<1>3. \A i \in 1 .. n : first[i] = events[i]
  BY <1>2, SubSeqProperties
<1> HIDE DEF first, rest
<1>4. WakeupsIn(events) = WakeupsIn(first) + WakeupsIn(rest)
  BY <1>1, WakeupsConcat
<1>5. WakeAt(first) = {i \in 1 .. n : events[i].wake}
  BY <1>1, <1>3 DEF WakeAt
<1> QED
  BY <1>1, <1>4, <1>5, WakeupsIs DEF first, rest, CountNumWakeupEvents

LEMMA WakeupsStamped ==
  ASSUME NEW flags \in Seq(BOOLEAN), nextStamp \in Nat
  PROVE  WakeupsIn(Stamped(flags)) = NumWakeups(flags)
<1>1. Len(Stamped(flags)) = Len(flags) /\ Stamped(flags) \in Seq(Event)
  BY StampedIsSeq
<1>2. \A i \in 1 .. Len(flags) : Stamped(flags)[i].wake = flags[i]
  BY DEF Stamped
<1>3. WakeAt(Stamped(flags)) = {i \in 1 .. Len(flags) : flags[i]}
  BY <1>1, <1>2 DEF WakeAt
<1> QED
  BY <1>1, <1>3, WakeupsIs DEF NumWakeups

-----------------------------------------------------------------------------
(***************************************************************************)
(* What is pending, and what is in transit.                                *)
(***************************************************************************)

USE WakelockAssumption, EventQueueAssumption, HalProxyAssumption

ListsOf(batches) == [i \in DOMAIN batches |-> batches[i].events]

\* The events of some batches, in order.
EventsIn(batches) == FlattenSeq(ListsOf(batches))

LEMMA ListsAreSeqs ==
  ASSUME NEW batches \in Seq(Batch)
  PROVE  ListsOf(batches) \in Seq(Seq(Event)) /\ Len(ListsOf(batches)) = Len(batches)
<1>1. \A i \in 1 .. Len(batches) : batches[i].events \in Seq(Event)
  <2>1. \A i \in 1 .. Len(batches) : batches[i] \in Batch
    OBVIOUS
  <2> QED
    BY <2>1 DEF Batch
<1>2. ListsOf(batches) = [i \in 1 .. Len(batches) |-> batches[i].events]
  BY DEF ListsOf
<1> QED
  BY <1>1, <1>2

LEMMA EventsInIsSeq ==
  ASSUME NEW batches \in Seq(Batch)
  PROVE  EventsIn(batches) \in Seq(Event) /\ Len(EventsIn(batches)) \in Nat
<1>1. EventsIn(batches) \in Seq(Event)
  BY ListsAreSeqs, FlattenIsSeq DEF EventsIn
<1> QED
  BY <1>1

LEMMA EventsInNone == EventsIn(<<>>) = <<>>
<1>1. ListsOf(<<>>) = <<>>
  BY DEF ListsOf
<1> QED
  BY <1>1, FlattenEmpty DEF EventsIn

LEMMA EventsInAppend ==
  ASSUME NEW batches \in Seq(Batch), NEW b \in Batch
  PROVE  EventsIn(Append(batches, b)) = EventsIn(batches) \o b.events
<1>1. ListsOf(batches) \in Seq(Seq(Event)) /\ b.events \in Seq(Event)
  BY ListsAreSeqs DEF Batch
<1>2. ListsOf(Append(batches, b)) = Append(ListsOf(batches), b.events)
  BY DEF ListsOf
<1> QED
  BY <1>1, <1>2, FlattenAppend DEF EventsIn

LEMMA EventsInFront ==
  ASSUME NEW batches \in Seq(Batch), batches # <<>>
  PROVE  /\ EventsIn(batches) = Head(batches).events \o EventsIn(Tail(batches))
         /\ EventsIn(Tail(batches)) = FlattenSeq(Tail(ListsOf(batches)))
<1>1. ListsOf(batches) \in Seq(Seq(Event)) /\ ListsOf(batches) # <<>>
  BY ListsAreSeqs
<1>2. Head(ListsOf(batches)) = Head(batches).events
  BY DEF ListsOf
<1>3. Tail(ListsOf(batches)) = ListsOf(Tail(batches))
  BY DEF ListsOf
<1> QED
  BY <1>1, <1>2, <1>3, FlattenTail DEF EventsIn

\* The front batch replaced by what is left of it.
LEMMA EventsInExcept ==
  ASSUME NEW batches \in Seq(Batch), batches # <<>>, NEW b \in Batch
  PROVE  EventsIn([batches EXCEPT ![1] = b]) = b.events \o EventsIn(Tail(batches))
<1> DEFINE other == [batches EXCEPT ![1] = b]
<1>1. other \in Seq(Batch) /\ other # <<>> /\ Head(other) = b /\ Tail(other) = Tail(batches)
  OBVIOUS
<1> HIDE DEF other
<1>2. EventsIn(other) = b.events \o EventsIn(Tail(batches))
  BY <1>1, EventsInFront
<1> QED
  BY <1>2 DEF other

\* What is left of a batch without the writer's chunk.
AfterChunk(b) == SubSeq(b.events, Smaller(Len(b.events), QueueSize) + 1, Len(b.events))

LEMMA AfterChunkIsSeq ==
  ASSUME NEW b \in Batch
  PROVE  /\ AfterChunk(b) \in Seq(Event)
         /\ Len(AfterChunk(b)) = Len(b.events) - Smaller(Len(b.events), QueueSize)
         /\ Len(b.events) > QueueSize => AfterChunk(b) = SubSeq(b.events, QueueSize + 1, Len(b.events))
         /\ ~(Len(b.events) > QueueSize) => AfterChunk(b) = <<>>
<1>1. b.events \in Seq(Event) /\ Len(b.events) \in Nat
  BY DEF Batch
<1>2. CASE Len(b.events) > QueueSize
  <2>1. Smaller(Len(b.events), QueueSize) = QueueSize
    BY <1>1, <1>2 DEF Smaller
  <2> QED
    BY <1>1, <1>2, <2>1, SubSeqIsSeq DEF AfterChunk
<1>3. CASE ~(Len(b.events) > QueueSize)
  <2>1. Smaller(Len(b.events), QueueSize) = Len(b.events)
    BY <1>1, <1>3 DEF Smaller
  <2>2. AfterChunk(b) = <<>>
    BY <1>1, <2>1 DEF AfterChunk
  <2> QED
    BY <1>1, <1>3, <2>1, <2>2
<1> QED
  BY <1>2, <1>3

\* WriterFinish removes the chunk, whether more of the batch is to come or not.
LEMMA ChunkRemoved ==
  ASSUME TypeInv, WriterFinish
  PROVE  EventsIn(pending') = AfterChunk(Head(pending)) \o EventsIn(Tail(pending))
<1>1. pending \in Seq(Batch) /\ pending # <<>> /\ Head(pending) \in Batch
  BY ChunkInFront DEF WriterFinish, FrontBatch, TypeInv, TypeOK, EventQueueTypeOK, WriterHasBatch
<1> DEFINE front == Head(pending)
           rest == [front EXCEPT !.events = AfterChunk(front)]
<1>2. front \in Batch
  BY <1>1
<1>3. CASE Len(front.events) > QueueSize
  <2>1. rest \in Batch /\ rest.events = AfterChunk(front)
    BY <1>2, AfterChunkIsSeq DEF Batch
  <2>2. pending' = [pending EXCEPT ![1] = rest]
    <3>1. AfterChunk(front) = SubSeq(front.events, QueueSize + 1, Len(front.events))
      BY <1>2, <1>3, AfterChunkIsSeq
    <3>2. pending' = [pending EXCEPT ![1].events = SubSeq(@, QueueSize + 1, Len(@))]
      BY <1>3 DEF WriterFinish, FrontBatch
    <3>3. 1 \in DOMAIN pending /\ pending[1] = front
      BY <1>1
    <3> QED
      BY <3>1, <3>2, <3>3
  <2> HIDE DEF rest
  <2> QED
    BY <1>1, <2>1, <2>2, EventsInExcept
<1>4. CASE ~(Len(front.events) > QueueSize)
  <2>1. pending' = Tail(pending)
    BY <1>4 DEF WriterFinish, FrontBatch
  <2>2. AfterChunk(front) = <<>>
    BY <1>2, <1>4, AfterChunkIsSeq
  <2>3. EventsIn(Tail(pending)) \in Seq(Event)
    <3>1. Tail(pending) \in Seq(Batch)
      BY <1>1
    <3> QED
      BY <3>1, EventsInIsSeq
  <2> QED
    BY <2>1, <2>2, <2>3
<1> QED
  BY <1>3, <1>4

\* The pending events that are not in the FMQ yet: NotYetWritten.
NotWrittenOf(pc, batches) ==
  IF pc = "finish" /\ batches # <<>>
    THEN AfterChunk(Head(batches)) \o FlattenSeq(Tail(ListsOf(batches)))
    ELSE EventsIn(batches)

LEMMA NotYetWrittenIs ==
  /\ NotYetWritten = NotWrittenOf(writerPc, pending)
  /\ NotYetWritten' = NotWrittenOf(writerPc', pending')
BY DEF NotYetWritten, NotWrittenOf, AfterChunk, FrontBatch, Chunk, EventsIn, ListsOf

LEMMA NotWrittenIsSeq ==
  ASSUME NEW batches \in Seq(Batch), NEW pc
  PROVE  /\ NotWrittenOf(pc, batches) \in Seq(Event)
         /\ batches # <<>> =>
              NotWrittenOf("finish", batches) = AfterChunk(Head(batches)) \o EventsIn(Tail(batches))
<1>1. EventsIn(batches) \in Seq(Event)
  BY EventsInIsSeq
<1>2. CASE batches = <<>>
  BY <1>1, <1>2 DEF NotWrittenOf
<1>3. CASE batches # <<>>
  <2>1. Head(batches) \in Batch /\ Tail(batches) \in Seq(Batch)
    BY <1>3
  <2>2. AfterChunk(Head(batches)) \in Seq(Event) /\ EventsIn(Tail(batches)) \in Seq(Event)
    BY <2>1, AfterChunkIsSeq, EventsInIsSeq
  <2>3. AfterChunk(Head(batches)) \o EventsIn(Tail(batches)) \in Seq(Event)
    BY <2>2, ConcatProperties
  <2>4. NotWrittenOf("finish", batches) = AfterChunk(Head(batches)) \o EventsIn(Tail(batches))
    BY <1>3, EventsInFront DEF NotWrittenOf
  <2> QED
    BY <1>1, <2>3, <2>4 DEF NotWrittenOf
<1> QED
  BY <1>2, <1>3

LEMMA NotWrittenAppend ==
  ASSUME NEW batches \in Seq(Batch), NEW b \in Batch, NEW pc, pc = "finish" => batches # <<>>
  PROVE  NotWrittenOf(pc, Append(batches, b)) = NotWrittenOf(pc, batches) \o b.events
<1> DEFINE more == Append(batches, b)
<1>1. more \in Seq(Batch) /\ more # <<>>
  OBVIOUS
<1>2. CASE pc = "finish"
  <2>1. /\ Head(more) = Head(batches) /\ Tail(more) = Append(Tail(batches), b)
        /\ Head(batches) \in Batch /\ Tail(batches) \in Seq(Batch)
    BY <1>2
  <2> DEFINE chunked == AfterChunk(Head(batches))
             others == EventsIn(Tail(batches))
             added == b.events
  <2>2. chunked \in Seq(Event) /\ others \in Seq(Event) /\ added \in Seq(Event)
    BY <2>1, AfterChunkIsSeq, EventsInIsSeq DEF Batch
  <2> HIDE DEF more
  <2>3. NotWrittenOf(pc, more) = chunked \o EventsIn(Tail(more))
    BY <1>1, <1>2, <2>1, NotWrittenIsSeq
  <2>4. EventsIn(Tail(more)) = others \o added
    BY <2>1, EventsInAppend
  <2>5. NotWrittenOf(pc, batches) = chunked \o others
    BY <1>2, NotWrittenIsSeq
  <2> HIDE DEF chunked, others, added
  <2>6. (chunked \o others) \o added = chunked \o (others \o added)
    BY <2>2, ConcatOfThree
  <2> QED
    BY <2>3, <2>4, <2>5, <2>6 DEF more, added
<1>3. CASE pc # "finish"
  BY <1>3, EventsInAppend DEF NotWrittenOf
<1> QED
  BY <1>2, <1>3

-----------------------------------------------------------------------------
(***************************************************************************)
(* SizeAccounting is inductive.                                            *)
(***************************************************************************)

SizeInv == sizePending = Len(EventsIn(pending)) /\ sizePending <= MaxPending

LEMMA SizeKept ==
  ASSUME SizeInv, UNCHANGED <<pending, sizePending>> PROVE SizeInv'
BY DEF SizeInv

LEMMA SizeWriteOrQueue ==
  ASSUME TypeInv, SizeInv, NEW events \in Seq(Event), NEW wakeups \in Nat,
         WriteOrQueue(events, wakeups)
  PROVE  SizeInv'
<1> DEFINE written == DirectWrite(events)
           left == Len(events) - written
           rest == [events |-> SubSeq(events, written + 1, Len(events)), wakeups |-> wakeups]
<1>1. /\ pending \in Seq(Batch) /\ Available \in Nat
      /\ EventsIn(pending) \in Seq(Event) /\ Len(EventsIn(pending)) \in Nat
  BY EventsInIsSeq DEF TypeInv, TypeOK, EventQueueTypeOK, FmqBounded, Available
<1>2. written \in Nat /\ written <= Len(events)
  BY <1>1 DEF DirectWrite, Smaller
<1>3. CASE left > 0 /\ FitsPending(left)
  <2>1. pending' = Append(pending, rest) /\ sizePending' = sizePending + left
    BY <1>3 DEF WriteOrQueue
  <2>2. rest.events \in Seq(Event) /\ Len(rest.events) = left /\ rest \in Batch
    <3>1. /\ SubSeq(events, written + 1, Len(events)) \in Seq(Event)
          /\ Len(SubSeq(events, written + 1, Len(events))) = left
      BY <1>2, Split
    <3> QED
      BY <3>1 DEF Batch
  <2>3. sizePending + left <= MaxPending
    BY <1>3 DEF FitsPending
  <2> HIDE DEF rest, left
  <2>4. EventsIn(pending') = EventsIn(pending) \o rest.events
    BY <1>1, <2>1, <2>2, EventsInAppend
  <2>5. Len(EventsIn(pending')) = Len(EventsIn(pending)) + left
    BY <1>1, <2>2, <2>4, ConcatProperties
  <2> QED
    BY <2>1, <2>3, <2>5 DEF SizeInv
<1>4. CASE ~(left > 0 /\ FitsPending(left))
  BY <1>4, SizeKept DEF WriteOrQueue
<1> QED
  BY <1>3, <1>4

LEMMA SizeFinish == ASSUME TypeInv, SizeInv, WriterFinish PROVE SizeInv'
<1> DEFINE front == Head(pending)
<1>1. pending \in Seq(Batch) /\ pending # <<>> /\ front \in Batch /\ Tail(pending) \in Seq(Batch)
  BY ChunkInFront DEF WriterFinish, FrontBatch, TypeInv, TypeOK, EventQueueTypeOK, WriterHasBatch
<1>2. Chunk = Smaller(Len(front.events), QueueSize)
  BY DEF Chunk, FrontBatch
<1>3. front.events \in Seq(Event) /\ Len(front.events) \in Nat
  BY <1>1 DEF Batch
<1>4. Chunk \in Nat
  BY ChunkInFront DEF WriterFinish
<1>5. AfterChunk(front) \in Seq(Event) /\ Len(AfterChunk(front)) = Len(front.events) - Chunk
  BY <1>1, <1>2, AfterChunkIsSeq
<1>6. EventsIn(Tail(pending)) \in Seq(Event) /\ Len(EventsIn(Tail(pending))) \in Nat
  BY <1>1, EventsInIsSeq
<1> HIDE DEF front
<1>7. Len(EventsIn(pending)) = Len(front.events) + Len(EventsIn(Tail(pending)))
  <2>1. EventsIn(pending) = front.events \o EventsIn(Tail(pending))
    BY <1>1, EventsInFront DEF front
  <2> QED
    BY <1>3, <1>6, <2>1, ConcatProperties
<1>8. Len(EventsIn(pending')) = Len(AfterChunk(front)) + Len(EventsIn(Tail(pending)))
  <2>1. EventsIn(pending') = AfterChunk(front) \o EventsIn(Tail(pending))
    BY ChunkRemoved DEF front
  <2> QED
    BY <1>5, <1>6, <2>1, ConcatProperties
<1>9. sizePending' = sizePending - Chunk
  BY DEF WriterFinish
<1> QED
  BY <1>3, <1>4, <1>5, <1>6, <1>7, <1>8, <1>9 DEF SizeInv

LEMMA SizeNext == TypeInv /\ SizeInv /\ [Next]_vars => SizeInv'
<1> SUFFICES ASSUME TypeInv, SizeInv, [Next]_vars PROVE SizeInv'
  OBVIOUS
<1> USE DEF eventVars
<1>1. ASSUME NEW s \in SubHals, PosterStep(s) PROVE SizeInv'
  <2>1. CASE WriteEvents(s)
    <3>1. batch[s] \in Seq(BOOLEAN) /\ nextStamp \in Nat
      BY DEF TypeInv, TypeOK
    <3>2. NumWakeups(batch[s]) \in Nat /\ Stamped(batch[s]) \in Seq(Event)
      BY <3>1, NumWakeupsIsNat, StampedIsSeq
    <3> QED
      BY <2>1, <3>2, SizeWriteOrQueue DEF WriteEvents
  <2>2. CASE \/ CreateScoped(s) \/ CreateScopedLocked(s) \/ PostEvents(s) \/ LockWriteMutex(s)
             \/ CountBatch(s) \/ CountBatchLocked(s) \/ ReleaseScoped(s)
    BY <2>2, SizeKept DEF CreateScoped, CreateScopedLocked, PostEvents, LockWriteMutex, CountBatch,
                          CountBatchLocked, ReleaseScoped
  <2> QED
    BY <1>1, <2>1, <2>2 DEF PosterStep
<1>2. CASE WriterStep
  <2>1. CASE WriterFinish
    BY <2>1, SizeFinish
  <2>2. CASE WriterCheck \/ WriterBlock \/ WriterWriting \/ WriterDropping
    BY <2>2, SizeKept DEF WriterCheck, WriterBlock, WriterWriting, WriterWrite, WriterDropping, WriterDrop
  <2> QED
    BY <1>2, <2>1, <2>2 DEF WriterStep, WriterLocking
<1>3. CASE WakelockStep \/ SpuriousWakeup \/ Clock
  BY <1>3, SizeKept DEF WakelockStep, SpuriousWakeup, WriterSpurious, Clock
<1>4. CASE InitializeStep
  <2>1. CASE InitializeQueues
    BY <2>1, EventsInNone DEF InitializeQueues, SizeInv
  <2>2. ASSUME NEW s \in SubHals, DisableSensor(s) PROVE SizeInv'
    BY <2>2, SizeKept DEF DisableSensor
  <2>3. CASE \/ StopDrain \/ StopPoke \/ StopNotifyWakelock \/ StopNotifyWriter \/ StopJoin
             \/ InitializeReset \/ DisableAllSensorsDone \/ StartThreads \/ SpawnThreads
    BY <2>3, SizeKept DEF StopDrain, StopPoke, StopNotifyWakelock, StopNotifyWriter, StopJoin,
       InitializeReset, DisableAllSensorsDone, StartThreads, SpawnThreads
  <2> QED
    BY <1>4, <2>1, <2>2, <2>3 DEF InitializeStep
<1>5. CASE Framework
  BY <1>5, SizeKept DEF Framework, InitializeBegin, Activate, PostBegin, FrameworkRead, FrameworkAck
<1>6. CASE UNCHANGED vars
  BY <1>6, SizeKept DEF vars
<1> QED
  BY <1>1, <1>2, <1>3, <1>4, <1>5, <1>6 DEF Next

LEMMA SizeInvariant == Spec => []SizeInv
<1>1. Init => SizeInv
  BY EventsInNone DEF Init, EventQueueInit, SizeInv
<1>2. TypeInv /\ SizeInv /\ [Next]_vars => SizeInv'
  BY SizeNext
<1> QED
  BY <1>1, <1>2, TypeInvariant, PTL DEF Spec

(***************************************************************************)
(* mSizePendingWriteEventsQueue is the number of pending events at every   *)
(* moment, so that no subtraction makes the unsigned counter wrap, and it  *)
(* never exceeds its limit.                                                *)
(***************************************************************************)
THEOREM SizeIsAccounted == Spec => []SizeAccounting
<1>1. SizeInv => SizeAccounting
  BY DEF SizeInv, SizeAccounting, EventsIn, ListsOf
<1> QED
  BY <1>1, SizeInvariant, PTL

-----------------------------------------------------------------------------
(***************************************************************************)
(* What the steps do to the events in transit.                             *)
(***************************************************************************)

LEMMA ConcatEvents == \A a, b, c \in Seq(Event) : (a \o b) \o c = a \o (b \o c)
BY ConcatOfThree

LEMMA InTransitIs ==
  /\ InTransit = eventQueue \o NotWrittenOf(writerPc, pending)
  /\ InTransit' = eventQueue' \o NotWrittenOf(writerPc', pending')
BY NotYetWrittenIs DEF InTransit

LEMMA QueueTypes ==
  ASSUME TypeInv
  PROVE  /\ eventQueue \in Seq(Event) /\ pending \in Seq(Batch)
         /\ NotWrittenOf(writerPc, pending) \in Seq(Event)
         /\ InTransit \in Seq(Event)
         /\ Len(InTransit) = Len(eventQueue) + Len(NotWrittenOf(writerPc, pending))
<1>1. eventQueue \in Seq(Event) /\ pending \in Seq(Batch)
  BY DEF TypeInv, TypeOK, EventQueueTypeOK
<1>2. NotWrittenOf(writerPc, pending) \in Seq(Event)
  BY <1>1, NotWrittenIsSeq
<1> QED
  BY <1>1, <1>2, InTransitIs, ConcatProperties

LEMMA TransitKept ==
  ASSUME UNCHANGED <<eventQueue, pending>>, writerPc' = "finish" <=> writerPc = "finish"
  PROVE  InTransit' = InTransit
BY InTransitIs DEF NotWrittenOf

\* Posting appends the beginning of the batch: all of it, unless the rest does
\* not fit into the pending queue.
LEMMA TransitPosted ==
  ASSUME TypeInv, NEW events \in Seq(Event), NEW wakeups \in Nat, WriteOrQueue(events, wakeups)
  PROVE  \E k \in 0 .. Len(events) :
           /\ InTransit' = InTransit \o SubSeq(events, 1, k)
           /\ k < Len(events) => sizePending + Len(events) > MaxPending
<1> DEFINE written == DirectWrite(events)
           left == Len(events) - written
           front == SubSeq(events, 1, written)
           back == SubSeq(events, written + 1, Len(events))
           rest == [events |-> back, wakeups |-> wakeups]
           waiting == NotWrittenOf(writerPc, pending)
<1>1. /\ pending \in Seq(Batch) /\ Available \in Nat /\ eventQueue \in Seq(Event)
      /\ waiting \in Seq(Event) /\ sizePending \in Int
      /\ writerPc = "finish" => pending # <<>>
  BY QueueTypes DEF TypeInv, TypeOK, EventQueueTypeOK, FmqBounded, Available, WriterHasBatch
<1>2. written \in 0 .. Len(events) /\ (pending # <<>> => written = 0)
  BY <1>1 DEF DirectWrite, Smaller
<1>3. /\ front \in Seq(Event) /\ back \in Seq(Event) /\ events = front \o back
      /\ Len(back) = left
      /\ pending # <<>> => front = <<>>
  <2>1. /\ front \in Seq(Event) /\ Len(front) = written
        /\ back \in Seq(Event) /\ Len(back) = left /\ events = front \o back
    BY <1>2, Split
  <2>2. written = 0 => front = <<>>
    BY <2>1
  <2> QED
    BY <1>2, <2>1, <2>2
<1>4. eventQueue' = eventQueue \o front
  BY DEF WriteOrQueue
<1>5. (eventQueue \o front) \o waiting = (eventQueue \o waiting) \o front
  <2>1. CASE pending = <<>>
    <3>1. waiting = <<>>
      BY <2>1, EventsInNone DEF NotWrittenOf
    <3>2. eventQueue \in Seq(Event) /\ eventQueue \o front \in Seq(Event)
      BY <1>1, <1>3, ConcatProperties
    <3> HIDE DEF waiting, front
    <3>3. (eventQueue \o front) \o <<>> = eventQueue \o front /\ eventQueue \o <<>> = eventQueue
      BY <3>2, ConcatEmptySeq
    <3> QED
      BY <3>1, <3>3, Zenon
  <2>2. CASE pending # <<>>
    <3>1. front = <<>> /\ eventQueue \in Seq(Event) /\ eventQueue \o waiting \in Seq(Event)
      BY <1>1, <1>3, <2>2, ConcatProperties
    <3> HIDE DEF waiting, front
    <3>2. (eventQueue \o waiting) \o <<>> = eventQueue \o waiting /\ eventQueue \o <<>> = eventQueue
      BY <3>1, ConcatEmptySeq
    <3> QED
      BY <3>1, <3>2, Zenon
  <2> QED
    BY <2>1, <2>2
<1>6. InTransit = eventQueue \o waiting /\ InTransit \in Seq(Event)
  BY InTransitIs, QueueTypes
<1>7. CASE left > 0 /\ FitsPending(left)
  <2>1. /\ pending' = Append(pending, rest)
        /\ writerPc' = "finish" <=> writerPc = "finish"
    BY <1>7 DEF WriteOrQueue, Notified
  <2>2. rest \in Batch /\ rest.events = back
    BY <1>3 DEF Batch
  <2>3. NotWrittenOf(writerPc', pending') = NotWrittenOf(writerPc, pending')
    BY <2>1 DEF NotWrittenOf
  <2> HIDE DEF rest, back, front, waiting
  <2>4. NotWrittenOf(writerPc, pending') = waiting \o back
    BY <1>1, <2>1, <2>2, NotWrittenAppend DEF waiting
  <2>5. InTransit' = (eventQueue \o front) \o (waiting \o back)
    BY <1>4, <2>3, <2>4, InTransitIs
  <2>6. (eventQueue \o front) \o (waiting \o back) = ((eventQueue \o front) \o waiting) \o back
    <3>1. eventQueue \o front \in Seq(Event)
      BY <1>1, <1>3, ConcatProperties
    <3>2. waiting \in Seq(Event) /\ back \in Seq(Event)
      BY <1>1, <1>3
    <3>3. ((eventQueue \o front) \o waiting) \o back = (eventQueue \o front) \o (waiting \o back)
      BY <3>1, <3>2, ConcatEvents, Zenon
    <3> QED
      BY <3>3, Zenon
  <2>7. (InTransit \o front) \o back = InTransit \o (front \o back)
    BY <1>3, <1>6, ConcatEvents, Zenon
  <2>8. InTransit' = InTransit \o events
    BY <1>3, <1>5, <1>6, <2>5, <2>6, <2>7
  <2>9. SubSeq(events, 1, Len(events)) = events /\ Len(events) \in 0 .. Len(events)
    BY SubSeqFull
  <2> QED
    BY <2>8, <2>9
<1>8. CASE ~(left > 0 /\ FitsPending(left))
  <2>1. pending' = pending /\ writerPc' = writerPc
    BY <1>8 DEF WriteOrQueue
  <2>2. InTransit' = InTransit \o front
    BY <1>4, <1>5, <1>6, <2>1, InTransitIs
  <2>3. written < Len(events) => sizePending + Len(events) > MaxPending
    BY <1>1, <1>2, <1>8 DEF FitsPending
  <2> QED
    BY <1>2, <2>2, <2>3
<1> QED
  BY <1>7, <1>8

\* An event that the writer moves is in transit before, meanwhile and after.
LEMMA TransitMoved ==
  ASSUME TypeInv, WriterWrite \/ WriterFinish
  PROVE  InTransit' = InTransit
<1> DEFINE front == Head(pending)
           others == EventsIn(Tail(pending))
           chunk == SubSeq(front.events, 1, Chunk)
           rest == AfterChunk(front)
<1>1. /\ pending \in Seq(Batch) /\ pending # <<>>
      /\ front \in Batch /\ Tail(pending) \in Seq(Batch)
      /\ Chunk \in 0 .. Len(front.events)
      /\ front.events \in Seq(Event)
      /\ eventQueue \in Seq(Event)
  <2>1. pending \in Seq(Batch) /\ pending # <<>> /\ eventQueue \in Seq(Event)
    BY QueueTypes DEF WriterWrite, WriterFinish, TypeInv, WriterHasBatch
  <2>2. /\ front \in Batch /\ Chunk \in Nat /\ Chunk <= Len(front.events)
    BY ChunkInFront DEF WriterWrite, WriterFinish, FrontBatch
  <2>3. Tail(pending) \in Seq(Batch)
    BY <2>1
  <2>4. front.events \in Seq(Event) /\ Len(front.events) \in Nat
    BY <2>2 DEF Batch
  <2> QED
    BY <2>1, <2>2, <2>3, <2>4
<1>2. others \in Seq(Event) /\ rest \in Seq(Event)
  BY <1>1, EventsInIsSeq, AfterChunkIsSeq
<1>3. chunk \in Seq(Event) /\ front.events = chunk \o rest
  BY <1>1, Split DEF AfterChunk, Chunk, FrontBatch
<1>4. NotWrittenOf("finish", pending) = rest \o others
  BY <1>1, NotWrittenIsSeq
<1>5. EventsIn(pending) = front.events \o others
  BY <1>1, EventsInFront
<1>6. CASE WriterWrite
  <2>1. eventQueue' = eventQueue \o chunk /\ pending' = pending /\ writerPc' = "finish"
    BY <1>6 DEF WriterWrite, FrontBatch
  <2>2. NotWrittenOf(writerPc, pending) = front.events \o others
    BY <1>5, <1>6 DEF WriterWrite, NotWrittenOf
  <2> HIDE DEF front, others, chunk, rest
  <2>3. InTransit' = (eventQueue \o chunk) \o (rest \o others)
    BY <1>4, <2>1, InTransitIs
  <2>4. rest \o others \in Seq(Event)
    BY <1>2, ConcatProperties
  <2>5. (eventQueue \o chunk) \o (rest \o others) = eventQueue \o (chunk \o (rest \o others))
    BY <1>1, <1>3, <2>4, ConcatEvents, Zenon
  <2>6. (chunk \o rest) \o others = chunk \o (rest \o others)
    BY <1>2, <1>3, ConcatEvents
  <2>7. InTransit = eventQueue \o ((chunk \o rest) \o others)
    BY <1>3, <2>2, InTransitIs
  <2> QED
    BY <2>3, <2>5, <2>6, <2>7
<1>7. CASE WriterFinish
  <2>1. EventsIn(pending') = rest \o others
    BY <1>7, ChunkRemoved
  <2>2. eventQueue' = eventQueue /\ writerPc = "finish" /\ writerPc' # "finish"
    BY <1>7 DEF WriterFinish, LoopHead
  <2>3. NotWrittenOf(writerPc', pending') = rest \o others
    BY <2>1, <2>2 DEF NotWrittenOf
  <2> QED
    BY <1>4, <2>2, <2>3, InTransitIs
<1> QED
  BY <1>6, <1>7

\* A chunk that is given up starts behind the full FMQ.
LEMMA TransitDropped ==
  ASSUME TypeInv, WriterDrop
  PROVE  /\ InTransit' = SubSeq(InTransit, 1, Len(eventQueue))
                           \o SubSeq(InTransit, Len(eventQueue) + Chunk + 1, Len(InTransit))
         /\ Len(eventQueue) + Chunk <= Len(InTransit)
         /\ InTransit = eventQueue \o (FrontBatch.events \o EventsIn(Tail(pending)))
         /\ InTransit' = eventQueue \o (AfterChunk(FrontBatch) \o EventsIn(Tail(pending)))
<1> DEFINE front == FrontBatch
           others == EventsIn(Tail(pending))
           events == front.events
           rest == AfterChunk(front)
<1>1. /\ pending \in Seq(Batch) /\ pending # <<>>
      /\ front \in Batch /\ Tail(pending) \in Seq(Batch)
      /\ Chunk \in 0 .. Len(events)
      /\ events \in Seq(Event)
      /\ eventQueue \in Seq(Event)
      /\ Len(eventQueue) \in Nat
  BY ChunkInFront, QueueTypes DEF WriterDrop, TypeInv, WriterHasBatch, Batch
<1>2. others \in Seq(Event) /\ Len(others) \in Nat
  BY <1>1, EventsInIsSeq
<1>3. rest = SubSeq(events, Chunk + 1, Len(events))
  BY DEF AfterChunk, Chunk
<1>4. InTransit' = eventQueue \o (rest \o others)
  <2>1. NotWrittenOf("finish", pending) = rest \o others
    BY <1>1, NotWrittenIsSeq DEF FrontBatch
  <2> QED
    BY <2>1, InTransitIs DEF WriterDrop
<1>5. InTransit = eventQueue \o (events \o others)
  <2>1. EventsIn(pending) = events \o others
    BY <1>1, EventsInFront DEF FrontBatch
  <2> QED
    BY <2>1, InTransitIs DEF WriterDrop, NotWrittenOf
<1> HIDE DEF others, rest, events
<1>6. Len(InTransit) = Len(eventQueue) + Len(events) + Len(others)
  <2>1. events \o others \in Seq(Event) /\ Len(events \o others) = Len(events) + Len(others)
    BY <1>1, <1>2, ConcatProperties
  <2>2. Len(eventQueue \o (events \o others)) = Len(eventQueue) + Len(events \o others)
    BY <1>1, <2>1, ConcatProperties
  <2> QED
    BY <1>1, <1>2, <1>5, <2>1, <2>2
<1>7. eventQueue \o (rest \o others) = SubSeq(InTransit, 1, Len(eventQueue))
        \o SubSeq(InTransit, Len(eventQueue) + Chunk + 1, Len(InTransit))
  <2> DEFINE chunk == SubSeq(events, 1, Chunk)
             kept == rest \o others
             gone == eventQueue \o chunk
  <2>1. chunk \in Seq(Event) /\ Len(chunk) = Chunk /\ rest \in Seq(Event) /\ events = chunk \o rest
    <3>1. chunk \in Seq(Event) /\ events = chunk \o rest
      BY <1>1, Split DEF AfterChunk, Chunk, rest, events
    <3>2. rest \in Seq(Event)
      BY <1>1, Split DEF AfterChunk, Chunk, rest, events
    <3>3. Len(chunk) = Chunk
      BY <1>1, Split
    <3> QED
      BY <3>1, <3>2, <3>3
  <2> HIDE DEF chunk
  <2>2. kept \in Seq(Event) /\ gone \in Seq(Event) /\ Len(gone) = Len(eventQueue) + Chunk
    BY <1>1, <1>2, <2>1, ConcatProperties
  <2>3. events \o others \in Seq(Event)
    BY <1>1, <1>2, ConcatProperties
  <2>4. SubSeq(InTransit, 1, Len(eventQueue)) = eventQueue
    BY <1>1, <1>5, <2>3, Parts
  <2>5. (chunk \o rest) \o others = chunk \o kept
    BY <1>2, <2>1, ConcatEvents, Zenon
  <2> HIDE DEF kept
  <2>6. (eventQueue \o chunk) \o kept = eventQueue \o (chunk \o kept)
    <3>1. eventQueue \in Seq(Event) /\ chunk \in Seq(Event) /\ kept \in Seq(Event)
      BY <1>1, <2>1, <2>2
    <3> QED
      BY <3>1, ConcatEvents, Zenon
  <2>7. InTransit = gone \o kept
    BY <1>5, <2>1, <2>5, <2>6
  <2> HIDE DEF gone
  <2>8. SubSeq(InTransit, Len(gone) + 1, Len(InTransit)) = kept
    BY <2>2, <2>7, Parts
  <2> QED
    BY <2>2, <2>4, <2>8 DEF kept
<1>8. Len(eventQueue) + Chunk <= Len(InTransit)
  BY <1>1, <1>2, <1>6
<1> QED
  BY <1>4, <1>5, <1>7, <1>8 DEF others, rest, events

\* Taking n events out of the FMQ.
LEMMA TransitTaken ==
  ASSUME TypeInv, NEW n \in 0 .. Len(eventQueue),
         eventQueue' = SubSeq(eventQueue, n + 1, Len(eventQueue)), UNCHANGED <<pending, writerPc>>
  PROVE  /\ InTransit' = SubSeq(InTransit, n + 1, Len(InTransit))
         /\ n <= Len(InTransit)
         /\ n > 0 => InTransit[n] = eventQueue[n]
<1> DEFINE waiting == NotWrittenOf(writerPc, pending)
<1>1. eventQueue \in Seq(Event) /\ waiting \in Seq(Event)
  BY QueueTypes
<1>2. InTransit = eventQueue \o waiting /\ InTransit' = eventQueue' \o waiting
  BY InTransitIs
<1> HIDE DEF waiting
<1>3. SubSeq(eventQueue \o waiting, n + 1, Len(eventQueue \o waiting))
        = SubSeq(eventQueue, n + 1, Len(eventQueue)) \o waiting
  BY <1>1, CutFront
<1>4. /\ Len(InTransit) = Len(eventQueue) + Len(waiting)
      /\ \A i \in 1 .. Len(eventQueue) + Len(waiting) :
           InTransit[i] = IF i <= Len(eventQueue) THEN eventQueue[i] ELSE waiting[i - Len(eventQueue)]
  BY <1>1, <1>2, ConcatProperties
<1>5. Len(eventQueue) \in Nat /\ Len(waiting) \in Nat
  BY <1>1
<1> QED
  <2>1. InTransit' = SubSeq(InTransit, n + 1, Len(InTransit))
    BY <1>2, <1>3
  <2>2. n <= Len(InTransit) /\ (n > 0 => InTransit[n] = eventQueue[n])
    BY <1>4, <1>5
  <2> QED
    BY <2>1, <2>2

-----------------------------------------------------------------------------
(***************************************************************************)
(* The refinement of LossyFifo.  What it needs besides the above: where the*)
(* batches come from, and that the threads are down while initialize runs. *)
(***************************************************************************)

KnownBatches == \A s \in SubHals : batch[s] \in Batches \cup {<<>>}

DownInv == binderPc \notin {"idle", "spawn"} => ~threadsRun

FifoInv == KnownBatches /\ DownInv

LEMMA FifoInvInit == Init => FifoInv
BY DEF Init, FifoInv, KnownBatches, DownInv

LEMMA FifoInvNext == TypeInv /\ FifoInv /\ [Next]_vars => FifoInv'
<1> SUFFICES ASSUME TypeInv, FifoInv, [Next]_vars PROVE FifoInv'
  OBVIOUS
<1> USE DEF FifoInv, KnownBatches, DownInv, Binder, posterRest, proxyRest, binderRest, posterVars,
            binderVars, wakelockVars
<1>0. batch \in [SubHals -> Seq(BOOLEAN)]
  BY DEF TypeInv, TypeOK
<1>1. ASSUME NEW s \in SubHals, PosterStep(s) PROVE FifoInv'
  <2>1. CASE ReleaseScoped(s)
    BY <1>0, <2>1 DEF ReleaseScoped
  <2>2. CASE \/ CreateScoped(s) \/ CreateScopedLocked(s) \/ PostEvents(s) \/ LockWriteMutex(s)
             \/ CountBatch(s) \/ CountBatchLocked(s) \/ WriteEvents(s)
    BY <2>2 DEF CreateScoped, CreateScopedLocked, PostEvents, LockWriteMutex, CountBatch,
                CountBatchLocked, WriteEvents
  <2> QED
    BY <1>1, <2>1, <2>2 DEF PosterStep
<1>2. CASE WriterStep
  <2>1. UNCHANGED <<batch, binderPc>>
    BY <1>2 DEF WriterStep
  <2>2. threadsRun' = threadsRun
    BY <1>2 DEF WriterStep, WriterLocking, WriterCheck, WriterFinish, WriterBlock, WriterWriting,
                WriterWrite, WriterDropping, WriterDrop
  <2> QED
    BY <2>1, <2>2
<1>3. CASE WakelockStep
  <2>1. UNCHANGED <<batch, binderPc>>
    BY <1>3 DEF WakelockStep
  <2>2. threadsRun' = threadsRun
    BY <1>3 DEF WakelockStep, WakelockThreadStep, WakelockThreadExit, WakelockThreadIdle,
                WakelockThreadBlock, WakelockThreadTimeout, WakelockThreadWait, WakelockThreadRead,
                WakelockThreadReadTimeout
  <2> QED
    BY <2>1, <2>2
<1>4. CASE SpuriousWakeup \/ Clock
  BY <1>4 DEF SpuriousWakeup, WriterSpurious, WakelockThreadSpurious, Clock, Tick
<1>5. CASE InitializeStep
  <2>1. ASSUME NEW s \in SubHals, DisableSensor(s) PROVE FifoInv'
    BY <2>1 DEF DisableSensor
  <2>2. CASE \/ StopDrain \/ StopPoke \/ StopNotifyWakelock \/ StopNotifyWriter \/ StopJoin
    BY <2>2 DEF StopDrain, StopPoke, StopNotifyWakelock, StopNotifyWriter, StopJoin
  <2>3. CASE InitializeReset
    BY <2>3 DEF InitializeReset
  <2>4. CASE DisableAllSensorsDone
    BY <2>4 DEF DisableAllSensorsDone
  <2>5. CASE InitializeQueues
    BY <2>5 DEF InitializeQueues
  <2>6. CASE StartThreads
    BY <2>6 DEF StartThreads
  <2>7. CASE SpawnThreads
    BY <2>7 DEF SpawnThreads
  <2> QED
    BY <1>5, <2>1, <2>2, <2>3, <2>4, <2>5, <2>6, <2>7 DEF InitializeStep
<1>6. CASE Framework
  <2>1. CASE InitializeBegin
    BY <2>1 DEF InitializeBegin
  <2>2. ASSUME NEW s \in SubHals, Activate(s) PROVE FifoInv'
    BY <2>2 DEF Activate
  <2>3. ASSUME NEW s \in SubHals, PostBegin(s) PROVE FifoInv'
    BY <1>0, <2>3 DEF PostBegin
  <2>4. CASE FrameworkRead \/ FrameworkAck
    BY <2>4 DEF FrameworkRead, FrameworkAck
  <2> QED
    BY <1>6, <2>1, <2>2, <2>3, <2>4 DEF Framework
<1>7. CASE UNCHANGED vars
  BY <1>7 DEF vars
<1> QED
  BY <1>1, <1>2, <1>3, <1>4, <1>5, <1>6, <1>7 DEF Next

\* A finite set of natural numbers has a greatest one.
LEMMA GreatestNumber ==
  ASSUME NEW S \in SUBSET Nat, IsFiniteSet(S), S # {}
  PROVE  \E m \in S : \A k \in S : m >= k
<1> DEFINE Counterexample(U) == U # {} /\ ~\E m \in U : \A k \in U : m >= k
           T == {Cardinality(U) : U \in {V \in SUBSET S : Counterexample(V)}}
<1>0. ASSUME NEW U \in SUBSET S PROVE IsFiniteSet(U) /\ Cardinality(U) \in Nat
  BY <1>0, FS_Subset, FS_CardinalityType
<1>1. SUFFICES ASSUME Counterexample(S) PROVE FALSE
  OBVIOUS
<1>2. PICK n \in T : \A k \in T : n <= k
  <2>1. T \subseteq Nat
    BY <1>0
  <2>2. T # {}
    BY <1>1
  <2> HIDE DEF T
  <2> QED
    BY <2>1, <2>2, LeastNumber
<1>3. PICK U \in SUBSET S : Counterexample(U) /\ Cardinality(U) = n
  BY <1>2
<1>4. PICK x \in U : TRUE
  BY <1>3
<1> DEFINE W == U \ {x}
<1>5. W \in SUBSET S /\ Cardinality(W) = n - 1 /\ n \in Nat
  BY <1>0, <1>3, FS_RemoveElement
<1>6. ~Counterexample(W)
  <2>1. Cardinality(W) \notin T
    <3> HIDE DEF T, W
    <3> QED
      BY <1>2, <1>5
  <2> QED
    BY <1>5, <2>1
<1>7. CASE W = {}
  BY <1>3, <1>7
<1>8. CASE W # {}
  <2>1. PICK y \in W : \A k \in W : y >= k
    BY <1>6, <1>8
  <2>2. x \in Nat /\ y \in Nat /\ U \subseteq Nat
    BY <1>3
  <2>3. CASE x >= y
    <3>1. \A k \in U : x >= k
      BY <2>1, <2>2, <2>3
    <3> QED
      BY <1>3, <3>1
  <2>4. CASE ~(x >= y)
    <3>1. \A k \in U : y >= k
      BY <2>1, <2>2, <2>4
    <3> QED
      BY <1>3, <3>1
  <2> QED
    BY <2>3, <2>4
<1> QED
  BY <1>7, <1>8

LEMMA NoBatchIsLarger ==
  ASSUME NEW b \in Batches
  PROVE  /\ Max({Len(c) : c \in Batches}) \in Nat
         /\ Len(b) <= Max({Len(c) : c \in Batches})
<1> DEFINE S == {Len(c) : c \in Batches}
           f == [c \in Batches |-> Len(c)]
<1>1. S \in SUBSET Nat /\ Len(b) \in S
  OBVIOUS
<1>2. IsFiniteSet(S)
  <2>1. f \in Surjection(Batches, S)
    BY DEF Surjection
  <2> HIDE DEF f, S
  <2> QED
    BY <2>1, FS_Surjection
<1> HIDE DEF S
<1>3. \E m \in S : \A k \in S : m >= k
  BY <1>1, <1>2, GreatestNumber
<1>4. Max(S) \in S /\ \A k \in S : Max(S) >= k
  BY <1>3 DEF Max
<1>5. Max(S) \in Nat /\ Len(b) <= Max(S)
  BY <1>1, <1>4
<1> QED
  BY <1>5 DEF S

\* An event's position is all that the FIFO knows of it.
StampsOf(events) == [i \in 1 .. Len(events) |-> events[i].stamp]

LEMMA StampsAreNumbers ==
  ASSUME NEW events \in Seq(Event)
  PROVE  /\ StampsOf(events) \in Seq(Nat)
         /\ Len(StampsOf(events)) = Len(events)
         /\ \A i \in 1 .. Len(events) : StampsOf(events)[i] = events[i].stamp
<1>1. \A i \in 1 .. Len(events) : events[i].stamp \in Nat
  <2>1. \A i \in 1 .. Len(events) : events[i] \in Event
    OBVIOUS
  <2> QED
    BY <2>1 DEF Event
<1> QED
  BY <1>1 DEF StampsOf

LEMMA StampsOfConcat ==
  ASSUME NEW a \in Seq(Event), NEW b \in Seq(Event)
  PROVE  StampsOf(a \o b) = StampsOf(a) \o StampsOf(b)
<1>1. /\ a \o b \in Seq(Event) /\ Len(a \o b) = Len(a) + Len(b)
      /\ \A i \in 1 .. Len(a) + Len(b) : (a \o b)[i] = IF i <= Len(a) THEN a[i] ELSE b[i - Len(a)]
  BY ConcatProperties
<1> DEFINE sa == StampsOf(a)
           sb == StampsOf(b)
           whole == a \o b
<1>2. /\ sa \in Seq(Nat) /\ Len(sa) = Len(a) /\ \A i \in 1 .. Len(a) : sa[i] = a[i].stamp
      /\ sb \in Seq(Nat) /\ Len(sb) = Len(b) /\ \A i \in 1 .. Len(b) : sb[i] = b[i].stamp
  BY StampsAreNumbers
<1> HIDE DEF sa, sb, whole
<1>3. /\ sa \o sb \in Seq(Nat) /\ Len(sa \o sb) = Len(sa) + Len(sb)
      /\ \A i \in 1 .. Len(sa) + Len(sb) :
           (sa \o sb)[i] = IF i <= Len(sa) THEN sa[i] ELSE sb[i - Len(sa)]
  <2>1. sa \in Seq(Nat) /\ sb \in Seq(Nat)
    BY <1>2, Zenon
  <2> QED
    BY <2>1, ConcatProperties
<1>4. /\ StampsOf(whole) \in Seq(Nat) /\ Len(StampsOf(whole)) = Len(a) + Len(b)
      /\ \A i \in 1 .. Len(a) + Len(b) : StampsOf(whole)[i] = whole[i].stamp
  BY <1>1, StampsAreNumbers DEF whole
<1>5. Len(a) \in Nat /\ Len(b) \in Nat
  OBVIOUS
<1>6. ASSUME NEW i \in 1 .. Len(a) + Len(b) PROVE StampsOf(whole)[i] = (sa \o sb)[i]
  <2>1. CASE i <= Len(a)
    <3>1. i \in 1 .. Len(a)
      BY <1>5, <2>1
    <3>2. whole[i] = a[i] /\ (sa \o sb)[i] = sa[i]
      BY <1>1, <1>2, <1>3, <2>1, <3>1 DEF whole
    <3> QED
      BY <1>2, <1>4, <3>1, <3>2
  <2>2. CASE ~(i <= Len(a))
    <3>1. i - Len(a) \in 1 .. Len(b)
      BY <1>5, <2>2
    <3>2. whole[i] = b[i - Len(a)] /\ (sa \o sb)[i] = sb[i - Len(a)]
      BY <1>1, <1>2, <1>3, <2>2 DEF whole
    <3> QED
      BY <1>2, <1>4, <3>1, <3>2
  <2> QED
    BY <2>1, <2>2
<1> QED
  BY <1>2, <1>3, <1>4, <1>6, SeqEqual DEF sa, sb, whole

LEMMA StampsOfPart ==
  ASSUME NEW events \in Seq(Event), NEW m \in 1 .. Len(events) + 1, NEW n \in 0 .. Len(events)
  PROVE  StampsOf(SubSeq(events, m, n)) = SubSeq(StampsOf(events), m, n)
<1> DEFINE part == SubSeq(events, m, n)
           stamps == StampsOf(events)
           these == SubSeq(stamps, m, n)
<1>0. m \in Nat /\ n \in Nat /\ Len(events) \in Nat
  OBVIOUS
<1>1. /\ part \in Seq(Event) /\ Len(part) = IF m <= n THEN n - m + 1 ELSE 0
      /\ \A i \in 1 .. n - m + 1 : part[i] = events[m + i - 1]
  BY SubSeqProperties
<1>2. /\ stamps \in Seq(Nat) /\ Len(stamps) = Len(events)
      /\ \A i \in 1 .. Len(events) : stamps[i] = events[i].stamp
  BY StampsAreNumbers
<1> HIDE DEF part, stamps
<1>3. /\ these \in Seq(Nat) /\ Len(these) = IF m <= n THEN n - m + 1 ELSE 0
      /\ \A i \in 1 .. n - m + 1 : these[i] = stamps[m + i - 1]
  BY <1>2, SubSeqProperties
<1>4. /\ StampsOf(part) \in Seq(Nat) /\ Len(StampsOf(part)) = Len(part)
      /\ \A i \in 1 .. Len(part) : StampsOf(part)[i] = part[i].stamp
  BY <1>1, StampsAreNumbers
<1> HIDE DEF these
<1>5. ASSUME NEW i \in 1 .. Len(part) PROVE StampsOf(part)[i] = these[i]
  <2>1. i \in 1 .. n - m + 1 /\ m + i - 1 \in 1 .. Len(events)
    BY <1>0, <1>1
  <2> QED
    BY <1>1, <1>2, <1>3, <1>4, <2>1
<1> QED
  BY <1>1, <1>3, <1>4, <1>5, SeqEqual DEF part, stamps, these

\* Before the writer has removed a chunk it has written, the counter is ahead.
LEMMA PendingInTransit ==
  ASSUME TypeInv, SizeInv
  PROVE  sizePending <= Len(InTransit) + QueueSize
<1>1. /\ pending \in Seq(Batch) /\ Len(EventsIn(pending)) \in Nat /\ Len(eventQueue) \in Nat
      /\ Len(InTransit) = Len(eventQueue) + Len(NotWrittenOf(writerPc, pending))
      /\ sizePending = Len(EventsIn(pending))
  BY QueueTypes, EventsInIsSeq DEF SizeInv
<1>2. CASE writerPc = "finish" /\ pending # <<>>
  <2> DEFINE front == Head(pending)
             others == EventsIn(Tail(pending))
             rest == AfterChunk(front)
  <2>1. front \in Batch /\ Tail(pending) \in Seq(Batch)
    BY <1>1, <1>2
  <2>2. others \in Seq(Event) /\ front.events \in Seq(Event) /\ rest \in Seq(Event)
        /\ Len(rest) = Len(front.events) - Smaller(Len(front.events), QueueSize)
    BY <2>1, EventsInIsSeq, AfterChunkIsSeq DEF Batch
  <2>3. EventsIn(pending) = front.events \o others
    BY <1>1, <1>2, EventsInFront
  <2>4. NotWrittenOf(writerPc, pending) = rest \o others
    BY <1>1, <1>2, NotWrittenIsSeq
  <2> HIDE DEF front, others, rest
  <2>5. Len(EventsIn(pending)) = Len(front.events) + Len(others)
    BY <2>2, <2>3, ConcatProperties
  <2>6. Len(NotWrittenOf(writerPc, pending)) = Len(rest) + Len(others)
    BY <2>2, <2>4, ConcatProperties
  <2>7. Smaller(Len(front.events), QueueSize) <= QueueSize /\ Len(front.events) \in Nat
        /\ Len(others) \in Nat /\ Smaller(Len(front.events), QueueSize) \in Nat
    BY <2>2 DEF Smaller
  <2>8. Len(front.events) <= Len(rest) + QueueSize
    BY <2>2, <2>7, EventQueueAssumption
  <2>9. /\ sizePending = Len(front.events) + Len(others)
        /\ Len(InTransit) = Len(eventQueue) + (Len(rest) + Len(others))
    BY <1>1, <2>5, <2>6, Zenon
  <2>10. Len(rest) \in Nat /\ Len(eventQueue) \in Nat /\ QueueSize \in Nat
    BY <1>1, <2>2, EventQueueAssumption
  <2> HIDE DEF InTransit
  <2> QED
    BY <2>7, <2>8, <2>9, <2>10
<1>3. CASE ~(writerPc = "finish" /\ pending # <<>>)
  <2>1. NotWrittenOf(writerPc, pending) = EventsIn(pending)
    BY <1>3 DEF NotWrittenOf
  <2> QED
    BY <1>1, <2>1
<1> QED
  BY <1>2, <1>3

Transit == StampsOf(InTransit)

LEMMA FifoIs ==
  /\ Fifo!vars = <<Transit, lastRead, nextStamp, threadsRun>>
  /\ Fifo!vars' = <<Transit', lastRead', nextStamp', threadsRun'>>
BY DEF Fifo!vars, Transit, StampsOf

\* Steps the FIFO does not see.
LEMMA FifoStutters ==
  ASSUME UNCHANGED <<lastRead, nextStamp, threadsRun>>, InTransit' = InTransit
  PROVE  UNCHANGED Fifo!vars
BY FifoIs DEF Transit, StampsOf

LEMMA FifoPosts ==
  ASSUME TypeInv, SizeInv, FifoInv, NEW s \in SubHals, WriteEvents(s)
  PROVE  Fifo!Post \/ UNCHANGED Fifo!vars
<1> DEFINE events == Stamped(batch[s])
           n == Len(batch[s])
<1>1. /\ batch[s] \in Seq(BOOLEAN) /\ nextStamp \in Nat /\ n \in Nat
      /\ UNCHANGED <<lastRead, threadsRun>> /\ nextStamp' = nextStamp + n
      /\ WriteOrQueue(events, NumWakeups(batch[s]))
  BY DEF TypeInv, TypeOK, WriteEvents, posterRest, frameworkVars, wakelockVars
<1>2. events \in Seq(Event) /\ Len(events) = n /\ NumWakeups(batch[s]) \in Nat
  BY <1>1, StampedIsSeq, NumWakeupsIsNat
<1>3. \A i \in 1 .. n : events[i].stamp = nextStamp + i - 1
  BY <1>1 DEF Stamped
<1> HIDE DEF events
<1>4. PICK k \in 0 .. Len(events) :
        /\ InTransit' = InTransit \o SubSeq(events, 1, k)
        /\ k < Len(events) => sizePending + Len(events) > MaxPending
  BY <1>1, <1>2, TransitPosted
<1> DEFINE part == SubSeq(events, 1, k)
<1>5. k \in 0 .. n /\ k \in Nat /\ InTransit \in Seq(Event) /\ Len(InTransit) \in Nat
  BY <1>2, <1>4, QueueTypes
<1>6. /\ part \in Seq(Event) /\ Len(part) = k
      /\ \A i \in 1 .. k : part[i] = events[i]
  BY <1>1, <1>2, <1>5, SubSeqProperties
<1> HIDE DEF part
<1>7. StampsOf(part) = [i \in 1 .. k |-> nextStamp + i - 1]
  <2>1. \A i \in 1 .. k : part[i].stamp = nextStamp + i - 1
    BY <1>3, <1>5, <1>6
  <2> QED
    BY <1>6, <2>1 DEF StampsOf
<1>8. Transit' = Transit \o [i \in 1 .. k |-> nextStamp + i - 1]
  <2>1. Transit' = StampsOf(InTransit \o part)
    BY <1>4 DEF Transit, part, StampsOf
  <2> QED
    BY <1>5, <1>6, <1>7, <2>1, StampsOfConcat DEF Transit
<1>9. k < n => Len(Transit) + n + QueueSize > MaxPending
  <2>1. Len(Transit) = Len(InTransit) /\ sizePending \in Int
    BY <1>5, StampsAreNumbers DEF Transit, TypeInv, TypeOK, EventQueueTypeOK
  <2> QED
    BY <1>1, <1>2, <1>4, <1>5, <2>1, PendingInTransit
<1>10. CASE n = 0
  <2>1. k = 0 /\ nextStamp' = nextStamp
    BY <1>1, <1>5, <1>10
  <2>2. part = <<>>
    BY <1>6, <2>1
  <2>3. InTransit' = InTransit
    BY <1>4, <1>5, <2>2, ConcatEmptySeq DEF part
  <2> QED
    BY <1>1, <2>1, <2>3, FifoStutters
<1>11. CASE n # 0
  <2>1. batch[s] \in Batches
    BY <1>11 DEF FifoInv, KnownBatches
  <2>2. n \in 1 .. Max({Len(b) : b \in Batches})
    BY <1>1, <1>11, <2>1, NoBatchIsLarger
  <2> HIDE DEF n
  <2>3. Fifo!Post
    BY <1>1, <1>5, <1>8, <1>9, <2>2 DEF Fifo!Post, Transit, StampsOf
  <2> QED
    BY <2>3
<1> QED
  BY <1>10, <1>11

LEMMA TransitIsSeq ==
  ASSUME TypeInv
  PROVE  /\ Transit \in Seq(Nat) /\ Len(Transit) = Len(InTransit) /\ Len(Transit) \in Nat
         /\ \A i \in 1 .. Len(Transit) : Transit[i] = InTransit[i].stamp
<1>1. InTransit \in Seq(Event)
  BY QueueTypes
<1>2. /\ StampsOf(InTransit) \in Seq(Nat)
      /\ Len(StampsOf(InTransit)) = Len(InTransit)
      /\ \A i \in 1 .. Len(InTransit) : StampsOf(InTransit)[i] = InTransit[i].stamp
  BY <1>1, StampsAreNumbers
<1>3. Len(InTransit) \in Nat
  BY <1>1, LenProperties
<1> QED
  BY <1>2, <1>3, Zenon DEF Transit

LEMMA FifoLosesChunk ==
  ASSUME TypeInv, WriterDrop, UNCHANGED <<lastRead, nextStamp>>
  PROVE  Fifo!LoseChunk
<1> DEFINE i == Len(eventQueue) + 1
           j == Len(eventQueue) + Chunk
           kept == SubSeq(InTransit, 1, Len(eventQueue))
           later == SubSeq(InTransit, j + 1, Len(InTransit))
<1>1. /\ InTransit \in Seq(Event) /\ Len(InTransit) \in Nat /\ Len(eventQueue) \in Nat
      /\ Len(eventQueue) <= QueueSize
      /\ Chunk \in Nat /\ Chunk <= QueueSize /\ Chunk > QueueSize - Len(eventQueue)
      /\ threadsRun' = threadsRun
  BY QueueTypes, ChunkInFront DEF TypeInv, FmqBounded, WriterDrop, Available
<1>2. InTransit' = kept \o later /\ j <= Len(InTransit)
  BY TransitDropped
<1>3. i \in 2 .. QueueSize + 1 /\ j \in QueueSize + 1 .. Len(InTransit) /\ j - i < QueueSize
  BY <1>1, <1>2
<1>4. kept \in Seq(Event) /\ later \in Seq(Event)
  BY <1>1, <1>2, Split
<1>5. StampsOf(kept) = SubSeq(Transit, 1, Len(eventQueue))
  <2>1. 1 \in 1 .. Len(InTransit) + 1 /\ Len(eventQueue) \in 0 .. Len(InTransit)
    BY <1>1, <1>2
  <2> QED
    BY <1>1, <2>1, StampsOfPart DEF Transit
<1>6. StampsOf(later) = SubSeq(Transit, j + 1, Len(InTransit))
  <2>1. j + 1 \in 1 .. Len(InTransit) + 1 /\ Len(InTransit) \in 0 .. Len(InTransit)
    BY <1>1, <1>2
  <2> HIDE DEF j
  <2> QED
    BY <1>1, <2>1, StampsOfPart DEF Transit
<1> HIDE DEF kept, later
<1>7. StampsOf(kept \o later) = StampsOf(kept) \o StampsOf(later)
  BY <1>4, StampsOfConcat
<1>8. Transit' = StampsOf(kept \o later)
  BY <1>2 DEF Transit, StampsOf
<1>9. Len(Transit) = Len(InTransit) /\ i - 1 = Len(eventQueue)
  BY <1>1, TransitIsSeq
<1> HIDE DEF i, j
<1>10. Transit' = SubSeq(Transit, 1, i - 1) \o SubSeq(Transit, j + 1, Len(Transit))
  BY <1>5, <1>6, <1>7, <1>8, <1>9
<1> QED
  BY <1>1, <1>3, <1>9, <1>10 DEF Fifo!LoseChunk, Transit, StampsOf

\* Events taken out of the FMQ, by the framework or by stopThreads.
LEMMA FifoTaken ==
  ASSUME TypeInv, NEW n \in 1 .. Len(eventQueue),
         eventQueue' = SubSeq(eventQueue, n + 1, Len(eventQueue)), UNCHANGED <<pending, writerPc>>
  PROVE  /\ n \in 1 .. Len(Transit)
         /\ Transit' = SubSeq(Transit, n + 1, Len(Transit))
         /\ Transit[n] = eventQueue[n].stamp
<1>1. /\ InTransit \in Seq(Event) /\ Len(InTransit) \in Nat /\ Len(eventQueue) \in Nat
      /\ Len(Transit) = Len(InTransit)
      /\ \A i \in 1 .. Len(Transit) : Transit[i] = InTransit[i].stamp
  BY QueueTypes, TransitIsSeq
<1>2. n \in Nat /\ n > 0 /\ n \in 0 .. Len(eventQueue)
  BY <1>1
<1>3. InTransit' = SubSeq(InTransit, n + 1, Len(InTransit)) /\ n <= Len(InTransit)
      /\ InTransit[n] = eventQueue[n]
  BY <1>2, TransitTaken
<1>4. n + 1 \in 1 .. Len(InTransit) + 1 /\ Len(InTransit) \in 0 .. Len(InTransit)
  BY <1>1, <1>2, <1>3
<1>5. StampsOf(SubSeq(InTransit, n + 1, Len(InTransit))) = SubSeq(Transit, n + 1, Len(InTransit))
  BY <1>1, <1>4, StampsOfPart DEF Transit
<1>6. Transit' = StampsOf(SubSeq(InTransit, n + 1, Len(InTransit)))
  BY <1>3 DEF Transit, StampsOf
<1> QED
  BY <1>1, <1>2, <1>3, <1>5, <1>6

LEMMA FifoDelivers ==
  ASSUME TypeInv, FrameworkRead
  PROVE  Fifo!Deliver
<1>1. PICK n \in 1 .. Len(eventQueue) :
        /\ eventQueue' = SubSeq(eventQueue, n + 1, Len(eventQueue))
        /\ lastRead' = eventQueue[n].stamp
  BY DEF FrameworkRead
<1>2. UNCHANGED <<pending, writerPc, nextStamp, threadsRun>>
  BY DEF FrameworkRead, binderRest, wakelockVars
<1>3. /\ n \in 1 .. Len(Transit)
      /\ Transit' = SubSeq(Transit, n + 1, Len(Transit))
      /\ lastRead' = Transit[n]
  BY <1>1, <1>2, FifoTaken
<1> QED
  BY <1>2, <1>3 DEF Fifo!Deliver, Transit, StampsOf

LEMMA FifoDrained ==
  ASSUME TypeInv, FifoInv, StopDrain
  PROVE  Fifo!LoseStopped \/ UNCHANGED Fifo!vars
<1>1. UNCHANGED <<pending, writerPc, nextStamp, threadsRun, lastRead>> /\ ~threadsRun
  BY DEF StopDrain, Binder, binderRest, wakelockVars, frameworkVars, FifoInv, DownInv
<1>2. CASE Initialized /\ eventQueue # <<>>
  <2> DEFINE n == Len(eventQueue)
  <2>1. eventQueue \in Seq(Event) /\ n \in 1 .. n /\ n \in Nat
    BY <1>2, QueueTypes
  <2>2. SubSeq(eventQueue, n + 1, n) = <<>>
    BY <2>1, SubSeqEmpty
  <2>3. eventQueue' = SubSeq(eventQueue, n + 1, Len(eventQueue))
    BY <1>2, <2>2 DEF StopDrain
  <2>4. n \in 1 .. Len(Transit) /\ Transit' = SubSeq(Transit, n + 1, Len(Transit))
    BY <1>1, <2>1, <2>3, FifoTaken
  <2> HIDE DEF n
  <2> QED
    BY <1>1, <2>4 DEF Fifo!LoseStopped, Transit, StampsOf
<1>3. CASE ~(Initialized /\ eventQueue # <<>>)
  <2>1. eventQueue' = eventQueue
    BY <1>3 DEF StopDrain
  <2> QED
    BY <1>1, <2>1, TransitKept, FifoStutters
<1> QED
  BY <1>2, <1>3

LEMMA FifoCleared ==
  ASSUME TypeInv, FifoInv, InitializeQueues
  PROVE  Fifo!LoseStopped \/ UNCHANGED Fifo!vars
<1>1. UNCHANGED <<nextStamp, threadsRun, lastRead>> /\ ~threadsRun
  BY DEF InitializeQueues, Binder, binderRest, FifoInv, DownInv
<1>2. eventQueue' = <<>> /\ NotWrittenOf(writerPc', pending') = <<>>
  BY EventsInNone DEF InitializeQueues, NotWrittenOf
<1>3. InTransit' = <<>>
  BY <1>2, InTransitIs
<1>4. Transit' = <<>>
  BY <1>3 DEF Transit, StampsOf
<1>5. Transit \in Seq(Nat) /\ Len(Transit) \in Nat /\ Len(Transit) = Len(InTransit)
      /\ InTransit \in Seq(Event)
  BY TransitIsSeq, QueueTypes
<1>6. CASE Len(Transit) > 0
  <2>1. SubSeq(Transit, Len(Transit) + 1, Len(Transit)) = <<>>
    BY <1>5, SubSeqEmpty
  <2>2. Len(Transit) \in 1 .. Len(Transit)
    BY <1>5, <1>6
  <2>3. Fifo!LoseStopped
    BY <1>1, <1>4, <2>1, <2>2 DEF Fifo!LoseStopped, Transit, StampsOf
  <2> QED
    BY <2>3
<1>7. CASE ~(Len(Transit) > 0)
  <2>1. InTransit = <<>>
    BY <1>5, <1>7
  <2> QED
    BY <1>1, <1>3, <2>1, FifoStutters
<1> QED
  BY <1>6, <1>7

LEMMA FifoStarts ==
  ASSUME JoinedInv, FifoInv, StartThreads
  PROVE  Fifo!Start
<1>1. InTransit = <<>>
  BY NothingInTransit DEF StartThreads, Binder, JoinedInv
<1>2. UNCHANGED <<eventQueue, pending, writerPc, nextStamp, lastRead>> /\ threadsRun' /\ ~threadsRun
  BY DEF StartThreads, Binder, binderRest, eventVars, frameworkVars, FifoInv, DownInv
<1>3. Transit' = Transit /\ Transit = <<>>
  BY <1>1, <1>2, TransitKept DEF Transit, StampsOf
<1>4. threadsRun' = TRUE
  BY DEF StartThreads
<1> QED
  BY <1>2, <1>3, <1>4 DEF Fifo!Start, Transit, StampsOf

LEMMA FifoStops ==
  ASSUME InitializeBegin
  PROVE  Fifo!Stop
<1>1. UNCHANGED <<eventQueue, pending, writerPc, nextStamp, lastRead>> /\ threadsRun' = FALSE
  BY DEF InitializeBegin, binderRest, eventVars, frameworkVars
<1>2. Transit' = Transit
  BY <1>1, TransitKept DEF Transit, StampsOf
<1> QED
  BY <1>1, <1>2 DEF Fifo!Stop, Transit, StampsOf

LEMMA FifoStep ==
  TypeInv /\ SizeInv /\ FifoInv /\ JoinedInv /\ [Next]_vars => [Fifo!Next]_(Fifo!vars)
<1> SUFFICES ASSUME TypeInv, SizeInv, FifoInv, JoinedInv, [Next]_vars
             PROVE  Fifo!Next \/ UNCHANGED Fifo!vars
  OBVIOUS
<1>0. ASSUME UNCHANGED <<eventQueue, pending, lastRead, nextStamp, threadsRun>>,
             writerPc' = "finish" <=> writerPc = "finish"
      PROVE  UNCHANGED Fifo!vars
  BY <1>0, TransitKept, FifoStutters
<1> USE DEF posterRest, proxyRest, binderRest, posterVars, frameworkVars, wakelockVars, eventVars
<1>1. ASSUME NEW s \in SubHals, PosterStep(s) PROVE Fifo!Post \/ UNCHANGED Fifo!vars
  <2>1. CASE WriteEvents(s)
    BY <2>1, FifoPosts
  <2>2. CASE CreateScoped(s) \/ PostEvents(s) \/ LockWriteMutex(s) \/ CountBatch(s)
    BY <1>0, <2>2 DEF CreateScoped, PostEvents, LockWriteMutex, CountBatch
  <2>3. CASE CreateScopedLocked(s)
    BY <1>0, <2>3 DEF CreateScopedLocked
  <2>4. CASE CountBatchLocked(s)
    BY <1>0, <2>4 DEF CountBatchLocked
  <2>5. CASE ReleaseScoped(s)
    BY <1>0, <2>5 DEF ReleaseScoped
  <2> QED
    BY <1>1, <2>1, <2>2, <2>3, <2>4, <2>5 DEF PosterStep
<1>2. CASE WriterStep
  <2>0. UNCHANGED <<lastRead, nextStamp>>
    BY <1>2 DEF WriterStep
  <2>1. CASE WriterCheck
    BY <1>0, <2>0, <2>1 DEF WriterCheck, LoopHead
  <2>2. CASE WriterBlock
    BY <1>0, <2>0, <2>2 DEF WriterBlock
  <2>3. CASE WriterFinish \/ WriterWrite
    <3>1. threadsRun' = threadsRun
      BY <2>3 DEF WriterFinish, WriterWrite
    <3> QED
      BY <2>0, <2>3, <3>1, TransitMoved, FifoStutters
  <2>4. CASE WriterDrop
    BY <2>0, <2>4, FifoLosesChunk DEF Fifo!Next
  <2> QED
    BY <1>2, <2>1, <2>2, <2>3, <2>4
       DEF WriterStep, WriterLocking, WriterWriting, WriterDropping, Fifo!Next
<1>3. CASE WakelockStep
  <2>1. UNCHANGED <<eventQueue, pending, writerPc, lastRead, nextStamp>>
    BY <1>3 DEF WakelockStep
  <2>2. threadsRun' = threadsRun
    BY <1>3 DEF WakelockStep, WakelockThreadStep, WakelockThreadExit, WakelockThreadIdle,
                WakelockThreadBlock, WakelockThreadTimeout, WakelockThreadWait, WakelockThreadRead,
                WakelockThreadReadTimeout
  <2> QED
    BY <1>0, <2>1, <2>2
<1>4. CASE SpuriousWakeup
  BY <1>0, <1>4 DEF SpuriousWakeup, WriterSpurious, WakelockThreadSpurious
<1>5. CASE Clock
  BY <1>0, <1>5 DEF Clock, Tick
<1>6. CASE InitializeStep
  <2>1. CASE StopDrain
    BY <2>1, FifoDrained DEF Fifo!Next
  <2>2. CASE InitializeQueues
    BY <2>2, FifoCleared DEF Fifo!Next
  <2>3. CASE StartThreads
    BY <2>3, FifoStarts DEF Fifo!Next
  <2>4. CASE StopPoke
    BY <1>0, <2>4 DEF StopPoke
  <2>5. CASE StopNotifyWakelock
    BY <1>0, <2>5 DEF StopNotifyWakelock
  <2>6. CASE StopNotifyWriter
    BY <1>0, <2>6 DEF StopNotifyWriter, Notified
  <2>7. CASE StopJoin \/ DisableAllSensorsDone
    BY <1>0, <2>7 DEF StopJoin, DisableAllSensorsDone
  <2>8. CASE InitializeReset
    BY <1>0, <2>8 DEF InitializeReset
  <2>9. ASSUME NEW s \in SubHals, DisableSensor(s) PROVE UNCHANGED Fifo!vars
    BY <1>0, <2>9 DEF DisableSensor
  <2>10. CASE SpawnThreads
    <3>1. writerPc \in {"off", "exited"}
      BY <2>10 DEF SpawnThreads, Binder, JoinedInv
    <3> QED
      BY <1>0, <2>10, <3>1 DEF SpawnThreads
  <2> QED
    BY <1>6, <2>1, <2>2, <2>3, <2>4, <2>5, <2>6, <2>7, <2>8, <2>9, <2>10
       DEF InitializeStep, Fifo!Next
<1>7. CASE Framework
  <2>1. CASE InitializeBegin
    BY <2>1, FifoStops DEF Fifo!Next
  <2>2. ASSUME NEW s \in SubHals, Activate(s) \/ PostBegin(s) PROVE UNCHANGED Fifo!vars
    BY <1>0, <2>2 DEF Activate, PostBegin
  <2>3. CASE FrameworkRead
    BY <2>3, FifoDelivers DEF Fifo!Next
  <2>4. CASE FrameworkAck
    BY <1>0, <2>4 DEF FrameworkAck
  <2> QED
    BY <1>7, <2>1, <2>2, <2>3, <2>4 DEF Framework, Fifo!Next
<1>8. CASE UNCHANGED vars
  BY <1>0, <1>8 DEF vars
<1> QED
  BY <1>1, <1>2, <1>3, <1>4, <1>5, <1>6, <1>7, <1>8 DEF Next, Fifo!Next

LEMMA JoinedInvariant == Spec => []JoinedInv
<1>1. Init => JoinedInv
  BY DEF Init, JoinedInv
<1>2. PosterInv /\ JoinedInv /\ [Next]_vars => JoinedInv'
  BY JoinedNext
<1> QED
  BY <1>1, <1>2, PosterInvariant, PTL DEF Spec

LEMMA FifoInvariant == Spec => []FifoInv
<1>1. TypeInv /\ FifoInv /\ [Next]_vars => FifoInv'
  BY FifoInvNext
<1> QED
  BY <1>1, FifoInvInit, TypeInvariant, PTL DEF Spec

LEMMA FifoInit == Init => Fifo!Init
<1> SUFFICES ASSUME Init PROVE Fifo!Init
  OBVIOUS
<1>1. InTransit = <<>>
  BY NothingInTransit DEF Init, EventQueueInit
<1>2. Transit = <<>>
  BY <1>1 DEF Transit, StampsOf
<1> QED
  BY <1>2 DEF Init, WakelockInit, Fifo!Init, Transit, StampsOf

(***************************************************************************)
(* Every behaviour of the event path is one of the FIFO that may lose      *)
(* events: no interleaving of posting threads, writer, framework and       *)
(* initialize lets an event overtake another, reach the framework twice or *)
(* outlive a restart, and events get lost only where the FIFO may lose     *)
(* them, for batches and queues of any size.                               *)
(***************************************************************************)
THEOREM EventPathIsLossyFifo == Spec => ImplementsLossyFifo
<1>1. TypeInv /\ SizeInv /\ FifoInv /\ JoinedInv /\ [Next]_vars => [Fifo!Next]_(Fifo!vars)
  BY FifoStep
<1> QED
  BY <1>1, FifoInit, TypeInvariant, SizeInvariant, FifoInvariant, JoinedInvariant, PTL
     DEF Spec, ImplementsLossyFifo, Fifo!Spec

-----------------------------------------------------------------------------
(***************************************************************************)
(* What a lossy FIFO keeps: its events rise, from above the last one read  *)
(* to below the next one posted.  Hence InOrder, from the refinement.      *)
(***************************************************************************)

Rising(t, low, high) ==
  /\ \A i, j \in 1 .. Len(t) : i < j => t[i] < t[j]
  /\ \A i \in 1 .. Len(t) : low < t[i] /\ t[i] < high
  /\ low < high

LEMMA RisingAfterPost ==
  ASSUME NEW t \in Seq(Nat), NEW low \in Nat, NEW high \in Nat, Rising(t, low, high),
         NEW n \in Nat, NEW k \in 0 .. n
  PROVE  Rising(t \o [i \in 1 .. k |-> high + i - 1], low, high + n)
<1> DEFINE more == [i \in 1 .. k |-> high + i - 1]
           whole == t \o more
<1>1. /\ more \in Seq(Nat) /\ Len(more) = k /\ \A i \in 1 .. k : more[i] = high + i - 1
      /\ k \in Nat /\ k <= n /\ Len(t) \in Nat
  OBVIOUS
<1>2. \A i \in 1 .. Len(t) : t[i] \in Nat
  OBVIOUS
<1> HIDE DEF more
<1>3. /\ whole \in Seq(Nat) /\ Len(whole) = Len(t) + k
      /\ \A i \in 1 .. Len(t) + k : whole[i] = IF i <= Len(t) THEN t[i] ELSE more[i - Len(t)]
  BY <1>1, ConcatProperties
<1> HIDE DEF whole
<1>4. /\ \A i \in 1 .. Len(whole) : i <= Len(t) => i \in 1 .. Len(t) /\ whole[i] = t[i]
      /\ \A i \in 1 .. Len(whole) : ~(i <= Len(t)) => whole[i] = high + (i - Len(t)) - 1
  <2>1. \A i \in 1 .. Len(t) + k : ~(i <= Len(t)) => i - Len(t) \in 1 .. k
    BY <1>1
  <2>2. \A i \in 1 .. Len(t) + k : i <= Len(t) => i \in 1 .. Len(t)
    BY <1>1
  <2> QED
    BY <1>1, <1>3, <2>1, <2>2
<1> USE DEF Rising
<1>5. ASSUME NEW i \in 1 .. Len(whole)
      PROVE  low < whole[i] /\ whole[i] < high + n
  <2>1. i \in Nat /\ i <= Len(t) + k /\ low \in Nat /\ high \in Nat /\ low < high
    BY <1>1, <1>3
  <2>2. CASE i <= Len(t)
    <3>1. i \in 1 .. Len(t) /\ whole[i] = t[i]
      BY <1>4, <2>2
    <3>2. low < t[i] /\ t[i] < high /\ t[i] \in Nat
      BY <1>2, <3>1
    <3> QED
      BY <2>1, <3>1, <3>2
  <2>3. CASE ~(i <= Len(t))
    <3>1. whole[i] = high + (i - Len(t)) - 1
      BY <1>4, <2>3
    <3> QED
      BY <1>1, <2>1, <2>3, <3>1
  <2> QED
    BY <2>2, <2>3
<1>6. ASSUME NEW i \in 1 .. Len(whole), NEW j \in 1 .. Len(whole), i < j
      PROVE  whole[i] < whole[j]
  <2>0. i \in Nat /\ j \in Nat /\ low \in Nat /\ high \in Nat
    BY <1>1, <1>3
  <2>1. CASE j <= Len(t)
    <3>1. i <= Len(t)
      BY <1>1, <1>6, <2>0, <2>1
    <3> QED
      BY <1>4, <1>6, <2>1, <3>1
  <2>2. CASE i <= Len(t) /\ ~(j <= Len(t))
    <3>1. i \in 1 .. Len(t) /\ whole[i] = t[i] /\ whole[j] = high + (j - Len(t)) - 1
      BY <1>4, <2>2
    <3>2. t[i] < high /\ t[i] \in Nat
      BY <1>2, <3>1
    <3> QED
      BY <1>1, <2>0, <2>2, <3>1, <3>2
  <2>3. CASE ~(i <= Len(t))
    <3>1. ~(j <= Len(t))
      BY <1>1, <1>6, <2>0, <2>3
    <3>2. whole[i] = high + (i - Len(t)) - 1 /\ whole[j] = high + (j - Len(t)) - 1
      BY <1>4, <2>3, <3>1
    <3> QED
      BY <1>1, <1>6, <2>0, <3>2
  <2> QED
    BY <1>1, <1>3, <1>6, <2>1, <2>2, <2>3
<1> QED
  BY <1>5, <1>6 DEF Rising, whole, more

LEMMA RisingWithout ==
  ASSUME NEW t \in Seq(Nat), NEW low, NEW high, Rising(t, low, high),
         NEW i \in 1 .. Len(t), NEW j \in i - 1 .. Len(t)
  PROVE  Rising(SubSeq(t, 1, i - 1) \o SubSeq(t, j + 1, Len(t)), low, high)
<1> DEFINE l == i - 1
           kept == SubSeq(t, 1, l)
           later == SubSeq(t, j + 1, Len(t))
           whole == kept \o later
<1>1. /\ l \in Nat /\ j \in Nat /\ Len(t) \in Nat /\ l <= j /\ j <= Len(t)
      /\ l \in 0 .. Len(t) /\ j \in 0 .. Len(t) /\ l = i - 1
  OBVIOUS
<1> HIDE DEF l
<1>2. kept \in Seq(Nat) /\ Len(kept) = l /\ later \in Seq(Nat) /\ Len(later) = Len(t) - j
  BY <1>1, Split
<1>3. 1 \in 1 .. Len(t) + 1 /\ j + 1 \in 1 .. Len(t) + 1 /\ Len(t) \in 0 .. Len(t)
  BY <1>1
<1>4. \A p \in 1 .. l : kept[p] = t[p]
  BY <1>1, <1>3, SubSeqProperties
<1>5. \A p \in 1 .. Len(t) - j : later[p] = t[j + p]
  <2>1. \A p \in 1 .. Len(t) - (j + 1) + 1 : later[p] = t[(j + 1) + p - 1]
    BY <1>3, SubSeqProperties
  <2> QED
    BY <1>1, <2>1
<1> HIDE DEF kept, later
<1>6. /\ whole \in Seq(Nat) /\ Len(whole) = Len(kept) + Len(later)
      /\ \A p \in 1 .. Len(kept) + Len(later) :
           whole[p] = IF p <= Len(kept) THEN kept[p] ELSE later[p - Len(kept)]
  BY <1>2, ConcatProperties
<1> HIDE DEF whole
<1> DEFINE at(p) == IF p <= l THEN p ELSE j + (p - l)
<1>7. ASSUME NEW p \in 1 .. Len(whole)
      PROVE  whole[p] = t[at(p)] /\ at(p) \in 1 .. Len(t)
  <2>1. CASE p <= l
    <3>1. p \in 1 .. l /\ at(p) = p /\ p \in 1 .. Len(t)
      BY <1>1, <2>1
    <3>2. whole[p] = kept[p]
      BY <1>2, <1>6, <2>1
    <3> QED
      BY <1>4, <3>1, <3>2
  <2>2. CASE ~(p <= l)
    <3>1. p - l \in 1 .. Len(t) - j /\ at(p) = j + (p - l) /\ j + (p - l) \in 1 .. Len(t)
      BY <1>1, <1>2, <1>6, <2>2
    <3>2. whole[p] = later[p - l]
      BY <1>2, <1>6, <2>2
    <3> QED
      BY <1>5, <3>1, <3>2
  <2> QED
    BY <2>1, <2>2
<1>8. \A p, q \in 1 .. Len(whole) : p < q => at(p) < at(q)
  BY <1>1
<1> HIDE DEF at
<1> QED
  BY <1>7, <1>8 DEF Rising, whole, kept, later, l

LEMMA RisingAfter ==
  ASSUME NEW t \in Seq(Nat), NEW low \in Nat, NEW high \in Nat, Rising(t, low, high),
         NEW n \in 1 .. Len(t)
  PROVE  /\ Rising(SubSeq(t, n + 1, Len(t)), low, high)
         /\ Rising(SubSeq(t, n + 1, Len(t)), t[n], high)
<1> DEFINE later == SubSeq(t, n + 1, Len(t))
<1>1. n \in Nat /\ n > 0 /\ Len(t) \in Nat /\ n <= Len(t) /\ n \in 0 .. Len(t)
      /\ n + 1 \in 1 .. Len(t) + 1 /\ Len(t) \in 0 .. Len(t)
  OBVIOUS
<1>2. later \in Seq(Nat) /\ Len(later) = Len(t) - n
  BY <1>1, Split
<1>3. \A p \in 1 .. Len(t) - n : later[p] = t[n + p]
  <2>1. \A p \in 1 .. Len(t) - (n + 1) + 1 : later[p] = t[(n + 1) + p - 1]
    BY <1>1, SubSeqProperties
  <2> QED
    BY <1>1, <2>1
<1> HIDE DEF later
<1>4. \A p \in 1 .. Len(later) : n + p \in 1 .. Len(t) /\ n < n + p /\ later[p] = t[n + p]
  BY <1>1, <1>2, <1>3
<1>5. \A p, q \in 1 .. Len(later) : p < q => n + p < n + q
  BY <1>1, <1>2
<1>6. \A p, q \in 1 .. Len(later) : p < q => later[p] < later[q]
  BY <1>4, <1>5 DEF Rising
<1>7. \A p \in 1 .. Len(later) : low < later[p] /\ later[p] < high /\ t[n] < later[p]
  BY <1>1, <1>4 DEF Rising
<1>8. low < high /\ t[n] < high
  BY DEF Rising
<1> QED
  BY <1>6, <1>7, <1>8 DEF Rising, later

RisingInv == Rising(Transit, lastRead, nextStamp)

LEMMA RisingInit == Fifo!Init => RisingInv
<1> SUFFICES ASSUME Fifo!Init PROVE RisingInv
  OBVIOUS
<1>1. Transit = <<>> /\ lastRead = 0 /\ nextStamp = 1
  BY DEF Fifo!Init, Transit, StampsOf
<1> QED
  BY <1>1 DEF RisingInv, Rising

LEMMA RisingStep ==
  TypeInv /\ RisingInv /\ [Fifo!Next]_(Fifo!vars) => RisingInv'
<1> SUFFICES ASSUME TypeInv, RisingInv, Fifo!Next \/ UNCHANGED Fifo!vars PROVE RisingInv'
  OBVIOUS
<1>1. /\ Transit \in Seq(Nat) /\ lastRead \in Nat /\ nextStamp \in Nat /\ Len(Transit) \in Nat
      /\ Rising(Transit, lastRead, nextStamp) /\ QueueSize \in Nat
  BY TransitIsSeq DEF TypeInv, TypeOK, RisingInv
<1>2. CASE Fifo!Post
  <2>1. PICK n \in 1 .. Max({Len(b) : b \in Batches}) : \E k \in 0 .. n :
          /\ Transit' = Transit \o [i \in 1 .. k |-> nextStamp + i - 1]
          /\ nextStamp' = nextStamp + n
    BY <1>2 DEF Fifo!Post, Transit, StampsOf
  <2>2. n \in Int
    OBVIOUS
  <2>3. n \in Nat
    BY <2>1, <2>2
  <2>4. lastRead' = lastRead
    BY <1>2 DEF Fifo!Post
  <2> QED
    BY <1>1, <2>1, <2>3, <2>4, RisingAfterPost DEF RisingInv
<1>3. CASE Fifo!Deliver
  <2>1. PICK k \in 1 .. Len(Transit) :
          Transit' = SubSeq(Transit, k + 1, Len(Transit)) /\ lastRead' = Transit[k]
    BY <1>3 DEF Fifo!Deliver, Transit, StampsOf
  <2>2. nextStamp' = nextStamp
    BY <1>3 DEF Fifo!Deliver
  <2> QED
    BY <1>1, <2>1, <2>2, RisingAfter DEF RisingInv
<1>4. CASE Fifo!LoseChunk
  <2>1. PICK i \in 2 .. QueueSize + 1, j \in QueueSize + 1 .. Len(Transit) :
          Transit' = SubSeq(Transit, 1, i - 1) \o SubSeq(Transit, j + 1, Len(Transit))
    BY <1>4 DEF Fifo!LoseChunk, Transit, StampsOf
  <2>2. i \in 1 .. Len(Transit) /\ j \in i - 1 .. Len(Transit)
    BY <1>1, <2>1
  <2>3. lastRead' = lastRead /\ nextStamp' = nextStamp
    BY <1>4 DEF Fifo!LoseChunk
  <2> QED
    BY <1>1, <2>1, <2>2, <2>3, RisingWithout DEF RisingInv
<1>5. CASE Fifo!LoseStopped
  <2>1. PICK k \in 1 .. Len(Transit) : Transit' = SubSeq(Transit, k + 1, Len(Transit))
    BY <1>5 DEF Fifo!LoseStopped, Transit, StampsOf
  <2>2. lastRead' = lastRead /\ nextStamp' = nextStamp
    BY <1>5 DEF Fifo!LoseStopped
  <2> QED
    BY <1>1, <2>1, <2>2, RisingAfter DEF RisingInv
<1>6. CASE Fifo!Stop \/ Fifo!Start
  <2>1. Transit' = Transit /\ lastRead' = lastRead /\ nextStamp' = nextStamp
    BY <1>6 DEF Fifo!Stop, Fifo!Start, Transit, StampsOf
  <2> QED
    BY <1>1, <2>1 DEF RisingInv
<1>7. CASE UNCHANGED Fifo!vars
  <2>1. Transit' = Transit /\ lastRead' = lastRead /\ nextStamp' = nextStamp
    BY <1>7, FifoIs
  <2> QED
    BY <1>1, <2>1 DEF RisingInv
<1> QED
  BY <1>2, <1>3, <1>4, <1>5, <1>6, <1>7 DEF Fifo!Next

LEMMA RisingIsInOrder == TypeInv /\ RisingInv => InOrder
<1> SUFFICES ASSUME TypeInv, RisingInv PROVE InOrder
  OBVIOUS
<1>1. /\ Len(Transit) = Len(InTransit) /\ Len(Transit) \in Nat
      /\ \A i \in 1 .. Len(Transit) : Transit[i] = InTransit[i].stamp
  BY TransitIsSeq
<1>2. ASSUME NEW i \in 1 .. Len(InTransit) - 1
      PROVE  InTransit[i].stamp < InTransit[i + 1].stamp
  <2>1. i \in 1 .. Len(Transit) /\ i + 1 \in 1 .. Len(Transit) /\ i < i + 1
    BY <1>1
  <2>2. Transit[i] < Transit[i + 1]
    BY <2>1 DEF RisingInv, Rising
  <2> QED
    BY <1>1, <2>1, <2>2
<1>3. ASSUME NEW i \in 1 .. Len(InTransit)
      PROVE  lastRead < InTransit[i].stamp
  BY <1>1 DEF RisingInv, Rising
<1> QED
  BY <1>2, <1>3 DEF InOrder

(***************************************************************************)
(* The framework sees events in the order in which they were posted, for   *)
(* any number of sub-HALs posting batches of any size: the posting threads *)
(* that write straight into the event FMQ never overtake what waits in the *)
(* pending queue or in the writer's hands.                                 *)
(***************************************************************************)
THEOREM EventsInOrder == Spec => []InOrder
<1>1. TypeInv /\ SizeInv /\ FifoInv /\ JoinedInv /\ [Next]_vars => [Fifo!Next]_(Fifo!vars)
  BY FifoStep
<1>2. Init => RisingInv
  BY FifoInit, RisingInit
<1>3. TypeInv /\ RisingInv /\ [Fifo!Next]_(Fifo!vars) => RisingInv'
  BY RisingStep
<1>4. TypeInv /\ RisingInv => InOrder
  BY RisingIsInOrder
<1> QED
  BY <1>1, <1>2, <1>3, <1>4, TypeInvariant, SizeInvariant, FifoInvariant, JoinedInvariant, PTL
     DEF Spec

-----------------------------------------------------------------------------
(***************************************************************************)
(* CountCoversOutstanding.                                                 *)
(***************************************************************************)

Outstanding == WakeupsIn(InTransit) + unacked + Total(wakeQueue) + Cardinality(LiveTokens)

Counting == threadsRun /\ ~timedOut /\ ~overDropped

\* A posting thread about to write a batch has counted it already.
WriterCovered(s) == posterPc[s] = "write" => refCount >= Outstanding + NumWakeups(batch[s])

CountInv ==
  /\ IsFiniteSet(LiveTokens)
  /\ binderPc = "start" => unacked = 0
  /\ Counting => refCount >= Outstanding /\ \A s \in SubHals : WriterCovered(s)

LEMMA OutstandingIs ==
  /\ Outstanding = WakeupsIn(InTransit) + unacked + Total(wakeQueue) + Cardinality(LiveTokens)
  /\ Outstanding' = WakeupsIn(InTransit') + unacked' + Total(wakeQueue') + Cardinality(LiveTokens')
BY DEF Outstanding

LEMMA OutstandingTypes ==
  ASSUME TypeInv, IsFiniteSet(LiveTokens)
  PROVE  /\ WakeupsIn(InTransit) \in Nat /\ unacked \in Nat /\ Total(wakeQueue) \in Nat
         /\ Cardinality(LiveTokens) \in Nat /\ Outstanding \in Nat /\ refCount \in Nat
<1>1. InTransit \in Seq(Event) /\ wakeQueue \in Seq(Nat) /\ unacked \in Nat /\ refCount \in Nat
  BY QueueTypes DEF TypeInv, TypeOK, WakelockTypeOK
<1>2. WakeupsIn(InTransit) \in Nat /\ Total(wakeQueue) \in Nat /\ Cardinality(LiveTokens) \in Nat
  BY <1>1, WakeupsIs, TotalIsNat, FS_CardinalityType
<1> QED
  BY <1>1, <1>2 DEF Outstanding

\* The same tokens, if every ScopedWakelock stays locked or not.
LEMMA TokensKept == ASSUME SameLocks PROVE LiveTokens' = LiveTokens
BY DEF SameLocks, LiveTokens

\* No posting thread becomes one about to write, but with nothing to count.
WritersKept ==
  \A t \in SubHals : posterPc'[t] = "write" =>
    (posterPc[t] = "write" /\ batch'[t] = batch[t]) \/ NumWakeups(batch'[t]) = 0

\* What is owed goes up by no more than the count.
LEMMA CountKept ==
  ASSUME TypeInv, CountInv, IsFiniteSet(LiveTokens'), binderPc' = "start" => unacked' = 0,
         Counting' => /\ Counting /\ WritersKept
                      /\ \E gain \in Int : Outstanding' = Outstanding + gain /\ refCount' >= refCount + gain,
         refCount' \in Nat
  PROVE  CountInv'
<1>1. Outstanding \in Nat /\ refCount \in Nat
  BY OutstandingTypes DEF CountInv
<1>2. ASSUME Counting' PROVE refCount' >= Outstanding' /\ \A s \in SubHals : WriterCovered(s)'
  <2>1. Counting /\ WritersKept
    BY <1>2
  <2>2. PICK gain \in Int : Outstanding' = Outstanding + gain /\ refCount' >= refCount + gain
    BY <1>2
  <2>3. refCount >= Outstanding
    BY <2>1 DEF CountInv
  <2>4. refCount' >= Outstanding' /\ Outstanding' \in Int
    BY <1>1, <2>2, <2>3
  <2>5. ASSUME NEW t \in SubHals, posterPc'[t] = "write"
        PROVE  refCount' >= Outstanding' + NumWakeups(batch'[t])
    <3>1. CASE posterPc[t] = "write" /\ batch'[t] = batch[t]
      <4>1. refCount >= Outstanding + NumWakeups(batch[t])
        BY <2>1, <3>1 DEF CountInv, WriterCovered
      <4>2. NumWakeups(batch[t]) \in Nat
        BY NumWakeupsIsNat DEF TypeInv, TypeOK
      <4> QED
        BY <1>1, <2>2, <3>1, <4>1, <4>2
    <3>2. CASE NumWakeups(batch'[t]) = 0
      <4>1. \A r, o, n : r >= o /\ r \in Nat /\ o \in Int /\ n = 0 => r >= o + n
        OBVIOUS
      <4> QED
        BY <2>4, <3>2, <4>1
    <3>3. (posterPc[t] = "write" /\ batch'[t] = batch[t]) \/ NumWakeups(batch'[t]) = 0
      BY <2>1, <2>5 DEF WritersKept
    <3> QED
      BY <3>1, <3>2, <3>3
  <2>6. \A s \in SubHals : NumWakeups(batch[s])' = NumWakeups(batch'[s])
    BY DEF NumWakeups
  <2> QED
    BY <2>4, <2>5, <2>6 DEF WriterCovered
<1> QED
  BY <1>2 DEF CountInv

\* Steps that neither count nor change what is owed.
LEMMA CountUntouched ==
  ASSUME TypeInv, CountInv, InTransit' = InTransit, UNCHANGED <<unacked, wakeQueue, refCount>>,
         SameLocks, Counting' => Counting /\ WritersKept, binderPc' = "start" => binderPc = "start"
  PROVE  CountInv'
<1>1. LiveTokens' = LiveTokens
  BY TokensKept
<1>2. Outstanding' = Outstanding
  BY <1>1, OutstandingIs, SMTT(30)
<1>3. Outstanding \in Nat /\ refCount \in Nat /\ IsFiniteSet(LiveTokens)
  BY OutstandingTypes DEF CountInv
<1>4. Outstanding' = Outstanding + 0 /\ refCount' >= refCount + 0 /\ 0 \in Int
  BY <1>2, <1>3
<1> QED
  BY <1>1, <1>3, <1>4, CountKept DEF CountInv

\* While the threads are stopped nothing has to be covered.
LEMMA CountIdle ==
  ASSUME CountInv, SameLocks, ~Counting', binderPc' = "start" => unacked' = 0
  PROVE  CountInv'
BY TokensKept DEF CountInv

LEMMA DecrementCovers ==
  ASSUME TypeInv, NEW delta \in Nat, NEW stale, DecrementRefCount(delta, stale)
  PROVE  refCount' \in Nat /\ refCount' >= refCount - delta
<1>1. refCount \in Nat
  BY DEF TypeInv, TypeOK, WakelockTypeOK
<1> QED
  BY <1>1 DEF DecrementRefCount, Smaller

LEMMA PosterMoves ==
  ASSUME TypeInv, NEW s \in SubHals, NEW pc, pc # "write", Goto(s, pc),
         \A t \in SubHals : t # s => batch'[t] = batch[t]
  PROVE  WritersKept
BY DEF TypeInv, TypeOK, Goto, WritersKept

LEMMA SameIfUnchanged == ASSUME scoped' = scoped PROVE SameLocks
BY DEF SameLocks

LEMMA CountCreates ==
  ASSUME TypeInv, PosterInv, CountInv, NEW s \in SubHals, CreateScopedLocked(s)
  PROVE  CountInv'
<1>1. /\ UNCHANGED <<eventQueue, pending, writerPc, unacked, wakeQueue, threadsRun, timedOut, overDropped,
                     batch, binderPc>>
      /\ refCount' = refCount + 1
      /\ scoped' = [scoped EXCEPT ![s] = "now"]
      /\ Goto(s, "post")
  BY DEF CreateScopedLocked, IncrementRefCount, posterRest, eventVars, frameworkVars, historyVars, binderVars
<1>2. scoped[s] = "none"
  BY DEF CreateScopedLocked, PosterInv, TokenInv
<1>3. LiveTokens' = LiveTokens \cup {s} /\ s \notin LiveTokens
  BY <1>1, <1>2 DEF LiveTokens, TypeInv, TypeOK, WakelockTypeOK
<1>4. IsFiniteSet(LiveTokens)
  BY DEF CountInv
<1>5. IsFiniteSet(LiveTokens') /\ Cardinality(LiveTokens') = Cardinality(LiveTokens) + 1
  BY <1>3, <1>4, FS_AddElement
<1>6. InTransit' = InTransit
  BY <1>1, TransitKept
<1>7. refCount \in Nat /\ Outstanding \in Nat /\ Cardinality(LiveTokens) \in Nat
      /\ WakeupsIn(InTransit) \in Nat /\ Total(wakeQueue) \in Nat /\ unacked \in Nat
  BY <1>4, OutstandingTypes
<1>8. Outstanding' = Outstanding + 1
  BY <1>1, <1>5, <1>6, <1>7, OutstandingIs, SMTT(30)
<1>9. WritersKept
  BY <1>1, PosterMoves
<1>10. refCount' >= refCount + 1 /\ refCount' \in Nat
  BY <1>1, <1>7
<1>11. Counting' => Counting
  BY <1>1 DEF Counting
<1>12. binderPc' = "start" => unacked' = 0
  BY <1>1 DEF CountInv
<1> QED
  BY <1>5, <1>8, <1>9, <1>10, <1>11, <1>12, CountKept

LEMMA CountReleases ==
  ASSUME TypeInv, CountInv, NEW s \in SubHals, ReleaseScoped(s)
  PROVE  CountInv'
<1>1. /\ UNCHANGED <<eventQueue, pending, writerPc, unacked, wakeQueue, threadsRun, timedOut, overDropped,
                     binderPc>>
      /\ batch' = [batch EXCEPT ![s] = <<>>]
      /\ Goto(s, "idle")
  BY DEF ReleaseScoped, eventVars, frameworkVars, historyVars, binderVars
<1>2. InTransit' = InTransit
  BY <1>1, TransitKept
<1>3. WritersKept
  <2>1. \A t \in SubHals : t # s => batch'[t] = batch[t]
    BY <1>1 DEF TypeInv, TypeOK
  <2> QED
    BY <1>1, <2>1, PosterMoves
<1>4. Counting' => Counting
  BY <1>1 DEF Counting
<1>5. CASE scoped[s] = "none"
  <2>1. refCount' = refCount /\ scoped' = scoped
    BY <1>5 DEF ReleaseScoped
  <2> QED
    BY <1>1, <1>2, <1>3, <1>4, <2>1, SameIfUnchanged, CountUntouched
<1>6. CASE scoped[s] # "none"
  <2>1. DecrementRefCount(1, scoped[s] = "stale") /\ scoped' = [scoped EXCEPT ![s] = "none"]
    BY <1>6 DEF ReleaseScoped
  <2>2. refCount' \in Nat /\ refCount' >= refCount - 1
    BY <2>1, DecrementCovers
  <2>3. LiveTokens' = LiveTokens \ {s} /\ s \in LiveTokens
    BY <1>6, <2>1 DEF LiveTokens, TypeInv, TypeOK, WakelockTypeOK
  <2>4. IsFiniteSet(LiveTokens)
    BY DEF CountInv
  <2>5. IsFiniteSet(LiveTokens') /\ Cardinality(LiveTokens') = Cardinality(LiveTokens) - 1
    BY <2>3, <2>4, FS_RemoveElement
  <2>6. refCount \in Nat /\ Outstanding \in Nat /\ Cardinality(LiveTokens) \in Nat
        /\ WakeupsIn(InTransit) \in Nat /\ Total(wakeQueue) \in Nat /\ unacked \in Nat
    BY <2>4, OutstandingTypes
  <2>7. Outstanding' = Outstanding + (-1)
    BY <1>1, <1>2, <2>5, <2>6, OutstandingIs, SMTT(30)
  <2>8. refCount' >= refCount + (-1) /\ -1 \in Int
    BY <2>2, <2>6
  <2>9. binderPc' = "start" => unacked' = 0
    BY <1>1 DEF CountInv
  <2> QED
    BY <1>3, <1>4, <2>2, <2>5, <2>7, <2>8, <2>9, CountKept
<1> QED
  BY <1>5, <1>6

LEMMA CountCounts ==
  ASSUME TypeInv, PosterInv, CountInv, NEW s \in SubHals, CountBatchLocked(s)
  PROVE  CountInv'
<1>1. /\ UNCHANGED <<eventQueue, pending, writerPc, unacked, wakeQueue, threadsRun, timedOut, overDropped,
                     batch, binderPc, scoped>>
      /\ refCount' = refCount + NumWakeups(batch[s])
      /\ Goto(s, "write")
  BY DEF CountBatchLocked, IncrementRefCount, posterRest, eventVars, frameworkVars, historyVars, binderVars
<1>2. InTransit' = InTransit /\ LiveTokens' = LiveTokens
  BY <1>1, TransitKept, TokensKept, SameIfUnchanged
<1>3. Outstanding' = Outstanding
  BY <1>1, <1>2, OutstandingIs, SMTT(30)
<1>4. refCount \in Nat /\ Outstanding \in Nat /\ NumWakeups(batch[s]) \in Nat
  BY OutstandingTypes, NumWakeupsIsNat DEF CountInv, TypeInv, TypeOK
<1>5. posterPc' = [posterPc EXCEPT ![s] = "write"] /\ posterPc \in [SubHals -> PosterPcs]
  BY <1>1 DEF Goto, TypeInv, TypeOK
<1>6. \A t \in SubHals : posterPc'[t] = "write" => t = s
  <2>1. \A t \in SubHals : posterPc[t] = "write" => t = s
    BY DEF CountBatchLocked, PosterInv, MutexInv, InSection
  <2> QED
    BY <1>5, <2>1
<1>7. ASSUME Counting' PROVE refCount' >= Outstanding' /\ \A t \in SubHals : WriterCovered(t)'
  <2>1. refCount >= Outstanding
    BY <1>1, <1>7 DEF Counting, CountInv
  <2>2. refCount' >= Outstanding' + NumWakeups(batch[s]) /\ refCount' >= Outstanding'
    BY <1>1, <1>3, <1>4, <2>1
  <2>3. \A t \in SubHals : NumWakeups(batch[t])' = NumWakeups(batch[t])
    BY <1>1 DEF NumWakeups
  <2> QED
    BY <1>6, <2>2, <2>3 DEF WriterCovered
<1> QED
  BY <1>1, <1>2, <1>7 DEF CountInv

LEMMA CountWrites ==
  ASSUME TypeInv, PosterInv, CountInv, NEW s \in SubHals, WriteEvents(s)
  PROVE  CountInv'
<1> DEFINE events == Stamped(batch[s])
           n == NumWakeups(batch[s])
<1>1. /\ UNCHANGED <<unacked, wakeQueue, threadsRun, timedOut, overDropped, batch, binderPc, scoped, refCount>>
      /\ Goto(s, "release") /\ posterPc[s] = "write"
      /\ WriteOrQueue(events, n)
      /\ batch[s] \in Seq(BOOLEAN) /\ nextStamp \in Nat
  BY DEF WriteEvents, posterRest, frameworkVars, historyVars, binderVars, wakelockVars, TypeInv, TypeOK
<1>2. events \in Seq(Event) /\ Len(events) \in Nat /\ n \in Nat /\ WakeupsIn(events) = n
  BY <1>1, StampedIsSeq, NumWakeupsIsNat, WakeupsStamped
<1> HIDE DEF events, n
<1>3. PICK k \in 0 .. Len(events) : InTransit' = InTransit \o SubSeq(events, 1, k)
  BY <1>1, <1>2, TransitPosted
<1>4. /\ SubSeq(events, 1, k) \in Seq(Event)
      /\ WakeupsIn(SubSeq(events, 1, k)) \in Nat
      /\ WakeupsIn(SubSeq(events, 1, k)) <= n
  <2>1. /\ WakeupsIn(events) = WakeupsIn(SubSeq(events, 1, k))
                                 + WakeupsIn(SubSeq(events, k + 1, Len(events)))
        /\ WakeupsIn(SubSeq(events, 1, k)) \in Nat
        /\ WakeupsIn(SubSeq(events, k + 1, Len(events))) \in Nat
    BY <1>2, WakeupsSplit
  <2>2. SubSeq(events, 1, k) \in Seq(Event)
    BY <1>2, Split
  <2> QED
    BY <1>2, <2>1, <2>2, SMTT(30)
<1>5. InTransit \in Seq(Event) /\ WakeupsIn(InTransit) \in Nat
  BY QueueTypes, WakeupsIs
<1>6. WakeupsIn(InTransit') = WakeupsIn(InTransit) + WakeupsIn(SubSeq(events, 1, k))
  BY <1>3, <1>4, <1>5, WakeupsConcat
<1>7. LiveTokens' = LiveTokens
  BY <1>1, TokensKept, SameIfUnchanged
<1>8. /\ refCount \in Nat /\ Outstanding \in Nat /\ Cardinality(LiveTokens) \in Nat
      /\ Total(wakeQueue) \in Nat /\ unacked \in Nat
  BY OutstandingTypes DEF CountInv
<1>9. Outstanding' = Outstanding + WakeupsIn(SubSeq(events, 1, k))
  BY <1>1, <1>5, <1>6, <1>4, <1>7, <1>8, OutstandingIs, SMTT(30)
<1>10. \A t \in SubHals : posterPc'[t] # "write"
  <2>1. \A t \in SubHals : posterPc[t] = "write" => t = s
    BY <1>1 DEF PosterInv, MutexInv, InSection
  <2> QED
    BY <1>1, <2>1 DEF Goto, TypeInv, TypeOK
<1>11. ASSUME Counting' PROVE refCount' >= Outstanding'
  <2>1. refCount >= Outstanding + n
    BY <1>1, <1>11 DEF Counting, CountInv, WriterCovered, n
  <2> QED
    BY <1>1, <1>2, <1>4, <1>8, <1>9, <2>1
<1> QED
  BY <1>1, <1>7, <1>10, <1>11 DEF CountInv, WriterCovered

LEMMA CountByPosters ==
  ASSUME TypeInv, PosterInv, CountInv, NEW s \in SubHals, PosterStep(s)
  PROVE  CountInv'
<1> USE DEF posterRest, eventVars, frameworkVars, historyVars, binderVars, wakelockVars
<1>1. CASE CreateScopedLocked(s)
  BY <1>1, CountCreates
<1>2. CASE ReleaseScoped(s)
  BY <1>2, CountReleases
<1>3. CASE CountBatchLocked(s)
  BY <1>3, CountCounts
<1>4. CASE WriteEvents(s)
  BY <1>4, CountWrites
<1>5. ASSUME UNCHANGED <<wakelockVars, eventVars, batch, binderVars, frameworkVars, historyVars>>,
             Counting => WritersKept
      PROVE  CountInv'
  <2>1. InTransit' = InTransit /\ SameLocks /\ (Counting' => Counting)
    BY <1>5, TransitKept, SameIfUnchanged DEF Counting
  <2> QED
    BY <1>5, <2>1, CountUntouched
<1>6. CASE CreateScoped(s)
  <2>1. PICK pc \in {"createLocked", "post"} : Goto(s, pc)
    BY <1>6 DEF CreateScoped
  <2>2. batch' = batch
    BY <1>6 DEF CreateScoped
  <2>3. WritersKept
    BY <2>1, <2>2, PosterMoves
  <2> QED
    BY <1>5, <1>6, <2>3 DEF CreateScoped
<1>7. CASE PostEvents(s)
  <2>1. PICK pc \in {"release", "lock"} : Goto(s, pc)
    BY <1>7 DEF PostEvents
  <2>2. batch' = batch
    BY <1>7 DEF PostEvents
  <2>3. WritersKept
    BY <2>1, <2>2, PosterMoves
  <2> QED
    BY <1>5, <1>7, <2>3 DEF PostEvents
<1>8. CASE LockWriteMutex(s)
  <2>1. /\ posterPc[s] = "lock" /\ batch' = batch
        /\ posterPc' = [posterPc EXCEPT ![s] = IF scoped[s] # "none" THEN "inc" ELSE "write"]
    BY <1>8 DEF LockWriteMutex, Goto
  <2>2. scoped[s] = "none" => NumWakeups(batch[s]) = 0
    <3>1. NumWakeups(batch[s]) \in Nat
      BY NumWakeupsIsNat DEF TypeInv, TypeOK
    <3>2. NumWakeups(batch[s]) > 0 <=> scoped[s] # "none"
      BY <2>1 DEF PosterInv, AssertionsHold
    <3> QED
      BY <3>1, <3>2
  <2>3. WritersKept
    <3> SUFFICES ASSUME NEW t \in SubHals, posterPc'[t] = "write"
                 PROVE  (posterPc[t] = "write" /\ batch'[t] = batch[t]) \/ NumWakeups(batch'[t]) = 0
      BY DEF WritersKept
    <3>1. CASE t = s
      <4>1. scoped[s] = "none"
        BY <2>1, <3>1 DEF TypeInv, TypeOK
      <4>2. NumWakeups(batch[s]) = 0
        BY <2>2, <4>1
      <4> QED
        BY <2>1, <3>1, <4>2
    <3>2. CASE t # s
      BY <2>1, <3>2 DEF TypeInv, TypeOK
    <3> QED
      BY <3>1, <3>2
  <2> QED
    BY <1>5, <1>8, <2>3 DEF LockWriteMutex
<1>9. CASE CountBatch(s)
  <2>1. Counting => WritersKept
    <3> SUFFICES ASSUME Counting PROVE WritersKept
      OBVIOUS
    <3>1. Goto(s, "incLocked") /\ batch' = batch
      BY <1>9 DEF CountBatch, Counting
    <3> QED
      BY <3>1, PosterMoves
  <2> QED
    BY <1>5, <1>9, <2>1 DEF CountBatch
<1> QED
  BY <1>1, <1>2, <1>3, <1>4, <1>6, <1>7, <1>8, <1>9 DEF PosterStep

\* What the writer gives up for the chunk it drops is no more than that chunk's
\* count, unless it over-dropped.
LEMMA CountDrops ==
  ASSUME TypeInv, CountInv, WriterDropping, UNCHANGED proxyRest
  PROVE  CountInv'
<1> DEFINE front == FrontBatch
           others == EventsIn(Tail(pending))
           lost == SubSeq(front.events, 1, Chunk)
           left == AfterChunk(front)
           c == CountNumWakeupEvents(front.events, Chunk)
<1>1. /\ UNCHANGED <<unacked, wakeQueue, threadsRun, timedOut, batch, binderPc, scoped, posterPc>>
      /\ WriterDrop /\ DecrementRefCount(DropCount, FALSE)
      /\ overDropped' = (overDropped \/ DropCount > c)
  BY DEF WriterDropping, WriterDrop, proxyRest, posterVars, binderVars, frameworkVars
<1>2. /\ pending \in Seq(Batch) /\ pending # <<>> /\ eventQueue \in Seq(Event)
      /\ front \in Batch /\ Tail(pending) \in Seq(Batch)
      /\ Chunk \in 0 .. Len(front.events)
  <2>1. pending \in Seq(Batch) /\ pending # <<>> /\ eventQueue \in Seq(Event)
    BY <1>1 DEF WriterDrop, WriterHasBatch, TypeInv, TypeOK, EventQueueTypeOK
  <2>2. front \in Batch /\ Tail(pending) \in Seq(Batch)
    BY <2>1 DEF FrontBatch
  <2>3. Chunk \in Nat /\ Chunk <= Len(front.events)
    BY <1>1, ChunkInFront DEF WriterDrop
  <2>4. Len(front.events) \in Nat
    BY <2>2 DEF Batch
  <2> QED
    BY <2>1, <2>2, <2>3, <2>4
<1>3. front.events \in Seq(Event) /\ others \in Seq(Event)
  BY <1>2, EventsInIsSeq DEF Batch
<1>4. left = SubSeq(front.events, Chunk + 1, Len(front.events))
  BY <1>2 DEF AfterChunk, Chunk
<1>5. /\ InTransit = eventQueue \o (front.events \o others)
      /\ InTransit' = eventQueue \o (left \o others)
  BY <1>1, TransitDropped
<1> HIDE DEF front, others
<1>6. /\ WakeupsIn(front.events) = WakeupsIn(lost) + WakeupsIn(left)
      /\ WakeupsIn(lost) = c /\ c \in Nat /\ WakeupsIn(left) \in Nat /\ left \in Seq(Event)
  <2>1. /\ WakeupsIn(front.events)
             = WakeupsIn(lost) + WakeupsIn(SubSeq(front.events, Chunk + 1, Len(front.events)))
        /\ WakeupsIn(lost) = c /\ WakeupsIn(lost) \in Nat
        /\ WakeupsIn(SubSeq(front.events, Chunk + 1, Len(front.events))) \in Nat
    BY <1>2, <1>3, WakeupsSplit
  <2>2. SubSeq(front.events, Chunk + 1, Len(front.events)) \in Seq(Event)
    BY <1>2, <1>3, Split
  <2> QED
    BY <1>4, <2>1, <2>2
<1> HIDE DEF left, lost, c
<1>7. WakeupsIn(InTransit') = WakeupsIn(InTransit) - c /\ WakeupsIn(InTransit) \in Nat
  <2>1. /\ front.events \o others \in Seq(Event) /\ left \o others \in Seq(Event)
    BY <1>3, <1>6, ConcatProperties
  <2>2. /\ WakeupsIn(front.events \o others) = WakeupsIn(front.events) + WakeupsIn(others)
        /\ WakeupsIn(left \o others) = WakeupsIn(left) + WakeupsIn(others)
    BY <1>3, <1>6, WakeupsConcat
  <2>3. WakeupsIn(InTransit) = WakeupsIn(eventQueue) + WakeupsIn(front.events \o others)
    BY <1>2, <1>5, <2>1, WakeupsConcat
  <2>4. WakeupsIn(InTransit') = WakeupsIn(eventQueue) + WakeupsIn(left \o others)
    BY <1>2, <1>5, <2>1, WakeupsConcat
  <2>5. WakeupsIn(eventQueue) \in Nat /\ WakeupsIn(others) \in Nat
    BY <1>2, <1>3, WakeupsIs
  <2> QED
    BY <1>6, <2>2, <2>3, <2>4, <2>5
<1>8. LiveTokens' = LiveTokens
  BY <1>1, TokensKept, SameIfUnchanged
<1>9. /\ refCount \in Nat /\ Outstanding \in Nat /\ Cardinality(LiveTokens) \in Nat
      /\ Total(wakeQueue) \in Nat /\ unacked \in Nat
  BY OutstandingTypes DEF CountInv
<1>10. Outstanding' = Outstanding + (-c)
  BY <1>1, <1>6, <1>7, <1>8, <1>9, OutstandingIs, SMTT(30)
<1>11. refCount' \in Nat /\ refCount' >= refCount - DropCount /\ DropCount \in Nat
  BY <1>1, DropCountIsNat, DecrementCovers DEF WriterDrop
<1>12. ~overDropped' => refCount' >= refCount + (-c)
  <2>1. ~overDropped' => ~(DropCount > c)
    BY <1>1, Zenon
  <2>2. ~(DropCount > c) => refCount' >= refCount + (-c)
    BY <1>6, <1>9, <1>11
  <2> QED
    BY <2>1, <2>2
<1>13. -c \in Int
  BY <1>6
<1>14. WritersKept
  BY <1>1 DEF WritersKept
<1>15. Counting' => Counting /\ ~overDropped'
  BY <1>1 DEF Counting
<1>16. binderPc' = "start" => unacked' = 0
  BY <1>1 DEF CountInv
<1> QED
  BY <1>8, <1>10, <1>11, <1>12, <1>13, <1>14, <1>15, <1>16, CountKept DEF CountInv

LEMMA CountByThreads ==
  ASSUME TypeInv, CountInv, WriterStep \/ WakelockStep \/ SpuriousWakeup \/ Clock
  PROVE  CountInv'
<1> USE DEF eventVars, frameworkVars, historyVars, binderVars, wakelockVars, posterVars, proxyRest
<1>1. UNCHANGED <<posterPc, batch, binderPc, unacked, threadsRun>>
  <2>1. UNCHANGED <<posterPc, batch, binderPc, unacked>>
    BY DEF WriterStep, WakelockStep, SpuriousWakeup, Clock
  <2>2. threadsRun' = threadsRun
    BY DEF WriterStep, WriterLocking, WriterCheck, WriterFinish, WriterBlock, WriterWriting, WriterWrite,
           WriterDropping, WriterDrop, WakelockStep, WakelockThreadStep, WakelockThreadExit,
           WakelockThreadIdle, WakelockThreadBlock, WakelockThreadTimeout, WakelockThreadWait,
           WakelockThreadRead, WakelockThreadReadTimeout, SpuriousWakeup, WriterSpurious,
           WakelockThreadSpurious, Clock, Tick
  <2> QED
    BY <2>1, <2>2
<1>2. WritersKept
  BY <1>1 DEF WritersKept
<1>3. ASSUME InTransit' = InTransit, UNCHANGED <<wakeQueue, refCount, timedOut, overDropped>>, SameLocks
      PROVE  CountInv'
  BY <1>1, <1>2, <1>3, CountUntouched DEF Counting
<1>4. ASSUME UNCHANGED <<eventQueue, pending>>, writerPc' = "finish" <=> writerPc = "finish",
             UNCHANGED <<wakeQueue, refCount, timedOut, overDropped>>, SameLocks
      PROVE  CountInv'
  BY <1>3, <1>4, TransitKept
<1>5. CASE WriterStep
  <2>1. CASE WriterDropping
    BY <1>5, <2>1, CountDrops DEF WriterStep
  <2>2. CASE WriterWriting \/ (WriterLocking /\ WriterFinish)
    <3>1. UNCHANGED <<wakeQueue, refCount, timedOut, overDropped>> /\ scoped' = scoped
      BY <2>2 DEF WriterWriting, WriterWrite, WriterLocking, WriterFinish
    <3>2. InTransit' = InTransit
      BY <2>2, TransitMoved DEF WriterWriting
    <3> QED
      BY <1>3, <3>1, <3>2, SameIfUnchanged
  <2>3. CASE WriterLocking /\ WriterCheck
    BY <1>4, <2>3, SameIfUnchanged DEF WriterLocking, WriterCheck, LoopHead
  <2>4. CASE WriterBlock /\ UNCHANGED historyVars
    BY <1>4, <2>4, SameIfUnchanged DEF WriterBlock
  <2> QED
    BY <1>5, <2>1, <2>2, <2>3, <2>4 DEF WriterStep, WriterLocking
<1>6. CASE WakelockStep
  <2>0. UNCHANGED <<eventQueue, pending, writerPc, overDropped>>
        /\ timedOut' = (timedOut \/ (wakelockPc = "check" /\ threadsRun /\ refCount > 0 /\ DidTimeout))
    BY <1>6 DEF WakelockStep
  <2>1. CASE WakelockThreadExit
    <3>1. ~Counting'
      BY <1>1, <2>1 DEF WakelockThreadExit, Counting
    <3>2. SameLocks
      BY <2>1, ResetSameLocks DEF WakelockThreadExit
    <3> QED
      BY <1>1, <3>1, <3>2, CountIdle DEF CountInv
  <2>2. CASE WakelockThreadTimeout
    <3>1. ~Counting'
      BY <2>0, <2>2 DEF WakelockThreadTimeout, Counting
    <3>2. SameLocks
      BY <2>2, ResetSameLocks DEF WakelockThreadTimeout
    <3> QED
      BY <1>1, <3>1, <3>2, CountIdle DEF CountInv
  <2>3. CASE WakelockThreadRead
    <3> DEFINE n == Head(wakeQueue)
    <3>1. /\ DecrementRefCount(n, FALSE) /\ wakeQueue' = Tail(wakeQueue) /\ wakeQueue # <<>>
          /\ scoped' = scoped
      BY <2>3 DEF WakelockThreadRead
    <3>2. wakeQueue \in Seq(Nat) /\ n \in Nat
      BY <3>1 DEF TypeInv, TypeOK, WakelockTypeOK
    <3> HIDE DEF n
    <3>3. Total(wakeQueue) = n + Total(wakeQueue')
      BY <3>1, <3>2, TotalTail DEF n
    <3>4. refCount' \in Nat /\ refCount' >= refCount - n
      BY <3>1, <3>2, DecrementCovers
    <3>5. InTransit' = InTransit /\ LiveTokens' = LiveTokens
      BY <2>0, <3>1, TransitKept, TokensKept, SameIfUnchanged
    <3>6. /\ refCount \in Nat /\ Outstanding \in Nat /\ Cardinality(LiveTokens) \in Nat
          /\ Total(wakeQueue) \in Nat /\ unacked \in Nat /\ WakeupsIn(InTransit) \in Nat
      BY OutstandingTypes DEF CountInv
    <3>7. Total(wakeQueue') \in Nat
      <4>1. wakeQueue' \in Seq(Nat)
        BY <3>1, <3>2
      <4> QED
        BY <4>1, TotalIsNat
    <3>8. Outstanding' = Outstanding + (-n)
      BY <1>1, <3>2, <3>3, <3>5, <3>6, <3>7, OutstandingIs, SMTT(30)
    <3>9. refCount' >= refCount + (-n) /\ -n \in Int
      BY <3>2, <3>4, <3>6
    <3>10. Counting' => Counting
      BY <1>1, <2>0 DEF Counting
    <3> QED
      BY <1>1, <1>2, <3>4, <3>5, <3>8, <3>9, <3>10, CountKept DEF CountInv
  <2>4. CASE WakelockThreadIdle \/ WakelockThreadBlock \/ WakelockThreadWait \/ WakelockThreadReadTimeout
    <3>1. UNCHANGED <<wakeQueue, refCount>> /\ scoped' = scoped
      BY <2>4 DEF WakelockThreadIdle, WakelockThreadBlock, WakelockThreadWait, WakelockThreadReadTimeout
    <3>2. timedOut' = timedOut
      BY <2>0, <2>4 DEF WakelockThreadIdle, WakelockThreadBlock, WakelockThreadWait,
                        WakelockThreadReadTimeout, TypeInv, TypeOK
    <3> QED
      BY <1>4, <2>0, <3>1, <3>2, SameIfUnchanged
  <2> QED
    BY <1>6, <2>1, <2>2, <2>3, <2>4 DEF WakelockStep, WakelockThreadStep
<1>7. CASE SpuriousWakeup
  BY <1>4, <1>7, SameIfUnchanged DEF SpuriousWakeup, WriterSpurious, WakelockThreadSpurious
<1>8. CASE Clock
  <2>1. SameLocks
    BY <1>8 DEF Clock, Tick, SameLocks
  <2>2. UNCHANGED <<eventQueue, pending, writerPc, wakeQueue, refCount, timedOut, overDropped>>
    BY <1>8 DEF Clock, Tick
  <2> QED
    BY <1>4, <2>1, <2>2
<1> QED
  BY <1>5, <1>6, <1>7, <1>8

LEMMA CountByInitialize ==
  ASSUME TypeInv, PosterInv, JoinedInv, FifoInv, CountInv, InitializeStep
  PROVE  CountInv'
<1> USE DEF eventVars, frameworkVars, historyVars, binderVars, wakelockVars, posterVars, binderRest, Binder
<1>1. CASE StartThreads
  <2>1. /\ UNCHANGED <<eventQueue, pending, writerPc, wakeQueue, unacked, scoped, refCount, posterPc>>
        /\ binderPc = "start" /\ binderPc' = "spawn"
    BY <1>1 DEF StartThreads
  <2>2. InTransit' = <<>> /\ wakeQueue' = <<>> /\ unacked' = 0
    <3>1. InTransit = <<>> /\ wakeQueue = <<>>
      BY <2>1, NothingInTransit DEF JoinedInv
    <3> QED
      BY <2>1, <3>1, TransitKept DEF CountInv
  <2>3. \A s \in SubHals : posterPc[s] = "idle" /\ scoped[s] = "none"
    BY <2>1 DEF PosterInv, QuietInv, TokenInv
  <2>4. LiveTokens' = {}
    BY <2>1, <2>3 DEF LiveTokens
  <2>5. IsFiniteSet(LiveTokens') /\ Cardinality(LiveTokens') = 0
    BY <2>4, FS_EmptySet
  <2>6. Outstanding' = 0
    BY <2>2, <2>5, OutstandingIs, WakeupsNone, TotalOfNone
  <2>7. refCount' >= 0
    BY <2>1 DEF TypeInv, TypeOK, WakelockTypeOK
  <2>8. \A s \in SubHals : posterPc'[s] # "write"
    BY <2>1, <2>3
  <2> QED
    BY <2>1, <2>5, <2>6, <2>7, <2>8 DEF CountInv, WriterCovered
<1>2. CASE SpawnThreads
  <2>1. writerPc \in {"off", "exited"} /\ binderPc' = "idle"
    BY <1>2 DEF SpawnThreads, JoinedInv
  <2>2. UNCHANGED <<eventQueue, pending, unacked, wakeQueue, refCount, scoped, threadsRun, timedOut,
                    overDropped, posterPc, batch>> /\ writerPc' = "check"
    BY <1>2 DEF SpawnThreads
  <2>3. InTransit' = InTransit
    BY <2>1, <2>2, TransitKept
  <2>4. WritersKept /\ (Counting' => Counting)
    BY <2>2 DEF WritersKept, Counting
  <2> QED
    BY <2>1, <2>2, <2>3, <2>4, SameIfUnchanged, CountUntouched
<1>3. CASE InitializeReset
  <2>1. ~Counting'
    BY <1>3 DEF InitializeReset, FifoInv, DownInv, Counting
  <2>2. SameLocks
    BY <1>3, ResetSameLocks DEF InitializeReset
  <2>3. binderPc' # "start"
    BY <1>3 DEF InitializeReset
  <2> QED
    BY <2>1, <2>2, <2>3, CountIdle
<1>4. CASE InitializeQueues
  BY <1>4, SameIfUnchanged, CountIdle DEF InitializeQueues, FifoInv, DownInv, Counting
<1>5. CASE \/ StopDrain \/ StopPoke \/ StopNotifyWakelock \/ StopNotifyWriter \/ StopJoin
           \/ DisableAllSensorsDone
  <2>1. binderPc \notin {"idle", "spawn"} /\ binderPc' # "start" /\ scoped' = scoped
        /\ threadsRun' = threadsRun
    BY <1>5 DEF StopDrain, StopPoke, StopNotifyWakelock, StopNotifyWriter, StopJoin, DisableAllSensorsDone
  <2> QED
    BY <2>1, SameIfUnchanged, CountIdle DEF FifoInv, DownInv, Counting
<1>6. ASSUME NEW s \in SubHals, DisableSensor(s) PROVE CountInv'
  <2>1. binderPc = "disable" /\ binderPc' = binderPc /\ scoped' = scoped /\ threadsRun' = threadsRun
    BY <1>6 DEF DisableSensor
  <2> QED
    BY <2>1, SameIfUnchanged, CountIdle DEF FifoInv, DownInv, Counting
<1> QED
  BY <1>1, <1>2, <1>3, <1>4, <1>5, <1>6 DEF InitializeStep

LEMMA CountReads ==
  ASSUME TypeInv, CountInv, FrameworkRead PROVE CountInv'
<1>1. /\ UNCHANGED <<pending, writerPc, wakeQueue, refCount, scoped, threadsRun, timedOut, overDropped,
                     posterPc, batch>>
      /\ binderPc = "idle" /\ binderPc' = "idle"
  BY DEF FrameworkRead, wakelockVars, binderVars, historyVars, binderRest, posterVars
<1>2. PICK n \in 1 .. Len(eventQueue) :
        /\ eventQueue' = SubSeq(eventQueue, n + 1, Len(eventQueue))
        /\ unacked' = unacked + CountNumWakeupEvents(eventQueue, n)
  BY DEF FrameworkRead
<1>3. eventQueue \in Seq(Event) /\ n \in 0 .. Len(eventQueue)
  BY QueueTypes
<1> DEFINE rest == SubSeq(eventQueue, n + 1, Len(eventQueue))
           waiting == NotWrittenOf(writerPc, pending)
           c == CountNumWakeupEvents(eventQueue, n)
<1>4. waiting \in Seq(Event) /\ rest \in Seq(Event)
      /\ InTransit = eventQueue \o waiting /\ InTransit' = rest \o waiting
  <2>1. waiting \in Seq(Event) /\ InTransit = eventQueue \o waiting
    BY QueueTypes, InTransitIs
  <2>2. rest \in Seq(Event)
    BY <1>3, Split
  <2>3. InTransit' = rest \o waiting
    BY <1>1, <1>2, InTransitIs
  <2> QED
    BY <2>1, <2>2, <2>3
<1>5. WakeupsIn(eventQueue) = c + WakeupsIn(rest) /\ c \in Nat /\ WakeupsIn(rest) \in Nat
  <2>1. /\ WakeupsIn(eventQueue) = WakeupsIn(SubSeq(eventQueue, 1, n)) + WakeupsIn(rest)
        /\ WakeupsIn(SubSeq(eventQueue, 1, n)) = c
        /\ WakeupsIn(SubSeq(eventQueue, 1, n)) \in Nat /\ WakeupsIn(rest) \in Nat
    BY <1>3, WakeupsSplit
  <2> QED
    BY <2>1
<1> HIDE DEF rest, waiting, c
<1>6. /\ WakeupsIn(InTransit) = WakeupsIn(eventQueue) + WakeupsIn(waiting)
      /\ WakeupsIn(InTransit') = WakeupsIn(rest) + WakeupsIn(waiting)
      /\ WakeupsIn(waiting) \in Nat
  BY <1>3, <1>4, WakeupsConcat, WakeupsIs
<1>7. LiveTokens' = LiveTokens
  BY <1>1, TokensKept, SameIfUnchanged
<1>8. /\ refCount \in Nat /\ Outstanding \in Nat /\ Cardinality(LiveTokens) \in Nat
      /\ Total(wakeQueue) \in Nat /\ unacked \in Nat
  BY OutstandingTypes DEF CountInv
<1>9. unacked' = unacked + c
  BY <1>2 DEF c
<1>10. Outstanding' = Outstanding + 0
  BY <1>1, <1>5, <1>6, <1>7, <1>8, <1>9, OutstandingIs, SMTT(30)
<1>11. WritersKept /\ (Counting' => Counting)
  BY <1>1 DEF WritersKept, Counting
<1>12. refCount' >= refCount + 0 /\ 0 \in Int /\ refCount' \in Nat
  BY <1>1, <1>8
<1> QED
  BY <1>1, <1>7, <1>10, <1>11, <1>12, CountKept DEF CountInv

LEMMA CountReports ==
  ASSUME TypeInv, CountInv, FrameworkAck PROVE CountInv'
<1>1. /\ UNCHANGED <<eventQueue, pending, writerPc, refCount, scoped, threadsRun, timedOut, overDropped,
                     posterPc, batch>>
      /\ binderPc = "idle" /\ binderPc' = "idle"
  BY DEF FrameworkAck, eventVars, binderVars, historyVars, binderRest, posterVars
<1>2. PICK n \in 1 .. unacked :
        /\ unacked' = unacked - n
        /\ wakeQueue' = IF Len(wakeQueue) < WakeQueueSize THEN Append(wakeQueue, n) ELSE wakeQueue
  BY DEF FrameworkAck
<1>3. InTransit' = InTransit /\ LiveTokens' = LiveTokens
  BY <1>1, TransitKept, TokensKept, SameIfUnchanged
<1>4. /\ refCount \in Nat /\ Outstanding \in Nat /\ Cardinality(LiveTokens) \in Nat
      /\ Total(wakeQueue) \in Nat /\ unacked \in Nat /\ WakeupsIn(InTransit) \in Nat
  BY OutstandingTypes DEF CountInv
<1>5. n \in Nat /\ wakeQueue \in Seq(Nat)
  BY <1>4 DEF TypeInv, TypeOK, WakelockTypeOK
<1>6. Total(wakeQueue') = Total(wakeQueue) + n \/ Total(wakeQueue') = Total(wakeQueue)
  BY <1>2, <1>5, TotalAppend
<1>7. \E gain \in Int : Outstanding' = Outstanding + gain /\ refCount' >= refCount + gain
  <2>1. CASE Total(wakeQueue') = Total(wakeQueue) + n
    <3>1. Outstanding' = Outstanding + 0 /\ refCount' >= refCount + 0 /\ 0 \in Int
      BY <1>1, <1>2, <1>3, <1>4, <1>5, <2>1, OutstandingIs, SMTT(30)
    <3> QED
      BY <3>1
  <2>2. CASE Total(wakeQueue') = Total(wakeQueue)
    <3>1. Outstanding' = Outstanding + (-n) /\ refCount' >= refCount + (-n) /\ -n \in Int
      BY <1>1, <1>2, <1>3, <1>4, <1>5, <2>2, OutstandingIs, SMTT(30)
    <3> QED
      BY <3>1
  <2> QED
    BY <1>6, <2>1, <2>2
<1>8. WritersKept /\ (Counting' => Counting)
  BY <1>1 DEF WritersKept, Counting
<1> QED
  BY <1>1, <1>3, <1>4, <1>7, <1>8, CountKept DEF CountInv

LEMMA CountByFramework ==
  ASSUME TypeInv, CountInv, Framework PROVE CountInv'
<1> USE DEF eventVars, frameworkVars, historyVars, binderVars, wakelockVars, posterVars, binderRest
<1>1. CASE InitializeBegin
  BY <1>1, SameIfUnchanged, CountIdle DEF InitializeBegin, Binder, Counting
<1>2. ASSUME NEW s \in SubHals, Activate(s) PROVE CountInv'
  <2>1. UNCHANGED <<eventQueue, pending, writerPc, unacked, wakeQueue, refCount, scoped, threadsRun,
                    timedOut, overDropped, posterPc, batch, binderPc>>
    BY <1>2 DEF Activate
  <2>2. InTransit' = InTransit /\ WritersKept /\ (Counting' => Counting)
    BY <2>1, TransitKept DEF WritersKept, Counting
  <2> QED
    BY <2>1, <2>2, SameIfUnchanged, CountUntouched
<1>3. ASSUME NEW s \in SubHals, PostBegin(s) PROVE CountInv'
  <2>1. UNCHANGED <<eventQueue, pending, writerPc, unacked, wakeQueue, refCount, scoped, threadsRun,
                    timedOut, overDropped, binderPc>>
    BY <1>3 DEF PostBegin
  <2>2. PICK pc \in {"create", "post"} : Goto(s, pc)
    BY <1>3 DEF PostBegin
  <2>3. \A t \in SubHals : t # s => batch'[t] = batch[t]
    BY <1>3 DEF PostBegin, TypeInv, TypeOK
  <2>4. InTransit' = InTransit /\ WritersKept /\ (Counting' => Counting)
    BY <2>1, <2>2, <2>3, TransitKept, PosterMoves DEF Counting
  <2> QED
    BY <2>1, <2>4, SameIfUnchanged, CountUntouched
<1> QED
  BY <1>1, <1>2, <1>3, CountReads, CountReports DEF Framework

LEMMA CountNext ==
  TypeInv /\ PosterInv /\ JoinedInv /\ FifoInv /\ CountInv /\ [Next]_vars => CountInv'
<1> SUFFICES ASSUME TypeInv, PosterInv, JoinedInv, FifoInv, CountInv, [Next]_vars PROVE CountInv'
  OBVIOUS
<1>1. CASE UNCHANGED vars
  <2>1. UNCHANGED <<eventQueue, pending, writerPc, unacked, wakeQueue, refCount, scoped, threadsRun,
                    timedOut, overDropped, posterPc, batch, binderPc>>
    BY <1>1 DEF vars, eventVars, frameworkVars, historyVars, binderVars, wakelockVars, posterVars
  <2>2. InTransit' = InTransit /\ WritersKept /\ (Counting' => Counting)
    BY <2>1, TransitKept DEF WritersKept, Counting
  <2> QED
    BY <2>1, <2>2, SameIfUnchanged, CountUntouched
<1> QED
  BY <1>1, CountByPosters, CountByThreads, CountByInitialize, CountByFramework DEF Next

LEMMA CountInit == Init => CountInv
<1> SUFFICES ASSUME Init PROVE CountInv
  OBVIOUS
<1>1. LiveTokens = {}
  BY DEF Init, WakelockInit, LiveTokens
<1>2. IsFiniteSet(LiveTokens) /\ Cardinality(LiveTokens) = 0
  BY <1>1, FS_EmptySet
<1>3. /\ InTransit = <<>> /\ wakeQueue = <<>> /\ unacked = 0 /\ refCount = 0
      /\ \A s \in SubHals : posterPc[s] = "idle"
  BY NothingInTransit DEF Init, EventQueueInit, WakelockInit
<1>4. Outstanding = 0
  BY <1>2, <1>3, WakeupsNone, TotalOfNone DEF Outstanding
<1> QED
  BY <1>2, <1>3, <1>4 DEF CountInv, WriterCovered

LEMMA CountInvariant == Spec => []CountInv
BY CountInit, CountNext, TypeInvariant, PosterInvariant, JoinedInvariant, FifoInvariant, PTL DEF Spec

(***************************************************************************)
(* While the threads run, the reference count covers every WAKE_UP event   *)
(* in transit, read or reported and every ScopedWakelock, for any number of*)
(* sub-HALs, batches and queues of any size, and any timeout: outside a    *)
(* wake lock timeout and the over-counted drop nothing makes the proxy let *)
(* the device fall asleep over an event.                                   *)
(***************************************************************************)
THEOREM CountAlwaysCovers == Spec => []CountCoversOutstanding
<1>1. CountInv => CountCoversOutstanding
  BY DEF CountInv, CountCoversOutstanding, Counting, Outstanding, Total
<1> QED
  BY <1>1, CountInvariant, PTL

\* What has to keep the device awake: a WAKE_UP event on its way to the framework,
\* one the framework has read and not reported, or a ScopedWakelock.
NeedsWakelock ==
  \/ \E i \in 1 .. Len(InTransit) : InTransit[i].wake
  \/ unacked > 0
  \/ LiveTokens # {}

LEMMA NeedIsOutstanding ==
  ASSUME TypeInv, IsFiniteSet(LiveTokens), NeedsWakelock
  PROVE  Outstanding > 0
<1>1. /\ WakeupsIn(InTransit) \in Nat /\ unacked \in Nat /\ Total(wakeQueue) \in Nat
      /\ Cardinality(LiveTokens) \in Nat
  BY OutstandingTypes
<1>2. /\ WakeupsIn(InTransit) = Cardinality(WakeAt(InTransit))
      /\ IsFiniteSet(WakeAt(InTransit))
  BY QueueTypes, WakeupsIs
<1>3. WakeAt(InTransit) # {} => WakeupsIn(InTransit) # 0
  BY <1>2, FS_EmptySet
<1>4. LiveTokens # {} => Cardinality(LiveTokens) # 0
  BY FS_EmptySet
<1>5. WakeAt(InTransit) # {} \/ unacked > 0 \/ LiveTokens # {}
  BY DEF NeedsWakelock, WakeAt
<1> QED
  BY <1>1, <1>3, <1>4, <1>5 DEF Outstanding

(***************************************************************************)
(* What the count is for: the kernel wake lock is held as long as anything *)
(* needs it, with the same two exceptions.  The device does not fall asleep*)
(* between a posting thread's call and the framework's report, whoever else*)
(* gives back the wake lock meanwhile.                                     *)
(***************************************************************************)
THEOREM AwakeWhileNeeded == Spec => [](Counting /\ NeedsWakelock => held)
<1>1. TypeInv /\ CountInv /\ HeldIffCounted => (Counting /\ NeedsWakelock => held)
  <2> SUFFICES ASSUME TypeInv, CountInv, HeldIffCounted, Counting, NeedsWakelock PROVE held
    OBVIOUS
  <2>1. Outstanding > 0 /\ refCount >= Outstanding
    BY NeedIsOutstanding DEF CountInv
  <2>2. Outstanding \in Nat /\ refCount \in Nat
    BY OutstandingTypes DEF CountInv
  <2>3. refCount > 0
    BY <2>1, <2>2
  <2> QED
    BY <2>3 DEF HeldIffCounted
<1> QED
  BY <1>1, CountInvariant, TypeInvariant, WakeLockHeldIffCounted, PTL
=============================================================================
