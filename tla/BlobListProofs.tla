--------------------------- MODULE BlobListProofs ---------------------------
(***************************************************************************)
(* The tools for proprietary-files.txt, for any list and any lines whose   *)
(* texts are ordered as BlobListAssumption says: sorting has one result,   *)
(* which files are to be pinned never changes, and an update pins these    *)
(* and no others.                                                          *)
(***************************************************************************)
EXTENDS BlobList, FiniteSetTheorems, WellFoundedInduction, TLAPS

-----------------------------------------------------------------------------
(***************************************************************************)
(* Directories, and the comparator.                                        *)
(***************************************************************************)

LEMMA PrefixIs ==
  ASSUME NEW s \in Seq(STRING), NEW t \in Seq(STRING)
  PROVE  IsPrefix(s, t) <=> Len(s) <= Len(t) /\ \A i \in 1 .. Len(s) : s[i] = t[i]
<1>1. ASSUME IsPrefix(s, t) PROVE Len(s) <= Len(t) /\ \A i \in 1 .. Len(s) : s[i] = t[i]
  <2>1. Len(s) <= Len(t) /\ SubSeq(s, 1, Len(s)) = SubSeq(t, 1, Len(s))
    BY <1>1 DEF IsPrefix
  <2>2. \A i \in 1 .. Len(s) : SubSeq(s, 1, Len(s))[i] = s[i]
    OBVIOUS
  <2>3. \A i \in 1 .. Len(s) : SubSeq(t, 1, Len(s))[i] = t[i]
    BY <2>1
  <2> QED
    BY <2>1, <2>2, <2>3
<1>2. ASSUME Len(s) <= Len(t), \A i \in 1 .. Len(s) : s[i] = t[i] PROVE IsPrefix(s, t)
  <2>1. SubSeq(s, 1, Len(s)) = SubSeq(t, 1, Len(s))
    BY <1>2
  <2> QED
    BY <1>2, <2>1 DEF IsPrefix
<1> QED
  BY <1>1, <1>2

LEMMA PrefixOrder ==
  ASSUME NEW s \in Seq(STRING), NEW t \in Seq(STRING), NEW u \in Seq(STRING)
  PROVE  /\ IsPrefix(s, s)
         /\ IsPrefix(s, t) /\ IsPrefix(t, s) => s = t
         /\ IsPrefix(s, t) /\ IsPrefix(t, u) => IsPrefix(s, u)
         /\ IsPrefix(s, u) /\ IsPrefix(t, u) => IsPrefix(s, t) \/ IsPrefix(t, s)
<1>1. IsPrefix(s, s)
  BY PrefixIs
<1>2. ASSUME IsPrefix(s, t), IsPrefix(t, s) PROVE s = t
  BY <1>2, PrefixIs
<1>3. ASSUME IsPrefix(s, t), IsPrefix(t, u) PROVE IsPrefix(s, u)
  BY <1>3, PrefixIs
<1>4. ASSUME IsPrefix(s, u), IsPrefix(t, u) PROVE IsPrefix(s, t) \/ IsPrefix(t, s)
  BY <1>4, PrefixIs
<1> QED
  BY <1>1, <1>2, <1>3, <1>4

All == ToSet(Strcoll)

LEMMA AllIs ==
  /\ Strcoll \in Seq(Line)
  /\ All = {Strcoll[i] : i \in 1 .. Len(Strcoll)}
  /\ All \subseteq Line
BY BlobListAssumption DEF BlobListAssumption, All, ToSet

LEMMA AllFinite == IsFiniteSet(All)
<1> DEFINE text == [i \in 1 .. Len(Strcoll) |-> Strcoll[i]]
<1>1. text \in Surjection(1 .. Len(Strcoll), All)
  BY AllIs DEF Surjection
<1>2. IsFiniteSet(1 .. Len(Strcoll))
  BY AllIs, FS_Interval
<1> HIDE DEF text
<1> QED
  BY <1>1, <1>2, FS_Surjection

LEMMA PositionIs ==
  ASSUME NEW x \in All
  PROVE  Position[x] \in 1 .. Len(Strcoll) /\ Strcoll[Position[x]] = x
<1>1. Position[x] = CHOOSE i \in DOMAIN Strcoll : Strcoll[i] = x
  BY DEF Position, All
<1>2. \E i \in DOMAIN Strcoll : Strcoll[i] = x
  BY DEF All, ToSet
<1>3. DOMAIN Strcoll = 1 .. Len(Strcoll)
  BY AllIs
<1> QED
  BY <1>1, <1>2, <1>3

LEMMA Directory ==
  ASSUME NEW x \in All
  PROVE  x.dir \in Seq(STRING)
BY AllIs DEF Line

\* What is in a directory or below it stands together.
LEMMA Together ==
  ASSUME NEW x \in All, NEW y \in All, NEW z \in All,
         \/ Position[x] < Position[y] /\ Position[y] < Position[z]
         \/ Position[z] < Position[y] /\ Position[y] < Position[x],
         IsPrefix(x.dir, z.dir)
  PROVE  IsPrefix(x.dir, y.dir)
<1>1. /\ Position[x] \in DOMAIN Strcoll /\ Strcoll[Position[x]] = x
      /\ Position[y] \in DOMAIN Strcoll /\ Strcoll[Position[y]] = y
      /\ Position[z] \in DOMAIN Strcoll /\ Strcoll[Position[z]] = z
  BY PositionIs, AllIs
<1>2. \A i, j, k \in DOMAIN Strcoll :
        (i < j /\ j < k) \/ (k < j /\ j < i) =>
          (IsPrefix(Strcoll[i].dir, Strcoll[k].dir) => IsPrefix(Strcoll[i].dir, Strcoll[j].dir))
  BY BlobListAssumption DEF BlobListAssumption
<1> HIDE DEF IsPrefix
<1> QED
  BY <1>1, <1>2

LEMMA BeforeTotal ==
  ASSUME NEW x \in All, NEW y \in All
  PROVE  /\ Before(x, y) \/ Before(y, x)
         /\ Before(x, y) /\ Before(y, x) => x = y
<1>1. Position[x] \in Nat /\ Position[y] \in Nat /\ (Position[x] = Position[y] => x = y)
  BY PositionIs
<1>2. ~(IsStrictPrefix(x.dir, y.dir) /\ IsStrictPrefix(y.dir, x.dir))
  BY Directory, PrefixOrder DEF IsStrictPrefix
<1> QED
  BY <1>1, <1>2 DEF Before

LEMMA BeforeTransitive ==
  ASSUME NEW x \in All, NEW y \in All, NEW z \in All, Before(x, y), Before(y, z)
  PROVE  Before(x, z)
<1>1. /\ Position[x] \in Nat /\ Position[y] \in Nat /\ Position[z] \in Nat
      /\ Position[x] = Position[y] => x = y
      /\ Position[y] = Position[z] => y = z
      /\ Position[x] = Position[z] => x = z
  BY PositionIs
<1> DEFINE In(v, w) == IsPrefix(w.dir, v.dir)
<1>2. x.dir \in Seq(STRING) /\ y.dir \in Seq(STRING) /\ z.dir \in Seq(STRING)
  BY Directory
<1>3. /\ In(x, x) /\ In(y, y) /\ In(z, z)
      /\ In(x, y) /\ In(y, x) => x.dir = y.dir
      /\ In(x, z) /\ In(z, x) => x.dir = z.dir
      /\ In(y, z) /\ In(z, y) => y.dir = z.dir
  BY <1>2, PrefixOrder
<1>4. /\ In(x, y) /\ In(y, z) => In(x, z)
      /\ In(z, x) /\ In(x, y) => In(z, y)
      /\ In(y, z) /\ In(z, x) => In(y, x)
      /\ In(z, y) /\ In(y, x) => In(z, x)
      /\ In(x, z) /\ In(z, y) => In(x, y)
      /\ In(y, x) /\ In(x, z) => In(y, z)
  BY <1>2, PrefixOrder
<1>5. /\ In(x, y) /\ In(x, z) => In(y, z) \/ In(z, y)
      /\ In(y, x) /\ In(y, z) => In(x, z) \/ In(z, x)
      /\ In(z, x) /\ In(z, y) => In(x, y) \/ In(y, x)
  BY <1>2, PrefixOrder
<1>6. /\ Before(x, y) <=> \/ In(x, y) /\ x.dir # y.dir
                          \/ ~(In(y, x) /\ x.dir # y.dir) /\ Position[x] <= Position[y]
      /\ Before(y, z) <=> \/ In(y, z) /\ y.dir # z.dir
                          \/ ~(In(z, y) /\ y.dir # z.dir) /\ Position[y] <= Position[z]
      /\ Before(x, z) <=> \/ In(x, z) /\ x.dir # z.dir
                          \/ ~(In(z, x) /\ x.dir # z.dir) /\ Position[x] <= Position[z]
  BY DEF Before, IsStrictPrefix
<1>7. /\ x.dir = y.dir => In(x, y) /\ In(y, x) /\ (In(x, z) <=> In(y, z)) /\ (In(z, x) <=> In(z, y))
      /\ y.dir = z.dir => In(y, z) /\ In(z, y) /\ (In(x, y) <=> In(x, z)) /\ (In(y, x) <=> In(z, x))
      /\ x.dir = z.dir => In(x, z) /\ In(z, x)
  BY <1>3
\* z between y and x, when x is below y.
<1>8. In(x, y) /\ Position[y] < Position[z] /\ Position[z] < Position[x] => In(z, y)
  BY Together
\* x between z and y, when y is below z.
<1>9. In(y, z) /\ Position[z] < Position[x] /\ Position[x] < Position[y] => In(x, z)
  BY Together
\* y between x and z, when z is below x.
<1>10. In(z, x) /\ Position[x] < Position[y] /\ Position[y] < Position[z] => In(y, x)
  BY Together
<1> HIDE DEF In
<1> QED
  BY <1>1, <1>3, <1>4, <1>5, <1>6, <1>7, <1>8, <1>9, <1>10, SMTT(60)

\* Headers come before files.
LEMMA HeaderBefore ==
  ASSUME NEW x \in All, NEW y \in All, IsHeader(x), ~IsHeader(y)
  PROVE  ~Before(y, x)
<1>1. ~IsPrefix(x.dir, y.dir) /\ ~IsPrefix(y.dir, x.dir)
  BY BlobListAssumption DEF BlobListAssumption, All
<1>2. Position[x] \in DOMAIN Strcoll /\ Position[y] \in DOMAIN Strcoll
  BY PositionIs, AllIs
<1>3. IsHeader(Strcoll[Position[x]]) /\ ~IsHeader(Strcoll[Position[y]])
  BY PositionIs
<1>4. Position[x] < Position[y]
  BY <1>2, <1>3, BlobListAssumption DEF BlobListAssumption
<1>5. Position[x] \in Nat /\ Position[y] \in Nat
  BY PositionIs
<1> QED
  BY <1>1, <1>4, <1>5 DEF Before, IsStrictPrefix

-----------------------------------------------------------------------------
(***************************************************************************)
(* Sorting: arrangements of a set of lines, and the one that is in order.  *)
(* The arguments are by the least place where something would go wrong.    *)
(***************************************************************************)

LEMMA LeastNumber ==
  ASSUME NEW T, T \subseteq Nat, T # {}
  PROVE  \E m \in T : \A k \in T : m <= k
<1> DEFINE R == OpToRel(<, Nat)
<1>1. IsWellFoundedOn(R, Nat)
  BY NatLessThanWellFounded
<1> HIDE DEF R
<1>2. PICK m \in T : \A k \in T : ~ (<<k, m>> \in R)
  BY <1>1, WFMin
<1>3. ASSUME NEW k \in T PROVE m <= k
  <2>1. ~(k < m)
    BY <1>2 DEF R, OpToRel
  <2> QED
    BY <2>1
<1> QED
  BY <1>2, <1>3

Sorted(order) == \A i \in 1 .. Len(order) - 1 : Before(order[i], order[i + 1])

LEMMA Arrangement ==
  ASSUME NEW S, IsFiniteSet(S), NEW order \in SetToSeqs(S)
  PROVE  /\ order \in Seq(S)
         /\ \A i, j \in 1 .. Len(order) : order[i] = order[j] => i = j
         /\ \A x \in S : \E i \in 1 .. Len(order) : order[i] = x
         /\ Len(order) = Cardinality(S)
         /\ ToSet(order) = S
<1> DEFINE n == Cardinality(S)
<1>1. n \in Nat
  BY FS_CardinalityType
<1>2. order \in [1 .. n -> S] /\ \A i, j \in 1 .. n : i # j => order[i] # order[j]
  BY DEF SetToSeqs
<1>3. IsFiniteSet(1 .. n) /\ Cardinality(1 .. n) = n
  BY <1>1, FS_Interval
<1>4. order \in Injection(1 .. n, S)
  BY <1>2 DEF Injection, IsInjective
<1>5. order \in Surjection(1 .. n, S)
  BY <1>3, <1>4, FS_Injection
<1> HIDE DEF n
<1>6. order \in Seq(S) /\ Len(order) = n
  BY <1>1, <1>2
<1>7. \A x \in S : \E i \in 1 .. n : order[i] = x
  BY <1>5 DEF Surjection
<1>8. ToSet(order) = S
  BY <1>2, <1>7 DEF ToSet
<1> QED
  BY <1>2, <1>6, <1>7, <1>8 DEF n

LEMMA SortedPairs ==
  ASSUME NEW order \in Seq(All), Sorted(order),
         NEW i \in 1 .. Len(order), NEW j \in 1 .. Len(order), i < j
  PROVE  Before(order[i], order[j])
<1> DEFINE T == {k \in 1 .. Len(order) : i < k /\ ~Before(order[i], order[k])}
<1>1. SUFFICES ASSUME T # {} PROVE FALSE
  OBVIOUS
<1>2. T \subseteq Nat
  OBVIOUS
<1> HIDE DEF T
<1>3. PICK m \in T : \A k \in T : m <= k
  BY <1>1, <1>2, LeastNumber
<1>4. m \in 1 .. Len(order) /\ i < m /\ ~Before(order[i], order[m])
  BY <1>3 DEF T
<1>5. /\ m - 1 \in 1 .. Len(order) - 1 /\ (m - 1) + 1 = m /\ i <= m - 1
      /\ order[i] \in All /\ order[m - 1] \in All /\ order[m] \in All
  BY <1>4
<1>6. Before(order[m - 1], order[m])
  BY <1>5 DEF Sorted
<1>7. i # m - 1
  BY <1>4, <1>6
<1>8. m - 1 \notin T
  BY <1>3, <1>4
<1>9. Before(order[i], order[m - 1])
  BY <1>5, <1>7, <1>8 DEF T
<1> QED
  BY <1>4, <1>5, <1>6, <1>9, BeforeTransitive

LEMMA SortedOnce ==
  ASSUME NEW S, S \subseteq All, NEW p \in SetToSeqs(S), NEW q \in SetToSeqs(S),
         Sorted(p), Sorted(q)
  PROVE  p = q
<1>1. IsFiniteSet(S)
  BY AllFinite, FS_Subset
<1>0. /\ p \in Seq(S) /\ ToSet(p) = S /\ Len(p) = Cardinality(S)
      /\ \A i, j \in 1 .. Len(p) : p[i] = p[j] => i = j
      /\ \A x \in S : \E i \in 1 .. Len(p) : p[i] = x
  BY <1>1, Arrangement, Zenon
<1>a. /\ q \in Seq(S) /\ ToSet(q) = S /\ Len(q) = Cardinality(S)
      /\ \A i, j \in 1 .. Len(q) : q[i] = q[j] => i = j
      /\ \A x \in S : \E i \in 1 .. Len(q) : q[i] = x
  BY <1>1, Arrangement, Zenon
<1>2. /\ p \in Seq(All) /\ q \in Seq(All) /\ Len(p) = Len(q)
      /\ \A i, j \in 1 .. Len(p) : p[i] = p[j] => i = j
      /\ \A i, j \in 1 .. Len(p) : q[i] = q[j] => i = j
      /\ \A i \in 1 .. Len(p) : \E j \in 1 .. Len(p) : q[j] = p[i]
      /\ \A i \in 1 .. Len(p) : \E j \in 1 .. Len(p) : p[j] = q[i]
  BY <1>0, <1>a
<1> DEFINE T == {i \in 1 .. Len(p) : p[i] # q[i]}
<1>3. T \subseteq Nat
  OBVIOUS
<1>4. ASSUME T # {} PROVE FALSE
  <2> HIDE DEF T
  <2>1. PICK m \in T : \A k \in T : m <= k
    BY <1>3, <1>4, LeastNumber
  <2>2. m \in 1 .. Len(p) /\ p[m] # q[m]
    BY <2>1 DEF T
  <2>3. \A k \in 1 .. Len(p) : k < m => p[k] = q[k]
    BY <2>1 DEF T
  <2>4. PICK j \in 1 .. Len(p) : q[j] = p[m]
    BY <1>2, <2>2
  <2>5. PICK k \in 1 .. Len(p) : p[k] = q[m]
    BY <1>2, <2>2
  <2>6. m < j /\ m < k
    <3>1. j # m /\ k # m
      BY <2>2, <2>4, <2>5
    <3>2. ~(j < m)
      BY <1>2, <2>2, <2>3, <2>4, <3>1
    <3>3. ~(k < m)
      BY <1>2, <2>2, <2>3, <2>5, <3>1
    <3> QED
      BY <2>2, <3>1, <3>2, <3>3
  <2>7. Before(q[m], q[j]) /\ Before(p[m], p[k])
    BY <1>2, <2>2, <2>6, SortedPairs
  <2>8. p[m] \in All /\ q[m] \in All
    BY <1>2, <2>2
  <2> QED
    BY <2>2, <2>4, <2>5, <2>7, <2>8, BeforeTotal
<1>5. \A i \in 1 .. Len(p) : p[i] = q[i]
  BY <1>4
<1>6. p = [i \in 1 .. Len(p) |-> p[i]] /\ q = [i \in 1 .. Len(p) |-> q[i]]
  BY <1>2
<1> QED
  BY <1>5, <1>6

\* What sorting returns is in order, and the only thing that is.
LEMMA OrdersSettle ==
  ASSUME NEW section \in Seq(All), NEW order \in Orders(section)
  PROVE  /\ order \in Seq(All) /\ IsInjective(order)
         /\ ToSet(order) = ToSet(section)
         /\ Sorted(order)
         /\ Orders(order) = {order}
<1>1. \A list : Orders(list) = {p \in SetToSeqs(ToSet(list)) : Sorted(p)}
  BY DEF Orders, Sorted
<1>2. ToSet(section) \subseteq All
  BY DEF ToSet
<1>3. order \in SetToSeqs(ToSet(section)) /\ Sorted(order)
  BY <1>1
<1>4. IsFiniteSet(ToSet(section))
  BY <1>2, AllFinite, FS_Subset
<1>5. /\ order \in Seq(ToSet(section)) /\ ToSet(order) = ToSet(section)
      /\ \A i, j \in 1 .. Len(order) : order[i] = order[j] => i = j
  BY <1>3, <1>4, Arrangement
<1>6. order \in Seq(All) /\ IsInjective(order)
  BY <1>2, <1>5 DEF IsInjective
<1>7. \A p \in SetToSeqs(ToSet(section)) : Sorted(p) => p = order
  BY <1>2, <1>3, SortedOnce
<1>8. Orders(order) = {order}
  BY <1>1, <1>3, <1>5, <1>7
<1> QED
  BY <1>3, <1>5, <1>6, <1>8

-----------------------------------------------------------------------------
(***************************************************************************)
(* Lines without their hashes: what the tools leave alone.                 *)
(***************************************************************************)

Bare(line) == [line EXCEPT !.hash = FALSE]

BareSet(list) == {Bare(line) : line \in ToSet(list)}

LEMMA HashOf ==
  ASSUME NEW line \in Line, NEW b \in BOOLEAN
  PROVE  LET new == [line EXCEPT !.hash = b]
         IN  /\ new \in Line
             /\ new.kind = line.kind /\ new.dir = line.dir /\ new.name = line.name
             /\ new.hash = b
             /\ Bare(new) = Bare(line)
             /\ b = FALSE => new = Bare(line)
             /\ b = TRUE => new = [Bare(line) EXCEPT !.hash = TRUE]
BY DEF Line, Bare

LEMMA BareOf ==
  ASSUME NEW line \in Line
  PROVE  /\ Bare(line) \in Line
         /\ Bare(line).kind = line.kind /\ Bare(line).dir = line.dir /\ Bare(line).name = line.name
         /\ ~Bare(line).hash
         /\ ~line.hash => line = Bare(line)
         /\ IsHeader(Bare(line)) <=> IsHeader(line)
BY DEF Line, Bare, IsHeader

LEMMA BareSame ==
  ASSUME NEW x \in Line, NEW y \in Line, Bare(x) = Bare(y)
  PROVE  /\ x.kind = y.kind /\ x.dir = y.dir /\ x.name = y.name
         /\ IsHeader(x) <=> IsHeader(y)
<1>1. /\ Bare(x).kind = x.kind /\ Bare(x).dir = x.dir /\ Bare(x).name = x.name
      /\ Bare(y).kind = y.kind /\ Bare(y).dir = y.dir /\ Bare(y).name = y.name
  BY BareOf
<1> QED
  BY <1>1 DEF IsHeader

(***************************************************************************)
(* A section: different lines, a header at most at its beginning, and the  *)
(* lines of a section of the original file but for their hashes.           *)
(***************************************************************************)
SectionInv(list) ==
  /\ list \in Seq(All)
  /\ \A i, j \in 1 .. Len(list) : Bare(list[i]) = Bare(list[j]) => i = j
  /\ \A i \in 1 .. Len(list) : IsHeader(list[i]) => i = 1 /\ ~list[i].hash

\* A sequence of sections made of those of the original file.
BareFile(f) == [s \in DOMAIN f |-> BareSet(f[s])]

FileInv(f) ==
  /\ BareFile(f) \in Files
  /\ \A s \in DOMAIN f : SectionInv(f[s])

LEMMA Sections ==
  ASSUME NEW f, FileInv(f)
  PROVE  /\ DOMAIN f \subseteq Nat
         /\ \A s \in DOMAIN f : f[s] \in Seq(All) /\ f[s] \in Seq(Line)
         /\ \A s \in DOMAIN f : \A i \in 1 .. Len(f[s]) :
              /\ Bare(f[s][i]) \in All
              /\ ~IsHeader(f[s][i]) => [Bare(f[s][i]) EXCEPT !.hash = TRUE] \in All
<1> DEFINE g == BareFile(f)
<1>1. g \in Seq(SUBSET Line) /\ g \in Files
  BY BlobListAssumption DEF FileInv, BlobListAssumption
<1>2. DOMAIN g = DOMAIN f /\ \A s \in DOMAIN f : g[s] = BareSet(f[s])
  BY DEF BareFile
<1> HIDE DEF g
<1>3. DOMAIN f \subseteq Nat
  BY <1>1, <1>2
<1>4. ASSUME NEW s \in DOMAIN f PROVE f[s] \in Seq(All) /\ f[s] \in Seq(Line)
  <2>1. f[s] \in Seq(All)
    BY DEF FileInv, SectionInv
  <2>2. \A i \in 1 .. Len(f[s]) : f[s][i] \in Line
    BY <2>1, AllIs
  <2> QED
    BY <2>1, <2>2
<1>5. ASSUME NEW s \in DOMAIN f, NEW i \in 1 .. Len(f[s])
      PROVE  /\ Bare(f[s][i]) \in All
             /\ ~IsHeader(f[s][i]) => [Bare(f[s][i]) EXCEPT !.hash = TRUE] \in All
  <2>1. f[s][i] \in Line /\ f[s][i] \in ToSet(f[s])
    BY <1>4 DEF ToSet
  <2>2. Bare(f[s][i]) \in g[s]
    BY <1>2, <2>1 DEF BareSet
  <2>3. \A line \in g[s] : /\ line \in All
                           /\ ~IsHeader(line) => [line EXCEPT !.hash = TRUE] \in All
    BY <1>1, <1>2, BlobListAssumption DEF BlobListAssumption, All
  <2>4. IsHeader(Bare(f[s][i])) <=> IsHeader(f[s][i])
    BY <2>1, BareOf
  <2> QED
    BY <2>2, <2>3, <2>4
<1> QED
  BY <1>3, <1>4, <1>5

LEMMA PlacesOf ==
  ASSUME NEW f, FileInv(f)
  PROVE  /\ \A p \in Places(f) : /\ p = <<p[1], p[2]>>
                                 /\ p[1] \in DOMAIN f /\ p[2] \in 1 .. Len(f[p[1]])
                                 /\ p[1] \in Nat /\ p[2] \in Nat
                                 /\ LineAt(f, p) \in All /\ LineAt(f, p) \in Line
         /\ \A s \in DOMAIN f : \A i \in 1 .. Len(f[s]) :
              <<s, i>> \in Places(f) /\ LineAt(f, <<s, i>>) = f[s][i]
<1>1. \A s \in DOMAIN f : f[s] \in Seq(All) /\ DOMAIN f[s] = 1 .. Len(f[s])
  BY Sections
<1>2. ASSUME NEW p \in Places(f)
      PROVE  /\ p = <<p[1], p[2]>>
             /\ p[1] \in DOMAIN f /\ p[2] \in 1 .. Len(f[p[1]])
             /\ p[1] \in Nat /\ p[2] \in Nat
             /\ LineAt(f, p) \in All /\ LineAt(f, p) \in Line
  <2>1. PICK s \in DOMAIN f : p \in {s} \X DOMAIN f[s]
    BY DEF Places
  <2>2. p = <<p[1], p[2]>> /\ p[1] = s /\ p[2] \in 1 .. Len(f[s])
    BY <1>1, <2>1
  <2>3. f[s][p[2]] \in All
    BY <1>1, <2>2
  <2> QED
    BY <2>1, <2>2, <2>3, Sections, AllIs DEF LineAt
<1>3. ASSUME NEW s \in DOMAIN f, NEW i \in 1 .. Len(f[s])
      PROVE  <<s, i>> \in Places(f) /\ LineAt(f, <<s, i>>) = f[s][i]
  <2>1. <<s, i>> \in {s} \X DOMAIN f[s]
    BY <1>1
  <2> QED
    BY <2>1 DEF Places, LineAt
<1> QED
  BY <1>2, <1>3

-----------------------------------------------------------------------------
(***************************************************************************)
(* What is to be pinned depends on the lines of each section only, as the  *)
(* header of a section stands first.                                       *)
(***************************************************************************)

\* The last section with a header, up to section s, has one with " - from".
Governed(f, s) ==
  \E t \in DOMAIN f :
    /\ t <= s
    /\ \E x \in ToSet(f[t]) : x.kind = "from"
    /\ \A u \in DOMAIN f : t < u /\ u <= s => \A x \in ToSet(f[u]) : ~IsHeader(x)

LEMMA NeedIsGoverned ==
  ASSUME NEW f, FileInv(f), NEW s \in DOMAIN f, NEW i \in 1 .. Len(f[s])
  PROVE  NeedSHA1(f, <<s, i>>) <=> Governed(f, s)
<1> DEFINE here == <<s, i>>
<1>1. /\ DOMAIN f \subseteq Nat
      /\ \A u \in DOMAIN f : /\ ToSet(f[u]) = {f[u][j] : j \in 1 .. Len(f[u])}
                             /\ \A j \in 1 .. Len(f[u]) : IsHeader(f[u][j]) => j = 1
  <2>1. \A u \in DOMAIN f : f[u] \in Seq(All)
    BY Sections
  <2>2. \A u \in DOMAIN f : DOMAIN f[u] = 1 .. Len(f[u])
    BY <2>1
  <2>3. \A u \in DOMAIN f : \A j \in 1 .. Len(f[u]) : IsHeader(f[u][j]) => j = 1
    BY DEF FileInv, SectionInv
  <2>4. DOMAIN f \subseteq Nat
    BY Sections
  <2> QED
    BY <2>2, <2>3, <2>4 DEF ToSet
<1>2. ASSUME NeedSHA1(f, here) PROVE Governed(f, s)
  <2>1. PICK p \in HeadersAbove(f, here) :
           /\ LineAt(f, p).kind = "from"
           /\ \A q \in HeadersAbove(f, here) : NotBelow(q, p)
    BY <1>2 DEF NeedSHA1
  <2>2. /\ p[1] \in DOMAIN f /\ p[2] \in 1 .. Len(f[p[1]])
        /\ f[p[1]][p[2]].kind = "from" /\ p[1] <= s
    BY <1>1, <2>1, PlacesOf DEF HeadersAbove, NotBelow, LineAt
  <2>3. ASSUME NEW u \in DOMAIN f, p[1] < u, u <= s, NEW j \in 1 .. Len(f[u]), IsHeader(f[u][j])
        PROVE  FALSE
    <3>1. <<u, j>> \in Places(f) /\ LineAt(f, <<u, j>>) = f[u][j]
      BY PlacesOf
    <3>2. u < s \/ (u = s /\ j <= i)
      BY <1>1, <2>3
    <3>3. <<u, j>> \in HeadersAbove(f, here)
      BY <2>3, <3>1, <3>2 DEF HeadersAbove, NotBelow
    <3>4. NotBelow(<<u, j>>, p)
      BY <2>1, <3>3
    <3> QED
      BY <1>1, <2>2, <2>3, <3>4 DEF NotBelow
  <2>4. \E x \in ToSet(f[p[1]]) : x.kind = "from"
    BY <1>1, <2>2
  <2> QED
    BY <1>1, <2>2, <2>3, <2>4 DEF Governed
<1>3. ASSUME Governed(f, s) PROVE NeedSHA1(f, here)
  <2>1. PICK t \in DOMAIN f :
          /\ t <= s
          /\ \E x \in ToSet(f[t]) : x.kind = "from"
          /\ \A u \in DOMAIN f : t < u /\ u <= s => \A x \in ToSet(f[u]) : ~IsHeader(x)
    BY <1>3 DEF Governed
  <2>2. PICK j \in 1 .. Len(f[t]) : f[t][j].kind = "from"
    BY <1>1, <2>1
  <2>3. IsHeader(f[t][j]) /\ j = 1
    BY <1>1, <2>2 DEF IsHeader
  <2>4. <<t, j>> \in HeadersAbove(f, here) /\ LineAt(f, <<t, j>>).kind = "from"
    BY <1>1, <2>1, <2>2, <2>3, PlacesOf DEF HeadersAbove, NotBelow
  <2>5. ASSUME NEW q \in HeadersAbove(f, here) PROVE NotBelow(q, <<t, j>>)
    <3>1. /\ q[1] \in DOMAIN f /\ q[2] \in 1 .. Len(f[q[1]])
          /\ IsHeader(f[q[1]][q[2]]) /\ q[1] <= s
      BY <1>1, PlacesOf DEF HeadersAbove, NotBelow, LineAt
    <3>2. f[q[1]][q[2]] \in ToSet(f[q[1]])
      BY <1>1, <3>1
    <3>3. ~(t < q[1])
      BY <2>1, <3>1, <3>2
    <3>4. q[2] = 1
      BY <1>1, <3>1
    <3> QED
      BY <1>1, <2>3, <3>1, <3>3, <3>4 DEF NotBelow
  <2> QED
    BY <2>4, <2>5 DEF NeedSHA1
<1> QED
  BY <1>2, <1>3

LEMMA PinnedIs ==
  ASSUME NEW f, FileInv(f)
  PROVE  \A c : c \in Pinned(f) <=>
           \E s \in DOMAIN f : \E x \in ToSet(f[s]) :
             ~IsHeader(x) /\ Governed(f, s) /\ c = <<x.dir, x.name>>
<1>1. \A s \in DOMAIN f : ToSet(f[s]) = {f[s][i] : i \in 1 .. Len(f[s])}
  BY Sections DEF ToSet
<1>2. ASSUME NEW c \in Pinned(f)
      PROVE  \E s \in DOMAIN f : \E x \in ToSet(f[s]) :
               ~IsHeader(x) /\ Governed(f, s) /\ c = <<x.dir, x.name>>
  <2>1. PICK p \in Places(f) :
          ~IsHeader(LineAt(f, p)) /\ NeedSHA1(f, p) /\ c = <<LineAt(f, p).dir, LineAt(f, p).name>>
    BY <1>2 DEF Pinned
  <2>2. p = <<p[1], p[2]>> /\ p[1] \in DOMAIN f /\ p[2] \in 1 .. Len(f[p[1]])
    BY <2>1, PlacesOf
  <2>3. NeedSHA1(f, <<p[1], p[2]>>)
    BY <2>1, <2>2
  <2>4. Governed(f, p[1])
    BY <2>2, <2>3, NeedIsGoverned
  <2>5. LineAt(f, p) = f[p[1]][p[2]]
    BY DEF LineAt
  <2>6. LineAt(f, p) \in ToSet(f[p[1]])
    BY <1>1, <2>2, <2>5
  <2> QED
    BY <2>1, <2>2, <2>4, <2>6
<1>3. ASSUME NEW s \in DOMAIN f, NEW x \in ToSet(f[s]), ~IsHeader(x), Governed(f, s)
      PROVE  <<x.dir, x.name>> \in Pinned(f)
  <2>1. PICK i \in 1 .. Len(f[s]) : x = f[s][i]
    BY <1>1
  <2>2. <<s, i>> \in Places(f) /\ LineAt(f, <<s, i>>) = x
    BY <2>1, PlacesOf
  <2>3. NeedSHA1(f, <<s, i>>)
    BY <1>3, NeedIsGoverned
  <2> QED
    BY <1>3, <2>2, <2>3 DEF Pinned
<1> QED
  BY <1>2, <1>3

\* Lines that change places within their sections change nothing about it.
LEMMA PinnedByLines ==
  ASSUME NEW f, NEW g, FileInv(f), FileInv(g), DOMAIN g = DOMAIN f,
         \A s \in DOMAIN f : ToSet(g[s]) = ToSet(f[s])
  PROVE  Pinned(g) = Pinned(f)
<1>1. \A s \in DOMAIN f : Governed(g, s) <=> Governed(f, s)
  BY DEF Governed
<1>2. \A c : c \in Pinned(g) <=> c \in Pinned(f)
  BY <1>1, PinnedIs
<1> QED
  <2>1. Pinned(f) \subseteq Pinned(g) /\ Pinned(g) \subseteq Pinned(f)
    BY <1>2
  <2> QED
    BY <2>1

\* Nor do lines that change their hashes.
SameButHash(f, g) ==
  /\ DOMAIN g = DOMAIN f
  /\ \A s \in DOMAIN f :
       /\ g[s] \in Seq(All) /\ Len(g[s]) = Len(f[s])
       /\ \A i \in 1 .. Len(f[s]) :
            /\ Bare(g[s][i]) = Bare(f[s][i])
            /\ IsHeader(f[s][i]) => g[s][i] = f[s][i]

LEMMA BareSetSame ==
  ASSUME NEW a \in Seq(All), NEW b \in Seq(All), Len(a) = Len(b),
         \A i \in 1 .. Len(a) : Bare(a[i]) = Bare(b[i])
  PROVE  BareSet(a) = BareSet(b)
<1>1. /\ ToSet(a) = {a[i] : i \in 1 .. Len(a)}
      /\ ToSet(b) = {b[i] : i \in 1 .. Len(a)}
  BY DEF ToSet
<1>2. \A x : x \in BareSet(a) <=> x \in BareSet(b)
  BY <1>1 DEF BareSet
<1>3. BareSet(a) \subseteq BareSet(b) /\ BareSet(b) \subseteq BareSet(a)
  BY <1>2
<1> QED
  BY <1>3

LEMMA HashesKept ==
  ASSUME NEW f, NEW g, FileInv(f), SameButHash(f, g)
  PROVE  FileInv(g)
<1>1. DOMAIN g = DOMAIN f /\ \A s \in DOMAIN f : f[s] \in Seq(All) /\ f[s] \in Seq(Line)
  BY Sections DEF SameButHash
<1>2. ASSUME NEW s \in DOMAIN f PROVE BareSet(g[s]) = BareSet(f[s])
  BY <1>1, BareSetSame DEF SameButHash
<1>3. BareFile(g) = BareFile(f)
  BY <1>1, <1>2 DEF BareFile
<1>4. ASSUME NEW s \in DOMAIN f PROVE SectionInv(g[s])
  <2>1. g[s] \in Seq(All) /\ Len(g[s]) = Len(f[s])
    BY DEF SameButHash
  <2>2. \A i \in 1 .. Len(f[s]) : g[s][i] \in Line /\ f[s][i] \in Line
    BY <1>1, <2>1, AllIs
  <2>3. \A i \in 1 .. Len(f[s]) : Bare(g[s][i]) = Bare(f[s][i])
    BY DEF SameButHash
  <2>4. ASSUME NEW i \in 1 .. Len(f[s]), IsHeader(g[s][i]) PROVE i = 1 /\ ~g[s][i].hash
    <3>1. IsHeader(f[s][i])
      BY <2>2, <2>3, <2>4, BareSame
    <3>2. g[s][i] = f[s][i]
      BY <3>1 DEF SameButHash
    <3> QED
      BY <3>1, <3>2 DEF FileInv, SectionInv
  <2>5. \A i, j \in 1 .. Len(f[s]) : Bare(g[s][i]) = Bare(g[s][j]) => i = j
    BY <2>3 DEF FileInv, SectionInv
  <2> QED
    BY <2>1, <2>4, <2>5 DEF SectionInv
<1> QED
  BY <1>1, <1>3, <1>4 DEF FileInv

LEMMA NeedByKinds ==
  ASSUME NEW f, NEW g, FileInv(f), SameButHash(f, g)
  PROVE  /\ Places(g) = Places(f)
         /\ \A p \in Places(f) : /\ LineAt(g, p).kind = LineAt(f, p).kind
                                 /\ LineAt(g, p).dir = LineAt(f, p).dir
                                 /\ LineAt(g, p).name = LineAt(f, p).name
                                 /\ NeedSHA1(g, p) <=> NeedSHA1(f, p)
<1>1. FileInv(g)
  BY HashesKept
<1>2. \A s \in DOMAIN f : DOMAIN f[s] = 1 .. Len(f[s]) /\ DOMAIN g[s] = 1 .. Len(f[s])
  BY Sections DEF SameButHash
<1>3. Places(g) = Places(f)
  BY <1>2 DEF Places, SameButHash
<1>4. ASSUME NEW p \in Places(f)
      PROVE  /\ LineAt(g, p).kind = LineAt(f, p).kind
             /\ LineAt(g, p).dir = LineAt(f, p).dir
             /\ LineAt(g, p).name = LineAt(f, p).name
  <2>1. p[1] \in DOMAIN f /\ p[2] \in 1 .. Len(f[p[1]])
    BY PlacesOf
  <2>2. LineAt(f, p) \in Line /\ LineAt(g, p) \in Line
    BY <1>1, <1>3, PlacesOf
  <2>3. Bare(LineAt(g, p)) = Bare(LineAt(f, p))
    BY <2>1 DEF LineAt, SameButHash
  <2> QED
    BY <2>2, <2>3, BareSame
<1>5. \A p \in Places(f) : HeadersAbove(g, p) = HeadersAbove(f, p)
  BY <1>3, <1>4 DEF HeadersAbove, IsHeader
<1>6. ASSUME NEW p \in Places(f) PROVE NeedSHA1(g, p) <=> NeedSHA1(f, p)
  <2>1. \A q \in HeadersAbove(f, p) : LineAt(g, q).kind = LineAt(f, q).kind
    BY <1>4 DEF HeadersAbove
  <2> QED
    BY <1>5, <2>1 DEF NeedSHA1
<1> QED
  BY <1>3, <1>4, <1>6

LEMMA PinnedByKinds ==
  ASSUME NEW f, NEW g, FileInv(f), SameButHash(f, g)
  PROVE  Pinned(g) = Pinned(f)
<1>1. \A c : c \in Pinned(g) <=> c \in Pinned(f)
  BY NeedByKinds DEF Pinned, IsHeader
<1>2. Pinned(f) \subseteq Pinned(g) /\ Pinned(g) \subseteq Pinned(f)
  BY <1>1
<1> QED
  BY <1>2

-----------------------------------------------------------------------------
(***************************************************************************)
(* The tools.                                                              *)
(***************************************************************************)

LEMMA ReorderKeeps ==
  ASSUME FileInv(file), Reorder
  PROVE  /\ FileInv(file') /\ Pinned(file') = Pinned(file)
         /\ \A s \in DOMAIN file' : Orders(file'[s]) = {file'[s]}
<1> DEFINE choice == [s \in DOMAIN file |-> Orders(file[s])]
<1>1. /\ DOMAIN file' = DOMAIN file
      /\ \A s \in DOMAIN file : file'[s] \in Orders(file[s])
  <2>1. file' \in OneOfEach(choice)
    BY DEF Reorder
  <2>2. DOMAIN choice = DOMAIN file /\ \A s \in DOMAIN file : choice[s] = Orders(file[s])
    OBVIOUS
  <2> HIDE DEF choice
  <2>3. DOMAIN file' = DOMAIN choice /\ \A s \in DOMAIN choice : file'[s] \in choice[s]
    BY <2>1 DEF OneOfEach
  <2> QED
    BY <2>2, <2>3
<1>2. ASSUME NEW s \in DOMAIN file
      PROVE  /\ file[s] \in Seq(All)
             /\ file'[s] \in Seq(All) /\ IsInjective(file'[s])
             /\ ToSet(file'[s]) = ToSet(file[s])
             /\ Sorted(file'[s])
             /\ Orders(file'[s]) = {file'[s]}
  <2>1. file[s] \in Seq(All)
    BY Sections
  <2> QED
    BY <1>1, <2>1, OrdersSettle
<1>3. BareFile(file') = BareFile(file)
  <2>1. \A s \in DOMAIN file : BareSet(file'[s]) = BareSet(file[s])
    BY <1>2 DEF BareSet
  <2> QED
    BY <1>1, <2>1 DEF BareFile
<1>4. ASSUME NEW s \in DOMAIN file PROVE SectionInv(file'[s])
  <2> DEFINE old == file[s]
             new == file'[s]
  <2>1. /\ old \in Seq(All) /\ new \in Seq(All) /\ Sorted(new)
        /\ \A i, j \in 1 .. Len(new) : new[i] = new[j] => i = j
    BY <1>2 DEF IsInjective
  <2>2. \A i \in 1 .. Len(new) : \E k \in 1 .. Len(old) : new[i] = old[k]
    <3>1. ToSet(new) = ToSet(old)
      BY <1>2
    <3>2. DOMAIN new = 1 .. Len(new) /\ DOMAIN old = 1 .. Len(old)
      BY <1>2
    <3> HIDE DEF old, new
    <3>3. \A i \in 1 .. Len(new) : new[i] \in ToSet(new)
      BY <3>2 DEF ToSet
    <3>4. \A x \in ToSet(old) : \E k \in 1 .. Len(old) : x = old[k]
      BY <3>2 DEF ToSet
    <3> QED
      BY <3>1, <3>3, <3>4
  <2>3. /\ \A i, j \in 1 .. Len(old) : Bare(old[i]) = Bare(old[j]) => i = j
        /\ \A i \in 1 .. Len(old) : IsHeader(old[i]) => i = 1 /\ ~old[i].hash
    BY DEF FileInv, SectionInv
  <2> HIDE DEF old, new
  <2>4. \A i, j \in 1 .. Len(new) : Bare(new[i]) = Bare(new[j]) => i = j
    BY <2>1, <2>2, <2>3
  <2>5. ASSUME NEW i \in 1 .. Len(new), IsHeader(new[i]) PROVE i = 1 /\ ~new[i].hash
    <3>1. new[i] = old[1] /\ ~new[i].hash
      BY <2>2, <2>3, <2>5
    <3>2. ASSUME i # 1 PROVE FALSE
      <4>1. i - 1 \in 1 .. Len(new) - 1 /\ (i - 1) + 1 = i /\ i - 1 \in 1 .. Len(new)
        BY <2>1, <3>2
      <4>2. Before(new[i - 1], new[i])
        BY <2>1, <4>1 DEF Sorted
      <4>3. new[i - 1] # new[i]
        BY <2>1, <4>1
      <4>4. ~IsHeader(new[i - 1])
        BY <2>2, <2>3, <3>1, <4>1, <4>3
      <4>5. new[i - 1] \in All /\ new[i] \in All
        BY <2>1, <4>1
      <4> QED
        BY <2>5, <4>2, <4>4, <4>5, HeaderBefore
    <3> QED
      BY <3>1, <3>2
  <2>6. SectionInv(new)
    BY <2>1, <2>4, <2>5 DEF SectionInv
  <2> QED
    BY <2>6 DEF new
<1>5. FileInv(file')
  BY <1>1, <1>3, <1>4 DEF FileInv
<1>6. Pinned(file') = Pinned(file)
  BY <1>1, <1>2, <1>5, PinnedByLines
<1> QED
  BY <1>1, <1>2, <1>5, <1>6

LEMMA CleanupKeeps ==
  ASSUME FileInv(file), Cleanup
  PROVE  SameButHash(file, file')
<1>1. \A s \in DOMAIN file : DOMAIN file[s] = 1 .. Len(file[s])
  BY Sections
<1>2. /\ DOMAIN file' = DOMAIN file
      /\ \A s \in DOMAIN file : file'[s] = [i \in 1 .. Len(file[s]) |-> Bare(file[s][i])]
  BY <1>1 DEF Cleanup, Bare
<1>3. ASSUME NEW s \in DOMAIN file
      PROVE  /\ file'[s] \in Seq(All) /\ Len(file'[s]) = Len(file[s])
             /\ \A i \in 1 .. Len(file[s]) : /\ Bare(file'[s][i]) = Bare(file[s][i])
                                             /\ IsHeader(file[s][i]) => file'[s][i] = file[s][i]
  <2> DEFINE old == file[s]
             new == file'[s]
  <2>1. /\ old \in Seq(Line) /\ \A i \in 1 .. Len(old) : Bare(old[i]) \in All
        /\ new = [i \in 1 .. Len(old) |-> Bare(old[i])]
        /\ \A i \in 1 .. Len(old) : IsHeader(old[i]) => ~old[i].hash
    BY <1>2, Sections DEF FileInv, SectionInv
  <2>2. \A i \in 1 .. Len(old) : /\ Bare(Bare(old[i])) = Bare(old[i])
                                 /\ ~old[i].hash => Bare(old[i]) = old[i]
    <3>1. \A line \in Line : Bare(Bare(line)) = Bare(line) /\ (~line.hash => Bare(line) = line)
      BY BareOf
    <3> QED
      BY <2>1, <3>1
  <2> HIDE DEF old, new
  <2>3. new \in Seq(All) /\ Len(new) = Len(old)
    BY <2>1
  <2>4. \A i \in 1 .. Len(old) : new[i] = Bare(old[i])
    BY <2>1
  <2> QED
    BY <2>1, <2>2, <2>3, <2>4 DEF old, new
<1> QED
  BY <1>2, <1>3 DEF SameButHash

LEMMA HashKeeps ==
  ASSUME FileInv(file), file' = Hash(file)
  PROVE  SameButHash(file, file')
<1>1. \A s \in DOMAIN file : DOMAIN file[s] = 1 .. Len(file[s])
  BY Sections
<1> DEFINE Hashes(s, i) == IF IsHeader(file[s][i]) THEN file[s][i]
                           ELSE [file[s][i] EXCEPT !.hash = @ \/ NeedSHA1(file, <<s, i>>)]
<1>2. /\ DOMAIN file' = DOMAIN file
      /\ \A s \in DOMAIN file : file'[s] = [i \in 1 .. Len(file[s]) |-> Hashes(s, i)]
  BY <1>1 DEF Hash
<1>3. ASSUME NEW s \in DOMAIN file, NEW i \in 1 .. Len(file[s])
      PROVE  /\ Hashes(s, i) \in All
             /\ Bare(Hashes(s, i)) = Bare(file[s][i])
             /\ IsHeader(file[s][i]) => Hashes(s, i) = file[s][i]
             /\ ~IsHeader(file[s][i]) /\ NeedSHA1(file, <<s, i>>) => Hashes(s, i).hash
  <2>1. /\ file[s][i] \in All /\ file[s][i] \in Line /\ Bare(file[s][i]) \in All
        /\ ~IsHeader(file[s][i]) => [Bare(file[s][i]) EXCEPT !.hash = TRUE] \in All
    BY Sections
  <2>2. CASE IsHeader(file[s][i])
    BY <2>1, <2>2
  <2>3. CASE ~IsHeader(file[s][i])
    <3> DEFINE b == file[s][i].hash \/ NeedSHA1(file, <<s, i>>)
    <3>1. b \in BOOLEAN /\ Hashes(s, i) = [file[s][i] EXCEPT !.hash = b]
      BY <2>3
    <3>2. NeedSHA1(file, <<s, i>>) => b = TRUE
      OBVIOUS
    <3> HIDE DEF b
    <3>a. LET new == [file[s][i] EXCEPT !.hash = b]
          IN  /\ new.hash = b /\ Bare(new) = Bare(file[s][i])
              /\ b = FALSE => new = Bare(file[s][i])
              /\ b = TRUE => new = [Bare(file[s][i]) EXCEPT !.hash = TRUE]
      BY <2>1, <3>1, HashOf
    <3> HIDE DEF Hashes
    <3>3. /\ Hashes(s, i).hash = b /\ Bare(Hashes(s, i)) = Bare(file[s][i])
          /\ b = FALSE => Hashes(s, i) = Bare(file[s][i])
          /\ b = TRUE => Hashes(s, i) = [Bare(file[s][i]) EXCEPT !.hash = TRUE]
      BY <3>1, <3>a
    <3>4. b = FALSE \/ b = TRUE
      BY <3>1
    <3> QED
      BY <2>1, <2>3, <3>2, <3>3, <3>4
  <2> QED
    BY <2>2, <2>3
<1> HIDE DEF Hashes
<1>4. ASSUME NEW s \in DOMAIN file
      PROVE  /\ file'[s] \in Seq(All) /\ Len(file'[s]) = Len(file[s])
             /\ \A i \in 1 .. Len(file[s]) : file'[s][i] = Hashes(s, i)
  <2>1. file'[s] = [i \in 1 .. Len(file[s]) |-> Hashes(s, i)]
    BY <1>2
  <2>2. \A i \in 1 .. Len(file[s]) : Hashes(s, i) \in All
    BY <1>3
  <2>3. Len(file[s]) \in Nat
    BY Sections
  <2> QED
    BY <2>1, <2>2, <2>3
<1>5. SameButHash(file, file')
  <2>1. ASSUME NEW s \in DOMAIN file, NEW i \in 1 .. Len(file[s])
        PROVE  /\ Bare(file'[s][i]) = Bare(file[s][i])
               /\ IsHeader(file[s][i]) => file'[s][i] = file[s][i]
    <3>1. file'[s][i] = Hashes(s, i)
      BY <1>4
    <3> QED
      BY <1>3, <3>1
  <2> QED
    BY <1>2, <1>4, <2>1 DEF SameButHash
<1> QED
  BY <1>5

-----------------------------------------------------------------------------
(***************************************************************************)
(* The loop of update: the lines before the one it is at are as the list   *)
(* says, and needSHA1 is what the last of their headers says.              *)
(***************************************************************************)

Seen(f, rest) == {p \in Places(f) \ rest : IsHeader(LineAt(f, p))}

SaysFrom(f, seen) ==
  \E p \in seen : LineAt(f, p).kind = "from" /\ \A q \in seen : NotBelow(q, p)

Partly(f, rest) ==
  [s \in DOMAIN f |->
    [i \in DOMAIN f[s] |-> IF <<s, i>> \in rest THEN f[s][i] ELSE Hash(f)[s][i]]]

LoopInv ==
  /\ file = [s \in DOMAIN file |-> file[s]]
  /\ todo \subseteq Places(file)
  /\ needSHA1 \in {"unassigned", "yes", "no"}
  /\ last # "updating" => todo = {}
  /\ last = "updating" =>
       /\ \A p \in todo, q \in Places(file) : NotBelow(p, q) => q \in todo
       /\ lines = Partly(file, todo)
       /\ needSHA1 = "unassigned" <=> Seen(file, todo) = {}
       /\ needSHA1 = "yes" <=> SaysFrom(file, Seen(file, todo))

LEMMA PlaceOrder ==
  ASSUME FileInv(file), NEW p \in Places(file), NEW q \in Places(file)
  PROVE  /\ NotBelow(p, q) \/ NotBelow(q, p)
         /\ NotBelow(p, q) /\ NotBelow(q, p) => p = q
         /\ NotBelow(p, p)
<1>1. /\ p[1] \in Nat /\ p[2] \in Nat /\ q[1] \in Nat /\ q[2] \in Nat
      /\ p = <<p[1], p[2]>> /\ q = <<q[1], q[2]>>
  BY PlacesOf
<1>2. p[1] = q[1] /\ p[2] = q[2] => p = q
  BY <1>1
<1> QED
  BY <1>1, <1>2 DEF NotBelow

LEMMA IndexIs ==
  ASSUME FileInv(file), todo \subseteq Places(file), todo # {}
  PROVE  Index \in todo /\ \A q \in todo : NotBelow(Index, q)
<1>1. \A p \in todo : p[1] \in Nat /\ p[2] \in Nat
  BY PlacesOf
<1>2. PICK s \in {p[1] : p \in todo} : \A k \in {p[1] : p \in todo} : s <= k
  <2> DEFINE T == {p[1] : p \in todo}
  <2>1. T \subseteq Nat /\ T # {}
    BY <1>1
  <2> HIDE DEF T
  <2>2. \E m \in T : \A k \in T : m <= k
    BY <2>1, LeastNumber
  <2> QED
    BY <2>2 DEF T
<1>3. PICK i \in {p[2] : p \in {q \in todo : q[1] = s}} :
        \A k \in {p[2] : p \in {q \in todo : q[1] = s}} : i <= k
  <2> DEFINE T == {p[2] : p \in {q \in todo : q[1] = s}}
  <2>1. T \subseteq Nat /\ T # {}
    BY <1>1, <1>2
  <2> HIDE DEF T
  <2>2. \E m \in T : \A k \in T : m <= k
    BY <2>1, LeastNumber
  <2> QED
    BY <2>2 DEF T
<1>4. PICK p \in todo : p[1] = s /\ p[2] = i
  BY <1>3
<1>5. ASSUME NEW q \in todo PROVE NotBelow(p, q)
  <2>1. s <= q[1] /\ (q[1] = s => i <= q[2])
    BY <1>2, <1>3
  <2> QED
    BY <1>1, <1>4, <2>1 DEF NotBelow
<1>6. \E m \in todo : \A q \in todo : NotBelow(m, q)
  BY <1>4, <1>5
<1> QED
  BY <1>6 DEF Index

\* At a file, needSHA1 is what the headers above it say.
LEMMA SeenIsAbove ==
  ASSUME FileInv(file), LoopInv, last = "updating", NEW place \in todo,
         \A q \in todo : NotBelow(place, q)
  PROVE  /\ ~IsHeader(LineAt(file, place)) => Seen(file, todo) = HeadersAbove(file, place)
         /\ Seen(file, todo \ {place}) =
              Seen(file, todo) \cup (IF IsHeader(LineAt(file, place)) THEN {place} ELSE {})
         /\ \A q \in Places(file) \ todo : NotBelow(q, place)
<1>1. place \in Places(file) /\ todo \subseteq Places(file)
  BY DEF LoopInv
<1>2. \A q \in Places(file) \ todo : NotBelow(q, place)
  BY <1>1, PlaceOrder DEF LoopInv
<1>3. \A q \in todo : NotBelow(q, place) => q = place
  BY <1>1, PlaceOrder
<1>4. ASSUME ~IsHeader(LineAt(file, place)) PROVE Seen(file, todo) = HeadersAbove(file, place)
  <2>1. \A q : q \in Seen(file, todo) <=> q \in HeadersAbove(file, place)
    BY <1>1, <1>2, <1>3, <1>4 DEF Seen, HeadersAbove
  <2> QED
    BY <2>1 DEF Seen, HeadersAbove
<1>5. Seen(file, todo \ {place}) =
        Seen(file, todo) \cup (IF IsHeader(LineAt(file, place)) THEN {place} ELSE {})
  BY <1>1 DEF Seen
<1> QED
  BY <1>2, <1>4, <1>5

LEMMA HashedLine ==
  ASSUME NEW f, FileInv(f), NEW p \in Places(f)
  PROVE  Hash(f)[p[1]][p[2]] =
           IF ~IsHeader(LineAt(f, p)) /\ NeedSHA1(f, p)
           THEN [LineAt(f, p) EXCEPT !.hash = TRUE]
           ELSE LineAt(f, p)
<1>1. /\ p = <<p[1], p[2]>> /\ p[1] \in DOMAIN f /\ p[2] \in 1 .. Len(f[p[1]])
      /\ LineAt(f, p) \in Line
  BY PlacesOf
<1>2. f[p[1]] \in Seq(All) /\ DOMAIN f[p[1]] = 1 .. Len(f[p[1]])
  BY <1>1, Sections
<1> DEFINE line == LineAt(f, p)
           need == NeedSHA1(f, <<p[1], p[2]>>)
<1>3. Hash(f)[p[1]][p[2]] =
        IF IsHeader(line) THEN line ELSE [line EXCEPT !.hash = @ \/ need]
  BY <1>1, <1>2 DEF Hash, LineAt
<1>4. need <=> NeedSHA1(f, p)
  BY <1>1
<1>5. need \in BOOLEAN
  BY DEF NeedSHA1
<1> HIDE DEF need
<1>6. CASE need
  <2>1. [line EXCEPT !.hash = @ \/ need] = [line EXCEPT !.hash = TRUE]
    BY <1>6
  <2> QED
    BY <1>3, <1>4, <1>6, <2>1
<1>7. CASE ~need
  <2>1. [line EXCEPT !.hash = @ \/ need] = line
    BY <1>1, <1>5, <1>7 DEF Line
  <2> QED
    BY <1>3, <1>4, <1>7, <2>1
<1> QED
  BY <1>6, <1>7

LEMMA LoopTurns == FileInv(file) /\ LoopInv /\ UpdateLine => LoopInv'
<1> SUFFICES ASSUME FileInv(file), LoopInv, UpdateLine PROVE LoopInv'
  OBVIOUS
<1>1. /\ last = "updating" /\ todo # {} /\ todo \subseteq Places(file)
      /\ file' = file /\ last' = last /\ todo' = todo \ {Index}
      /\ lines = Partly(file, todo)
      /\ needSHA1 \in {"unassigned", "yes", "no"} /\ Need(Index) # "unassigned"
      /\ needSHA1' = Need(Index)
      /\ lines' = IF SetsHash(Index) THEN [lines EXCEPT ![Index[1]][Index[2]].hash = TRUE] ELSE lines
  BY DEF LoopInv, UpdateLine
<1>2. Index \in todo /\ \A q \in todo : NotBelow(Index, q)
  BY <1>1, IndexIs
<1> DEFINE place == Index
           line == LineAt(file, place)
           seen == Seen(file, todo)
           new == Seen(file, todo \ {place})
<1>3. /\ place = <<place[1], place[2]>>
      /\ place[1] \in DOMAIN file /\ place[2] \in 1 .. Len(file[place[1]])
      /\ place \in Places(file) /\ line \in Line
  BY <1>1, <1>2, PlacesOf
<1>4. \A s \in DOMAIN file : DOMAIN file[s] = 1 .. Len(file[s])
  BY Sections
<1>5. LineAt(lines, place) = line
  BY <1>1, <1>2, <1>3, <1>4 DEF Partly, LineAt
<1>6. /\ ~IsHeader(line) => seen = HeadersAbove(file, place)
      /\ new = seen \cup (IF IsHeader(line) THEN {place} ELSE {})
      /\ \A q \in Places(file) \ todo : NotBelow(q, place)
  BY <1>1, <1>2, SeenIsAbove
<1>7. /\ needSHA1 = "unassigned" <=> seen = {}
      /\ needSHA1 = "yes" <=> SaysFrom(file, seen)
  BY <1>1 DEF LoopInv
<1>8. ~IsHeader(line) => (needSHA1 = "yes" <=> NeedSHA1(file, place))
  BY <1>6, <1>7 DEF SaysFrom, NeedSHA1
<1>9. Need(place) = IF IsHeader(line) THEN (IF line.kind = "from" THEN "yes" ELSE "no") ELSE needSHA1
  BY <1>5 DEF Need
<1>10. SetsHash(place) <=> ~IsHeader(line) /\ NeedSHA1(file, place)
  BY <1>5, <1>8, <1>9 DEF SetsHash
<1>11. \A p \in todo', q \in Places(file)' : NotBelow(p, q) => q \in todo'
  <2>1. SUFFICES ASSUME NEW p \in todo \ {place}, NEW q \in Places(file), NotBelow(p, q)
                 PROVE  q \in todo \ {place}
    BY <1>1
  <2>2. q \in todo
    BY <1>1, <2>1 DEF LoopInv
  <2>3. NotBelow(place, p)
    BY <1>2
  <2>4. q # place
    BY <1>1, <1>3, <2>1, <2>3, PlaceOrder
  <2> QED
    BY <2>2, <2>4
<1>12. lines' = Partly(file, todo \ {place})
  <2> DEFINE before == Partly(file, todo)
             after == Partly(file, todo \ {place})
             a == place[1]
             b == place[2]
  <2>1. /\ DOMAIN before = DOMAIN file /\ DOMAIN after = DOMAIN file
        /\ \A s \in DOMAIN file : /\ DOMAIN before[s] = DOMAIN file[s]
                                  /\ DOMAIN after[s] = DOMAIN file[s]
    BY DEF Partly
  <2>2. ASSUME NEW s \in DOMAIN file, NEW i \in DOMAIN file[s], <<s, i>> # place
        PROVE  after[s][i] = before[s][i]
    BY <2>2 DEF Partly
  <2>3. before[a][b] = line /\ after[a][b] = Hash(file)[a][b]
    BY <1>2, <1>3, <1>4 DEF Partly, LineAt
  <2>4. Hash(file)[a][b] = IF SetsHash(place) THEN [line EXCEPT !.hash = TRUE] ELSE line
    BY <1>3, <1>10, HashedLine
  <2>5. after[a] = [before[a] EXCEPT ![b] = IF SetsHash(place) THEN [line EXCEPT !.hash = TRUE] ELSE line]
    <3>1. \A i \in DOMAIN file[a] : i # b => <<a, i>> # place
      BY <1>3
    <3>2. after[a] = [i \in DOMAIN file[a] |-> after[a][i]] /\ before[a] = [i \in DOMAIN file[a] |-> before[a][i]]
      BY <1>3 DEF Partly
    <3> HIDE DEF after, before
    <3> QED
      BY <1>3, <1>4, <2>1, <2>2, <2>3, <2>4, <3>1, <3>2
  <2>6. \A s \in DOMAIN file : s # a => after[s] = before[s]
    <3> SUFFICES ASSUME NEW s \in DOMAIN file, s # a PROVE after[s] = before[s]
      OBVIOUS
    <3>1. \A i \in DOMAIN file[s] : <<s, i>> # place
      BY <1>3
    <3>2. /\ after[s] = [i \in DOMAIN file[s] |-> after[s][i]]
          /\ before[s] = [i \in DOMAIN file[s] |-> before[s][i]]
      BY DEF Partly
    <3> HIDE DEF after, before
    <3> QED
      BY <2>2, <3>1, <3>2
  <2>7. after = [before EXCEPT ![a] = after[a]]
    <3>1. after = [s \in DOMAIN file |-> after[s]] /\ before = [s \in DOMAIN file |-> before[s]]
      BY DEF Partly
    <3> HIDE DEF after, before
    <3> QED
      BY <1>3, <2>1, <2>6, <3>1
  <2>8. before = lines
    BY <1>1
  <2>9. CASE SetsHash(place)
    <3>1. lines' = [lines EXCEPT ![a] = [lines[a] EXCEPT ![b] = [lines[a][b] EXCEPT !.hash = TRUE]]]
      BY <1>1, <2>9
    <3>2. after[a] = [before[a] EXCEPT ![b] = [before[a][b] EXCEPT !.hash = TRUE]]
      BY <2>3, <2>5, <2>9
    <3> HIDE DEF before, after
    <3>3. lines' = after
      BY <2>7, <2>8, <3>1, <3>2
    <3> QED
      BY <3>3 DEF after
  <2>10. CASE ~SetsHash(place)
    <3>1. after[a] = [before[a] EXCEPT ![b] = before[a][b]]
      BY <2>3, <2>5, <2>10
    <3>2. before[a] = [i \in DOMAIN file[a] |-> before[a][i]] /\ before = [s \in DOMAIN file |-> before[s]]
      BY <1>3 DEF Partly
    <3> HIDE DEF before, after
    <3>3. after[a] = before[a]
      BY <1>3, <3>1, <3>2
    <3>4. after = before
      BY <2>7, <3>2, <3>3
    <3> QED
      BY <1>1, <2>8, <2>10, <3>4 DEF after
  <2> QED
    BY <2>9, <2>10
<1>13. needSHA1' = "unassigned" <=> new = {}
  <2>1. needSHA1' # "unassigned"
    BY <1>1
  <2>2. ~IsHeader(line) => seen # {}
    BY <1>1, <1>7, <1>9
  <2> HIDE DEF new, seen, line
  <2> QED
    BY <1>6, <2>1, <2>2
<1>14. needSHA1' = "yes" <=> SaysFrom(file, new)
  <2>1. CASE IsHeader(line)
    <3>1. new = seen \cup {place}
      BY <1>6, <2>1
    <3>2. \A q \in seen : q \in Places(file) /\ NotBelow(q, place) /\ q # place
      BY <1>2, <1>6 DEF Seen
    <3>3. NotBelow(place, place)
      BY <1>3, PlaceOrder
    <3>4. SaysFrom(file, new) => line.kind = "from"
      <4>1. SUFFICES ASSUME NEW p \in new, LineAt(file, p).kind = "from",
                            \A q \in new : NotBelow(q, p)
                     PROVE  line.kind = "from"
        BY DEF SaysFrom
      <4>2. NotBelow(place, p)
        BY <3>1, <4>1
      <4>3. p = place
        BY <1>3, <3>1, <3>2, <4>1, <4>2, PlaceOrder
      <4> QED
        BY <4>1, <4>3
    <3>5. line.kind = "from" => SaysFrom(file, new)
      BY <3>1, <3>2, <3>3 DEF SaysFrom
    <3>6. needSHA1' = "yes" <=> line.kind = "from"
      BY <1>1, <1>9, <2>1
    <3> QED
      BY <3>4, <3>5, <3>6
  <2>2. CASE ~IsHeader(line)
    <3>1. new = seen /\ needSHA1' = needSHA1
      BY <1>1, <1>6, <1>9, <2>2
    <3> QED
      BY <1>7, <3>1
  <2> QED
    BY <2>1, <2>2
<1>15. needSHA1' \in {"unassigned", "yes", "no"}
  BY <1>1, <1>9
<1>16. todo' \subseteq Places(file')
  BY <1>1
<1> HIDE DEF place, line, seen, new
<1> QED
  BY <1>1, <1>11, <1>12, <1>13, <1>14, <1>15, <1>16 DEF LoopInv, place, new

LEMMA LoopBegins == FileInv(file) /\ LoopInv /\ UpdateBegin => LoopInv'
<1> SUFFICES ASSUME FileInv(file), LoopInv, UpdateBegin PROVE LoopInv'
  OBVIOUS
<1>1. /\ file' = file /\ lines' = file /\ todo' = Places(file)
      /\ needSHA1' = "unassigned" /\ last' = "updating"
  BY DEF UpdateBegin
<1>2. Seen(file, Places(file)) = {}
  BY DEF Seen
<1>3. ~SaysFrom(file, Seen(file, Places(file)))
  BY <1>2 DEF SaysFrom
<1>4. Partly(file, Places(file)) = file
  <2>1. /\ \A s \in DOMAIN file : /\ DOMAIN file[s] = 1 .. Len(file[s])
                                  /\ file[s] = [i \in DOMAIN file[s] |-> file[s][i]]
        /\ file = [s \in DOMAIN file |-> file[s]]
    <3>1. \A s \in DOMAIN file : file[s] \in Seq(All)
      BY Sections
    <3>2. file = [s \in DOMAIN file |-> file[s]]
      BY DEF LoopInv
    <3> QED
      BY <3>1, <3>2
  <2>2. ASSUME NEW s \in DOMAIN file, NEW i \in DOMAIN file[s] PROVE <<s, i>> \in Places(file)
    <3>1. i \in 1 .. Len(file[s])
      BY <2>1
    <3> QED
      BY <3>1, PlacesOf
  <2>3. \A s \in DOMAIN file :
          [i \in DOMAIN file[s] |-> IF <<s, i>> \in Places(file) THEN file[s][i] ELSE Hash(file)[s][i]] = file[s]
    BY <2>1, <2>2
  <2> QED
    BY <2>1, <2>3 DEF Partly
<1> QED
  BY <1>1, <1>2, <1>3, <1>4 DEF LoopInv

\* When nothing is left to do the lines are as the list says.
LEMMA LoopEnds == FileInv(file) /\ LoopInv /\ UpdateEnd => file' = Hash(file)
<1> SUFFICES ASSUME FileInv(file), LoopInv, UpdateEnd PROVE file' = Hash(file)
  OBVIOUS
<1>1. file' = Partly(file, {})
  BY DEF LoopInv, UpdateEnd
<1>2. /\ Hash(file) = [s \in DOMAIN file |-> Hash(file)[s]]
      /\ \A s \in DOMAIN file : Hash(file)[s] = [i \in DOMAIN file[s] |-> Hash(file)[s][i]]
  BY DEF Hash
<1>3. \A s \in DOMAIN file :
        [i \in DOMAIN file[s] |-> IF <<s, i>> \in {} THEN file[s][i] ELSE Hash(file)[s][i]]
          = [i \in DOMAIN file[s] |-> Hash(file)[s][i]]
  OBVIOUS
<1> QED
  BY <1>1, <1>2, <1>3 DEF Partly

BlobInv ==
  /\ FileInv(file)
  /\ LoopInv
  /\ last \in {"none", "reorder", "updating", "update", "cleanup", "failed"}
  /\ OrderSettles

LEMMA BlobNext ==
  BlobInv /\ [Next]_vars =>
    /\ BlobInv'
    /\ Pinned(file') = Pinned(file)
    /\ last' = "update" => file' = Hash(file) \/ UNCHANGED vars
<1> SUFFICES ASSUME BlobInv, [Next]_vars
             PROVE  /\ BlobInv'
                    /\ Pinned(file') = Pinned(file)
                    /\ last' = "update" => file' = Hash(file) \/ UNCHANGED vars
  OBVIOUS
<1>1. CASE Reorder
  <2>1. last' = "reorder" /\ todo' = {} /\ needSHA1' \in {"unassigned", "yes", "no"}
    BY <1>1 DEF Reorder, BlobInv, LoopInv
  <2>2. /\ FileInv(file)' /\ Pinned(file') = Pinned(file)
        /\ \A s \in DOMAIN file' : Orders(file'[s]) = {file'[s]}
    BY <1>1, ReorderKeeps DEF BlobInv
  <2>3. file' = [s \in DOMAIN file' |-> file'[s]]
    BY <1>1 DEF Reorder, OneOfEach
  <2> QED
    BY <2>1, <2>2, <2>3 DEF BlobInv, LoopInv, OrderSettles
<1>2. CASE UpdateBegin
  <2>1. LoopInv' /\ file' = file /\ last' = "updating"
    BY <1>2, LoopBegins DEF BlobInv, UpdateBegin
  <2> QED
    BY <2>1 DEF BlobInv, OrderSettles
<1>3. CASE UpdateLine
  <2>1. LoopInv' /\ file' = file /\ last' = "updating"
    BY <1>3, LoopTurns DEF BlobInv, UpdateLine
  <2> QED
    BY <2>1 DEF BlobInv, OrderSettles
<1>4. CASE UpdateFails
  BY <1>4 DEF UpdateFails, Ends, BlobInv, LoopInv, OrderSettles
<1>5. CASE UpdateEnd
  <2>1. file' = Hash(file)
    BY <1>5, LoopEnds DEF BlobInv
  <2>2. SameButHash(file, file')
    BY <2>1, HashKeeps DEF BlobInv
  <2>3. FileInv(file') /\ Pinned(file') = Pinned(file)
    BY <2>2, HashesKept, PinnedByKinds DEF BlobInv
  <2>4. last' = "update" /\ todo' = {} /\ needSHA1' = "unassigned"
    BY <1>5 DEF UpdateEnd, Ends
  <2>5. file' = [s \in DOMAIN file' |-> file'[s]]
    BY <2>1 DEF Hash
  <2> QED
    BY <2>1, <2>3, <2>4, <2>5 DEF BlobInv, LoopInv, OrderSettles
<1>6. CASE Cleanup
  <2>1. SameButHash(file, file')
    BY <1>6, CleanupKeeps DEF BlobInv
  <2>2. FileInv(file') /\ Pinned(file') = Pinned(file)
    BY <2>1, HashesKept, PinnedByKinds DEF BlobInv
  <2>3. last' = "cleanup" /\ todo' = {} /\ needSHA1' \in {"unassigned", "yes", "no"}
    BY <1>6 DEF Cleanup, BlobInv, LoopInv
  <2>4. file' = [s \in DOMAIN file' |-> file'[s]]
    BY <1>6 DEF Cleanup
  <2> QED
    BY <2>2, <2>3, <2>4 DEF BlobInv, LoopInv, OrderSettles
<1>7. CASE UNCHANGED vars
  <2>1. UNCHANGED <<file, last, lines, todo, needSHA1>>
    BY <1>7 DEF vars
  <2>2. BlobInv'
    <3>1. FileInv(file)' /\ OrderSettles'
      BY <2>1 DEF BlobInv, OrderSettles
    <3>2. LoopInv'
      BY <2>1 DEF BlobInv, LoopInv
    <3> QED
      BY <2>1, <3>1, <3>2 DEF BlobInv
  <2> QED
    BY <1>7, <2>1, <2>2
<1> QED
  BY <1>1, <1>2, <1>3, <1>4, <1>5, <1>6, <1>7 DEF Next

LEMMA ListingKept ==
  ASSUME NEW sections \in Files, NEW s \in DOMAIN sections, NEW list \in Listings(sections[s])
  PROVE  SectionInv(list) /\ BareSet(list) = sections[s]
<1> DEFINE section == sections[s]
           Pick(line, hashed) == IF line \in hashed THEN [line EXCEPT !.hash = TRUE] ELSE line
<1>1. \A line \in section : /\ line \in Line /\ ~line.hash /\ line \in All
                            /\ ~IsHeader(line) => [line EXCEPT !.hash = TRUE] \in All
  <2>1. \A line \in section : /\ ~line.hash /\ line \in All
                              /\ ~IsHeader(line) => [line EXCEPT !.hash = TRUE] \in All
    BY BlobListAssumption DEF BlobListAssumption, All
  <2> QED
    BY <2>1, AllIs
<1>2. PICK hashed \in SUBSET {line \in section : ~IsHeader(line)} :
        list \in SetToSeqs({Pick(line, hashed) : line \in section})
  BY DEF Listings
<1>3. \A i \in DOMAIN list : IsHeader(list[i]) => i = 1
  BY DEF Listings
<1> HIDE DEF section
<1>4. ASSUME NEW line \in section
      PROVE  /\ Pick(line, hashed) \in All /\ Bare(Pick(line, hashed)) = line
             /\ IsHeader(Pick(line, hashed)) => ~Pick(line, hashed).hash
  <2>1. /\ line \in Line /\ ~line.hash /\ line \in All /\ Bare(line) = line
        /\ ~IsHeader(line) => [line EXCEPT !.hash = TRUE] \in All
    BY <1>1, BareOf
  <2>2. CASE line \in hashed
    <3>1. ~IsHeader(line) /\ Pick(line, hashed) = [line EXCEPT !.hash = TRUE]
      BY <1>2, <2>2
    <3>2. /\ Bare([line EXCEPT !.hash = TRUE]) = Bare(line)
          /\ [line EXCEPT !.hash = TRUE].kind = line.kind
      BY <2>1, HashOf
    <3> QED
      BY <2>1, <3>1, <3>2 DEF IsHeader
  <2>3. CASE line \notin hashed
    BY <2>1, <2>3
  <2> QED
    BY <2>2, <2>3
<1> DEFINE chosen == {Pick(line, hashed) : line \in section}
<1>5. /\ \A x \in chosen : /\ x \in All /\ Bare(x) \in section
                           /\ IsHeader(x) => ~x.hash
      /\ \A x, y \in chosen : Bare(x) = Bare(y) => x = y
      /\ \A line \in section : \E x \in chosen : Bare(x) = line
  <2> HIDE DEF Pick
  <2> QED
    BY <1>4
<1>6. list \in SetToSeqs(chosen)
  BY <1>2
<1> HIDE DEF chosen
<1>7. IsFiniteSet(chosen)
  BY <1>5, AllFinite, FS_Subset
<1>8. /\ list \in Seq(chosen) /\ ToSet(list) = chosen
      /\ \A i, j \in 1 .. Len(list) : list[i] = list[j] => i = j
  BY <1>6, <1>7, Arrangement
<1>9. list \in Seq(All) /\ \A i \in 1 .. Len(list) : list[i] \in chosen
  BY <1>5, <1>8
<1>10. SectionInv(list)
  BY <1>3, <1>5, <1>8, <1>9 DEF SectionInv
<1>11. BareSet(list) \subseteq section /\ section \subseteq BareSet(list)
  BY <1>5, <1>8 DEF BareSet
<1> QED
  BY <1>10, <1>11 DEF section

LEMMA BlobInit == Init => BlobInv
<1> SUFFICES ASSUME Init PROVE BlobInv
  OBVIOUS
<1>1. PICK sections \in Files :
        file \in OneOfEach([s \in DOMAIN sections |-> Listings(sections[s])])
  BY DEF Init
<1>2. DOMAIN file = DOMAIN sections /\ \A s \in DOMAIN sections : file[s] \in Listings(sections[s])
  <2> DEFINE choice == [s \in DOMAIN sections |-> Listings(sections[s])]
  <2>1. DOMAIN choice = DOMAIN sections /\ \A s \in DOMAIN sections : choice[s] = Listings(sections[s])
    OBVIOUS
  <2>2. file \in OneOfEach(choice)
    BY <1>1
  <2> HIDE DEF choice
  <2>3. DOMAIN file = DOMAIN choice /\ \A s \in DOMAIN choice : file[s] \in choice[s]
    BY <2>2 DEF OneOfEach
  <2> QED
    BY <2>1, <2>3
<1>3. \A s \in DOMAIN file : SectionInv(file[s]) /\ BareSet(file[s]) = sections[s]
  BY <1>2, ListingKept
<1>4. sections = [s \in DOMAIN sections |-> sections[s]]
  <2>1. sections \in Seq(SUBSET Line)
    BY BlobListAssumption DEF BlobListAssumption
  <2> QED
    BY <2>1
<1>5. BareFile(file) = sections
  BY <1>2, <1>3, <1>4 DEF BareFile
<1>6. file = [s \in DOMAIN file |-> file[s]]
  BY <1>1 DEF OneOfEach
<1> QED
  BY <1>1, <1>3, <1>5, <1>6 DEF Init, BlobInv, FileInv, LoopInv, OrderSettles

LEMMA BlobInvariant == Spec => []BlobInv
<1>1. BlobInv /\ [Next]_vars => BlobInv'
  BY BlobNext
<1> QED
  BY <1>1, BlobInit, PTL DEF Spec

(***************************************************************************)
(* Whatever the tools are called for, every section keeps its lines, each  *)
(* once, and no header gets a hash.                                        *)
(***************************************************************************)
THEOREM BlobTypeCorrect == Spec => []TypeOK
<1>1. BlobInv => TypeOK
  <2> SUFFICES ASSUME BlobInv PROVE TypeOK
    OBVIOUS
  <2>1. [s \in DOMAIN file |-> {[line EXCEPT !.hash = FALSE] : line \in ToSet(file[s])}] \in Files
    BY DEF BlobInv, FileInv, BareFile, BareSet, Bare
  <2>2. ASSUME NEW s \in DOMAIN file PROVE IsInjective(file[s])
    BY DEF BlobInv, FileInv, SectionInv, IsInjective
  <2>3. ASSUME NEW p \in Places(file), IsHeader(LineAt(file, p)) PROVE ~LineAt(file, p).hash
    <3>1. p[1] \in DOMAIN file /\ p[2] \in 1 .. Len(file[p[1]])
      BY PlacesOf DEF BlobInv
    <3> QED
      BY <2>3, <3>1 DEF BlobInv, FileInv, SectionInv, LineAt
  <2> QED
    BY <2>1, <2>2, <2>3 DEF TypeOK, BlobInv, LoopInv
<1> QED
  BY <1>1, BlobInvariant, PTL

(***************************************************************************)
(* The comparator of reorder-blobs.py, which goes by directories and by    *)
(* texts at once, orders any set of lines in one way: a sorted list is not *)
(* changed by being sorted again.                                          *)
(***************************************************************************)
THEOREM SortingSettles == Spec => []OrderSettles
<1>1. BlobInv => OrderSettles
  BY DEF BlobInv
<1> QED
  BY <1>1, BlobInvariant, PTL

(***************************************************************************)
(* However long the list, the loop with its carried needSHA1 writes what   *)
(* the list says: hashes for the files whose nearest header above, across  *)
(* sections, has " - from", and nothing else is changed.                   *)
(***************************************************************************)
THEOREM UpdateHashesAsListed == Spec => UpdateHashes
<1>1. BlobInv /\ [Next]_vars => [last' = "update" => file' = Hash(file)]_vars
  BY BlobNext
<1> QED
  BY <1>1, BlobInvariant, PTL DEF Spec, UpdateHashes

(***************************************************************************)
(* No sequence of calls changes which files are to be pinned.              *)
(***************************************************************************)
THEOREM PinsNeverChange == Spec => PinsStay
<1>1. BlobInv /\ [Next]_vars => [Pinned(file') = Pinned(file)]_vars
  BY BlobNext
<1> QED
  BY <1>1, BlobInvariant, PTL DEF Spec, PinsStay
=============================================================================
