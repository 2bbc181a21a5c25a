------------------------ MODULE KernelUpgradeProofs -------------------------
(***************************************************************************)
(* The order of the versions a node's kernels are read as, and what it     *)
(* makes of a node that is upgraded: for all kernels and bounds that are   *)
(* read as they are written (ReadAsWritten); what sanitizeVersion keeps of *)
(* a kernel's release; and that the releases of distributions are read as  *)
(* they are written.                                                       *)
(***************************************************************************)
EXTENDS KernelUpgrade, SequenceTheorems, FiniteSetTheorems, WellFoundedInduction, TLAPS

Places == Nat \ {0}

(* The order of two rows of numbers without an end: by the first place at  *)
(* which they differ.                                                      *)
Rows == [Places -> Int]
Below(f, g, k) == f[k] < g[k] /\ \A j \in Places : j < k => f[j] = g[j]
Less(f, g) == \E k \in Places : Below(f, g, k)

(* The rows of a version: what it lacks is zero among the segments, and    *)
(* less than any number among the parts of the prerelease.                 *)
Segs(segments) == [k \in Places |-> At(segments, k, 0)]
Builds(pre) ==
  [k \in Places |-> IF k <= Len(Split(pre)) THEN ParseInt(Split(pre)[k]).val ELSE -1]

-----------------------------------------------------------------------------
LEMMA MinFacts ==
  ASSUME NEW S \in SUBSET Nat, S # {}
  PROVE  Min(S) \in S /\ \A y \in S : Min(S) <= y
<1>1. PICK x \in S : \A y \in S : ~ (<<y, x>> \in OpToRel(<, Nat))
  BY NatLessThanWellFounded, WFMin
<1>2. \A y \in S : ~ (y < x)
  BY <1>1 DEF OpToRel
<1>3. \A y \in S : x <= y
  BY <1>2
<1> QED BY <1>3 DEF Min

LEMMA MaxOfTwo ==
  ASSUME NEW m \in Nat, NEW n \in Nat
  PROVE  Max({m, n}) \in Nat /\ m <= Max({m, n}) /\ n <= Max({m, n})
<1>1. \E x \in {m, n} : \A y \in {m, n} : x >= y
  <2>1. CASE m <= n
    BY <2>1
  <2>2. CASE n <= m
    BY <2>2
  <2> QED BY <2>1, <2>2
<1>2. Max({m, n}) \in {m, n} /\ \A y \in {m, n} : Max({m, n}) >= y
  BY <1>1 DEF Max
<1> QED BY <1>2

-----------------------------------------------------------------------------
(* Rows are in one order.                                                  *)
LEMMA LessAsymmetric ==
  ASSUME NEW f \in Rows, NEW g \in Rows, Less(f, g)
  PROVE  ~ Less(g, f) /\ f # g
<1>1. PICK j \in Places : Below(f, g, j)
  BY DEF Less
<1>2. f # g
  BY <1>1 DEF Below, Rows
<1>3. ASSUME NEW k \in Places, Below(g, f, k)
      PROVE  FALSE
  <2>1. j < k \/ j = k \/ k < j
    BY DEF Places
  <2> QED BY <1>1, <1>3, <2>1 DEF Below, Rows
<1> QED BY <1>2, <1>3 DEF Less

LEMMA LessTransitive ==
  ASSUME NEW f \in Rows, NEW g \in Rows, NEW h \in Rows, Less(f, g), Less(g, h)
  PROVE  Less(f, h)
<1>1. PICK j \in Places : Below(f, g, j)
  BY DEF Less
<1>2. PICK k \in Places : Below(g, h, k)
  BY DEF Less
<1>3. CASE j < k
  <2>1. Below(f, h, j)
    BY <1>1, <1>2, <1>3 DEF Below, Places, Rows
  <2> QED BY <2>1 DEF Less
<1>4. CASE k < j
  <2>1. Below(f, h, k)
    BY <1>1, <1>2, <1>4 DEF Below, Places, Rows
  <2> QED BY <2>1 DEF Less
<1>5. CASE j = k
  <2>1. Below(f, h, j)
    BY <1>1, <1>2, <1>5 DEF Below, Places, Rows
  <2> QED BY <2>1 DEF Less
<1> QED BY <1>3, <1>4, <1>5 DEF Places

(* What a loop of comparisons decides, when each of its results says how   *)
(* two rows compare at a place, and they are alike behind its end.         *)
Tells(result, a, b) == result = IF a < b THEN -1 ELSE IF a > b THEN 1 ELSE 0
Decides(c, f, g) ==
  \/ c = -1 /\ Less(f, g)
  \/ c = 1 /\ Less(g, f)
  \/ c = 0 /\ f = g

LEMMA LoopDecides ==
  ASSUME NEW f \in Rows, NEW g \in Rows, NEW m \in Nat, NEW results,
         DOMAIN results = 1 .. m,
         \A k \in 1 .. m : Tells(results[k], f[k], g[k]),
         \A k \in Places : k > m => f[k] = g[k]
  PROVE  Decides(FirstDifference(results), f, g)
<1> DEFINE differ == {k \in DOMAIN results : results[k] # 0}
           c == FirstDifference(results)
<1>1. c = IF differ = {} THEN 0 ELSE results[Min(differ)]
  BY DEF FirstDifference
<1> HIDE DEF c
<1>2. \A k \in 1 .. m : k \in Places /\ (k \in differ <=> f[k] # g[k])
  <2> SUFFICES ASSUME NEW k \in 1 .. m PROVE k \in Places /\ (results[k] # 0 <=> f[k] # g[k])
    OBVIOUS
  <2>1. k \in Places
    BY DEF Places
  <2>2. f[k] \in Int /\ g[k] \in Int
    BY <2>1 DEF Rows
  <2>3. Tells(results[k], f[k], g[k])
    OBVIOUS
  <2> QED BY <2>1, <2>2, <2>3 DEF Tells
<1>3. CASE differ = {}
  <2>1. \A k \in Places : f[k] = g[k]
    BY <1>2, <1>3 DEF Places
  <2>2. f = g
    BY <2>1 DEF Rows
  <2> QED BY <1>1, <1>3, <2>2 DEF Decides, c
<1>4. CASE differ # {}
  <2> DEFINE k == Min(differ)
  <2>1. differ \in SUBSET Nat /\ differ \subseteq 1 .. m
    OBVIOUS
  <2>2. k \in differ /\ \A j \in differ : k <= j
    BY <1>4, <2>1, MinFacts
  <2>3. k \in Places /\ f[k] # g[k] /\ Tells(c, f[k], g[k])
    BY <1>1, <1>2, <1>4, <2>1, <2>2
  <2>4. \A j \in Places : j < k => f[j] = g[j]
    <3> SUFFICES ASSUME NEW j \in Places, j < k PROVE f[j] = g[j]
      OBVIOUS
    <3>1. k \in 1 .. m /\ j \in Nat \ {0} /\ \A i \in differ : k <= i
      BY <2>1, <2>2 DEF Places
    <3> HIDE DEF k, differ
    <3>2. j \in 1 .. m /\ j \notin differ
      BY <3>1
    <3> QED BY <1>2, <3>2
  <2> HIDE DEF k
  <2>5. CASE f[k] < g[k]
    BY <2>3, <2>4, <2>5 DEF Below, Less, Tells, Decides, c
  <2>6. CASE g[k] < f[k]
    <3>1. Below(g, f, k)
      BY <2>4, <2>6 DEF Below
    <3>2. c = 1
      BY <2>3, <2>6 DEF Tells, Rows
    <3> QED BY <2>3, <3>1, <3>2 DEF Less, Decides, c
  <2> QED BY <2>3, <2>5, <2>6 DEF Rows
<1> QED BY <1>3, <1>4

-----------------------------------------------------------------------------
(* compareSegments goes by the segments with zeros behind them.            *)
LEMMA SegmentsDecided ==
  ASSUME NEW s \in Seq(Int), NEW t \in Seq(Int)
  PROVE  /\ Segs(s) \in Rows /\ Segs(t) \in Rows
         /\ Decides(compareSegments(s, t), Segs(s), Segs(t))
<1> DEFINE m == Max({Len(s), Len(t)})
           sign(n) == IF n < 0 THEN -1 ELSE IF n > 0 THEN 1 ELSE 0
           results == [k \in 1 .. m |-> sign(At(s, k, 0) - At(t, k, 0))]
<1>1. compareSegments(s, t) = FirstDifference(results)
  BY DEF compareSegments, At
<1>2. m \in Nat /\ Len(s) \in Nat /\ Len(t) \in Nat /\ Len(s) <= m /\ Len(t) <= m
  BY LenProperties, MaxOfTwo
<1> HIDE DEF m
<1>3. \A k \in Places : At(s, k, 0) \in Int /\ At(t, k, 0) \in Int
  <2>1. \A n \in 1 .. Len(s) : s[n] \in Int
    BY ElementOfSeq
  <2>2. \A n \in 1 .. Len(t) : t[n] \in Int
    BY ElementOfSeq
  <2> QED BY <1>2, <2>1, <2>2 DEF At, Places
<1>4. Segs(s) \in Rows /\ Segs(t) \in Rows
  BY <1>3 DEF Segs, Rows
<1>5. \A k \in Places : k > m => Segs(s)[k] = Segs(t)[k]
  BY <1>2 DEF Segs, At, Places
<1>6. \A k \in 1 .. m : Tells(results[k], Segs(s)[k], Segs(t)[k])
  BY <1>2, <1>3 DEF Segs, Tells, Places
<1>7. DOMAIN results = 1 .. m
  OBVIOUS
<1> HIDE DEF results
<1> QED BY <1>1, <1>2, <1>4, <1>5, <1>6, <1>7, LoopDecides

-----------------------------------------------------------------------------
(* The parts of a prerelease are a row from 1 on.                          *)
LEMMA SplitRow ==
  ASSUME NEW t \in Seq(Nat)
  PROVE  Len(Split(t)) \in Nat /\ DOMAIN Split(t) = 1 .. Len(Split(t))
<1> DEFINE stops == {0, Len(t) + 1} \union {k \in DOMAIN t : t[k] = DOT}
           n == Cardinality(stops) - 1
           part(k) == SubSeq(t, Kth(stops, k) + 1, Kth(stops, k + 1) - 1)
<1>1. Len(t) \in Nat /\ DOMAIN t = 1 .. Len(t)
  BY LenProperties
<1>2. IsFiniteSet(stops) /\ stops # {}
  <2>1. stops \subseteq 0 .. Len(t) + 1
    BY <1>1
  <2>2. IsFiniteSet(0 .. Len(t) + 1)
    BY <1>1, FS_Interval
  <2> QED BY <2>1, <2>2, FS_Subset
<1>3. n \in Nat
  <2>1. Cardinality(stops) \in Nat /\ Cardinality(stops) # 0
    BY <1>2, FS_CardinalityType, FS_EmptySet
  <2> QED BY <2>1
<1> HIDE DEF stops
<1>4. Split(t) = [k \in 1 .. n |-> part(k)]
  BY DEF Split, stops
<1> HIDE DEF n, part
<1>5. PICK R : R = {part(k) : k \in 1 .. n}
  OBVIOUS
<1>6. Split(t) \in [1 .. n -> R]
  BY <1>4, <1>5
<1>7. Split(t) \in Seq(R)
  BY <1>3, <1>6, SeqDef
<1> QED BY <1>7, LenProperties

LEMMA InRange ==
  ASSUME NEW s, NEW k \in DOMAIN s
  PROVE  s[k] \in Range(s)
BY DEF Range

LEMMA OkBoolean ==
  ASSUME NEW p
  PROVE  ParseInt(p).ok \in BOOLEAN
<1> DEFINE negative == p # <<>> /\ p[1] = DASH
           digits == IF negative THEN Tail(p) ELSE p
           sign == IF negative THEN -1 ELSE 1
           limit == IF negative THEN INT64_MAX + 1 ELSE INT64_MAX
           val == sign * Min({Value(digits), limit})
           ok == Value(digits) <= limit
<1>1. ok \in BOOLEAN
  OBVIOUS
<1>2. ParseInt(p) = IF ~ IsNumber(digits) THEN [ok |-> FALSE, val |-> 0]
                    ELSE [ok |-> ok, val |-> val]
  BY DEF ParseInt
<1> HIDE DEF digits, ok, val
<1>3. CASE IsNumber(digits)
  <2>1. ParseInt(p) = [ok |-> ok, val |-> val]
    BY <1>2, <1>3
  <2> QED BY <1>1, <2>1
<1>4. CASE ~ IsNumber(digits)
  BY <1>2, <1>4
<1> QED BY <1>3, <1>4

(* Two parts that are numbers, or one that is and one that is missing.     *)
Number(p) == ParseInt(p).ok = TRUE /\ ParseInt(p).val \in Nat /\ p # <<>>

LEMMA NumbersTell ==
  ASSUME NEW p, NEW q, Number(p)
  PROVE  /\ comparePart(p, <<>>) = 1 /\ comparePart(<<>>, p) = -1
         /\ Number(q) /\ (ParseInt(p).val = ParseInt(q).val => p = q)
              => Tells(comparePart(p, q), ParseInt(p).val, ParseInt(q).val)
<1>1. comparePart(p, <<>>) = 1 /\ comparePart(<<>>, p) = -1
  BY DEF comparePart, Number
<1>2. ASSUME Number(q), ParseInt(p).val = ParseInt(q).val => p = q
      PROVE  Tells(comparePart(p, q), ParseInt(p).val, ParseInt(q).val)
  <2>1. CASE p = q
    BY <2>1 DEF comparePart, Tells, Number
  <2>2. CASE p # q
    <3>1. comparePart(p, q) = IF ParseInt(p).val > ParseInt(q).val THEN 1 ELSE -1
      BY <1>2, <2>2 DEF comparePart, Number
    <3> QED BY <1>2, <2>2, <3>1 DEF Tells, Number
  <2> QED BY <2>1, <2>2
<1> QED BY <1>1, <1>2

(* Rows of numbers that are written in one way only.                       *)
AreNumbers(pre) == \A p \in Range(Split(pre)) : ParseInt(p).ok /\ ParseInt(p).val \in Nat
OneWay(pre, other) ==
  \A p \in Range(Split(pre)), q \in Range(Split(other)) :
    ParseInt(p).val = ParseInt(q).val => p = q

LEMMA PrereleasesDecided ==
  ASSUME NEW s \in Seq(Nat), NEW t \in Seq(Nat), AreNumbers(s), AreNumbers(t), OneWay(s, t)
  PROVE  /\ Builds(s) \in Rows /\ Builds(t) \in Rows
         /\ Decides(comparePrereleases(s, t), Builds(s), Builds(t))
<1> DEFINE S == Split(s)
           T == Split(t)
           m == Max({Len(S), Len(T)})
           part(row, k) == IF k <= Len(row) THEN row[k] ELSE <<>>
           results == [k \in 1 .. m |-> comparePart(part(S, k), part(T, k))]
<1>1. comparePrereleases(s, t) = FirstDifference(results)
  BY DEF comparePrereleases
<1>2. /\ Len(S) \in Nat /\ DOMAIN S = 1 .. Len(S)
      /\ Len(T) \in Nat /\ DOMAIN T = 1 .. Len(T)
  BY SplitRow
<1>3. m \in Nat /\ Len(S) <= m /\ Len(T) <= m
  BY <1>2, MaxOfTwo
<1> HIDE DEF m
<1>4. /\ \A k \in Places : k <= Len(S) => Number(S[k])
      /\ \A k \in Places : k <= Len(T) => Number(T[k])
      /\ \A k \in Places : k <= Len(S) /\ k <= Len(T) /\ ParseInt(S[k]).val = ParseInt(T[k]).val
           => S[k] = T[k]
  <2>1. ParseInt(<<>>).ok = FALSE
    BY DEF ParseInt, IsNumber
  <2>2. \A p : ParseInt(p).ok \in BOOLEAN
    BY OkBoolean
  <2>3. /\ \A p \in Range(S) : ParseInt(p).ok /\ ParseInt(p).val \in Nat
        /\ \A p \in Range(T) : ParseInt(p).ok /\ ParseInt(p).val \in Nat
        /\ \A p \in Range(S), q \in Range(T) : ParseInt(p).val = ParseInt(q).val => p = q
    BY DEF AreNumbers, OneWay
  <2> HIDE DEF S, T
  <2>4. ASSUME NEW k \in Places
        PROVE  /\ k <= Len(S) => k \in DOMAIN S
               /\ k <= Len(T) => k \in DOMAIN T
    BY <1>2 DEF Places
  <2>5. \A k \in Places : (k <= Len(S) => S[k] \in Range(S)) /\ (k <= Len(T) => T[k] \in Range(T))
    BY <2>4, InRange
  <2>6. ASSUME NEW p, p \in Range(S) \/ p \in Range(T)
        PROVE  Number(p)
    <3>1. ParseInt(p).ok \in BOOLEAN /\ ParseInt(p).ok /\ ParseInt(p).val \in Nat
      BY <2>2, <2>3, <2>6
    <3>2. ParseInt(p).ok = TRUE
      BY <3>1
    <3>3. p # <<>>
      BY <2>1, <3>2
    <3> QED BY <3>1, <3>2, <3>3 DEF Number
  <2> QED BY <2>3, <2>5, <2>6
<1>5. Builds(s) \in Rows /\ Builds(t) \in Rows
  BY <1>4 DEF Builds, Rows, Number
<1>6. \A k \in Places : k > m => Builds(s)[k] = Builds(t)[k]
  BY <1>2, <1>3 DEF Builds, Places
<1>7. ASSUME NEW k \in 1 .. m
      PROVE  Tells(comparePart(part(S, k), part(T, k)), Builds(s)[k], Builds(t)[k])
  <2>1. k \in Places
    BY DEF Places
  <2>2. /\ Builds(s)[k] = IF k <= Len(S) THEN ParseInt(S[k]).val ELSE -1
        /\ Builds(t)[k] = IF k <= Len(T) THEN ParseInt(T[k]).val ELSE -1
    BY <2>1 DEF Builds
  <2> HIDE DEF S, T
  <2>3. CASE k <= Len(S) /\ k <= Len(T)
    <3>1. /\ Number(S[k]) /\ Number(T[k])
          /\ ParseInt(S[k]).val = ParseInt(T[k]).val => S[k] = T[k]
      BY <1>4, <2>1, <2>3
    <3>2. Tells(comparePart(S[k], T[k]), ParseInt(S[k]).val, ParseInt(T[k]).val)
      BY <3>1, NumbersTell
    <3> QED BY <2>2, <2>3, <3>2
  <2>4. CASE k <= Len(S) /\ ~ (k <= Len(T))
    <3>1. Number(S[k]) /\ comparePart(S[k], <<>>) = 1
      BY <1>4, <2>1, <2>4, NumbersTell
    <3> QED BY <2>2, <2>4, <3>1 DEF Tells, Number
  <2>5. CASE ~ (k <= Len(S)) /\ k <= Len(T)
    <3>1. Number(T[k]) /\ comparePart(<<>>, T[k]) = -1
      BY <1>4, <2>1, <2>5, NumbersTell
    <3> QED BY <2>2, <2>5, <3>1 DEF Tells, Number
  <2>6. CASE ~ (k <= Len(S)) /\ ~ (k <= Len(T))
    <3>1. comparePart(<<>>, <<>>) = 0
      BY DEF comparePart
    <3> QED BY <2>2, <2>6, <3>1 DEF Tells
  <2> QED BY <2>3, <2>4, <2>5, <2>6
<1>8. DOMAIN results = 1 .. m /\ \A k \in 1 .. m : Tells(results[k], Builds(s)[k], Builds(t)[k])
  BY <1>7
<1> HIDE DEF results
<1> QED BY <1>1, <1>3, <1>5, <1>6, <1>8, LoopDecides

-----------------------------------------------------------------------------
(* Versions by their segments; among those with the same, one without a    *)
(* prerelease is the newest, and the others go by their builds.            *)
Numbered(v) ==
  v.segments \in Seq(Int) /\ v.pre \in Seq(Nat) /\ (v.pre # <<>> => AreNumbers(v.pre))
Comparable(v, w) ==
  /\ compareSegments(v.segments, w.segments) = 0 => v.segments = w.segments
  /\ v.pre # <<>> /\ w.pre # <<>> => OneWay(v.pre, w.pre)
Earlier(v, w) ==
  \/ Less(Segs(v.segments), Segs(w.segments))
  \/ /\ v.segments = w.segments /\ v.pre # <<>>
     /\ w.pre = <<>> \/ Less(Builds(v.pre), Builds(w.pre))
Same(v, w) ==
  /\ v.segments = w.segments /\ (v.pre = <<>> <=> w.pre = <<>>)
  /\ v.pre # <<>> => Builds(v.pre) = Builds(w.pre)

LEMMA NumberedRows ==
  ASSUME NEW v, Numbered(v)
  PROVE  Segs(v.segments) \in Rows /\ (v.pre # <<>> => Builds(v.pre) \in Rows)
<1>1. Segs(v.segments) \in Rows
  BY SegmentsDecided DEF Numbered
<1>2. ASSUME NEW k \in Places, v.pre # <<>>
      PROVE  Builds(v.pre)[k] \in Int
  <2>1. CASE k <= Len(Split(v.pre))
    <3>1. k \in DOMAIN Split(v.pre)
      BY <2>1, SplitRow DEF Numbered, Places
    <3>2. ParseInt(Split(v.pre)[k]).val \in Nat
      BY <1>2, <3>1, InRange DEF Numbered, AreNumbers
    <3> QED BY <2>1, <3>2 DEF Builds
  <2>2. CASE ~ (k <= Len(Split(v.pre)))
    BY <2>2 DEF Builds
  <2> QED BY <2>1, <2>2
<1>3. v.pre # <<>> => Builds(v.pre) \in Rows
  BY <1>2 DEF Builds, Rows
<1> QED BY <1>1, <1>3

LEMMA CompareDecides ==
  ASSUME NEW v, NEW w, Numbered(v), Numbered(w), Comparable(v, w)
  PROVE  \/ Compare(v, w) = -1 /\ Earlier(v, w)
         \/ Compare(v, w) = 1 /\ Earlier(w, v)
         \/ Compare(v, w) = 0 /\ Same(v, w)
<1>1. Decides(compareSegments(v.segments, w.segments), Segs(v.segments), Segs(w.segments))
  BY SegmentsDecided DEF Numbered
<1>2. CASE v.segments # w.segments
  <2>1. Compare(v, w) = compareSegments(v.segments, w.segments)
    BY <1>2 DEF Compare
  <2>2. compareSegments(v.segments, w.segments) # 0
    BY <1>2 DEF Comparable
  <2> QED BY <1>1, <2>1, <2>2 DEF Decides, Earlier
<1>3. CASE v.segments = w.segments /\ v.pre = w.pre
  BY <1>3 DEF Compare, Same
<1>4. CASE v.segments = w.segments /\ v.pre # w.pre /\ v.pre = <<>>
  BY <1>4 DEF Compare, Earlier
<1>5. CASE v.segments = w.segments /\ v.pre # w.pre /\ w.pre = <<>>
  BY <1>5 DEF Compare, Earlier
<1>6. CASE v.segments = w.segments /\ v.pre # w.pre /\ v.pre # <<>> /\ w.pre # <<>>
  <2>1. Compare(v, w) = comparePrereleases(v.pre, w.pre)
    BY <1>6 DEF Compare
  <2>2. Decides(comparePrereleases(v.pre, w.pre), Builds(v.pre), Builds(w.pre))
    BY <1>6, PrereleasesDecided DEF Numbered, Comparable
  <2> QED BY <1>6, <2>1, <2>2 DEF Decides, Earlier, Same
<1> QED BY <1>2, <1>3, <1>4, <1>5, <1>6

LEMMA EarlierAsymmetric ==
  ASSUME NEW v, NEW w, Numbered(v), Numbered(w), Earlier(v, w)
  PROVE  ~ Earlier(w, v) /\ ~ Same(v, w) /\ ~ Same(w, v)
BY NumberedRows, LessAsymmetric DEF Earlier, Same

LEMMA EarlierTransitive ==
  ASSUME NEW v, NEW w, NEW x, Numbered(v), Numbered(w), Numbered(x),
         Earlier(v, w), Earlier(w, x)
  PROVE  Earlier(v, x)
BY NumberedRows, LessTransitive DEF Earlier

LEMMA EarlierSame ==
  ASSUME NEW v, NEW w, NEW x, Same(v, w)
  PROVE  /\ Earlier(v, x) <=> Earlier(w, x)
         /\ Earlier(x, v) <=> Earlier(x, w)
BY DEF Earlier, Same

-----------------------------------------------------------------------------
LEMMA CanonicalPair ==
  ASSUME NEW V, Canonical(V), NEW v \in V, NEW w \in V
  PROVE  Numbered(v) /\ v.ok /\ Comparable(v, w)
<1>1. \A x \in V : x.pre # <<>> => Parts(x) = Range(Split(x.pre))
  BY DEF Parts
<1>2. Numbered(v) /\ v.ok
  BY <1>1 DEF Canonical, Numbered, AreNumbers
<1>3. Comparable(v, w)
  BY <1>1 DEF Canonical, Comparable, OneWay
<1> QED BY <1>2, <1>3

(* Compare is what its comment says, -1, 0 or 1 as a version is smaller,   *)
(* equal or larger, the opposite when the two are given the other way      *)
(* round, and one order: among versions that are Canonical.                *)
THEOREM VersionsOrdered ==
  ASSUME NEW V, Canonical(V), NEW v \in V, NEW w \in V, NEW x \in V
  PROVE  /\ Compare(v, w) \in {-1, 0, 1} /\ Compare(v, w) = -Compare(w, v)
         /\ Compare(v, w) <= 0 /\ Compare(w, x) <= 0 => Compare(v, x) <= 0
<1>1. \A a, b \in V : Numbered(a) /\ Comparable(a, b)
  BY CanonicalPair
<1>2. \A a, b \in V : \/ Compare(a, b) = -1 /\ Earlier(a, b)
                      \/ Compare(a, b) = 1 /\ Earlier(b, a)
                      \/ Compare(a, b) = 0 /\ Same(a, b)
  BY <1>1, CompareDecides
<1>3. \A a, b \in V : Earlier(a, b) => ~ Earlier(b, a) /\ ~ Same(a, b) /\ ~ Same(b, a)
  BY <1>1, EarlierAsymmetric
<1>4. Compare(v, w) \in {-1, 0, 1} /\ Compare(v, w) = -Compare(w, v)
  BY <1>2, <1>3
<1>5. ASSUME Compare(v, w) <= 0, Compare(w, x) <= 0
      PROVE  Compare(v, x) <= 0
  <2>1. (Earlier(v, w) \/ Same(v, w)) /\ (Earlier(w, x) \/ Same(w, x))
    BY <1>2, <1>5
  <2>2. ~ Earlier(x, v)
    <3>1. \A a, b, c \in V : Earlier(a, b) /\ Earlier(b, c) => Earlier(a, c)
      BY <1>1, EarlierTransitive
    <3>2. \A a, b, c \in V : Same(a, b) => /\ Earlier(a, c) <=> Earlier(b, c)
                                           /\ Earlier(c, a) <=> Earlier(c, b)
      BY EarlierSame
    <3> QED BY <1>3, <2>1, <3>1, <3>2
  <2> QED BY <1>2, <2>2
<1> QED BY <1>4, <1>5

(* The kernels for which a check is satisfied are neighbours: one between  *)
(* two of them satisfies it too.  Each bound may be there or not.          *)
THEOREM SatisfiedBetween ==
  ASSUME NEW V, Canonical(V), NEW v \in V, NEW w \in V, NEW x \in V,
         NEW rule, rule.kernelminver \union rule.kernelmaxver \subseteq V, NEW os,
         Compare(v, w) <= 0, Compare(w, x) <= 0,
         IsSatisfied(rule, os, v) = "satisfied", IsSatisfied(rule, os, x) = "satisfied"
  PROVE  IsSatisfied(rule, os, w) = "satisfied"
<1>1. /\ rule.os = os
      /\ \A b \in rule.kernelminver : b.ok /\ ~ (Compare(v, b) < 0)
      /\ \A b \in rule.kernelmaxver : b.ok /\ ~ (Compare(x, b) > 0)
  BY DEF IsSatisfied
<1>2. ASSUME NEW b \in rule.kernelminver
      PROVE  ~ (Compare(w, b) < 0)
  <2>1. b \in V
    OBVIOUS
  <2>2. /\ Compare(b, w) \in {-1, 0, 1} /\ Compare(w, b) = -Compare(b, w)
        /\ Compare(b, v) \in {-1, 0, 1} /\ Compare(v, b) = -Compare(b, v)
        /\ Compare(b, v) <= 0 /\ Compare(v, w) <= 0 => Compare(b, w) <= 0
    BY <2>1, VersionsOrdered
  <2> QED BY <1>1, <2>2
<1>3. ASSUME NEW b \in rule.kernelmaxver
      PROVE  ~ (Compare(w, b) > 0)
  <2>1. b \in V
    OBVIOUS
  <2>2. /\ Compare(w, b) \in {-1, 0, 1} /\ Compare(x, b) \in {-1, 0, 1}
        /\ Compare(w, x) <= 0 /\ Compare(x, b) <= 0 => Compare(w, b) <= 0
    BY <2>1, VersionsOrdered
  <2> QED BY <1>1, <2>2
<1> QED BY <1>1, <1>2, <1>3 DEF IsSatisfied

(* What sanitizeVersion keeps of a text whose numbers end at n.            *)
Others(text) == {k \in DOMAIN text : text[k] \notin NumberBytes}

LEMMA MinIs ==
  ASSUME NEW S \in SUBSET Nat, NEW m \in S, \A k \in S : m <= k
  PROVE  Min(S) = m
<1>1. PICK least : least = Min(S)
  OBVIOUS
<1>2. least \in S /\ least <= m
  BY <1>1, MinFacts
<1>3. least \in Nat /\ m \in Nat /\ m <= least
  BY <1>2
<1> QED BY <1>1, <1>2, <1>3

LEMMA SanitizeCuts ==
  ASSUME NEW text \in Seq(Nat), Others(text) # {}
  PROVE  LET first == Min(Others(text))
         IN sanitizeVersion(text) =
              IF first > 1 /\ text[first - 1] \notin Digits THEN SubSeq(text, 1, first - 2)
              ELSE SubSeq(text, 1, first - 1)
BY DEF sanitizeVersion, Others, NumberBytes, Digits, IsDigit

LEMMA SanitizeKeeps ==
  ASSUME NEW text \in Seq(Nat), NEW n \in Nat \ {0}, text[n] \in Digits,
         \A k \in 1 .. n : text[k] \in NumberBytes,
         \/ n + 1 <= Len(text) /\ text[n + 1] \notin NumberBytes
         \/ n + 2 <= Len(text) /\ text[n + 1] \in {DASH, DOT} /\ text[n + 2] \notin NumberBytes
  PROVE  sanitizeVersion(text) = SubSeq(text, 1, n)
<1>1. Len(text) \in Nat /\ DOMAIN text = 1 .. Len(text)
  BY LenProperties
<1>2. Others(text) \in SUBSET Nat
  BY <1>1 DEF Others
<1>3. ASSUME NEW k \in Others(text) PROVE k > n
  BY <1>1, <1>3 DEF Others
<1>4. CASE n + 1 <= Len(text) /\ text[n + 1] \notin NumberBytes
  <2>1. n + 1 \in Others(text)
    BY <1>1, <1>4 DEF Others
  <2>2. \A k \in Others(text) : n + 1 <= k
    BY <1>2, <1>3
  <2>3. Min(Others(text)) = n + 1
    BY <1>2, <2>1, <2>2, MinIs
  <2>4. (n + 1) - 1 = n
    OBVIOUS
  <2> QED BY <2>1, <2>3, <2>4, SanitizeCuts
<1>5. CASE n + 2 <= Len(text) /\ text[n + 1] \in {DASH, DOT} /\ text[n + 2] \notin NumberBytes
  <2>1. n + 2 \in Others(text)
    BY <1>1, <1>5 DEF Others
  <2>2. n + 1 \notin Others(text)
    BY <1>5 DEF Others, NumberBytes
  <2>3. \A k \in Others(text) : n + 2 <= k
    BY <1>2, <1>3, <2>2
  <2>4. Min(Others(text)) = n + 2
    BY <1>2, <2>1, <2>3, MinIs
  <2>5. (n + 2) - 1 = n + 1 /\ (n + 2) - 2 = n /\ n + 2 > 1
    OBVIOUS
  <2>6. text[n + 1] \notin Digits
    <3>1. DASH \notin Digits /\ DOT \notin Digits
      BY DEF Digits, DASH, DOT, ZERO
    <3> QED BY <1>5, <3>1
  <2> QED BY <2>1, <2>4, <2>5, <2>6, SanitizeCuts
<1> QED BY <1>4, <1>5

(* What sanitizeVersion is for: the tags of architecture and distribution  *)
(* that stand behind the numbers of a kernel's release, with a separator   *)
(* or without (.el7.x86_64, -azure, rc1), change nothing of what is read,  *)
(* and the numbers in front of them are kept as they are, of any length.   *)
THEOREM TagsCut ==
  ASSUME NEW ver \in Seq(Nat), ver # <<>>, ver[Len(ver)] \in Digits,
         \A k \in DOMAIN ver : ver[k] \in NumberBytes,
         NEW tags \in Seq(Nat),
         \/ tags = <<>>
         \/ tags # <<>> /\ tags[1] \notin NumberBytes
         \/ Len(tags) >= 2 /\ tags[1] \in {DASH, DOT} /\ tags[2] \notin NumberBytes
  PROVE  sanitizeVersion(ver \o tags) = ver
<1>1. PICK text : text = ver \o tags
  OBVIOUS
<1>2. PICK n : n = Len(ver)
  OBVIOUS
<1>3. n \in Nat \ {0} /\ Len(tags) \in Nat /\ DOMAIN ver = 1 .. n
  BY <1>2, LenProperties, EmptySeq
<1>4. /\ text \in Seq(Nat) /\ Len(text) = n + Len(tags)
      /\ \A k \in 1 .. n + Len(tags) : text[k] = IF k <= n THEN ver[k] ELSE tags[k - n]
  BY <1>1, <1>2, ConcatProperties
<1>5. /\ \A k \in 1 .. n : text[k] = ver[k]
      /\ \A k \in 1 .. Len(tags) : text[n + k] = tags[k]
  <2>1. ASSUME NEW k \in 1 .. n PROVE text[k] = ver[k]
    <3>1. k \in 1 .. n + Len(tags) /\ k <= n
      BY <1>3
    <3> QED BY <1>4, <3>1
  <2>2. ASSUME NEW k \in 1 .. Len(tags) PROVE text[n + k] = tags[k]
    <3>1. n + k \in 1 .. n + Len(tags) /\ ~ (n + k <= n) /\ (n + k) - n = k
      BY <1>3
    <3> QED BY <1>4, <3>1
  <2> QED BY <2>1, <2>2
<1>6. SubSeq(text, 1, n) = ver
  <2>1. \A k \in 1 .. n : text[k] \in Nat
    BY <1>3, <1>5, LenProperties
  <2>2. /\ SubSeq(text, 1, n) \in Seq(Nat) /\ Len(SubSeq(text, 1, n)) = n
        /\ \A k \in 1 .. n : SubSeq(text, 1, n)[k] = text[k]
    BY <1>3, <2>1, SubSeqProperties
  <2> QED BY <1>2, <1>5, <2>2, SeqEqual
<1>7. text[n] \in Digits /\ \A k \in 1 .. n : text[k] \in NumberBytes
  <2>1. n \in 1 .. n
    BY <1>3
  <2> QED BY <1>2, <1>3, <1>5, <2>1
<1>8. CASE tags = <<>>
  <2>1. text = ver
    BY <1>1, <1>8, ConcatEmptySeq
  <2>2. Others(text) = {}
    BY <2>1 DEF Others
  <2> QED BY <1>1, <2>1, <2>2 DEF sanitizeVersion, Others, NumberBytes, Digits, IsDigit
<1>9. CASE tags # <<>> /\ tags[1] \notin NumberBytes
  <2>1. Len(tags) >= 1
    BY <1>9, EmptySeq
  <2>2. text[n + 1] = tags[1]
    BY <1>3, <1>5, <2>1
  <2>3. n + 1 <= Len(text)
    BY <1>3, <1>4, <2>1
  <2> QED BY <1>1, <1>3, <1>4, <1>6, <1>7, <1>9, <2>2, <2>3, SanitizeKeeps
<1>10. CASE Len(tags) >= 2 /\ tags[1] \in {DASH, DOT} /\ tags[2] \notin NumberBytes
  <2>1. text[n + 1] = tags[1] /\ text[n + 2] = tags[2]
    BY <1>3, <1>5, <1>10
  <2>2. n + 2 <= Len(text)
    BY <1>3, <1>4, <1>10
  <2> QED BY <1>1, <1>3, <1>4, <1>6, <1>7, <1>10, <2>1, <2>2, SanitizeKeeps
<1> QED BY <1>8, <1>9, <1>10

-----------------------------------------------------------------------------
(* The order of releases is that of the versions they are read as.         *)
Ver(r) == Read(Text(r))
Readings == {Read(Text(r)) : r \in Releases \union Bounds}

LEMMA ReadingOf ==
  ASSUME NEW r \in Releases \union Bounds
  PROVE  Ver(r) \in Readings
BY DEF Ver, Readings

(* A release's key is its rows: the segments, whether it has builds, and   *)
(* the builds.                                                             *)
LEMMA KeyRows ==
  ASSUME ReadAsWritten(Releases \union Bounds), NEW r \in Releases \union Bounds
  PROVE  /\ DOMAIN Key(r) = 1 .. 9
         /\ \A k \in 1 .. 4 : Key(r)[k] = Segs(Ver(r).segments)[k]
         /\ Key(r)[5] = IF Ver(r).pre = <<>> THEN 1 ELSE 0
         /\ \A k \in 1 .. 4 :
              Key(r)[k + 5] = IF Ver(r).pre = <<>> THEN -1 ELSE Builds(Ver(r).pre)[k]
         /\ \A k \in Places : k > 4 => Segs(Ver(r).segments)[k] = 0
         /\ \A k \in Places : k > 4 /\ Ver(r).pre # <<>> => Builds(Ver(r).pre)[k] = -1
<1> DEFINE v == Ver(r)
           parts == Split(v.pre)
<1>1. /\ Len(v.segments) <= 4
      /\ \A k \in 1 .. 4 : At(v.segments, k, 0) = At(r.segments, k, 0)
      /\ v.pre = <<>> <=> r.build = <<>>
      /\ v.pre # <<>> => /\ Len(parts) <= 4
                         /\ \A k \in 1 .. 4 : At(PartNumbers(parts), k, -1) = At(r.build, k, -1)
  BY DEF ReadAsWritten, Ver, Width
<1>2. Numbered(v)
  BY ReadingOf, CanonicalPair DEF ReadAsWritten, Readings
<1>3. Len(v.segments) \in Nat /\ v.pre \in Seq(Nat)
  BY <1>2, LenProperties DEF Numbered
<1>4. /\ Len(parts) \in Nat /\ DOMAIN parts = 1 .. Len(parts)
      /\ Len(PartNumbers(parts)) = Len(parts)
  BY <1>3, SplitRow DEF PartNumbers
<1>5. DOMAIN Key(r) = 1 .. 9
  BY DEF Key, Width
<1>6. \A k \in 1 .. 4 : Key(r)[k] = Segs(v.segments)[k]
  BY <1>1 DEF Key, Width, Segs, Places
<1>7. Key(r)[5] = IF v.pre = <<>> THEN 1 ELSE 0
  BY <1>1 DEF Key, Width
<1>8. \A k \in 1 .. 4 : Key(r)[k + 5] = At(r.build, k, -1)
  BY DEF Key, Width
<1>9. \A k \in 1 .. 4 : At(PartNumbers(parts), k, -1) = Builds(v.pre)[k]
  BY <1>4 DEF At, Builds, PartNumbers, Places
<1>10. \A k \in 1 .. 4 : At(<<>>, k, -1) = -1
  BY EmptySeq DEF At
<1>11. \A k \in Places : k > 4 => Segs(v.segments)[k] = 0
  BY <1>1, <1>3 DEF Segs, At, Places
<1>12. \A k \in Places : k > 4 /\ v.pre # <<>> => Builds(v.pre)[k] = -1
  BY <1>1, <1>4 DEF Builds, Places
<1> QED BY <1>1, <1>5, <1>6, <1>7, <1>8, <1>9, <1>10, <1>11, <1>12

LEMMA OlderIsEarlier ==
  ASSUME ReadAsWritten(Releases \union Bounds),
         NEW r \in Releases \union Bounds, NEW s \in Releases \union Bounds
  PROVE  Older(r, s) <=> Earlier(Ver(r), Ver(s))
<1> DEFINE v == Ver(r)
           w == Ver(s)
           f == Segs(v.segments)
           g == Segs(w.segments)
<1>1. Numbered(v) /\ Numbered(w) /\ Comparable(v, w)
  BY ReadingOf, CanonicalPair DEF ReadAsWritten, Readings
<1>2. f \in Rows /\ g \in Rows /\ Decides(compareSegments(v.segments, w.segments), f, g)
  BY <1>1, SegmentsDecided DEF Numbered
<1>3. f = g => v.segments = w.segments
  BY <1>1, <1>2, LessAsymmetric DEF Decides, Comparable
<1>4. /\ v.pre # <<>> => Builds(v.pre) \in Rows
      /\ w.pre # <<>> => Builds(w.pre) \in Rows
  BY <1>1, NumberedRows
<1>5. /\ DOMAIN Key(r) = 1 .. 9
      /\ \A k \in 1 .. 4 : Key(r)[k] = f[k]
      /\ Key(r)[5] = IF v.pre = <<>> THEN 1 ELSE 0
      /\ \A k \in 1 .. 4 : Key(r)[k + 5] = IF v.pre = <<>> THEN -1 ELSE Builds(v.pre)[k]
      /\ \A k \in Places : k > 4 => f[k] = 0
      /\ \A k \in Places : k > 4 /\ v.pre # <<>> => Builds(v.pre)[k] = -1
  BY KeyRows
<1>6. /\ DOMAIN Key(s) = 1 .. 9
      /\ \A k \in 1 .. 4 : Key(s)[k] = g[k]
      /\ Key(s)[5] = IF w.pre = <<>> THEN 1 ELSE 0
      /\ \A k \in 1 .. 4 : Key(s)[k + 5] = IF w.pre = <<>> THEN -1 ELSE Builds(w.pre)[k]
      /\ \A k \in Places : k > 4 => g[k] = 0
      /\ \A k \in Places : k > 4 /\ w.pre # <<>> => Builds(w.pre)[k] = -1
  BY KeyRows
<1> HIDE DEF v, w, f, g
<1>7. ASSUME Older(r, s)
      PROVE  Earlier(v, w)
  <2>1. PICK k \in 1 .. 9 : /\ Key(r)[k] < Key(s)[k]
                            /\ \A j \in 1 .. k - 1 : Key(r)[j] = Key(s)[j]
    BY <1>5, <1>7 DEF Older
  <2>2. CASE k <= 4
    <3>1. Below(f, g, k)
      BY <1>5, <1>6, <2>1, <2>2 DEF Below, Places
    <3> QED BY <3>1 DEF Earlier, Less, Places, f, g
  <2>3. CASE k > 4
    <3>1. \A j \in Places : f[j] = g[j]
      <4>1. \A j \in 1 .. 4 : f[j] = g[j]
        BY <1>5, <1>6, <2>1, <2>3
      <4> QED BY <1>5, <1>6, <4>1 DEF Places
    <3>2. v.segments = w.segments
      BY <1>2, <1>3, <3>1 DEF Rows
    <3>3. CASE k = 5
      BY <1>5, <1>6, <2>1, <3>2, <3>3 DEF Earlier
    <3>4. CASE k > 5
      <4>1. PICK n \in 1 .. 4 : k = n + 5
        BY <2>1, <3>4
      <4>2. Key(r)[5] = Key(s)[5] /\ \A j \in 1 .. n - 1 : Key(r)[j + 5] = Key(s)[j + 5]
        BY <2>1, <4>1
      <4>3. v.pre # <<>> /\ w.pre # <<>>
        BY <1>5, <1>6, <2>1, <4>1, <4>2
      <4>4. Below(Builds(v.pre), Builds(w.pre), n)
        BY <1>5, <1>6, <2>1, <4>1, <4>2, <4>3 DEF Below, Places
      <4> QED BY <3>2, <4>3, <4>4 DEF Earlier, Less, Places
    <3> QED BY <2>3, <3>3, <3>4
  <2> QED BY <2>2, <2>3
<1>8. ASSUME Earlier(v, w)
      PROVE  Older(r, s)
  <2>1. CASE Less(f, g)
    <3>1. PICK k \in Places : Below(f, g, k)
      BY <2>1 DEF Less
    <3>2. k \in 1 .. 4
      BY <1>5, <1>6, <3>1 DEF Below, Places
    <3>3. Key(r)[k] < Key(s)[k] /\ \A j \in 1 .. k - 1 : Key(r)[j] = Key(s)[j]
      BY <1>5, <1>6, <3>1, <3>2 DEF Below, Places
    <3> QED BY <1>5, <3>2, <3>3 DEF Older
  <2>2. CASE v.segments = w.segments /\ v.pre # <<>>
             /\ (w.pre = <<>> \/ Less(Builds(v.pre), Builds(w.pre)))
    <3>1. \A j \in 1 .. 4 : Key(r)[j] = Key(s)[j]
      BY <1>5, <1>6, <2>2 DEF f, g
    <3>2. CASE w.pre = <<>>
      <4>1. Key(r)[5] < Key(s)[5] /\ \A j \in 1 .. 5 - 1 : Key(r)[j] = Key(s)[j]
        BY <1>5, <1>6, <2>2, <3>1, <3>2
      <4> QED BY <1>5, <4>1 DEF Older
    <3>3. CASE w.pre # <<>>
      <4>1. PICK k \in Places : Below(Builds(v.pre), Builds(w.pre), k)
        BY <2>2, <3>3 DEF Less
      <4>2. k \in 1 .. 4
        BY <1>5, <1>6, <2>2, <3>3, <4>1 DEF Below, Places
      <4>3. Key(r)[k + 5] < Key(s)[k + 5]
        BY <1>5, <1>6, <2>2, <3>3, <4>1, <4>2 DEF Below
      <4>4. Key(r)[5] = Key(s)[5]
        BY <1>5, <1>6, <2>2, <3>3
      <4>5. \A j \in 1 .. k - 1 : Key(r)[j + 5] = Key(s)[j + 5]
        BY <1>5, <1>6, <2>2, <3>3, <4>1, <4>2 DEF Below, Places
      <4>6. ASSUME NEW j \in 1 .. (k + 5) - 1
            PROVE  Key(r)[j] = Key(s)[j]
        <5>1. CASE j <= 5
          BY <3>1, <4>4, <5>1
        <5>2. CASE j > 5
          <6>1. j - 5 \in 1 .. k - 1 /\ (j - 5) + 5 = j
            BY <4>2, <5>2
          <6> QED BY <4>5, <6>1
        <5> QED BY <5>1, <5>2
      <4>7. k + 5 \in 1 .. 9
        BY <4>2
      <4> QED BY <1>5, <4>3, <4>6, <4>7 DEF Older
    <3> QED BY <3>2, <3>3
  <2> QED BY <1>8, <2>1, <2>2 DEF Earlier, f, g
<1> QED BY <1>7, <1>8 DEF v, w

LEMMA OlderDecides ==
  ASSUME ReadAsWritten(Releases \union Bounds),
         NEW r \in Releases \union Bounds, NEW s \in Releases \union Bounds
  PROVE  /\ Older(r, s) <=> Compare(Ver(r), Ver(s)) = -1
         /\ Older(s, r) <=> Compare(Ver(r), Ver(s)) = 1
         /\ Compare(Ver(r), Ver(s)) \in {-1, 0, 1}
<1> DEFINE v == Ver(r)
           w == Ver(s)
<1>1. Numbered(v) /\ Numbered(w) /\ Comparable(v, w)
  BY ReadingOf, CanonicalPair DEF ReadAsWritten, Readings
<1>2. (Older(r, s) <=> Earlier(v, w)) /\ (Older(s, r) <=> Earlier(w, v))
  BY OlderIsEarlier
<1> HIDE DEF v, w
<1>3. \/ Compare(v, w) = -1 /\ Earlier(v, w)
      \/ Compare(v, w) = 1 /\ Earlier(w, v)
      \/ Compare(v, w) = 0 /\ Same(v, w)
  BY <1>1, CompareDecides
<1>4. /\ Earlier(v, w) => ~ Earlier(w, v) /\ ~ Same(v, w)
      /\ Earlier(w, v) => ~ Earlier(v, w) /\ ~ Same(v, w)
  BY <1>1, EarlierAsymmetric
<1> QED BY <1>2, <1>3, <1>4 DEF v, w

-----------------------------------------------------------------------------
(* What a node is announced for over its upgrades.  A feature was lost     *)
(* because some kernel had it and a later one, no later than the running   *)
(* one, has it not.                                                        *)
LostBefore ==
  \E r, s \in Releases : /\ Announces(r) /\ ~ Announces(s)
                        /\ Compare(Ver(r), Ver(s)) <= 0
                        /\ Compare(Ver(s), Ver(running)) <= 0

IInv ==
  /\ check.min \subseteq Bounds /\ check.max \subseteq Bounds
  /\ running \in Releases /\ announced = Announces(running)
  /\ lost \in BOOLEAN /\ (lost => LostBefore)


LEMMA AnnouncedBetween ==
  ASSUME Canonical(Readings), IInv,
         NEW r \in Releases, NEW s \in Releases, NEW t \in Releases,
         Compare(Ver(r), Ver(s)) <= 0, Compare(Ver(s), Ver(t)) <= 0,
         Announces(r), Announces(t)
  PROVE  Announces(s)
<1> DEFINE c == Check(Centos, "hyperv", {Read(Text(min)) : min \in check.min},
                                        {Read(Text(max)) : max \in check.max})
<1>1. Ver(r) \in Readings /\ Ver(s) \in Readings /\ Ver(t) \in Readings
  BY ReadingOf
<1>2. c.kernelminver \union c.kernelmaxver \subseteq Readings
  BY DEF Check, IInv, Readings
<1>3. \A q : Announces(q) <=> IsSatisfied(c, Centos, Ver(q)) = "satisfied"
  BY DEF Announces, Ver
<1> HIDE DEF c
<1>4. IsSatisfied(c, Centos, Ver(s)) = "satisfied"
  BY <1>1, <1>2, <1>3, SatisfiedBetween
<1> QED BY <1>3, <1>4

(* With no newest kernel configured, a later kernel has what an earlier    *)
(* one has.                                                                *)
LEMMA AnnouncedFromOldest ==
  ASSUME Canonical(Readings), IInv, check.max = {},
         NEW r \in Releases, NEW s \in Releases,
         Compare(Ver(r), Ver(s)) <= 0, Announces(r)
  PROVE  Announces(s)
<1>1. Ver(r) \in Readings /\ Ver(s) \in Readings
  BY ReadingOf
<1>2. \A b \in check.min : Ver(b) \in Readings
  BY DEF IInv, Readings, Ver
<1>3. \A b \in check.min : Ver(b).ok /\ ~ (Compare(Ver(r), Ver(b)) < 0)
  BY DEF Announces, IsSatisfied, Check, Ver
<1>4. ASSUME NEW b \in check.min
      PROVE  ~ (Compare(Ver(s), Ver(b)) < 0)
  <2>1. /\ Compare(Ver(b), Ver(s)) \in {-1, 0, 1}
        /\ Compare(Ver(s), Ver(b)) = -Compare(Ver(b), Ver(s))
        /\ Compare(Ver(b), Ver(r)) \in {-1, 0, 1}
        /\ Compare(Ver(r), Ver(b)) = -Compare(Ver(b), Ver(r))
        /\ Compare(Ver(b), Ver(r)) <= 0 /\ Compare(Ver(r), Ver(s)) <= 0
             => Compare(Ver(b), Ver(s)) <= 0
    BY <1>1, <1>2, VersionsOrdered
  <2> QED BY <1>3, <2>1
<1> QED BY <1>3, <1>4 DEF Announces, IsSatisfied, Check, Ver

LEMMA UpgradeStep ==
  ASSUME ReadAsWritten(Releases \union Bounds), IInv, Upgrade
  PROVE  /\ Canonical(Readings) /\ Compare(Ver(running), Ver(running')) <= 0
         /\ running' \in Releases /\ announced' = Announces(running') /\ UNCHANGED check
<1>1. Canonical(Readings) /\ running \in Releases
  BY DEF ReadAsWritten, Readings, IInv
<1>2. Older(running, running') /\ running' \in Releases
  BY DEF Upgrade
<1>3. Compare(Ver(running), Ver(running')) = -1
  BY <1>1, <1>2, OlderDecides
<1> QED BY <1>1, <1>3 DEF Upgrade

LEMMA InvariantKept ==
  ASSUME ReadAsWritten(Releases \union Bounds), IInv, [Upgrade]_vars
  PROVE  IInv'
<1>1. CASE Upgrade
  <2>1. /\ Canonical(Readings) /\ Compare(Ver(running), Ver(running')) <= 0
        /\ running' \in Releases /\ announced' = Announces(running') /\ UNCHANGED check
    BY <1>1, UpgradeStep
  <2>2. \A r : Announces(r)' <=> Announces(r)
    BY <2>1 DEF Announces
  <2>3. check'.min \subseteq Bounds /\ check'.max \subseteq Bounds
    BY <2>1 DEF IInv
  <2>4. lost' \in BOOLEAN /\ (lost' <=> lost \/ (announced /\ ~ announced'))
    BY <1>1 DEF Upgrade, IInv
  <2>5. ASSUME lost'
        PROVE  LostBefore'
    <3>1. running \in Releases /\ announced = Announces(running)
      BY DEF IInv
    <3>2. PICK r \in Releases, s \in Releases :
            /\ Announces(r) /\ ~ Announces(s)
            /\ Compare(Ver(r), Ver(s)) <= 0 /\ Compare(Ver(s), Ver(running')) <= 0
      <4>1. CASE lost
        <5>1. PICK r \in Releases, s \in Releases :
                /\ Announces(r) /\ ~ Announces(s)
                /\ Compare(Ver(r), Ver(s)) <= 0 /\ Compare(Ver(s), Ver(running)) <= 0
          BY <4>1 DEF IInv, LostBefore
        <5>2. Ver(s) \in Readings /\ Ver(running) \in Readings /\ Ver(running') \in Readings
          BY <2>1, <3>1, ReadingOf
        <5>3. Compare(Ver(s), Ver(running')) <= 0
          BY <2>1, <5>1, <5>2, VersionsOrdered
        <5> QED BY <5>1, <5>3
      <4>2. CASE ~ lost
        <5>1. Announces(running) /\ ~ Announces(running')
          BY <2>1, <2>4, <2>5, <3>1, <4>2
        <5>2. Ver(running') \in Readings
          BY <2>1, ReadingOf
        <5>3. Compare(Ver(running'), Ver(running')) <= 0
          <6>1. /\ Compare(Ver(running'), Ver(running')) \in {-1, 0, 1}
                /\ Compare(Ver(running'), Ver(running')) = -Compare(Ver(running'), Ver(running'))
            BY <2>1, <5>2, VersionsOrdered
          <6> QED BY <6>1
        <5> QED BY <2>1, <3>1, <5>1, <5>3
      <4> QED BY <4>1, <4>2
    <3> QED BY <2>2, <3>2 DEF LostBefore, Ver
  <2>6. (announced = Announces(running))'
    BY <2>1, <2>2
  <2> QED BY <2>1, <2>3, <2>4, <2>5, <2>6 DEF IInv
<1>2. CASE UNCHANGED vars
  <2>1. UNCHANGED <<check, running, announced, lost>>
    BY <1>2 DEF vars
  <2>2. \A r : Announces(r)' <=> Announces(r)
    BY <2>1 DEF Announces
  <2> QED BY <2>1, <2>2 DEF IInv, LostBefore, Ver
<1> QED BY <1>1, <1>2

LEMMA InitInv == Init => IInv
<1> SUFFICES ASSUME Init PROVE IInv
  OBVIOUS
<1>1. check.min \subseteq Bounds /\ check.max \subseteq Bounds
  BY DEF Init, AtMostOne
<1> QED BY <1>1 DEF Init, IInv

LEMMA Invariance ==
  ASSUME ReadAsWritten(Releases \union Bounds)
  PROVE  Spec => []IInv
<1>1. IInv /\ [Upgrade]_vars => IInv'
  BY InvariantKept
<1> QED BY <1>1, InitInv, PTL DEF Spec

(* The kernels a feature is announced for are those from the oldest to the *)
(* newest that are configured, both included, by the order in which they   *)
(* are released.                                                           *)
THEOREM Window ==
  ASSUME ReadAsWritten(Releases \union Bounds)
  PROVE  Spec => []WindowExact
<1>1. IInv => WindowExact
  <2> SUFFICES ASSUME IInv PROVE WindowExact
    OBVIOUS
  <2>1. /\ running \in Releases /\ announced = Announces(running)
        /\ check.min \subseteq Bounds /\ check.max \subseteq Bounds
    BY DEF IInv
  <2>2. ASSUME NEW b \in Bounds
        PROVE  /\ Ver(b).ok
               /\ Compare(Ver(running), Ver(b)) < 0 <=> Older(running, b)
               /\ Compare(Ver(running), Ver(b)) > 0 <=> Older(b, running)
    <3>1. Ver(b).ok
      BY ReadingOf, CanonicalPair DEF ReadAsWritten, Readings
    <3> QED BY <2>1, <3>1, OlderDecides
  <2>3. Announces(running) <=>
          /\ \A b \in check.min : Ver(b).ok /\ ~ (Compare(Ver(running), Ver(b)) < 0)
          /\ \A b \in check.max : Ver(b).ok /\ ~ (Compare(Ver(running), Ver(b)) > 0)
    BY DEF Announces, IsSatisfied, Check, Ver
  <2> QED BY <2>1, <2>2, <2>3 DEF WindowExact
<1> QED BY <1>1, Invariance, PTL

(* A feature that an upgrade took away does not come back with a later     *)
(* one, for all kernels and bounds that are read as they are written:      *)
(* IsSatisfied holds for neighbours only.                                  *)
THEOREM NeverBack ==
  ASSUME ReadAsWritten(Releases \union Bounds)
  PROVE  Spec => []GoneForGood
<1>1. IInv => GoneForGood
  <2> SUFFICES ASSUME IInv, lost, announced PROVE FALSE
    BY DEF GoneForGood
  <2>1. /\ Canonical(Readings) /\ running \in Releases /\ Announces(running)
    BY DEF IInv, ReadAsWritten, Readings
  <2>2. PICK r \in Releases, s \in Releases :
          /\ Announces(r) /\ ~ Announces(s)
          /\ Compare(Ver(r), Ver(s)) <= 0 /\ Compare(Ver(s), Ver(running)) <= 0
    BY DEF IInv, LostBefore
  <2> QED BY <2>1, <2>2, AnnouncedBetween
<1> QED BY <1>1, Invariance, PTL

(* With only an oldest kernel configured an upgrade never takes the        *)
(* feature away, for all kernels and bounds that are read as they are      *)
(* written.                                                                *)
THEOREM KeptByUpgrades ==
  ASSUME ReadAsWritten(Releases \union Bounds)
  PROVE  Spec => UpgradeKeepsFeature
<1>1. IInv /\ [Upgrade]_vars => [check.max = {} /\ announced => announced']_vars
  <2> SUFFICES ASSUME IInv, Upgrade, check.max = {}, announced PROVE announced'
    OBVIOUS
  <2>1. /\ Canonical(Readings) /\ Compare(Ver(running), Ver(running')) <= 0
        /\ running' \in Releases /\ announced' = Announces(running')
    BY UpgradeStep
  <2>2. running \in Releases /\ Announces(running)
    BY DEF IInv
  <2>3. Announces(running')
    BY <2>1, <2>2, AnnouncedFromOldest
  <2> QED BY <2>1, <2>3
<1> QED BY <1>1, Invariance, PTL DEF Spec, UpgradeKeepsFeature

-----------------------------------------------------------------------------
(* What the text of a release is read as.  A row that is laid out with     *)
(* dots comes apart at the dots again (SplitJoined), a number is read as   *)
(* it was written (DecimalParsed), and what stands before and behind the   *)
(* first dash are the segments and the builds (SegmentsAndBuild).          *)
LEMMA Least ==
  ASSUME NEW S \in SUBSET Nat, S # {}
  PROVE  \E n \in S : \A m \in S : n <= m
BY MinFacts

(* Numbers in a row that grow: as many are below the k-th as there are     *)
(* before it.                                                              *)
Growing(e, m) == /\ e \in [0 .. m -> Nat]
                 /\ \A i, j \in 0 .. m : i < j => e[i] < e[j]

LEMMA CountBelow ==
  ASSUME NEW m \in Nat, NEW e, Growing(e, m), NEW k \in 0 .. m
  PROVE  Cardinality({x \in {e[j] : j \in 0 .. m} : x < e[k]}) = k
<1>1. PICK S : S = {x \in {e[j] : j \in 0 .. m} : x < e[k]}
  OBVIOUS
<1>2. PICK f : f = [i \in 1 .. k |-> e[i - 1]]
  OBVIOUS
<1>3. \A i, j \in 0 .. m : (e[i] < e[j] <=> i < j) /\ (e[i] = e[j] => i = j) /\ e[i] \in Nat
  <2> SUFFICES ASSUME NEW i \in 0 .. m, NEW j \in 0 .. m
               PROVE  (e[i] < e[j] <=> i < j) /\ (e[i] = e[j] => i = j) /\ e[i] \in Nat
    OBVIOUS
  <2>1. e[i] \in Nat /\ e[j] \in Nat /\ (i < j => e[i] < e[j]) /\ (j < i => e[j] < e[i])
    BY DEF Growing
  <2>2. i < j \/ j < i \/ i = j
    OBVIOUS
  <2> QED BY <2>1, <2>2
<1>4. f \in Bijection(1 .. k, S)
  <2>1. ASSUME NEW i \in 1 .. k PROVE f[i] \in S
    <3>1. i - 1 \in 0 .. m /\ i - 1 < k
      OBVIOUS
    <3> QED BY <1>1, <1>2, <1>3, <3>1
  <2>2. ASSUME NEW i \in 1 .. k, NEW j \in 1 .. k, f[i] = f[j] PROVE i = j
    <3>1. i - 1 \in 0 .. m /\ j - 1 \in 0 .. m /\ e[i - 1] = e[j - 1]
      BY <1>2, <2>2
    <3>2. i - 1 = j - 1
      BY <1>3, <3>1
    <3> QED BY <3>2
  <2>3. ASSUME NEW x \in S PROVE \E i \in 1 .. k : f[i] = x
    <3>1. PICK j \in 0 .. m : x = e[j] /\ j < k
      BY <1>1, <1>3
    <3>2. j + 1 \in 1 .. k /\ (j + 1) - 1 = j
      BY <3>1
    <3> QED BY <1>2, <3>1, <3>2
  <2> QED BY <1>2, <2>1, <2>2, <2>3 DEF Bijection, Injection, Surjection, IsInjective
<1>5. ExistsBijection(1 .. k, S)
  BY <1>4 DEF ExistsBijection
<1>6. IsFiniteSet(1 .. k) /\ Cardinality(1 .. k) = k
  BY FS_Interval
<1> QED BY <1>1, <1>5, <1>6, FS_Bijection

LEMMA KthGrows ==
  ASSUME NEW m \in Nat, NEW e, Growing(e, m), NEW S, S = {e[j] : j \in 0 .. m}
  PROVE  /\ Cardinality(S) = m + 1
         /\ \A k \in 0 .. m : Kth(S, k + 1) = e[k]
<1>1. \A k \in 0 .. m : Cardinality({x \in S : x < e[k]}) = k
  BY CountBelow
<1>2. ASSUME NEW k \in 0 .. m PROVE Kth(S, k + 1) = e[k]
  <2>1. e[k] \in S /\ Cardinality({x \in S : x < e[k]}) = (k + 1) - 1
    BY <1>1
  <2>2. ASSUME NEW n \in S, Cardinality({x \in S : x < n}) = (k + 1) - 1 PROVE n = e[k]
    <3>1. PICK j \in 0 .. m : n = e[j]
      OBVIOUS
    <3>2. j = k
      BY <1>1, <2>2, <3>1
    <3> QED BY <3>1, <3>2
  <2>3. PICK P : P = {n \in S : Cardinality({x \in S : x < n}) = (k + 1) - 1}
    OBVIOUS
  <2>4. P = {e[k]}
    BY <2>1, <2>2, <2>3
  <2> QED BY <2>1, <2>2 DEF Kth
<1>3. PICK T : T = {x \in S : x < e[m]}
  OBVIOUS
<1>4. S = T \union {e[m]} /\ e[m] \notin T
  <2>1. \A j \in 0 .. m : e[j] \in Nat /\ (j < m => e[j] < e[m])
    BY DEF Growing
  <2> QED BY <1>3, <2>1
<1>5. Cardinality(T) = m /\ IsFiniteSet(T)
  <2>1. IsFiniteSet(0 .. m)
    BY FS_Interval, SMTT(30)
  <2>2. IsFiniteSet(S)
    <3>1. PICK g : g = [j \in 0 .. m |-> e[j]]
      OBVIOUS
    <3>2. S = {g[j] : j \in 0 .. m}
      BY <3>1
    <3>3. g \in [0 .. m -> S]
      BY <3>1
    <3>4. \A x \in S : \E j \in 0 .. m : g[j] = x
      BY <3>2
    <3>5. g \in Surjection(0 .. m, S)
      BY <3>3, <3>4 DEF Surjection
    <3> QED BY <2>1, <3>5, FS_Surjection
  <2> QED BY <1>1, <1>3, <1>4, <2>2, FS_Subset
<1> QED BY <1>2, <1>4, <1>5, FS_AddElement

(* Two texts one behind the other.                                         *)
Behind(u, s, t) ==
  /\ u \in Seq(Nat) /\ Len(u) = Len(s) + Len(t) /\ Len(s) \in Nat /\ Len(t) \in Nat
  /\ \A i \in 1 .. Len(s) : u[i] = s[i]
  /\ \A i \in 1 .. Len(t) : u[Len(s) + i] = t[i]

LEMMA OneBehind ==
  ASSUME NEW s \in Seq(Nat), NEW t \in Seq(Nat)
  PROVE  Behind(s \o t, s, t)
<1>0. PICK u : u = s \o t
  OBVIOUS
<1>1. PICK n \in Nat : n = Len(s)
  BY LenProperties
<1>2. PICK l \in Nat : l = Len(t)
  BY LenProperties
<1>3. /\ u \in Seq(Nat) /\ Len(u) = n + l
      /\ \A i \in 1 .. n + l : u[i] = IF i <= n THEN s[i] ELSE t[i - n]
  BY <1>0, <1>1, <1>2, ConcatProperties
<1>4. ASSUME NEW i \in 1 .. n PROVE u[i] = s[i]
  <2>1. i \in 1 .. n + l /\ i <= n
    OBVIOUS
  <2> QED BY <1>3, <2>1
<1>5. ASSUME NEW i \in 1 .. l PROVE u[n + i] = t[i]
  <2>1. n + i \in 1 .. n + l /\ ~ (n + i <= n) /\ (n + i) - n = i
    OBVIOUS
  <2> QED BY <1>3, <2>1
<1>6. Behind(u, s, t)
  BY <1>1, <1>2, <1>3, <1>4, <1>5 DEF Behind
<1> QED BY <1>0, <1>6

(* Two texts with one byte between them.                                   *)
Parted(u, t, c, q) ==
  /\ u \in Seq(Nat) /\ Len(u) = Len(t) + 1 + Len(q) /\ Len(t) \in Nat /\ Len(q) \in Nat
  /\ \A i \in 1 .. Len(t) : u[i] = t[i]
  /\ u[Len(t) + 1] = c
  /\ \A i \in 1 .. Len(q) : u[Len(t) + 1 + i] = q[i]

LEMMA ByteBetween ==
  ASSUME NEW t \in Seq(Nat), NEW q \in Seq(Nat), NEW c \in Nat
  PROVE  Parted(t \o <<c>> \o q, t, c, q)
<1>1. PICK a : a = <<c>>
  OBVIOUS
<1>2. a \in Seq(Nat) /\ Len(a) = 1 /\ a[1] = c
  BY <1>1
<1>3. PICK b : b = t \o a
  OBVIOUS
<1>4. Behind(b, t, a)
  BY <1>2, <1>3, OneBehind
<1>5. /\ b \in Seq(Nat) /\ Len(b) = Len(t) + 1 /\ b[Len(t) + 1] = c
      /\ \A i \in 1 .. Len(t) : b[i] = t[i]
  <2>1. \A i \in 1 .. 1 : b[Len(t) + i] = a[i]
    BY <1>2, <1>4 DEF Behind
  <2> QED BY <1>2, <1>4, <2>1 DEF Behind
<1>6. PICK u : u = b \o q
  OBVIOUS
<1>7. Behind(u, b, q)
  BY <1>5, <1>6, OneBehind
<1>8. /\ u \in Seq(Nat) /\ Len(u) = Len(t) + 1 + Len(q) /\ Len(t) \in Nat /\ Len(q) \in Nat
      /\ \A i \in 1 .. Len(t) + 1 : u[i] = b[i]
      /\ \A i \in 1 .. Len(q) : u[Len(t) + 1 + i] = q[i]
  BY <1>5, <1>7, LenProperties DEF Behind
<1>9. Parted(u, t, c, q)
  <2>1. Len(t) + 1 \in 1 .. Len(t) + 1 /\ \A i \in 1 .. Len(t) : i \in 1 .. Len(t) + 1
    BY <1>8
  <2> QED BY <1>5, <1>8, <2>1 DEF Parted
<1> QED BY <1>1, <1>3, <1>6, <1>9

(* Rows of bytes without dots, with dots between them: T[k] is the text of *)
(* the first k of them, and e[k] is where the dot behind it would be.      *)
Undotted == Seq(Nat \ {DOT})
Joins(T, p, m) ==
  /\ p \in [1 .. m -> Undotted]
  /\ T = [k \in 1 .. m |-> IF k = 1 THEN p[1] ELSE T[k - 1] \o <<DOT>> \o p[k]]
Ends(T, m) == [k \in 0 .. m |-> IF k = 0 THEN 0 ELSE Len(T[k]) + 1]

Laid(t, e, p, k) ==
  /\ t \in Seq(Nat) /\ Len(t) + 1 = e[k]
  /\ \A i \in 1 .. Len(t) : t[i] = DOT <=> \E j \in 1 .. k - 1 : i = e[j]
  /\ \A j \in 1 .. k :
       /\ e[j - 1] \in Nat /\ Len(p[j]) \in Nat
       /\ e[j] = e[j - 1] + 1 + Len(p[j]) /\ e[j] <= Len(t) + 1
       /\ \A i \in 1 .. Len(p[j]) : t[e[j - 1] + i] = p[j][i]

LEMMA UndottedRow ==
  ASSUME NEW q \in Undotted
  PROVE  q \in Seq(Nat) /\ Len(q) \in Nat /\ \A i \in 1 .. Len(q) : q[i] # DOT
BY LenProperties, ElementOfSeq DEF Undotted

LEMMA LaidOn ==
  ASSUME NEW e, NEW p, NEW k \in Nat \ {0}, NEW t, Laid(t, e, p, k), p[k + 1] \in Undotted,
         NEW u, u = t \o <<DOT>> \o p[k + 1], e[k + 1] = Len(u) + 1
  PROVE  Laid(u, e, p, k + 1)
<1>1. PICK q : q = p[k + 1]
  OBVIOUS
<1>2. PICK n \in Nat : n = Len(t)
  BY LenProperties DEF Laid
<1>3. PICK l \in Nat : l = Len(q)
  BY <1>1, UndottedRow
<1>4. t \in Seq(Nat) /\ e[k] = n + 1
  BY <1>2 DEF Laid
<1>5. \A i \in 1 .. n : t[i] = DOT <=> \E j \in 1 .. k - 1 : i = e[j]
  BY <1>2 DEF Laid
<1>6. \A j \in 1 .. k :
        /\ e[j - 1] \in Nat /\ Len(p[j]) \in Nat
        /\ e[j] = e[j - 1] + 1 + Len(p[j]) /\ e[j] <= n + 1
        /\ \A i \in 1 .. Len(p[j]) : t[e[j - 1] + i] = p[j][i]
  BY <1>2 DEF Laid
<1>7. q \in Seq(Nat) /\ \A i \in 1 .. l : q[i] # DOT
  BY <1>1, <1>3, UndottedRow
<1>8. /\ u \in Seq(Nat) /\ Len(u) = n + 1 + l
      /\ \A i \in 1 .. n : u[i] = t[i]
      /\ u[n + 1] = DOT
      /\ \A i \in 1 .. l : u[n + 1 + i] = q[i]
  <2>1. t \o <<DOT>> \o p[k + 1] = t \o <<DOT>> \o q
    BY <1>1
  <2>2. DOT \in Nat
    BY DEF DOT
  <2>3. Parted(u, t, DOT, q)
    BY <1>4, <1>7, <2>1, <2>2, ByteBetween
  <2> QED BY <1>2, <1>3, <2>3 DEF Parted
<1>9. \A j \in 1 .. k : e[j] \in Nat /\ e[j] <= n + 1
  <2> SUFFICES ASSUME NEW j \in 1 .. k PROVE e[j] \in Nat /\ e[j] <= n + 1
    OBVIOUS
  <2>1. PICK a \in Nat, c \in Nat : a = e[j - 1] /\ c = Len(p[j])
    BY <1>6
  <2>2. e[j] = a + 1 + c /\ e[j] <= n + 1
    BY <1>6, <2>1
  <2> QED BY <2>2
<1>10. ASSUME NEW i \in 1 .. n + 1 + l
       PROVE  u[i] = DOT <=> \E j \in 1 .. k : i = e[j]
  <2>1. CASE i \in 1 .. n
    <3>1. u[i] = t[i]
      BY <1>8, <2>1
    <3>2. i # e[k]
      BY <1>4, <2>1
    <3>3. ASSUME NEW j \in 1 .. k, i = e[j] PROVE j \in 1 .. k - 1
      BY <3>2, <3>3
    <3>4. \A j \in 1 .. k - 1 : j \in 1 .. k
      OBVIOUS
    <3>5. (\E j \in 1 .. k : i = e[j]) <=> (\E j \in 1 .. k - 1 : i = e[j])
      BY <3>3, <3>4
    <3> QED BY <1>5, <2>1, <3>1, <3>5
  <2>2. CASE i = n + 1
    <3>1. k \in 1 .. k
      OBVIOUS
    <3>2. i = e[k]
      BY <1>4, <2>2
    <3> QED BY <1>8, <2>2, <3>1, <3>2
  <2>3. CASE i > n + 1
    <3>1. PICK j \in 1 .. l : i = n + 1 + j
      <4>1. i - (n + 1) \in 1 .. l /\ i = n + 1 + (i - (n + 1))
        BY <2>3
      <4> QED BY <4>1
    <3>2. u[i] # DOT
      BY <1>7, <1>8, <3>1
    <3>3. \A m \in 1 .. k : i # e[m]
      BY <1>9, <2>3
    <3> QED BY <3>2, <3>3
  <2>4. i \in 1 .. n \/ i = n + 1 \/ i > n + 1
    OBVIOUS
  <2> QED BY <2>1, <2>2, <2>3, <2>4
<1>11. ASSUME NEW j \in 1 .. k + 1
       PROVE  /\ e[j - 1] \in Nat /\ Len(p[j]) \in Nat
              /\ e[j] = e[j - 1] + 1 + Len(p[j]) /\ e[j] <= n + 1 + l + 1
              /\ \A i \in 1 .. Len(p[j]) : u[e[j - 1] + i] = p[j][i]
  <2>1. CASE j = k + 1
    <3>1. j - 1 = k
      BY <2>1
    <3>2. e[j - 1] = n + 1
      BY <1>4, <3>1
    <3>3. e[j] = n + 1 + l + 1
      BY <1>8, <2>1
    <3>4. p[j] = q
      BY <1>1, <2>1
    <3>5. Len(p[j]) = l
      BY <1>3, <3>4
    <3>6. \A i \in 1 .. Len(p[j]) : u[e[j - 1] + i] = p[j][i]
      BY <1>8, <3>2, <3>4, <3>5
    <3>7. e[j] = e[j - 1] + 1 + Len(p[j]) /\ e[j] <= n + 1 + l + 1
      BY <3>2, <3>3, <3>5
    <3>8. e[j - 1] \in Nat /\ Len(p[j]) \in Nat
      BY <3>2, <3>5
    <3> QED BY <3>6, <3>7, <3>8
  <2>2. CASE j \in 1 .. k
    <3>1. PICK a \in Nat, c \in Nat : a = e[j - 1] /\ c = Len(p[j])
      BY <1>6, <2>2
    <3>2. e[j] = a + 1 + c /\ e[j] <= n + 1 /\ \A i \in 1 .. c : t[a + i] = p[j][i]
      BY <1>6, <2>2, <3>1
    <3>3. ASSUME NEW i \in 1 .. c PROVE u[a + i] = t[a + i]
      <4>1. a + i \in 1 .. n
        BY <3>2
      <4> QED BY <1>8, <4>1
    <3>4. e[j] <= n + 1 + l + 1
      BY <3>2
    <3>5. \A i \in 1 .. Len(p[j]) : u[e[j - 1] + i] = p[j][i]
      BY <3>1, <3>2, <3>3
    <3> QED BY <3>1, <3>2, <3>4, <3>5
  <2>3. j = k + 1 \/ j \in 1 .. k
    OBVIOUS
  <2> QED BY <2>1, <2>2, <2>3
<1>12. (k + 1) - 1 = k
  OBVIOUS
<1>13. \A i \in 1 .. Len(u) : u[i] = DOT <=> \E j \in 1 .. (k + 1) - 1 : i = e[j]
  BY <1>8, <1>10, <1>12
<1>14. \A j \in 1 .. k + 1 :
        /\ e[j - 1] \in Nat /\ Len(p[j]) \in Nat
        /\ e[j] = e[j - 1] + 1 + Len(p[j]) /\ e[j] <= Len(u) + 1
        /\ \A i \in 1 .. Len(p[j]) : u[e[j - 1] + i] = p[j][i]
  BY <1>8, <1>11
<1> QED BY <1>8, <1>13, <1>14 DEF Laid

LEMMA JoinedLaid ==
  ASSUME NEW m \in Nat \ {0}, NEW T, NEW p, Joins(T, p, m), NEW e, e = Ends(T, m)
  PROVE  \A k \in 1 .. m : Laid(T[k], e, p, k)
<1>1. /\ \A k \in 1 .. m : p[k] \in Undotted
      /\ T[1] = p[1]
      /\ \A k \in 1 .. m : k # 1 => T[k] = T[k - 1] \o <<DOT>> \o p[k]
  BY DEF Joins
<1>2. e[0] = 0 /\ \A k \in 1 .. m : e[k] = Len(T[k]) + 1
  BY DEF Ends
<1>3. Laid(T[1], e, p, 1)
  <2>1. PICK q : q = p[1]
    OBVIOUS
  <2>2. 1 \in 1 .. m
    OBVIOUS
  <2>3. q \in Seq(Nat) /\ Len(q) \in Nat /\ \A i \in 1 .. Len(q) : q[i] # DOT
    BY <1>1, <2>1, <2>2, UndottedRow
  <2>4. e[1] = Len(q) + 1 /\ T[1] = q
    BY <1>1, <1>2, <2>1, <2>2
  <2>5. 1 .. 1 - 1 = {} /\ 1 .. 1 = {1} /\ 1 - 1 = 0
    OBVIOUS
  <2>6. \A i \in 1 .. Len(q) : 0 + i = i
    BY <2>3
  <2> QED BY <1>2, <2>1, <2>3, <2>4, <2>5, <2>6 DEF Laid
<1>4. PICK Other : Other = {k \in 1 .. m : ~ Laid(T[k], e, p, k)}
  OBVIOUS
<1>5. Other = {}
  <2>1. Other \in SUBSET Nat
    BY <1>4
  <2> SUFFICES ASSUME Other # {} PROVE FALSE
    OBVIOUS
  <2>2. PICK n \in Other : \A j \in Other : n <= j
    BY <2>1, Least
  <2>3. n \in 1 .. m /\ n # 1
    BY <1>3, <1>4
  <2>4. PICK k \in Nat \ {0} : n = k + 1
    <3>1. n - 1 \in Nat \ {0} /\ n = (n - 1) + 1
      BY <2>3
    <3> QED BY <3>1
  <2>5. k \in 1 .. m /\ k \notin Other /\ k + 1 \in 1 .. m /\ k + 1 # 1 /\ (k + 1) - 1 = k
    BY <2>1, <2>2, <2>3, <2>4
  <2>6. Laid(T[k], e, p, k)
    BY <1>4, <2>5
  <2>7. /\ T[k + 1] = T[k] \o <<DOT>> \o p[k + 1] /\ p[k + 1] \in Undotted
        /\ e[k + 1] = Len(T[k + 1]) + 1
    BY <1>1, <1>2, <2>5
  <2>8. Laid(T[k + 1], e, p, k + 1)
    BY <2>6, <2>7, LaidOn
  <2> QED BY <1>4, <2>4, <2>8
<1> QED BY <1>4, <1>5

LEMMA CutOut ==
  ASSUME NEW t \in Seq(Nat), NEW q \in Seq(Nat), NEW a \in Nat, a + Len(q) <= Len(t),
         \A i \in 1 .. Len(q) : t[a + i] = q[i]
  PROVE  SubSeq(t, a + 1, a + Len(q)) = q
<1>1. PICK l \in Nat : l = Len(q)
  BY LenProperties
<1>2. Len(t) \in Nat
  BY LenProperties
<1>3. \A i \in a + 1 .. a + l : t[i] \in Nat
  <2>1. \A i \in 1 .. Len(t) : t[i] \in Nat
    BY LenProperties
  <2> QED BY <1>1, <1>2, <2>1
<1>4. /\ SubSeq(t, a + 1, a + l) \in Seq(Nat) /\ Len(SubSeq(t, a + 1, a + l)) = l
      /\ \A i \in 1 .. l : SubSeq(t, a + 1, a + l)[i] = t[a + i]
  <2>1. (a + 1 <= a + l + 1) /\ (IF a + 1 <= a + l THEN (a + l) - (a + 1) + 1 ELSE 0) = l
    OBVIOUS
  <2>2. \A i \in 1 .. l : (a + 1) + i - 1 = a + i
    OBVIOUS
  <2> QED BY <1>3, <2>1, <2>2, SubSeqProperties
<1> QED BY <1>1, <1>4, SeqEqual

(* What has been joined comes apart again: strings.Split of the whole text *)
(* gives the rows.                                                         *)
LEMMA SplitJoined ==
  ASSUME NEW m \in Nat \ {0}, NEW T, NEW p, Joins(T, p, m)
  PROVE  Split(T[m]) = p /\ T[m] \in Seq(Nat)
<1>1. PICK e : e = Ends(T, m)
  OBVIOUS
<1>2. PICK t : t = T[m]
  OBVIOUS
<1>3. Laid(t, e, p, m)
  BY <1>1, <1>2, JoinedLaid
<1>4. t \in Seq(Nat) /\ Len(t) \in Nat /\ DOMAIN t = 1 .. Len(t) /\ e[m] = Len(t) + 1 /\ e[0] = 0
  BY <1>1, <1>3, LenProperties DEF Laid, Ends
<1>5. \A j \in 1 .. m : /\ e[j - 1] \in Nat /\ Len(p[j]) \in Nat
                        /\ e[j] = e[j - 1] + 1 + Len(p[j]) /\ e[j] <= Len(t) + 1
                        /\ \A i \in 1 .. Len(p[j]) : t[e[j - 1] + i] = p[j][i]
  BY <1>3 DEF Laid
<1>6. \A j \in 0 .. m : e[j] \in Nat
  <2> SUFFICES ASSUME NEW j \in 0 .. m PROVE e[j] \in Nat
    OBVIOUS
  <2>1. CASE j = m
    BY <1>4, <2>1
  <2>2. CASE j # m
    <3>1. j + 1 \in 1 .. m /\ (j + 1) - 1 = j
      BY <2>2
    <3>2. e[(j + 1) - 1] \in Nat
      BY <1>5, <3>1
    <3> QED BY <3>1, <3>2
  <2> QED BY <2>1, <2>2
<1>7. \A i, j \in 0 .. m : i < j => e[i] < e[j]
  <2>1. PICK Bad : Bad = {j \in 0 .. m : \E i \in 0 .. m : i < j /\ ~ (e[i] < e[j])}
    OBVIOUS
  <2>2. Bad = {}
    <3>1. Bad \in SUBSET Nat
      BY <2>1
    <3> SUFFICES ASSUME Bad # {} PROVE FALSE
      OBVIOUS
    <3>2. PICK j \in Bad : \A k \in Bad : j <= k
      BY <3>1, Least
    <3>3. PICK i \in 0 .. m : i < j /\ ~ (e[i] < e[j])
      BY <2>1
    <3>4. j \in 1 .. m /\ j - 1 \in 0 .. m /\ j - 1 \notin Bad
      BY <2>1, <3>1, <3>2, <3>3
    <3>5. e[j - 1] < e[j]
      <4>1. PICK a \in Nat, c \in Nat : a = e[j - 1] /\ c = Len(p[j])
        BY <1>5, <3>4
      <4>2. e[j] = a + 1 + c
        BY <1>5, <3>4, <4>1
      <4> QED BY <4>1, <4>2
    <3>6. i = j - 1 \/ i < j - 1
      BY <3>3, <3>4
    <3>7. i < j - 1 => e[i] < e[j - 1]
      BY <2>1, <3>4
    <3>8. e[i] \in Nat /\ e[j] \in Nat /\ e[j - 1] \in Nat
      BY <1>6, <3>4
    <3> QED BY <3>3, <3>5, <3>6, <3>7, <3>8
  <2> QED BY <2>1, <2>2
<1>8. Growing(e, m)
  <2>1. e = [j \in 0 .. m |-> e[j]]
    BY <1>1 DEF Ends
  <2>2. e \in [0 .. m -> Nat]
    BY <1>6, <2>1
  <2> QED BY <1>7, <2>2 DEF Growing
<1>9. PICK stops : stops = {0, Len(t) + 1} \union {k \in DOMAIN t : t[k] = DOT}
  OBVIOUS
<1>10. stops = {e[j] : j \in 0 .. m}
  <2>1. \A i \in 1 .. Len(t) : t[i] = DOT <=> \E j \in 1 .. m - 1 : i = e[j]
    BY <1>3 DEF Laid
  <2>2. ASSUME NEW x \in stops PROVE x \in {e[j] : j \in 0 .. m}
    <3>1. x = e[0] \/ x = e[m] \/ \E j \in 1 .. m - 1 : x = e[j]
      BY <1>4, <1>9, <2>1
    <3>2. 0 \in 0 .. m /\ m \in 0 .. m /\ \A j \in 1 .. m - 1 : j \in 0 .. m
      OBVIOUS
    <3> QED BY <3>1, <3>2
  <2>3. ASSUME NEW j \in 0 .. m PROVE e[j] \in stops
    <3>1. CASE j = 0 \/ j = m
      BY <1>4, <1>9, <3>1
    <3>2. CASE j \in 1 .. m - 1
      <4>1. 0 \in 0 .. m /\ m \in 0 .. m /\ 0 < j /\ j < m
        BY <3>2
      <4>2. e[0] < e[j] /\ e[j] < e[m] /\ e[j] \in Nat
        BY <1>6, <1>7, <4>1
      <4>3. e[j] \in 1 .. Len(t)
        BY <1>4, <4>2
      <4> QED BY <1>4, <1>9, <2>1, <3>2, <4>3
    <3> QED BY <3>1, <3>2
  <2> QED BY <2>2, <2>3
<1>11. Cardinality(stops) = m + 1 /\ \A k \in 0 .. m : Kth(stops, k + 1) = e[k]
  BY <1>8, <1>10, KthGrows
<1>12. ASSUME NEW k \in 1 .. m
       PROVE  SubSeq(t, Kth(stops, k) + 1, Kth(stops, k + 1) - 1) = p[k]
  <2>1. k - 1 \in 0 .. m /\ k \in 0 .. m /\ (k - 1) + 1 = k
    OBVIOUS
  <2>2. Kth(stops, k) = e[k - 1] /\ Kth(stops, k + 1) = e[k]
    <3>1. Kth(stops, (k - 1) + 1) = e[k - 1]
      BY <1>11, <2>1
    <3> QED BY <1>11, <2>1, <3>1
  <2>3. PICK q \in Seq(Nat) : q = p[k]
    BY UndottedRow DEF Joins
  <2>4. PICK a \in Nat, c \in Nat : a = e[k - 1] /\ c = Len(q)
    BY <1>5, <2>3
  <2>5. e[k] = a + 1 + c /\ e[k] <= Len(t) + 1 /\ \A i \in 1 .. c : t[a + i] = q[i]
    BY <1>5, <2>3, <2>4
  <2>6. e[k] - 1 = a + c /\ a + c <= Len(t)
    BY <1>4, <2>5
  <2>7. SubSeq(t, a + 1, a + c) = q
    BY <1>4, <2>4, <2>5, <2>6, CutOut
  <2> QED BY <2>2, <2>3, <2>4, <2>6, <2>7
<1>13. Split(t) = [k \in 1 .. Cardinality(stops) - 1 |->
                     SubSeq(t, Kth(stops, k) + 1, Kth(stops, k + 1) - 1)]
  BY <1>9 DEF Split
<1>14. Cardinality(stops) - 1 = m
  BY <1>11
<1>15. p = [k \in 1 .. m |-> p[k]]
  BY DEF Joins
<1>16. Split(t) = [k \in 1 .. m |-> p[k]]
  BY <1>12, <1>13, <1>14
<1> QED BY <1>2, <1>4, <1>15, <1>16

(* What a row of digits stands for, as long as that is an int64.           *)
Counted(f, t) ==
  f = [k \in 0 .. Len(t) |->
         IF k = 0 THEN 0 ELSE Min({10 * f[k - 1] + (t[k] - ZERO), INT64_MAX + 2})]

LEMMA ValueIs ==
  ASSUME NEW t \in Seq(Nat), NEW g \in [0 .. Len(t) -> 0 .. INT64_MAX], g[0] = 0,
         \A k \in 1 .. Len(t) : g[k] = 10 * g[k - 1] + (t[k] - ZERO)
  PROVE  Value(t) = g[Len(t)]
<1>1. PICK l \in Nat : l = Len(t)
  BY LenProperties
<1>2. INT64_MAX \in Nat
  BY Int64Assumption
<1>3. ASSUME NEW k \in 1 .. l
      PROVE  Min({10 * g[k - 1] + (t[k] - ZERO), INT64_MAX + 2}) = g[k]
  <2>1. PICK x \in 0 .. INT64_MAX : x = g[k]
    BY <1>1
  <2>2. 10 * g[k - 1] + (t[k] - ZERO) = x
    BY <1>1, <2>1
  <2>3. {x, INT64_MAX + 2} \in SUBSET Nat /\ x \in {x, INT64_MAX + 2}
    BY <1>2
  <2>4. \A y \in {x, INT64_MAX + 2} : x <= y
    BY <1>2
  <2>5. Min({x, INT64_MAX + 2}) = x
    BY <2>3, <2>4, MinIs
  <2> QED BY <2>1, <2>2, <2>5
<1>4. Counted(g, t)
  <2>1. ASSUME NEW k \in 0 .. l
        PROVE  g[k] = IF k = 0 THEN 0 ELSE Min({10 * g[k - 1] + (t[k] - ZERO), INT64_MAX + 2})
    <3>1. k = 0 \/ k \in 1 .. l
      OBVIOUS
    <3> QED BY <1>3, <3>1
  <2> QED BY <1>1, <2>1 DEF Counted
<1>5. ASSUME NEW f, Counted(f, t) PROVE f = g
  <2>1. PICK Other : Other = {k \in 0 .. l : f[k] # g[k]}
    OBVIOUS
  <2>2. Other = {}
    <3>0. Other \in SUBSET Nat
      BY <2>1
    <3> SUFFICES ASSUME Other # {} PROVE FALSE
      OBVIOUS
    <3>1. PICK k \in Other : \A j \in Other : k <= j
      BY <3>0, Least
    <3>2. k \in 0 .. l /\ (k # 0 => k - 1 \in 0 .. l /\ k - 1 \notin Other /\ k \in 1 .. l)
      BY <2>1, <3>1
    <3>3. k # 0 => f[k - 1] = g[k - 1]
      BY <2>1, <3>2
    <3>4. f[k] = IF k = 0 THEN 0 ELSE Min({10 * f[k - 1] + (t[k] - ZERO), INT64_MAX + 2})
      BY <1>1, <1>5, <3>2 DEF Counted
    <3>5. f[k] = g[k]
      BY <1>3, <3>2, <3>3, <3>4
    <3> QED BY <2>1, <3>5
  <2>3. \A k \in 0 .. l : f[k] = g[k]
    BY <2>1, <2>2
  <2>4. f = [k \in 0 .. l |-> f[k]] /\ g = [k \in 0 .. l |-> g[k]]
    BY <1>1, <1>5 DEF Counted
  <2> QED BY <2>3, <2>4
<1>6. (CHOOSE f : Counted(f, t)) = g
  BY <1>4, <1>5
<1>7. Value(t) = (CHOOSE f : Counted(f, t))[Len(t)]
  BY DEF Value, Counted
<1> QED BY <1>6, <1>7

(* A number below 1000 is read as it was written, with zeros in front or   *)
(* without.                                                                *)
DigitRow(t) == t \in Seq(Nat) /\ t # <<>> /\ \A k \in DOMAIN t : t[k] \in Digits

LEMMA SmallRead ==
  ASSUME NEW n \in Small, NEW width \in 1 .. 3, Small \subseteq 0 .. INT64_MAX
  PROVE  DigitRow(Decimal(n, width)) /\ Value(Decimal(n, width)) = n
<1>0. n \in Nat
  BY DEF Small
<1>1. PICK a \in 0 .. 9, b \in 0 .. 99 : a = n \div 100 /\ b = n \div 10
  <2>1. n \div 100 \in 0 .. 9
    BY DEF Small
  <2>2. n \div 10 \in 0 .. 99
    BY DEF Small
  <2> QED BY <2>1, <2>2
<1>2. PICK d : d = <<ZERO + a, ZERO + (b % 10), ZERO + (n % 10)>>
  OBVIOUS
<1>3. PICK l \in 1 .. 3 : /\ l = Max({IF n >= 100 THEN 3 ELSE IF n >= 10 THEN 2 ELSE 1, width})
                          /\ (n >= 100 => l = 3) /\ (n >= 10 => l >= 2)
  <2>1. PICK m \in 1 .. 3 : m = IF n >= 100 THEN 3 ELSE IF n >= 10 THEN 2 ELSE 1
    OBVIOUS
  <2>2. PICK l : l = Max({m, width})
    OBVIOUS
  <2>3. l \in Nat /\ m <= l /\ l \in {m, width}
    <3>1. l \in Nat /\ m <= l /\ width <= l
      BY <2>2, MaxOfTwo
    <3>2. l \in {m, width}
      <4>1. \E x \in {m, width} : \A y \in {m, width} : x >= y
        BY <3>1
      <4> QED BY <2>2, <4>1 DEF Max
    <3> QED BY <3>1, <3>2
  <2> QED BY <2>1, <2>2, <2>3
<1>4. PICK t : t = SubSeq(d, 4 - l, 3)
  OBVIOUS
<1>5. Decimal(n, width) = t
  BY <1>1, <1>2, <1>3, <1>4 DEF Decimal
<1>6. /\ \A k \in 1 .. 3 : d[k] \in Digits /\ d[k] \in Nat
      /\ d[1] - ZERO = a /\ d[2] - ZERO = b % 10 /\ d[3] - ZERO = n % 10
  BY <1>1, <1>2 DEF Digits, ZERO
<1>7. t \in Seq(Nat) /\ Len(t) = l /\ \A k \in 1 .. l : t[k] = d[3 - l + k]
  <2>1. PICK m \in 1 .. 3 : m = 4 - l
    OBVIOUS
  <2>2. \A k \in m .. 3 : d[k] \in Nat
    BY <1>6
  <2>3. m <= 3 /\ 3 - m + 1 = l
    BY <2>1
  <2>4. /\ t \in Seq(Nat) /\ Len(t) = 3 - m + 1
        /\ \A k \in 1 .. 3 - m + 1 : t[k] = d[m + k - 1]
    <3>1. t = SubSeq(d, m, 3)
      BY <1>4, <2>1
    <3>2. PICK h : h = 3
      OBVIOUS
    <3>3. m \in Int /\ h \in Int /\ \A k \in m .. h : d[k] \in Nat
      BY <2>2, <3>2
    <3>4. /\ SubSeq(d, m, h) \in Seq(Nat)
          /\ Len(SubSeq(d, m, h)) = IF m <= h THEN h - m + 1 ELSE 0
          /\ \A k \in 1 .. h - m + 1 : SubSeq(d, m, h)[k] = d[m + k - 1]
      BY ONLY <3>3, SubSeqProperties
    <3>5. t = SubSeq(d, m, h)
      BY <3>1, <3>2
    <3> QED BY <2>3, <3>2, <3>4, <3>5
  <2>5. ASSUME NEW k \in 1 .. l PROVE t[k] = d[3 - l + k]
    <3>1. m + k - 1 = 3 - l + k
      BY <2>1
    <3>2. t[k] = d[m + k - 1]
      BY <2>3, <2>4
    <3> QED BY <3>1, <3>2
  <2> QED BY <2>3, <2>4, <2>5
<1>8. DigitRow(t)
  <2>1. DOMAIN t = 1 .. l
    BY <1>7, LenProperties
  <2>2. ASSUME NEW k \in 1 .. l PROVE t[k] \in Digits
    <3>1. PICK j \in 1 .. 3 : j = 3 - l + k
      OBVIOUS
    <3> QED BY <1>6, <1>7, <3>1
  <2>3. t # <<>>
    BY <1>7
  <2> QED BY <1>7, <2>1, <2>2, <2>3 DEF DigitRow
<1>9. Value(t) = n
  <2>1. PICK g : g = [k \in 0 .. l |-> IF k = 0 THEN 0 ELSE <<a, b, n>>[3 - l + k]]
    OBVIOUS
  <2>2. n = 10 * b + (n % 10) /\ b = 10 * a + (b % 10) /\ (l = 1 => b = 0) /\ (l <= 2 => a = 0)
    BY <1>1, <1>3 DEF Small
  <2>3. /\ g \in [0 .. l -> Small] /\ g[0] = 0 /\ g[l] = n
        /\ \A k \in 1 .. l : g[k] = 10 * g[k - 1] + (t[k] - ZERO)
    <3>1. CASE l = 1
      <4>1. g = [k \in 0 .. 1 |-> IF k = 0 THEN 0 ELSE n]
        BY <2>1, <3>1
      <4>2. t[1] - ZERO = n
        BY <1>6, <1>7, <2>2, <3>1
      <4> QED BY <3>1, <4>1, <4>2 DEF Small
    <3>2. CASE l = 2
      <4>1. g = [k \in 0 .. 2 |-> IF k = 0 THEN 0 ELSE IF k = 1 THEN b ELSE n]
        BY <2>1, <3>2
      <4>2. t[1] - ZERO = b /\ t[2] - ZERO = n % 10
        BY <1>6, <1>7, <2>2, <3>2
      <4> QED BY <2>2, <3>2, <4>1, <4>2 DEF Small
    <3>3. CASE l = 3
      <4>1. g = [k \in 0 .. 3 |-> IF k = 0 THEN 0 ELSE IF k = 1 THEN a ELSE IF k = 2 THEN b ELSE n]
        BY <2>1, <3>3
      <4>2. t[1] - ZERO = a /\ t[2] - ZERO = b % 10 /\ t[3] - ZERO = n % 10
        BY <1>6, <1>7, <3>3
      <4> QED BY <2>2, <3>3, <4>1, <4>2 DEF Small
    <3>4. l = 1 \/ l = 2 \/ l = 3
      OBVIOUS
    <3> QED BY <3>1, <3>2, <3>3, <3>4
  <2>4. g \in [0 .. l -> 0 .. INT64_MAX]
    <3>1. PICK U : U = 0 .. INT64_MAX
      OBVIOUS
    <3>2. Small \subseteq U
      BY <3>1
    <3>3. g \in [0 .. l -> U]
      BY <2>3, <3>2
    <3> QED BY <3>1, <3>3
  <2>5. g \in [0 .. Len(t) -> 0 .. INT64_MAX]
    BY <1>7, <2>4
  <2>6. \A k \in 1 .. Len(t) : g[k] = 10 * g[k - 1] + (t[k] - ZERO)
    BY <1>7, <2>3
  <2>7. t \in Seq(Nat) /\ g[0] = 0
    BY <1>7, <2>3
  <2>8. Value(t) = g[Len(t)]
    BY <2>5, <2>6, <2>7, ValueIs
  <2> QED BY <1>7, <2>3, <2>8
<1> QED BY <1>5, <1>8, <1>9

LEMMA DecimalRead ==
  ASSUME NEW n \in Small, NEW width \in 1 .. 3, INT64_MAX >= 999
  PROVE  DigitRow(Decimal(n, width)) /\ Value(Decimal(n, width)) = n
<1>1. Small \subseteq 0 .. INT64_MAX
  BY Int64Assumption DEF Small
<1> QED BY <1>1, SmallRead

(* The text of the first k rows, for every k.                              *)
Grown(T, p, m) ==
  T = [k \in 1 .. m |-> IF k = 1 THEN p[1] ELSE T[k - 1] \o <<DOT>> \o p[k]]

LEMMA RowsGrow ==
  ASSUME NEW m \in Nat \ {0}, NEW p
  PROVE  \E T : Grown(T, p, m)
<1>1. PICK Other : Other = {k \in 1 .. m : ~ \E T : Grown(T, p, k)}
  OBVIOUS
<1>2. Other = {}
  <2>1. Other \in SUBSET Nat
    BY <1>1
  <2> SUFFICES ASSUME Other # {} PROVE FALSE
    OBVIOUS
  <2>2. PICK n \in Other : \A j \in Other : n <= j
    BY <2>1, Least
  <2>3. n # 1
    <3>1. PICK T : T = [k \in 1 .. 1 |-> p[1]]
      OBVIOUS
    <3>2. Grown(T, p, 1)
      BY <3>1 DEF Grown
    <3> QED BY <1>1, <3>2
  <2>4. n \in 1 .. m /\ n - 1 \in 1 .. m /\ n - 1 \notin Other
    BY <1>1, <2>1, <2>2, <2>3
  <2>5. PICK F : Grown(F, p, n - 1)
    BY <1>1, <2>4
  <2>6. PICK q : q = F[n - 1] \o <<DOT>> \o p[n]
    OBVIOUS
  <2>7. PICK T : T = [k \in 1 .. n |-> IF k < n THEN F[k] ELSE q]
    OBVIOUS
  <2>8. ASSUME NEW k \in 1 .. n
        PROVE  T[k] = IF k = 1 THEN p[1] ELSE T[k - 1] \o <<DOT>> \o p[k]
    <3>1. CASE k = n
      <4>1. T[k] = q /\ T[k - 1] = F[k - 1]
        BY <2>4, <2>7, <3>1
      <4> QED BY <2>3, <2>6, <3>1, <4>1
    <3>2. CASE k < n
      <4>1. T[k] = F[k] /\ (k # 1 => T[k - 1] = F[k - 1])
        BY <2>4, <2>7, <3>2
      <4>2. k \in 1 .. n - 1
        BY <2>4, <3>2
      <4>3. F[k] = IF k = 1 THEN p[1] ELSE F[k - 1] \o <<DOT>> \o p[k]
        BY <2>5, <4>2 DEF Grown
      <4> QED BY <4>1, <4>3
    <3>3. k = n \/ k < n
      BY <2>4
    <3> QED BY <3>1, <3>2, <3>3
  <2>9. Grown(T, p, n)
    BY <2>7, <2>8 DEF Grown
  <2> QED BY <1>1, <2>9
<1> QED BY <1>1, <1>2

LEMMA DigitRowUndotted ==
  ASSUME NEW q, DigitRow(q)
  PROVE  /\ q \in Undotted /\ q \in Seq(Nat) /\ Len(q) \in Nat \ {0}
         /\ \A i \in 1 .. Len(q) : q[i] \in Digits
<1>1. q \in Seq(Nat) /\ Len(q) \in Nat /\ DOMAIN q = 1 .. Len(q) /\ q # <<>>
  BY LenProperties DEF DigitRow
<1>2. Len(q) # 0
  BY <1>1, EmptySeq
<1>3. \A i \in 1 .. Len(q) : q[i] \in Digits /\ q[i] \in Nat
  BY <1>1, LenProperties DEF DigitRow
<1>4. DOT \notin Digits
  BY DEF DOT, Digits, ZERO
<1>5. q = [i \in 1 .. Len(q) |-> q[i]]
  BY <1>1, LenProperties
<1>6. \A i \in 1 .. Len(q) : q[i] \in Nat \ {DOT}
  BY <1>3, <1>4
<1>7. q \in Undotted
  <2>1. PICK l \in Nat : l = Len(q)
    BY <1>1
  <2>2. q = [i \in 1 .. l |-> q[i]] /\ \A i \in 1 .. l : q[i] \in Nat \ {DOT}
    BY <1>5, <1>6, <2>1
  <2>3. q \in [1 .. l -> Nat \ {DOT}]
    BY <2>2
  <2> QED BY <2>3, SeqDef DEF Undotted
<1> QED BY <1>1, <1>2, <1>3, <1>7

(* Rows of digits with dots between them begin and end with a digit.       *)
Numeric(t) ==
  /\ t \in Seq(Nat) /\ Len(t) \in Nat \ {0}
  /\ t[1] \in Digits /\ t[Len(t)] \in Digits
  /\ \A i \in 1 .. Len(t) : t[i] \in Digits \union {DOT}

LEMMA NumericOn ==
  ASSUME NEW t, Numeric(t), NEW q, DigitRow(q)
  PROVE  Numeric(t \o <<DOT>> \o q)
<1>1. PICK u : u = t \o <<DOT>> \o q
  OBVIOUS
<1>2. PICK n \in Nat \ {0} : n = Len(t)
  BY DEF Numeric
<1>3. PICK l \in Nat \ {0} : l = Len(q)
  BY DigitRowUndotted
<1>4. Parted(u, t, DOT, q)
  <2>1. t \in Seq(Nat) /\ q \in Seq(Nat) /\ DOT \in Nat
    BY DigitRowUndotted DEF Numeric, DOT
  <2> QED BY <1>1, <2>1, ByteBetween
<1>5. /\ u \in Seq(Nat) /\ Len(u) = n + 1 + l /\ u[n + 1] = DOT
      /\ \A i \in 1 .. n : u[i] = t[i]
      /\ \A i \in 1 .. l : u[n + 1 + i] = q[i]
  BY <1>2, <1>3, <1>4 DEF Parted
<1>6. t[1] \in Digits /\ \A i \in 1 .. n : t[i] \in Digits \union {DOT}
  BY <1>2 DEF Numeric
<1>7. \A i \in 1 .. l : q[i] \in Digits
  BY <1>3, DigitRowUndotted
<1>8. u[1] \in Digits
  <2>1. 1 \in 1 .. n
    OBVIOUS
  <2> QED BY <1>5, <1>6, <2>1
<1>9. u[n + 1 + l] \in Digits
  <2>1. l \in 1 .. l
    OBVIOUS
  <2> QED BY <1>5, <1>7, <2>1
<1>10. ASSUME NEW i \in 1 .. n + 1 + l PROVE u[i] \in Digits \union {DOT}
  <2>1. CASE i <= n
    <3>1. i \in 1 .. n
      BY <2>1
    <3>2. t[i] \in Digits \union {DOT}
      BY <1>6, <3>1
    <3> QED BY <1>5, <3>1, <3>2
  <2>2. CASE i = n + 1
    BY <1>5, <2>2
  <2>3. CASE i > n + 1
    <3>1. PICK j \in 1 .. l : i = n + 1 + j
      <4>1. i - (n + 1) \in 1 .. l /\ i = n + 1 + (i - (n + 1))
        BY <2>3
      <4> QED BY <4>1
    <3> QED BY <1>5, <1>7, <3>1
  <2> QED BY <2>1, <2>2, <2>3
<1>11. n + 1 + l \in Nat \ {0}
  OBVIOUS
<1>12. Numeric(u)
  BY <1>5, <1>8, <1>9, <1>10, <1>11 DEF Numeric
<1> QED BY <1>1, <1>12

LEMMA NumericAlone ==
  ASSUME NEW q, DigitRow(q)
  PROVE  Numeric(q)
BY DigitRowUndotted DEF Numeric

(* Numbers with dots between them, as a release has them: the rows come    *)
(* apart again.                                                            *)
Decimals(numbers, width) == [k \in 1 .. Len(numbers) |-> Decimal(numbers[k], width)]

LEMMA DotsRead ==
  ASSUME NEW numbers \in Seq(Small), numbers # <<>>, NEW width \in 1 .. 3, INT64_MAX >= 999
  PROVE  /\ Numeric(Dots(numbers, width))
         /\ Split(Dots(numbers, width)) = Decimals(numbers, width)
<1>1. PICK m \in Nat \ {0} : m = Len(numbers)
  BY EmptySeq, LenProperties
<1>2. PICK p : p = Decimals(numbers, width)
  OBVIOUS
<1>3. ASSUME NEW k \in 1 .. m PROVE p[k] = Decimal(numbers[k], width) /\ DigitRow(p[k])
  <2>1. numbers[k] \in Small
    BY <1>1, LenProperties
  <2>2. p[k] = Decimal(numbers[k], width)
    BY <1>1, <1>2 DEF Decimals
  <2> QED BY <2>1, <2>2, DecimalRead
<1>4. ASSUME NEW T
      PROVE  Grown(T, p, m) <=>
               T = [k \in 1 .. Len(numbers) |->
                      IF k = 1 THEN Decimal(numbers[1], width)
                      ELSE T[k - 1] \o <<DOT>> \o Decimal(numbers[k], width)]
  <2>1. 1 \in 1 .. m
    OBVIOUS
  <2>2. [k \in 1 .. m |-> IF k = 1 THEN p[1] ELSE T[k - 1] \o <<DOT>> \o p[k]] =
        [k \in 1 .. m |-> IF k = 1 THEN Decimal(numbers[1], width)
                          ELSE T[k - 1] \o <<DOT>> \o Decimal(numbers[k], width)]
    BY <1>3, <2>1
  <2> QED BY <1>1, <2>2 DEF Grown
<1>5. PICK T : Grown(T, p, m) /\ Dots(numbers, width) = T[m]
  <2>1. PICK F : F = (CHOOSE T : T = [k \in 1 .. Len(numbers) |->
                      IF k = 1 THEN Decimal(numbers[1], width)
                      ELSE T[k - 1] \o <<DOT>> \o Decimal(numbers[k], width)])
    OBVIOUS
  <2>2. \E T : T = [k \in 1 .. Len(numbers) |->
                      IF k = 1 THEN Decimal(numbers[1], width)
                      ELSE T[k - 1] \o <<DOT>> \o Decimal(numbers[k], width)]
    BY <1>4, RowsGrow
  <2>3. F = [k \in 1 .. Len(numbers) |->
                      IF k = 1 THEN Decimal(numbers[1], width)
                      ELSE F[k - 1] \o <<DOT>> \o Decimal(numbers[k], width)]
    BY <2>1, <2>2
  <2>4. Dots(numbers, width) = F[Len(numbers)]
    BY <2>1 DEF Dots
  <2> QED BY <1>1, <1>4, <2>3, <2>4
<1>6. Joins(T, p, m)
  <2>1. \A k \in 1 .. m : p[k] \in Undotted
    BY <1>3, DigitRowUndotted
  <2>2. p \in [1 .. m -> Undotted]
    BY <1>1, <1>2, <2>1 DEF Decimals
  <2> QED BY <1>5, <2>2 DEF Grown, Joins
<1>7. PICK Other : Other = {k \in 1 .. m : ~ Numeric(T[k])}
  OBVIOUS
<1>8. Other = {}
  <2>1. Other \in SUBSET Nat
    BY <1>7
  <2> SUFFICES ASSUME Other # {} PROVE FALSE
    OBVIOUS
  <2>2. PICK n \in Other : \A j \in Other : n <= j
    BY <2>1, Least
  <2>3. n \in 1 .. m /\ DigitRow(p[n])
    BY <1>3, <1>7
  <2>4. CASE n = 1
    <3>1. T[n] = p[n]
      BY <1>5, <2>3, <2>4 DEF Grown
    <3> QED BY <1>7, <2>3, <3>1, NumericAlone
  <2>5. CASE n # 1
    <3>1. n - 1 \in 1 .. m /\ n - 1 \notin Other
      BY <2>1, <2>2, <2>3, <2>5
    <3>2. Numeric(T[n - 1]) /\ T[n] = T[n - 1] \o <<DOT>> \o p[n]
      BY <1>5, <1>7, <2>3, <2>5, <3>1 DEF Grown
    <3> QED BY <1>7, <2>3, <3>2, NumericOn
  <2> QED BY <2>4, <2>5
<1>9. Numeric(T[m])
  BY <1>7, <1>8
<1>10. Split(T[m]) = p
  BY <1>6, SplitJoined
<1> QED BY <1>2, <1>5, <1>9, <1>10

LEMMA DecimalParsed ==
  ASSUME NEW n \in Small, NEW width \in 1 .. 3, INT64_MAX >= 999
  PROVE  /\ IsNumber(Decimal(n, width))
         /\ ParseInt(Decimal(n, width)) = [ok |-> TRUE, val |-> n]
<1>1. PICK t : t = Decimal(n, width)
  OBVIOUS
<1>2. DigitRow(t) /\ Value(t) = n
  BY <1>1, DecimalRead
<1>3. IsNumber(t)
  BY <1>2 DEF DigitRow, IsNumber, IsDigit, Digits
<1>4. t[1] # DASH
  <2>1. Len(t) \in Nat \ {0} /\ t[1] \in Digits
    BY <1>2, DigitRowUndotted
  <2> QED BY <2>1 DEF Digits, DASH, ZERO
<1>5. n <= INT64_MAX /\ n \in Nat /\ INT64_MAX \in Nat
  BY Int64Assumption DEF Small
<1>6. Min({n, INT64_MAX}) = n
  <2>1. {n, INT64_MAX} \in SUBSET Nat /\ n \in {n, INT64_MAX}
    BY <1>5
  <2>2. \A x \in {n, INT64_MAX} : n <= x
    BY <1>5
  <2> QED BY <2>1, <2>2, MinIs
<1>7. 1 * n = n
  BY <1>5
<1>8. ParseInt(t) = [ok |-> Value(t) <= INT64_MAX, val |-> 1 * Min({Value(t), INT64_MAX})]
  BY <1>3, <1>4 DEF ParseInt
<1>9. ParseInt(t) = [ok |-> n <= INT64_MAX, val |-> n]
  BY <1>2, <1>6, <1>7, <1>8
<1> QED BY <1>1, <1>3, <1>5, <1>9

LEMMA NumericBytes ==
  ASSUME NEW t, Numeric(t)
  PROVE  /\ t \in Seq(Nat) /\ Len(t) \in Nat \ {0} /\ DOMAIN t = 1 .. Len(t) /\ t # <<>>
         /\ \A i \in 1 .. Len(t) : t[i] \in NumberBytes /\ t[i] # DASH
         /\ t[1] # DOT
<1>1. t \in Seq(Nat) /\ Len(t) \in Nat \ {0} /\ t[1] \in Digits
  BY DEF Numeric
<1>2. DOMAIN t = 1 .. Len(t) /\ t # <<>>
  BY <1>1, LenProperties, EmptySeq
<1>3. DASH \notin Digits /\ DOT \notin Digits /\ DASH # DOT
  BY DEF DASH, DOT, Digits, ZERO
<1>4. \A i \in 1 .. Len(t) : t[i] \in Digits \union {DOT}
  BY DEF Numeric
<1>5. \A i \in 1 .. Len(t) : t[i] \in NumberBytes /\ t[i] # DASH
  BY <1>3, <1>4 DEF NumberBytes
<1> QED BY <1>1, <1>2, <1>3, <1>5

LEMMA DecimalsParsed ==
  ASSUME NEW numbers \in Seq(Small), NEW width \in 1 .. 3, INT64_MAX >= 999,
         NEW parts, parts = Decimals(numbers, width)
  PROVE  /\ DOMAIN parts = 1 .. Len(numbers) /\ Len(parts) = Len(numbers)
         /\ \A k \in DOMAIN parts : /\ parts[k] = Decimal(numbers[k], width)
                                   /\ IsNumber(parts[k]) /\ parts[k] # <<>>
                                   /\ ParseInt(parts[k]) = [ok |-> TRUE, val |-> numbers[k]]
         /\ [k \in DOMAIN parts |-> ParseInt(parts[k]).val] = numbers
<1>1. PICK m \in Nat : m = Len(numbers)
  BY LenProperties
<1>2. parts = [k \in 1 .. m |-> Decimal(numbers[k], width)]
  BY <1>1 DEF Decimals
<1>3. DOMAIN parts = 1 .. m /\ Len(parts) = m
  BY <1>2
<1>4. ASSUME NEW k \in 1 .. m
      PROVE  /\ parts[k] = Decimal(numbers[k], width)
             /\ IsNumber(parts[k]) /\ parts[k] # <<>>
             /\ ParseInt(parts[k]) = [ok |-> TRUE, val |-> numbers[k]]
  <2>1. numbers[k] \in Small
    BY <1>1, LenProperties
  <2>2. PICK n \in Small : n = numbers[k]
    BY <2>1
  <2>3. parts[k] = Decimal(n, width)
    BY <1>2, <2>2
  <2>4. IsNumber(Decimal(n, width)) /\ ParseInt(Decimal(n, width)) = [ok |-> TRUE, val |-> n]
    BY DecimalParsed
  <2> QED BY <2>2, <2>3, <2>4 DEF IsNumber
<1>5. numbers = [k \in 1 .. m |-> numbers[k]]
  BY <1>1, LenProperties
<1>6. [k \in 1 .. m |-> ParseInt(parts[k]).val] = [k \in 1 .. m |-> numbers[k]]
  <2>1. ASSUME NEW k \in 1 .. m PROVE ParseInt(parts[k]).val = numbers[k]
    <3>1. ParseInt(parts[k]) = [ok |-> TRUE, val |-> numbers[k]]
      BY <1>4
    <3> QED BY <3>1
  <2> QED BY <2>1
<1> QED BY <1>1, <1>3, <1>4, <1>5, <1>6

(* A version without a dash: segments only.                                *)
LEMMA SegmentsOnly ==
  ASSUME NEW segments \in Seq(Small), segments # <<>>, INT64_MAX >= 999
  PROVE  /\ Dashes(Dots(segments, 1)) = {}
         /\ NewVersion(Dots(segments, 1)) =
              [ok |-> TRUE, segments |-> PadTo3(segments), pre |-> <<>>]
<1>1. PICK a : a = Dots(segments, 1)
  OBVIOUS
<1>2. Numeric(a) /\ Split(a) = Decimals(segments, 1)
  BY <1>1, DotsRead
<1>3. Dashes(a) = {}
  BY <1>2, NumericBytes DEF Dashes
<1>4. SubSeq(a, 1, FirstDash(a) - 1) = a
  <2>1. a \in Seq(Nat) /\ Len(a) \in Nat
    BY <1>2, NumericBytes
  <2>2. FirstDash(a) - 1 = 0 + Len(a)
    BY <1>3, <2>1 DEF FirstDash
  <2>3. SubSeq(a, 0 + 1, 0 + Len(a)) = a
    <3>1. 0 + Len(a) <= Len(a) /\ \A i \in 1 .. Len(a) : a[0 + i] = a[i]
      BY <2>1
    <3> QED BY <2>1, <3>1, CutOut
  <2>4. 0 + 1 = 1
    OBVIOUS
  <2> QED BY <2>2, <2>3, <2>4
<1>5. PICK numbers : numbers = Decimals(segments, 1)
  OBVIOUS
<1>6. /\ \A k \in DOMAIN numbers : IsNumber(numbers[k]) /\ ParseInt(numbers[k]).ok
      /\ [k \in DOMAIN numbers |-> ParseInt(numbers[k]).val] = segments
  BY <1>5, DecimalsParsed
<1>7. Prerelease(a) = <<>>
  BY <1>3 DEF Prerelease
<1>8. Split(SubSeq(a, 1, FirstDash(a) - 1)) = numbers
  BY <1>2, <1>4, <1>5
<1>9. NewVersion(a) = [ok |-> TRUE, segments |-> PadTo3(segments), pre |-> <<>>]
  BY <1>3, <1>6, <1>7, <1>8 DEF NewVersion
<1> QED BY <1>1, <1>3, <1>9

LEMMA ByteFirst ==
  ASSUME NEW t \in Seq(Nat), NEW q \in Seq(Nat), NEW c \in Nat
  PROVE  Parted(t \o (<<c>> \o q), t, c, q)
<1>1. PICK a : a = <<c>>
  OBVIOUS
<1>2. a \in Seq(Nat) /\ Len(a) = 1 /\ a[1] = c
  BY <1>1
<1>3. PICK b : b = a \o q
  OBVIOUS
<1>4. Behind(b, a, q)
  BY <1>2, <1>3, OneBehind
<1>5. /\ b \in Seq(Nat) /\ Len(b) = 1 + Len(q) /\ Len(q) \in Nat /\ b[1] = c
      /\ \A i \in 1 .. Len(q) : b[1 + i] = q[i]
  <2>1. \A i \in 1 .. 1 : b[i] = a[i]
    BY <1>2, <1>4 DEF Behind
  <2> QED BY <1>2, <1>4, <2>1 DEF Behind
<1>6. PICK u : u = t \o b
  OBVIOUS
<1>7. Behind(u, t, b)
  BY <1>5, <1>6, OneBehind
<1>8. PICK n \in Nat : n = Len(t)
  BY LenProperties
<1>9. PICK l \in Nat : l = Len(q)
  BY <1>5
<1>10. /\ u \in Seq(Nat) /\ Len(u) = n + (1 + l)
       /\ \A i \in 1 .. n : u[i] = t[i]
       /\ \A i \in 1 .. 1 + l : u[n + i] = b[i]
  BY <1>5, <1>7, <1>8, <1>9 DEF Behind
<1>11. u[n + 1] = c
  <2>1. 1 \in 1 .. 1 + l
    OBVIOUS
  <2> QED BY <1>5, <1>10, <2>1
<1>12. ASSUME NEW i \in 1 .. l PROVE u[n + 1 + i] = q[i]
  <2>1. 1 + i \in 1 .. 1 + l /\ n + (1 + i) = n + 1 + i
    OBVIOUS
  <2>2. b[1 + i] = q[i]
    BY <1>5, <1>9
  <2> QED BY <1>10, <2>1, <2>2
<1>13. Len(u) = n + 1 + l
  BY <1>10
<1>14. Parted(u, t, c, q)
  BY <1>8, <1>9, <1>10, <1>11, <1>12, <1>13 DEF Parted
<1> QED BY <1>1, <1>3, <1>6, <1>14

(* A version with a dash: segments and a prerelease.                       *)
LEMMA SegmentsAndBuild ==
  ASSUME NEW segments \in Seq(Small), segments # <<>>, INT64_MAX >= 999,
         NEW build \in Seq(Small), build # <<>>, NEW width \in 1 .. 3,
         NEW v, Parted(v, Dots(segments, 1), DASH, Dots(build, width))
  PROVE  NewVersion(v) =
           [ok |-> TRUE, segments |-> PadTo3(segments), pre |-> Dots(build, width)]
<1>1. PICK a : a = Dots(segments, 1)
  OBVIOUS
<1>2. PICK b : b = Dots(build, width)
  OBVIOUS
<1>3. Numeric(a) /\ Split(a) = Decimals(segments, 1)
  BY <1>1, DotsRead
<1>4. Numeric(b) /\ Split(b) = Decimals(build, width)
  BY <1>2, DotsRead
<1>5. PICK n \in Nat : n = Len(a)
  BY <1>3, NumericBytes
<1>6. PICK l \in Nat \ {0} : l = Len(b)
  BY <1>4, NumericBytes
<1>7. Parted(v, a, DASH, b)
  BY <1>1, <1>2
<1>8. /\ v \in Seq(Nat) /\ Len(v) = n + 1 + l /\ DOMAIN v = 1 .. n + 1 + l
      /\ \A i \in 1 .. n : v[i] = a[i]
      /\ v[n + 1] = DASH
      /\ \A i \in 1 .. l : v[n + 1 + i] = b[i]
  BY <1>5, <1>6, <1>7, LenProperties DEF Parted
<1>9. n + 1 \in Dashes(v)
  BY <1>8 DEF Dashes
<1>10. FirstDash(v) = n + 1
  <2>1. Dashes(v) \in SUBSET Nat
    BY <1>8 DEF Dashes
  <2>2. \A i \in 1 .. n : a[i] # DASH
    BY <1>3, <1>5, NumericBytes
  <2>3. ASSUME NEW k \in Dashes(v) PROVE n + 1 <= k
    <3>1. k \in 1 .. n + 1 + l /\ v[k] = DASH
      BY <1>8, <2>3 DEF Dashes
    <3>2. k \notin 1 .. n
      BY <1>8, <2>2, <3>1
    <3> QED BY <3>1, <3>2
  <2>4. Min(Dashes(v)) = n + 1
    BY <1>9, <2>1, <2>3, MinIs
  <2> QED BY <1>9, <2>4 DEF FirstDash
<1>11. SubSeq(v, 1, FirstDash(v) - 1) = a
  <2>1. a \in Seq(Nat)
    BY <1>3, NumericBytes
  <2>2. 0 + Len(a) <= Len(v) /\ \A i \in 1 .. Len(a) : v[0 + i] = a[i]
    BY <1>5, <1>8, SMTT(30)
  <2>3. SubSeq(v, 0 + 1, 0 + Len(a)) = a
    BY <1>8, <2>1, <2>2, CutOut
  <2>4. 0 + 1 = 1 /\ 0 + Len(a) = (n + 1) - 1
    BY <1>5
  <2> QED BY <1>10, <2>3, <2>4
<1>12. AfterDash(v) = b
  <2>1. b \in Seq(Nat) /\ n + 1 \in Nat
    BY <1>4, NumericBytes
  <2>2. n + 1 + Len(b) <= Len(v) /\ \A i \in 1 .. Len(b) : v[n + 1 + i] = b[i]
    BY <1>6, <1>8
  <2>3. SubSeq(v, n + 1 + 1, n + 1 + Len(b)) = b
    BY <1>8, <2>1, <2>2, CutOut
  <2> QED BY <1>6, <1>8, <1>10, <2>3 DEF AfterDash
<1>13. Prerelease(v) = b
  BY <1>4, <1>9, <1>12, NumericBytes DEF Prerelease
<1>14. PICK numbers : numbers = Decimals(segments, 1)
  OBVIOUS
<1>15. /\ \A k \in DOMAIN numbers : IsNumber(numbers[k]) /\ ParseInt(numbers[k]).ok
       /\ [k \in DOMAIN numbers |-> ParseInt(numbers[k]).val] = segments
  <2>1. 1 \in 1 .. 3
    OBVIOUS
  <2> QED BY <1>14, <2>1, DecimalsParsed
<1>16. PICK parts : parts = Decimals(build, width)
  OBVIOUS
<1>17. \A k \in DOMAIN parts : parts[k] # <<>>
  BY <1>16, DecimalsParsed
<1>18. Split(SubSeq(v, 1, FirstDash(v) - 1)) = numbers /\ Split(Prerelease(v)) = parts
  BY <1>3, <1>4, <1>11, <1>13, <1>14, <1>16
<1>19. NewVersion(v) = [ok |-> TRUE, segments |-> PadTo3(segments), pre |-> b]
  BY <1>13, <1>15, <1>17, <1>18 DEF NewVersion
<1> QED BY <1>2, <1>19

LEMMA TextRead ==
  ASSUME NEW width \in 1 .. 3, NEW r, Ordinary(r, width), INT64_MAX >= 999
  PROVE  Ver(r) = [ok |-> TRUE, segments |-> PadTo3(r.segments),
                   pre |-> IF r.build = <<>> THEN <<>> ELSE Dots(r.build, width)]
<1>1. PICK segments \in Seq(Small) : segments = r.segments
  BY DEF Ordinary
<1>2. PICK build \in Seq(Small) : build = r.build
  BY DEF Ordinary
<1>3. PICK tags : tags = r.tags
  OBVIOUS
<1>4. segments # <<>> /\ r.width = width /\ Tagged(tags)
  <2>1. Len(segments) # 0
    BY <1>1 DEF Ordinary
  <2> QED BY <1>3, <2>1, EmptySeq DEF Ordinary
<1>5. PICK a : a = Dots(segments, 1)
  OBVIOUS
<1>6. Numeric(a)
  <2>1. 1 \in 1 .. 3
    OBVIOUS
  <2> QED BY <1>4, <1>5, <2>1, DotsRead
<1>7. ASSUME NEW ver, Text(r) = ver \o tags, ver \in Seq(Nat), Len(ver) \in Nat \ {0},
             ver[Len(ver)] \in Digits, \A k \in 1 .. Len(ver) : ver[k] \in NumberBytes
      PROVE  Ver(r) = NewVersion(ver)
  <2>1. ver # <<>> /\ DOMAIN ver = 1 .. Len(ver)
    BY <1>7, LenProperties, EmptySeq
  <2>2. \A k \in DOMAIN ver : ver[k] \in NumberBytes
    BY <1>7, <2>1
  <2>3. sanitizeVersion(ver \o tags) = ver
    BY <1>4, <1>7, <2>1, <2>2, TagsCut DEF Tagged
  <2> QED BY <1>7, <2>3 DEF Ver, Read
<1>8. CASE build = <<>>
  <2>1. a \in Seq(Nat) /\ Len(a) \in Nat \ {0} /\ a[Len(a)] \in Digits
        /\ \A k \in 1 .. Len(a) : a[k] \in NumberBytes
    BY <1>6, NumericBytes DEF Numeric
  <2>2. Text(r) = a \o tags
    <3>1. Text(r) = a \o <<>> \o tags
      BY <1>1, <1>2, <1>3, <1>5, <1>8 DEF Text
    <3>2. a \o <<>> = a
      BY <2>1, ConcatEmptySeq
    <3> QED BY <3>1, <3>2
  <2>3. Ver(r) = NewVersion(a)
    BY <1>7, <2>1, <2>2
  <2>4. NewVersion(a) = [ok |-> TRUE, segments |-> PadTo3(segments), pre |-> <<>>]
    BY <1>4, <1>5, SegmentsOnly
  <2> QED BY <1>1, <1>2, <1>8, <2>3, <2>4
<1>9. CASE build # <<>>
  <2>1. PICK b : b = Dots(build, width)
    OBVIOUS
  <2>2. Numeric(b)
    BY <1>9, <2>1, DotsRead
  <2>3. PICK v : v = a \o (<<DASH>> \o b)
    OBVIOUS
  <2>4. a \in Seq(Nat) /\ b \in Seq(Nat) /\ DASH \in Nat
    BY <1>6, <2>2, NumericBytes DEF DASH
  <2>5. Parted(v, a, DASH, b)
    BY <2>3, <2>4, ByteFirst
  <2>6. PICK n \in Nat \ {0} : n = Len(a)
    BY <1>6, NumericBytes
  <2>7. PICK l \in Nat \ {0} : l = Len(b)
    BY <2>2, NumericBytes
  <2>8. /\ v \in Seq(Nat) /\ Len(v) = n + 1 + l
        /\ \A i \in 1 .. n : v[i] = a[i]
        /\ v[n + 1] = DASH
        /\ \A i \in 1 .. l : v[n + 1 + i] = b[i]
    BY <2>5, <2>6, <2>7 DEF Parted
  <2>9. ASSUME NEW k \in 1 .. n + 1 + l PROVE v[k] \in NumberBytes
    <3>1. CASE k <= n
      BY <1>6, <2>6, <2>8, <3>1, NumericBytes
    <3>2. CASE k = n + 1
      BY <2>8, <3>2 DEF NumberBytes
    <3>3. CASE k > n + 1
      <4>1. PICK j \in 1 .. l : k = n + 1 + j
        <5>1. k - (n + 1) \in 1 .. l /\ k = n + 1 + (k - (n + 1))
          BY <3>3
        <5> QED BY <5>1
      <4>2. b[j] \in NumberBytes
        BY <2>2, <2>7, NumericBytes
      <4> QED BY <2>8, <4>1, <4>2
    <3> QED BY <3>1, <3>2, <3>3
  <2>10. v[n + 1 + l] \in Digits
    <3>1. l \in 1 .. l /\ b[l] \in Digits
      BY <2>2, <2>7 DEF Numeric
    <3> QED BY <2>8, <3>1
  <2>11. Len(v) \in Nat \ {0} /\ v[Len(v)] \in Digits
         /\ \A k \in 1 .. Len(v) : v[k] \in NumberBytes
    <3>1. n + 1 + l \in Nat \ {0}
      OBVIOUS
    <3> QED BY <2>8, <2>9, <2>10, <3>1
  <2>12. Text(r) = v \o tags
    BY <1>1, <1>2, <1>3, <1>4, <1>5, <1>9, <2>1, <2>3 DEF Text
  <2>13. Ver(r) = NewVersion(v)
    BY <1>7, <2>8, <2>11, <2>12
  <2>14. Parted(v, Dots(segments, 1), DASH, Dots(build, width))
    BY <1>5, <2>1, <2>5
  <2>15. NewVersion(v) = [ok |-> TRUE, segments |-> PadTo3(segments), pre |-> b]
    BY <1>4, <1>9, <2>1, <2>14, SegmentsAndBuild
  <2> QED BY <1>1, <1>2, <1>9, <2>1, <2>13, <2>15
<1> QED BY <1>8, <1>9

(* The segments of a release with zeros up to the third place are its own  *)
(* row, and no two releases have the same row but the same segments.       *)
LEMMA Padded ==
  ASSUME NEW s \in Seq(Small), Len(s) \in 1 .. 4
  PROVE  /\ PadTo3(s) \in Seq(Int)
         /\ Len(PadTo3(s)) = IF Len(s) < 3 THEN 3 ELSE Len(s)
         /\ \A k \in Places : At(PadTo3(s), k, 0) = At(s, k, 0)
<1>1. PICK n \in 1 .. 4 : n = Len(s)
  OBVIOUS
<1>2. PICK z : z = [k \in 1 .. 3 - n |-> 0]
  OBVIOUS
<1>3. PICK m \in 0 .. 2 : m = IF n < 3 THEN 3 - n ELSE 0
  OBVIOUS
<1>4. z \in Seq(Nat) /\ Len(z) = m /\ \A k \in 1 .. m : z[k] = 0
  <2>1. 1 .. 3 - n = 1 .. m
    BY <1>3
  <2>2. z \in [1 .. m -> Nat]
    BY <1>2, <2>1
  <2>3. z \in Seq(Nat)
    BY <2>2, SeqDef
  <2>4. Len(z) \in Nat /\ DOMAIN z = 1 .. Len(z)
    BY <2>3, LenProperties
  <2>5. Len(z) = m
    BY <2>2, <2>4
  <2> QED BY <1>2, <2>1, <2>3, <2>5
<1>5. s \in Seq(Nat)
  <2>1. Small \subseteq Nat
    BY DEF Small
  <2>2. s \in [1 .. n -> Small]
    BY <1>1, LenProperties
  <2>3. s \in [1 .. n -> Nat]
    BY <2>1, <2>2
  <2> QED BY <2>3, SeqDef
<1>6. PICK p : p = s \o z
  OBVIOUS
<1>7. PadTo3(s) = p
  BY <1>1, <1>2, <1>6 DEF PadTo3
<1>8. Behind(p, s, z)
  BY <1>4, <1>5, <1>6, OneBehind
<1>9. /\ p \in Seq(Nat) /\ Len(p) = n + m
      /\ \A k \in 1 .. n : p[k] = s[k]
      /\ \A k \in 1 .. m : p[n + k] = 0
  BY <1>1, <1>4, <1>8 DEF Behind
<1>10. n + m = IF n < 3 THEN 3 ELSE n
  BY <1>3
<1>11. p \in Seq(Int)
  <2>1. p \in [1 .. n + m -> Nat]
    BY <1>9, LenProperties
  <2>2. p \in [1 .. n + m -> Int]
    <3>1. Nat \subseteq Int
      OBVIOUS
    <3> QED BY <2>1, <3>1
  <2>3. n + m \in Nat
    OBVIOUS
  <2> QED BY <2>2, <2>3, SeqDef
<1>12. ASSUME NEW k \in Places PROVE At(p, k, 0) = At(s, k, 0)
  <2>1. CASE k <= n
    <3>1. k \in 1 .. n /\ k <= n + m
      BY <2>1 DEF Places
    <3> QED BY <1>1, <1>9, <2>1, <3>1 DEF At
  <2>2. CASE k > n /\ k <= n + m
    <3>1. PICK j \in 1 .. m : k = n + j
      <4>1. k - n \in 1 .. m /\ k = n + (k - n)
        BY <2>2 DEF Places
      <4> QED BY <4>1
    <3>2. p[k] = 0
      BY <1>9, <3>1
    <3>3. k <= n + m /\ ~ (k <= n)
      BY <2>2 DEF Places
    <3> QED BY <1>1, <1>9, <3>2, <3>3 DEF At
  <2>3. CASE k > n + m
    <3>1. ~ (k <= n + m) /\ ~ (k <= n)
      BY <2>3 DEF Places
    <3> QED BY <1>1, <1>9, <3>1 DEF At
  <2> QED BY <2>1, <2>2, <2>3 DEF Places
<1> QED BY <1>1, <1>7, <1>9, <1>10, <1>11, <1>12

LEMMA PaddedApart ==
  ASSUME NEW s \in Seq(Small), Len(s) \in 1 .. 4, Len(s) > 3 => s[Len(s)] # 0,
         NEW t \in Seq(Small), Len(t) \in 1 .. 4, Len(t) > 3 => t[Len(t)] # 0,
         compareSegments(PadTo3(s), PadTo3(t)) = 0
  PROVE  PadTo3(s) = PadTo3(t)
<1>1. PICK u \in Seq(Int) : u = PadTo3(s)
  BY Padded
<1>2. PICK v \in Seq(Int) : v = PadTo3(t)
  BY Padded
<1>3. Segs(u) = Segs(v)
  <2>1. Decides(compareSegments(u, v), Segs(u), Segs(v))
    BY SegmentsDecided
  <2>2. compareSegments(u, v) = 0
    BY <1>1, <1>2
  <2> QED BY <2>1, <2>2 DEF Decides
<1>4. \A k \in Places : At(u, k, 0) = At(v, k, 0)
  BY <1>3 DEF Segs
<1>5. \A k \in Places : At(u, k, 0) = At(s, k, 0) /\ At(v, k, 0) = At(t, k, 0)
  BY <1>1, <1>2, Padded
<1>6. PICK n \in 1 .. 4, m \in 1 .. 4 : n = Len(s) /\ m = Len(t)
  OBVIOUS
<1>7. Len(u) = (IF n < 3 THEN 3 ELSE n) /\ Len(v) = IF m < 3 THEN 3 ELSE m
  BY <1>1, <1>2, <1>6, Padded
<1>8. n = 4 <=> m = 4
  <2>1. 4 \in Places /\ At(s, 4, 0) = At(t, 4, 0)
    BY <1>4, <1>5 DEF Places
  <2>2. n = 4 => s[4] # 0
    BY <1>6
  <2>3. m = 4 => t[4] # 0
    BY <1>6
  <2>4. At(s, 4, 0) = IF n = 4 THEN s[4] ELSE 0
    BY <1>6 DEF At
  <2>5. At(t, 4, 0) = IF m = 4 THEN t[4] ELSE 0
    BY <1>6 DEF At
  <2> QED BY <2>1, <2>2, <2>3, <2>4, <2>5
<1>9. Len(u) = Len(v) /\ Len(u) \in Nat
  <2>1. (IF n < 3 THEN 3 ELSE n) = (IF m < 3 THEN 3 ELSE m) /\ (IF n < 3 THEN 3 ELSE n) \in Nat
    BY <1>8
  <2> QED BY <1>7, <2>1
<1>10. ASSUME NEW k \in 1 .. Len(u) PROVE u[k] = v[k]
  <2>1. k \in Places /\ k <= Len(u) /\ k <= Len(v)
    BY <1>9 DEF Places
  <2> QED BY <1>4, <2>1 DEF At
<1>11. u = v
  BY <1>9, <1>10, SeqEqual
<1> QED BY <1>1, <1>2, <1>11

LEMMA PartsRead ==
  ASSUME NEW width \in 1 .. 3, NEW r, Ordinary(r, width), INT64_MAX >= 999, r.build # <<>>
  PROVE  /\ Ver(r).pre \in Seq(Nat) /\ Ver(r).pre # <<>>
         /\ Len(Split(Ver(r).pre)) = Len(r.build)
         /\ PartNumbers(Split(Ver(r).pre)) = r.build
         /\ \A p \in Parts(Ver(r)) :
              /\ ParseInt(p).ok /\ ParseInt(p).val \in Nat
              /\ p = Decimal(ParseInt(p).val, width)
<1>1. PICK build \in Seq(Small) : build = r.build
  BY DEF Ordinary
<1>2. PICK b : b = Dots(build, width)
  OBVIOUS
<1>3. Ver(r).pre = b
  BY <1>1, <1>2, TextRead
<1>4. Numeric(b) /\ Split(b) = Decimals(build, width)
  BY <1>1, <1>2, DotsRead
<1>5. b \in Seq(Nat) /\ b # <<>>
  BY <1>4, NumericBytes
<1>6. PICK parts : parts = Split(b)
  OBVIOUS
<1>7. /\ DOMAIN parts = 1 .. Len(build) /\ Len(parts) = Len(build)
      /\ \A k \in DOMAIN parts : /\ parts[k] = Decimal(build[k], width)
                                 /\ ParseInt(parts[k]) = [ok |-> TRUE, val |-> build[k]]
      /\ [k \in DOMAIN parts |-> ParseInt(parts[k]).val] = build
  BY <1>4, <1>6, DecimalsParsed
<1>8. PartNumbers(parts) = build
  BY <1>7 DEF PartNumbers
<1>9. Parts(Ver(r)) = Range(parts)
  BY <1>3, <1>5, <1>6 DEF Parts
<1>10. ASSUME NEW p \in Range(parts)
       PROVE  /\ ParseInt(p).ok /\ ParseInt(p).val \in Nat
              /\ p = Decimal(ParseInt(p).val, width)
  <2>1. PICK k \in DOMAIN parts : p = parts[k]
    BY DEF Range
  <2>2. build[k] \in Small
    BY <1>7, <2>1, LenProperties
  <2>3. PICK n \in Small : n = build[k]
    BY <2>2
  <2>4. ParseInt(p) = [ok |-> TRUE, val |-> n] /\ p = Decimal(n, width)
    BY <1>7, <2>1, <2>3
  <2>5. n \in Nat
    <3>1. Small \subseteq Nat
      BY DEF Small
    <3> QED BY <3>1
  <2> QED BY <2>4, <2>5
<1> QED BY <1>1, <1>3, <1>5, <1>6, <1>7, <1>8, <1>9, <1>10

(* The releases of distributions are read as they are written, whatever    *)
(* their numbers and tags are, as long as their builds are all written     *)
(* with the same least number of digits: so for these what Window,         *)
(* NeverBack and KeptByUpgrades assume is true.                            *)
THEOREM ReleasesRead ==
  ASSUME INT64_MAX >= 999, NEW width \in 1 .. 3, NEW kernels,
         \A r \in kernels : Ordinary(r, width)
  PROVE  ReadAsWritten(kernels)
<1>1. ASSUME NEW r \in kernels
      PROVE  /\ r.segments \in Seq(Small) /\ Len(r.segments) \in 1 .. 4
             /\ Len(r.segments) > 3 => r.segments[Len(r.segments)] # 0
             /\ r.build \in Seq(Small) /\ Len(r.build) <= 4
             /\ Ver(r).ok = TRUE /\ Ver(r).segments = PadTo3(r.segments)
             /\ r.build = <<>> => Ver(r).pre = <<>>
  <2>1. Ordinary(r, width)
    OBVIOUS
  <2> QED BY <2>1, TextRead DEF Ordinary, Width
<1>2. ASSUME NEW r \in kernels, r.build # <<>>
      PROVE  /\ Ver(r).pre \in Seq(Nat) /\ Ver(r).pre # <<>>
             /\ Len(Split(Ver(r).pre)) = Len(r.build)
             /\ PartNumbers(Split(Ver(r).pre)) = r.build
             /\ \A p \in Parts(Ver(r)) :
                  /\ ParseInt(p).ok /\ ParseInt(p).val \in Nat
                  /\ p = Decimal(ParseInt(p).val, width)
  BY <1>2, PartsRead
<1>3. ASSUME NEW r \in kernels, r.build = <<>>
      PROVE  Ver(r).pre = <<>> /\ Ver(r).pre \in Seq(Nat) /\ Parts(Ver(r)) = {}
  BY <1>1, <1>3, EmptySeq DEF Parts
<1>4. ASSUME NEW r \in kernels
      PROVE  /\ Ver(r).ok /\ Ver(r).segments \in Seq(Int) /\ Ver(r).pre \in Seq(Nat)
             /\ \A p \in Parts(Ver(r)) : ParseInt(p).ok /\ ParseInt(p).val \in Nat
  <2>1. Ver(r).segments \in Seq(Int)
    BY <1>1, Padded
  <2> QED BY <1>1, <1>2, <1>3, <2>1
<1>5. ASSUME NEW r \in kernels, NEW s \in kernels
      PROVE  /\ compareSegments(Ver(r).segments, Ver(s).segments) = 0 =>
                  Ver(r).segments = Ver(s).segments
             /\ \A p \in Parts(Ver(r)), q \in Parts(Ver(s)) :
                  ParseInt(p).val = ParseInt(q).val => p = q
  <2>1. compareSegments(Ver(r).segments, Ver(s).segments) = 0 =>
          Ver(r).segments = Ver(s).segments
    <3>1. PICK t \in Seq(Small) : /\ t = r.segments /\ Len(t) \in 1 .. 4
                                  /\ Len(t) > 3 => t[Len(t)] # 0
      BY <1>1
    <3>2. PICK u \in Seq(Small) : /\ u = s.segments /\ Len(u) \in 1 .. 4
                                  /\ Len(u) > 3 => u[Len(u)] # 0
      BY <1>1
    <3>3. Ver(r).segments = PadTo3(t) /\ Ver(s).segments = PadTo3(u)
      BY <1>1, <3>1, <3>2
    <3> SUFFICES ASSUME compareSegments(PadTo3(t), PadTo3(u)) = 0
                 PROVE  PadTo3(t) = PadTo3(u)
      BY <3>3
    <3> QED BY <3>1, <3>2, PaddedApart
  <2>2. ASSUME NEW p \in Parts(Ver(r)), NEW q \in Parts(Ver(s)),
               ParseInt(p).val = ParseInt(q).val
        PROVE  p = q
    <3>1. p = Decimal(ParseInt(p).val, width)
      BY <1>2, <1>3
    <3>2. q = Decimal(ParseInt(q).val, width)
      BY <1>2, <1>3
    <3> QED BY <2>2, <3>1, <3>2
  <2> QED BY <2>1, <2>2
<1>6. PICK V : V = {Read(Text(r)) : r \in kernels}
  OBVIOUS
<1>7. Canonical(V)
  <2>1. \A v \in V : \E r \in kernels : v = Ver(r)
    BY <1>6 DEF Ver
  <2>2. ASSUME NEW v \in V
        PROVE  /\ v.ok /\ v.segments \in Seq(Int) /\ v.pre \in Seq(Nat)
               /\ \A p \in Parts(v) : ParseInt(p).ok /\ ParseInt(p).val \in Nat
    <3>1. PICK r \in kernels : v = Ver(r)
      BY <2>1
    <3> QED BY <1>4, <3>1
  <2>3. ASSUME NEW v \in V, NEW w \in V
        PROVE  /\ compareSegments(v.segments, w.segments) = 0 => v.segments = w.segments
               /\ \A p \in Parts(v), q \in Parts(w) : ParseInt(p).val = ParseInt(q).val => p = q
    <3>1. PICK r \in kernels : v = Ver(r)
      BY <2>1
    <3>2. PICK s \in kernels : w = Ver(s)
      BY <2>1
    <3> QED BY <1>5, <3>1, <3>2
  <2> QED BY <2>2, <2>3 DEF Canonical
<1>8. ASSUME NEW r \in kernels
      PROVE  /\ Len(Ver(r).segments) <= 4
             /\ \A k \in 1 .. 4 : At(Ver(r).segments, k, 0) = At(r.segments, k, 0)
             /\ Ver(r).pre = <<>> <=> r.build = <<>>
             /\ Ver(r).pre # <<>> =>
                  /\ Len(Split(Ver(r).pre)) <= 4
                  /\ \A k \in 1 .. 4 :
                       At(PartNumbers(Split(Ver(r).pre)), k, -1) = At(r.build, k, -1)
  <2>1. PICK n \in 1 .. 4 : n = Len(r.segments)
    BY <1>1
  <2>2. Len(Ver(r).segments) = IF n < 3 THEN 3 ELSE n
    BY <1>1, <2>1, Padded
  <2>3. Len(Ver(r).segments) <= 4
    BY <2>2
  <2>4. \A k \in 1 .. 4 : k \in Places
    BY DEF Places
  <2>5. \A k \in 1 .. 4 : At(Ver(r).segments, k, 0) = At(r.segments, k, 0)
    BY <1>1, <2>4, Padded
  <2>6. CASE r.build = <<>>
    BY <1>3, <2>3, <2>5, <2>6
  <2>7. CASE r.build # <<>>
    BY <1>1, <1>2, <2>3, <2>5, <2>7
  <2> QED BY <2>6, <2>7
<1> QED BY <1>6, <1>7, <1>8 DEF ReadAsWritten, Ver, Width

(* So the window of kernels, and what an upgrade keeps, need no assumption *)
(* about reading for a node whose kernels and bounds are ordinary ones.    *)
COROLLARY OrdinaryUpgrades ==
  ASSUME INT64_MAX >= 999, NEW width \in 1 .. 3,
         \A r \in Releases \union Bounds : Ordinary(r, width)
  PROVE  Spec => []WindowExact /\ []GoneForGood /\ UpgradeKeepsFeature
<1>1. ReadAsWritten(Releases \union Bounds)
  <2>1. PICK kernels : kernels = Releases \union Bounds
    OBVIOUS
  <2> QED BY <2>1, ReleasesRead
<1> QED BY <1>1, Window, NeverBack, KeptByUpgrades
=============================================================================
