--------------------------- MODULE TomlParseProofs ---------------------------
(***************************************************************************)
(* What holds of the memory of the parser for every sequence of tokens, in *)
(* which the scanner may hand over anything, and for every length of a     *)
(* header: TypeOK, that its nodes form a tree, that no table has a key     *)
(* twice, that entries stay once they are made, that the tree is built as  *)
(* TomlDocument promises and that toml_free gives all of it back; and that *)
(* a character comes back from its bytes.                                  *)
(***************************************************************************)
EXTENDS TomlTree, FiniteSetTheorems, FunctionTheorems, SequenceTheorems,
        WellFoundedInduction, TLAPS

(* A sequence of anything.                                                 *)
Sequence(s) == s \in Seq(Range(s))

(* What is in memory: tables and arrays, whole.                            *)
IsTable(node) == /\ node.sort = "t" /\ DOMAIN node = {"sort", "implicit", "entries"}
                 /\ Sequence(node.entries)
IsArr(node) == /\ node.sort = "a" /\ DOMAIN node = {"sort", "kind", "type", "elems"}
               /\ Sequence(node.elems)
Typed(h) == /\ Sequence(h) /\ ROOT \in DOMAIN h /\ h[ROOT].sort = "t"
            /\ \A n \in DOMAIN h : IsTable(h[n]) \/ IsArr(h[n])

(* A member of a node stands for a node of its sort: a value for none, the *)
(* other entries and elements for one.                                     *)
Stands(h, sort, id) == id \in DOMAIN h /\ h[id].sort = sort
TableSound(h, node) ==
  \A k \in DOMAIN node.entries :
    LET e == node.entries[k]
    IN IF e.sort = "v" THEN e.id = 0 ELSE e.sort \in {"a", "t"} /\ Stands(h, e.sort, e.id)
ArraySound(h, node) ==
  /\ node.kind \in {"none", "v", "a", "t"}
  /\ node.kind = "none" => node.elems = <<>>
  /\ \A k \in DOMAIN node.elems :
       LET e == node.elems[k]
       IN IF node.kind = "v" THEN e.id = 0 ELSE Stands(h, node.kind, e.id)
Sound(h) ==
  \A n \in DOMAIN h :
    /\ h[n].sort = "t" => TableSound(h, h[n])
    /\ h[n].sort = "a" => ArraySound(h, h[n])

(* The values of an array are of the type it is said to have.              *)
OneType(node) ==
  node.sort = "a" /\ node.kind = "v" =>
    \A k \in DOMAIN node.elems : valtype(node.elems[k].word) = node.type

(* What the parser has open, by the place it is at.                        *)
Outside == {"line", "endline", "select", "path", "pathsep", "walk", "close2", "closed"}
Over == {"done", "error", "nomemory", "freed"}
Places == Outside \union Over \union {"equal", "value", "pair", "pairend", "elem", "elemend"}
Innermost(s, h, sort) == s # <<>> /\ h[Last(s)].sort = sort
OpenAt(place, s, h) ==
  /\ place \in {"pair", "pairend"} => Innermost(s, h, "t")
  /\ place \in {"elem", "elemend"} => Innermost(s, h, "a")
  /\ place \in {"equal", "value"} => s = <<>> \/ Innermost(s, h, "t")
  /\ place \in Outside => s = <<>>
Open == stack \in Seq(DOMAIN heap) /\ OpenAt(pc, stack, heap)

(* What a header has selected.                                             *)
Selected ==
  /\ curtab \in DOMAIN heap /\ heap[curtab].sort = "t"
  /\ Sequence(path) /\ Len(path) <= PATH_MAX /\ lb \in 0 .. 2

(* No token is wished for when the parser leaves or walks a path; memory   *)
(* ran out at the end only.                                                *)
Settled ==
  /\ pc \in Places /\ result \in {"none", "document", "error", "nomemory"}
  /\ pc \in Over \union {"walk"} => tok \notin Wishes
  /\ result = "nomemory" => pc = "freed"

(* Every table and array but the root, and but c if there is such a one,   *)
(* is in exactly one other, which was made before it: a tree.  Nothing is  *)
(* in c.                                                                   *)
OneParent(h) ==
  \A n, m \in DOMAIN h :
    \A k \in DOMAIN Members(h[n]), j \in DOMAIN Members(h[m]) :
      LET c == Members(h[n])[k].id
      IN c # 0 => /\ n < c
                  /\ Members(h[m])[j].id = c => m = n /\ j = k
Holds(node, c) == \E k \in DOMAIN Members(node) : Members(node)[k].id = c
Reached(h, c) ==
  \A d \in DOMAIN h \ {ROOT, c} : \E n \in DOMAIN h \ {c} : Holds(h[n], d)

Tree(h, c) == Typed(h) /\ Sound(h) /\ OneParent(h) /\ Reached(h, c)

(* A table is lost where memory runs out for its key: one.                 *)
Losing == pc = "nomemory" \/ result = "nomemory"
TreeInv == \E c \in Nat : Tree(heap, IF Losing THEN c ELSE 0)

OneTypes(h) == \A n \in DOMAIN h : OneType(h[n])

IInv == /\ Settled /\ Open /\ Selected /\ TreeInv
        /\ Building => OneTypes(heap)

-----------------------------------------------------------------------------
(* Two ways to get one sequence from another.                              *)
Appended(g, h, node) == g = Append(h, node)
Replaced(g, h, n, node) == g = [h EXCEPT ![n] = node]

LEMMA SequenceFacts ==
  ASSUME NEW s, Sequence(s)
  PROVE  Len(s) \in Nat /\ DOMAIN s = 1 .. Len(s)
BY LenProperties DEF Sequence

LEMMA DomainLen ==
  ASSUME NEW s, Sequence(s), NEW n \in Nat, DOMAIN s = 1 .. n
  PROVE  Len(s) = n
<1> DEFINE l == Len(s)
<1>1. l \in Nat /\ DOMAIN s = 1 .. l
  BY SequenceFacts
<1> HIDE DEF l
<1>2. ~ l < n
  <2>1. l < n => n \in 1 .. n /\ n \notin 1 .. l
    BY <1>1
  <2> QED BY <1>1, <2>1
<1>3. ~ n < l
  <2>1. n < l => l \in 1 .. l /\ l \notin 1 .. n
    BY <1>1
  <2> QED BY <1>1, <2>1
<1>4. l = n
  BY <1>1, <1>2, <1>3
<1> QED BY <1>4 DEF l

LEMMA EmptySequence == Sequence(<<>>) /\ Len(<<>>) = 0
<1>1. <<>> \in Seq(Range(<<>>)) /\ Len(<<>>) = 0
  BY EmptySeq
<1> QED BY <1>1 DEF Sequence

LEMMA AppendSequence ==
  ASSUME NEW s, Sequence(s), NEW x
  PROVE  /\ Sequence(Append(s, x)) /\ Len(Append(s, x)) = Len(s) + 1
         /\ Append(s, x)[Len(s) + 1] = x
         /\ \A i \in 1 .. Len(s) : Append(s, x)[i] = s[i]
<1> DEFINE S == Range(s) \union {x}
<1>1. s \in Seq(S) /\ x \in S
  BY SeqMonotonic DEF Sequence
<1>2. Append(s, x) \in Seq(S)
  BY <1>1, AppendProperties
<1>3. Append(s, x) \in Seq(Range(Append(s, x)))
  BY <1>2, SeqOfRange
<1>4. Len(Append(s, x)) = Len(s) + 1 /\ Append(s, x)[Len(s) + 1] = x
      /\ \A i \in 1 .. Len(s) : Append(s, x)[i] = s[i]
  BY <1>1, AppendProperties
<1> QED BY <1>3, <1>4 DEF Sequence

LEMMA UpdateSequence ==
  ASSUME NEW s, Sequence(s), NEW n \in DOMAIN s, NEW x, NEW t, Replaced(t, s, n, x)
  PROVE  /\ Sequence(t) /\ Len(t) = Len(s) /\ DOMAIN t = DOMAIN s
         /\ t[n] = x /\ \A i \in DOMAIN s : i # n => t[i] = s[i]
<1> DEFINE S == Range(s) \union {x}
<1>1. s \in Seq(S) /\ x \in S /\ n \in 1 .. Len(s)
  BY SeqMonotonic, SequenceFacts DEF Sequence
<1>2. [s EXCEPT ![n] = x] \in Seq(S) /\ Len([s EXCEPT ![n] = x]) = Len(s)
  BY <1>1, ExceptSeq
<1>3. t \in Seq(S) /\ Len(t) = Len(s)
  BY <1>2 DEF Replaced
<1>4. t \in Seq(Range(t))
  BY <1>3, SeqOfRange
<1>5. DOMAIN t = DOMAIN s /\ t[n] = x /\ \A i \in DOMAIN s : i # n => t[i] = s[i]
  BY DEF Replaced
<1> QED BY <1>3, <1>4, <1>5 DEF Sequence

LEMMA UpdateBeforeAppend ==
  ASSUME NEW s, Sequence(s), NEW n \in DOMAIN s, NEW x, NEW t, Replaced(t, s, n, x),
         NEW y, NEW l, Appended(l, t, y), NEW made, Appended(made, s, y)
  PROVE  Replaced(l, made, n, x)
<1> DEFINE r == [made EXCEPT ![n] = x]
           S == Range(l) \union Range(r)
<1>1. Len(s) \in Nat /\ DOMAIN s = 1 .. Len(s)
  BY SequenceFacts
<1>2. /\ Sequence(t) /\ Len(t) = Len(s) /\ DOMAIN t = DOMAIN s
      /\ t[n] = x /\ \A i \in DOMAIN s : i # n => t[i] = s[i]
  BY UpdateSequence
<1>3. /\ Sequence(l) /\ Len(l) = Len(s) + 1 /\ l[Len(s) + 1] = y
      /\ \A i \in 1 .. Len(s) : l[i] = t[i]
  BY <1>2, AppendSequence DEF Appended
<1>4. /\ Sequence(made) /\ Len(made) = Len(s) + 1
      /\ made[Len(s) + 1] = y /\ \A i \in 1 .. Len(s) : made[i] = s[i]
  BY AppendSequence DEF Appended
<1>5. DOMAIN made = 1 .. Len(s) + 1 /\ n \in DOMAIN made
  BY <1>1, <1>4, SequenceFacts
<1>6. Replaced(r, made, n, x)
  BY DEF Replaced
<1> HIDE DEF r
<1>7. /\ Sequence(r) /\ Len(r) = Len(made) /\ r[n] = x
      /\ \A i \in DOMAIN made : i # n => r[i] = made[i]
  BY <1>4, <1>5, <1>6, UpdateSequence
<1>8. l \in Seq(S) /\ r \in Seq(S)
  BY <1>3, <1>7, SeqMonotonic DEF Sequence
<1>9. \A i \in 1 .. Len(l) : l[i] = r[i]
  BY <1>1, <1>2, <1>3, <1>4, <1>5, <1>7
<1>10. l = r
  BY <1>3, <1>4, <1>7, <1>8, <1>9, SeqEqual
<1> QED BY <1>6, <1>10

(* A set of places in a sequence that is not empty has a first one.        *)
LEMMA Least ==
  ASSUME NEW S \in SUBSET Nat, S # {}
  PROVE  \E x \in S : \A y \in S : x <= y
<1>1. PICK x \in S : \A y \in S : ~ (<<y, x>> \in OpToRel(<, Nat))
  BY NatLessThanWellFounded, WFMin
<1>2. \A y \in S : ~ (y < x)
  BY <1>1 DEF OpToRel
<1>3. \A y \in S : x <= y
  BY <1>2
<1> QED BY <1>3

LEMMA MinIn ==
  ASSUME NEW S \in SUBSET Nat, S # {}
  PROVE  Min(S) \in S
BY Least DEF Min

-----------------------------------------------------------------------------
(* The members of a node of memory are 0 or in memory.                     *)
LEMMA MembersTyped ==
  ASSUME NEW h, Typed(h), NEW n \in DOMAIN h
  PROVE  Sequence(Members(h[n]))
BY DEF Typed, Members, IsTable, IsArr

(* Soundness, node by node.                                                *)
LEMMA SoundAt ==
  ASSUME NEW h, Sound(h), NEW n \in DOMAIN h
  PROVE  /\ h[n].sort = "t" => TableSound(h, h[n])
         /\ h[n].sort = "a" => ArraySound(h, h[n])
BY Zenon DEF Sound

LEMMA IdsInHeap ==
  ASSUME NEW h, Typed(h), Sound(h), NEW n \in DOMAIN h, NEW k \in DOMAIN Members(h[n])
  PROVE  Members(h[n])[k].id = 0 \/ Members(h[n])[k].id \in DOMAIN h
<1>1. CASE IsTable(h[n])
  <2>1. h[n].sort = "t" /\ Members(h[n]) = h[n].entries
    BY <1>1 DEF IsTable, Members
  <2>2. TableSound(h, h[n])
    BY <2>1, SoundAt, Zenon
  <2> QED BY <2>1, <2>2 DEF TableSound, Stands
<1>2. CASE IsArr(h[n])
  <2>1. h[n].sort = "a" /\ Members(h[n]) = h[n].elems
    BY <1>2 DEF IsArr, Members
  <2>2. ArraySound(h, h[n])
    BY <2>1, SoundAt, Zenon
  <2> QED BY <2>1, <2>2 DEF ArraySound, Stands
<1> QED BY <1>1, <1>2 DEF Typed

LEMMA HeapDomain ==
  ASSUME NEW h, Typed(h)
  PROVE  /\ Len(h) \in Nat \ {0} /\ DOMAIN h = 1 .. Len(h)
         /\ \A n \in DOMAIN h : h[n].sort \in {"t", "a"}
BY SequenceFacts DEF Typed, IsTable, IsArr, ROOT

-----------------------------------------------------------------------------
(* Memory that grows: nodes stay, and stay of their sort.                  *)
Grown(h, g) == \A n \in DOMAIN h : n \in DOMAIN g /\ g[n].sort = h[n].sort

LEMMA StandsKept ==
  ASSUME NEW h, NEW g, Grown(h, g), NEW node
  PROVE  /\ TableSound(h, node) => TableSound(g, node)
         /\ ArraySound(h, node) => ArraySound(g, node)
<1>1. \A sort, id : Stands(h, sort, id) => Stands(g, sort, id)
  BY DEF Stands, Grown
<1>2. TableSound(h, node) => TableSound(g, node)
  BY <1>1 DEF TableSound
<1>3. ArraySound(h, node) => ArraySound(g, node)
  BY <1>1 DEF ArraySound
<1> QED BY <1>2, <1>3

Whole(h, node) ==
  /\ IsTable(node) \/ IsArr(node)
  /\ node.sort = "t" => TableSound(h, node)
  /\ node.sort = "a" => ArraySound(h, node)
Orphan(h, n, id) == n < id /\ \A i \in DOMAIN h : ~ Holds(h[i], id)


(* A new node comes behind the others; it has no members and no parent.    *)
LEMMA NodeMade ==
  ASSUME NEW h, Tree(h, 0), NEW node,
         IsTable(node) \/ IsArr(node), Members(node) = <<>>,
         node.sort = "a" => node.kind \in {"none", "t"},
         NEW g, Appended(g, h, node)
  PROVE  /\ Tree(g, Len(h) + 1) /\ Grown(h, g)
         /\ DOMAIN g = DOMAIN h \union {Len(h) + 1}
         /\ g[Len(h) + 1] = node /\ \A n \in DOMAIN h : g[n] = h[n]
         /\ \A n \in DOMAIN g : ~ Holds(g[n], Len(h) + 1)
<1> DEFINE new == Len(h) + 1
<1>1. Typed(h) /\ Sound(h) /\ OneParent(h) /\ Reached(h, 0)
  BY DEF Tree
<1>2. Len(h) \in Nat \ {0} /\ DOMAIN h = 1 .. Len(h) /\ Sequence(h)
  BY <1>1, HeapDomain DEF Typed
<1>3. Sequence(g) /\ Len(g) = new /\ g[new] = node /\ \A n \in DOMAIN h : g[n] = h[n]
  BY <1>2, AppendSequence DEF Appended
<1>4. DOMAIN g = DOMAIN h \union {new} /\ new \notin DOMAIN h /\ \A n \in DOMAIN h : n < new
  BY <1>2, <1>3, SequenceFacts
<1>5. Grown(h, g)
  BY <1>3, <1>4 DEF Grown
<1>6. Typed(g)
  BY <1>1, <1>3, <1>4 DEF Typed
<1>7. Sound(g)
  <2>1. ASSUME NEW n \in DOMAIN h
        PROVE  /\ g[n].sort = "t" => TableSound(g, g[n])
               /\ g[n].sort = "a" => ArraySound(g, g[n])
    <3>1. g[n] = h[n]
      BY <1>3
    <3>2. /\ h[n].sort = "t" => TableSound(h, h[n])
          /\ h[n].sort = "a" => ArraySound(h, h[n])
      BY <1>1, SoundAt, Zenon
    <3>3. /\ TableSound(h, h[n]) => TableSound(g, h[n])
          /\ ArraySound(h, h[n]) => ArraySound(g, h[n])
      BY <1>5, StandsKept, Zenon
    <3> QED BY <3>1, <3>2, <3>3, Zenon
  <2>2. DOMAIN <<>> = {}
    BY EmptySequence, SequenceFacts
  <2>3. node.sort = "t" => TableSound(g, node)
    BY <2>2 DEF TableSound, Members
  <2>4. node.sort = "a" => ArraySound(g, node)
    BY <2>2 DEF ArraySound, Members
  <2> QED BY <1>3, <1>4, <2>1, <2>3, <2>4 DEF Sound
<1>8. \A n \in DOMAIN g : \A k \in DOMAIN Members(g[n]) :
        n \in DOMAIN h /\ Members(g[n]) = Members(h[n]) /\ Members(g[n])[k].id # new
  <2>1. DOMAIN Members(node) = {}
    BY EmptySequence, SequenceFacts
  <2>2. ASSUME NEW n \in DOMAIN h, NEW k \in DOMAIN Members(h[n])
        PROVE  Members(h[n])[k].id # new
    BY <1>1, <1>2, <1>4, IdsInHeap
  <2> QED BY <1>3, <1>4, <2>1, <2>2
<1>9. OneParent(g)
  BY <1>1, <1>8 DEF OneParent
<1>10. Reached(g, new)
  <2> SUFFICES ASSUME NEW c \in DOMAIN h \ {ROOT}
               PROVE  \E n \in DOMAIN g \ {new} : Holds(g[n], c)
    BY <1>4 DEF Reached
  <2>1. PICK n \in DOMAIN h : Holds(h[n], c)
    BY <1>1, <1>2 DEF Reached
  <2> QED BY <1>3, <1>4, <2>1
<1>11. \A n \in DOMAIN g : ~ Holds(g[n], new)
  BY <1>8 DEF Holds
<1> QED BY <1>3, <1>4, <1>5, <1>6, <1>7, <1>9, <1>10, <1>11 DEF Tree

-----------------------------------------------------------------------------
Kept(g, h, n) ==
  Grown(h, g) /\ DOMAIN g = DOMAIN h /\ \A i \in DOMAIN h : i # n => g[i] = h[i]

(* A node that is replaced by one of its sort.                             *)
LEMMA NodeReplaced ==
  ASSUME NEW h, Typed(h), Sound(h), NEW n \in DOMAIN h, NEW node,
         Whole(h, node), node.sort = h[n].sort,
         NEW g, Replaced(g, h, n, node)
  PROVE  /\ Typed(g) /\ Sound(g) /\ Grown(h, g) /\ DOMAIN g = DOMAIN h
         /\ g[n] = node /\ \A i \in DOMAIN h : i # n => g[i] = h[i]
<1>1. /\ Sequence(h) /\ ROOT \in DOMAIN h /\ h[ROOT].sort = "t"
      /\ \A i \in DOMAIN h : IsTable(h[i]) \/ IsArr(h[i])
  BY DEF Typed
<1>2. /\ Sequence(g) /\ DOMAIN g = DOMAIN h /\ g[n] = node
      /\ \A i \in DOMAIN h : i # n => g[i] = h[i]
  BY <1>1, UpdateSequence
<1>3. Grown(h, g)
  BY <1>2 DEF Grown
<1>4. Typed(g)
  BY <1>1, <1>2 DEF Typed, Whole
<1>5. Sound(g)
  <2> SUFFICES ASSUME NEW i \in DOMAIN h
               PROVE  /\ g[i].sort = "t" => TableSound(g, g[i])
                      /\ g[i].sort = "a" => ArraySound(g, g[i])
    BY <1>2, Zenon DEF Sound
  <2>1. /\ g[i].sort = "t" => TableSound(h, g[i])
        /\ g[i].sort = "a" => ArraySound(h, g[i])
    <3>1. CASE i = n
      BY <1>2, <3>1, Zenon DEF Whole
    <3>2. CASE i # n
      <4>1. g[i] = h[i]
        BY <1>2, <3>2
      <4> QED BY <4>1, SoundAt, Zenon
    <3> QED BY <3>1, <3>2
  <2> QED BY <1>3, <2>1, StandsKept, Zenon
<1> QED BY <1>2, <1>3, <1>4, <1>5

(* The node in the place of n is n with m behind its members.              *)
Gains(g, h, n, node, m) ==
  /\ Replaced(g, h, n, node) /\ Whole(h, node) /\ node.sort = h[n].sort
  /\ Members(node) = Append(Members(h[n]), m)
  /\ m.id = 0 \/ Orphan(h, n, m.id)

(* A table or an array that gets one member more: a value, or a node that  *)
(* was made later and has no parent yet.                                   *)
LEMMA MemberAdded ==
  ASSUME NEW h, NEW n \in DOMAIN h, NEW node, NEW m, NEW g,
         Tree(h, m.id), Gains(g, h, n, node, m)
  PROVE  Tree(g, 0) /\ Kept(g, h, n)
<1>0. /\ Replaced(g, h, n, node) /\ Whole(h, node) /\ node.sort = h[n].sort
      /\ Members(node) = Append(Members(h[n]), m)
      /\ m.id = 0 \/ Orphan(h, n, m.id)
  BY DEF Gains
<1> DEFINE last == Len(Members(h[n])) + 1
<1>1. Typed(h) /\ Sound(h) /\ OneParent(h) /\ Reached(h, m.id)
  BY DEF Tree
<1>2. /\ Typed(g) /\ Sound(g) /\ Grown(h, g) /\ DOMAIN g = DOMAIN h
      /\ g[n] = node /\ \A i \in DOMAIN h : i # n => g[i] = h[i]
  BY <1>0, <1>1, NodeReplaced
<1>3. Sequence(Members(h[n]))
  BY <1>1, MembersTyped
<1>4. /\ last \in DOMAIN Members(node) /\ Members(node)[last] = m
      /\ \A k \in DOMAIN Members(h[n]) :
           k \in DOMAIN Members(node) /\ Members(node)[k] = Members(h[n])[k]
      /\ \A k \in DOMAIN Members(node) : k = last \/ k \in DOMAIN Members(h[n])
  BY <1>0, <1>3, AppendSequence, SequenceFacts
<1> HIDE DEF last
<1>5. ASSUME NEW i \in DOMAIN g, NEW k \in DOMAIN Members(g[i])
      PROVE  \/ k \in DOMAIN Members(h[i]) /\ Members(g[i])[k] = Members(h[i])[k]
             \/ i = n /\ k = last /\ Members(g[i])[k] = m
  BY <1>2, <1>4
<1>6. ASSUME NEW c, NEW i \in DOMAIN h, Holds(h[i], c) PROVE Holds(g[i], c)
  BY <1>2, <1>4, <1>6 DEF Holds
<1>7. Holds(g[n], m.id)
  BY <1>2, <1>4 DEF Holds
<1>8. OneParent(g)
  <2> SUFFICES ASSUME NEW a \in DOMAIN g, NEW b \in DOMAIN g,
                      NEW k \in DOMAIN Members(g[a]), NEW j \in DOMAIN Members(g[b]),
                      Members(g[a])[k].id # 0
               PROVE  /\ a < Members(g[a])[k].id
                      /\ Members(g[b])[j].id = Members(g[a])[k].id => b = a /\ j = k
    BY DEF OneParent
  <2>1. a \in DOMAIN h /\ b \in DOMAIN h
    BY <1>2
  <2>2. ASSUME NEW i \in DOMAIN h, NEW l \in DOMAIN Members(h[i]), m.id # 0
        PROVE  Members(h[i])[l].id # m.id
    BY <1>0, <2>2 DEF Holds, Orphan
  <2>3. CASE k \in DOMAIN Members(h[a]) /\ Members(g[a])[k] = Members(h[a])[k]
    <3>1. CASE j \in DOMAIN Members(h[b]) /\ Members(g[b])[j] = Members(h[b])[j]
      BY <1>1, <2>1, <2>3, <3>1 DEF OneParent
    <3>2. CASE b = n /\ j = last /\ Members(g[b])[j] = m
      <4>1. a < Members(h[a])[k].id
        BY <1>1, <2>1, <2>3 DEF OneParent
      <4> QED BY <2>1, <2>2, <2>3, <3>2, <4>1
    <3> QED BY <1>5, <3>1, <3>2
  <2>4. CASE a = n /\ k = last /\ Members(g[a])[k] = m
    <3>1. CASE j \in DOMAIN Members(h[b]) /\ Members(g[b])[j] = Members(h[b])[j]
      BY <1>0, <2>1, <2>2, <2>4, <3>1 DEF Orphan
    <3>2. CASE b = n /\ j = last /\ Members(g[b])[j] = m
      BY <1>0, <2>4, <3>2 DEF Orphan
    <3> QED BY <1>5, <3>1, <3>2
  <2> QED BY <1>5, <2>3, <2>4
<1>9. Reached(g, 0)
  <2> SUFFICES ASSUME NEW c \in DOMAIN h \ {ROOT}
               PROVE  \E i \in DOMAIN h : Holds(g[i], c)
    BY <1>1, <1>2, HeapDomain DEF Reached
  <2>1. CASE c = m.id
    BY <1>7, <2>1
  <2>2. CASE c # m.id
    <3>1. PICK i \in DOMAIN h : Holds(h[i], c)
      BY <1>1, <2>2 DEF Reached
    <3> QED BY <1>6, <3>1
  <2> QED BY <2>1, <2>2
<1>10. Kept(g, h, n)
  BY <1>2, Zenon DEF Kept
<1> QED BY <1>2, <1>8, <1>9, <1>10 DEF Tree

(* A node that keeps its members.                                          *)
Retains(g, h, n, node) ==
  /\ Replaced(g, h, n, node) /\ Whole(h, node) /\ node.sort = h[n].sort
  /\ Members(node) = Members(h[n])

LEMMA MembersKept ==
  ASSUME NEW h, Tree(h, 0), NEW n \in DOMAIN h, NEW node, NEW g, Retains(g, h, n, node)
  PROVE  Tree(g, 0) /\ Kept(g, h, n)
<1>0. Replaced(g, h, n, node) /\ Whole(h, node) /\ node.sort = h[n].sort
      /\ Members(node) = Members(h[n])
  BY DEF Retains
<1>1. Typed(h) /\ Sound(h) /\ OneParent(h) /\ Reached(h, 0)
  BY DEF Tree
<1>2. /\ Typed(g) /\ Sound(g) /\ Grown(h, g) /\ DOMAIN g = DOMAIN h
      /\ g[n] = node /\ \A i \in DOMAIN h : i # n => g[i] = h[i]
  BY <1>0, <1>1, NodeReplaced
<1>3. \A i \in DOMAIN h : Members(g[i]) = Members(h[i])
  BY <1>0, <1>2
<1>4. OneParent(g)
  BY <1>1, <1>2, <1>3 DEF OneParent
<1>5. Reached(g, 0)
  BY <1>1, <1>2, <1>3 DEF Reached, Holds
<1>6. Kept(g, h, n)
  BY <1>2, Zenon DEF Kept
<1> QED BY <1>2, <1>4, <1>5, <1>6 DEF Tree

-----------------------------------------------------------------------------
(* One entry more in a table.                                              *)
Linkable(h, n, sort, id) ==
  sort \in {"a", "t"} /\ Stands(h, sort, id) /\ Orphan(h, n, id)

MoreEntries(g, h, tab, e) ==
  /\ h[tab].sort = "t" /\ g = [h EXCEPT ![tab].entries = Append(@, e)]
  /\ (e.sort = "v" /\ e.id = 0) \/ Linkable(h, tab, e.sort, e.id)

LEMMA EntryAdded ==
  ASSUME NEW h, NEW tab \in DOMAIN h,
         NEW e, NEW g, Tree(h, e.id), MoreEntries(g, h, tab, e)
  PROVE  Tree(g, 0) /\ Kept(g, h, tab)
<1> DEFINE entries == h[tab].entries
           node == [h[tab] EXCEPT !.entries = Append(entries, e)]
<1>1. IsTable(h[tab])
  BY DEF MoreEntries, Tree, Typed, IsArr
<1>2. Sequence(entries) /\ Members(h[tab]) = entries
  BY <1>1 DEF IsTable, Members
<1>3. node.sort = "t" /\ node.entries = Append(entries, e)
      /\ DOMAIN node = {"sort", "implicit", "entries"}
  BY <1>1 DEF IsTable
<1>4. /\ Sequence(Append(entries, e)) /\ Len(Append(entries, e)) = Len(entries) + 1
      /\ Append(entries, e)[Len(entries) + 1] = e
      /\ \A i \in 1 .. Len(entries) : Append(entries, e)[i] = entries[i]
  BY <1>2, AppendSequence
<1>5. IsTable(node) /\ Members(node) = Append(Members(h[tab]), e)
  BY <1>2, <1>3, <1>4 DEF IsTable, Members
<1>6. TableSound(h, node)
  <2> SUFFICES ASSUME NEW k \in DOMAIN Append(entries, e)
               PROVE  LET d == Append(entries, e)[k]
                      IN IF d.sort = "v" THEN d.id = 0
                         ELSE d.sort \in {"a", "t"} /\ Stands(h, d.sort, d.id)
    BY <1>3, Zenon DEF TableSound
  <2>1. CASE k = Len(entries) + 1
    BY <1>4, <2>1 DEF Linkable, MoreEntries
  <2>2. CASE k # Len(entries) + 1
    <3>1. k \in DOMAIN entries /\ Append(entries, e)[k] = entries[k]
      BY <1>2, <1>4, <2>2, SequenceFacts
    <3>2. TableSound(h, h[tab])
      BY SoundAt, Zenon DEF Tree, MoreEntries
    <3> QED BY <3>1, <3>2 DEF TableSound
  <2> QED BY <2>1, <2>2
<1>7. Replaced(g, h, tab, node)
  BY DEF Replaced, MoreEntries
<1>8. e.id = 0 \/ Orphan(h, tab, e.id)
  BY DEF Linkable, MoreEntries
<1>9. node.sort = h[tab].sort
  BY <1>3 DEF MoreEntries
<1>10. Whole(h, node)
  BY <1>3, <1>5, <1>6, Zenon DEF Whole
<1>11. Gains(g, h, tab, node, e)
  BY <1>5, <1>7, <1>8, <1>9, <1>10, Zenon DEF Gains
<1>12. Tree(g, 0) /\ Kept(g, h, tab)
  <2> HIDE DEF node
  <2> QED BY <1>11, MemberAdded
<1> QED BY <1>12

(* One element more in an array, of the kind of those before it.           *)
MoreElems(g, h, arr, node, e, type) ==
  /\ h[arr].sort = "a" /\ h[arr].kind \in {"none", node.kind}
  /\ Replaced(g, h, arr, node)
  /\ node = [h[arr] EXCEPT !.elems = Append(@, e), !.kind = node.kind, !.type = type]
  /\ (node.kind = "v" /\ e.id = 0) \/ Linkable(h, arr, node.kind, e.id)

LEMMA ElemAdded ==
  ASSUME NEW h, NEW arr \in DOMAIN h,
         NEW node, NEW e, NEW type, NEW g,
         Tree(h, e.id), MoreElems(g, h, arr, node, e, type)
  PROVE  Tree(g, 0) /\ Kept(g, h, arr)
<1> DEFINE elems == h[arr].elems
           kind == node.kind
<1>0. /\ h[arr].sort = "a" /\ h[arr].kind \in {"none", kind}
      /\ node = [h[arr] EXCEPT !.elems = Append(@, e), !.kind = kind, !.type = type]
      /\ (kind = "v" /\ e.id = 0) \/ Linkable(h, arr, kind, e.id)
      /\ Replaced(g, h, arr, node)
  BY Zenon DEF MoreElems
<1> HIDE DEF kind
<1>1. IsArr(h[arr])
  BY <1>0 DEF Tree, Typed, IsTable
<1>2. Sequence(elems) /\ Members(h[arr]) = elems
  BY <1>1 DEF IsArr, Members
<1>3. /\ node.sort = "a" /\ node.elems = Append(elems, e) /\ node.kind = kind
      /\ DOMAIN node = {"sort", "kind", "type", "elems"}
  BY <1>0, <1>1 DEF IsArr, kind
<1>4. /\ Sequence(Append(elems, e)) /\ Len(Append(elems, e)) = Len(elems) + 1
      /\ Append(elems, e)[Len(elems) + 1] = e
      /\ \A i \in 1 .. Len(elems) : Append(elems, e)[i] = elems[i]
  BY <1>2, AppendSequence
<1>5. IsArr(node) /\ Members(node) = Append(Members(h[arr]), e)
  BY <1>2, <1>3, <1>4 DEF IsArr, Members
<1>6. ArraySound(h, h[arr])
  BY <1>0, SoundAt, Zenon DEF Tree
<1>7. kind \in {"v", "a", "t"}
  BY <1>0 DEF Linkable
<1>8. \A k \in DOMAIN Append(elems, e) :
        LET d == Append(elems, e)[k]
        IN IF kind = "v" THEN d.id = 0 ELSE Stands(h, kind, d.id)
  <2> SUFFICES ASSUME NEW k \in DOMAIN Append(elems, e)
               PROVE  LET d == Append(elems, e)[k]
                      IN IF kind = "v" THEN d.id = 0 ELSE Stands(h, kind, d.id)
    OBVIOUS
  <2>1. CASE k = Len(elems) + 1
    BY <1>0, <1>4, <2>1 DEF Linkable
  <2>2. CASE k # Len(elems) + 1
    <3>1. k \in DOMAIN elems /\ Append(elems, e)[k] = elems[k]
      BY <1>2, <1>4, <2>2, SequenceFacts
    <3>2. h[arr].kind = kind
      <4>1. h[arr].kind # "none"
        BY <1>6, <3>1, EmptySequence, SequenceFacts DEF ArraySound
      <4> QED BY <1>0, <4>1
    <3> QED BY <1>6, <3>1, <3>2 DEF ArraySound
  <2> QED BY <2>1, <2>2
<1>9. ArraySound(h, node)
  BY <1>3, <1>7, <1>8, Zenon DEF ArraySound
<1>10. e.id = 0 \/ Orphan(h, arr, e.id)
  BY <1>0 DEF Linkable
<1>11. node.sort = h[arr].sort
  BY <1>0, <1>3
<1>12. Whole(h, node)
  BY <1>3, <1>5, <1>9, Zenon DEF Whole
<1>13. Tree(g, 0) /\ Kept(g, h, arr)
  <2>1. Gains(g, h, arr, node, e)
    BY <1>0, <1>5, <1>10, <1>11, <1>12, Zenon DEF Gains
  <2> QED BY <2>1, MemberAdded
<1> QED BY <1>13

-----------------------------------------------------------------------------
(* What the parser does to memory.                                         *)
NewNode(node) == (\E b : node = NewTable(b)) \/ (\E kind \in {"none", "t"} : node = NewArray(kind))

LEMMA NewNodeTyped ==
  ASSUME NEW node, NewNode(node)
  PROVE  /\ IsTable(node) \/ IsArr(node)
         /\ Members(node) = <<>> /\ OneType(node) /\ node.sort \in {"a", "t"}
         /\ node.sort = "a" => node.kind \in {"none", "t"}
<1>1. ASSUME NEW b, node = NewTable(b)
      PROVE  IsTable(node) /\ Members(node) = <<>> /\ node.sort = "t"
  BY <1>1, EmptySequence DEF NewTable, IsTable, Members
<1>2. ASSUME NEW kind \in {"none", "t"}, node = NewArray(kind)
      PROVE  IsArr(node) /\ Members(node) = <<>> /\ node.sort = "a" /\ node.kind = kind
  BY <1>2, EmptySequence DEF NewArray, IsArr, Members
<1> QED BY <1>1, <1>2 DEF NewNode, OneType

LEMMA WithValueTree ==
  ASSUME NEW h, Tree(h, 0), NEW tab \in DOMAIN h, h[tab].sort = "t", NEW k, NEW word,
         NEW g, g = WithValue(h, tab, k, word)
  PROVE  Tree(g, 0) /\ Grown(h, g) /\ (OneTypes(h) => OneTypes(g))
<1> DEFINE e == Entry(k, "v", word, 0)
<1>1. e.sort = "v" /\ e.id = 0
  BY DEF Entry
<1> HIDE DEF e
<1>2. MoreEntries(g, h, tab, e)
  BY <1>1 DEF WithValue, MoreEntries, e
<1>3. Tree(g, 0) /\ Kept(g, h, tab)
  BY <1>1, <1>2, EntryAdded, Zenon
<1>4. OneTypes(h) => OneTypes(g)
  BY <1>3 DEF OneTypes, OneType, Kept, Grown
<1> QED BY <1>3, <1>4 DEF Kept

(* A node has come behind the others.                                      *)
NodeCame(g, h, node) ==
  /\ Grown(h, g) /\ DOMAIN g = DOMAIN h \union {Len(h) + 1}
  /\ g[Len(h) + 1] = node

LEMMA WithNodeTree ==
  ASSUME NEW h, Tree(h, 0), NEW tab \in DOMAIN h, h[tab].sort = "t",
         NEW k, NEW node, NewNode(node), NEW g, g = WithNode(h, tab, k, node)
  PROVE  /\ Tree(g, 0) /\ NodeCame(g, h, node) /\ (OneTypes(h) => OneTypes(g))
         /\ Len(g) = Len(h) + 1
<1>1. /\ IsTable(node) \/ IsArr(node)
      /\ Members(node) = <<>> /\ OneType(node) /\ node.sort \in {"a", "t"}
      /\ node.sort = "a" => node.kind \in {"none", "t"}
  BY NewNodeTyped
<1>2. Typed(h) /\ Sequence(h) /\ Len(h) \in Nat \ {0} /\ DOMAIN h = 1 .. Len(h)
  BY HeapDomain DEF Tree, Typed
<1>3. PICK made : Appended(made, h, node)
  BY DEF Appended
<1>4. PICK e : e = Entry(k, node.sort, <<>>, Len(h) + 1)
  OBVIOUS
<1>5. /\ Tree(made, Len(h) + 1) /\ Grown(h, made)
      /\ DOMAIN made = DOMAIN h \union {Len(h) + 1}
      /\ made[Len(h) + 1] = node /\ \A n \in DOMAIN h : made[n] = h[n]
      /\ \A n \in DOMAIN made : ~ Holds(made[n], Len(h) + 1)
  BY <1>1, <1>3, NodeMade, Zenon
<1>6. g = [made EXCEPT ![tab].entries = Append(@, e)]
  <2>1. PICK fuller : fuller = [h[tab] EXCEPT !.entries = Append(@, e)]
    OBVIOUS
  <2>2. PICK t : Replaced(t, h, tab, fuller)
    BY DEF Replaced
  <2>3. Appended(g, t, node)
    BY <1>4, <2>1, <2>2 DEF WithNode, Appended, Replaced
  <2>4. Replaced(g, made, tab, fuller)
    BY <1>2, <1>3, <2>2, <2>3, UpdateBeforeAppend
  <2>5. made[tab] = h[tab]
    BY <1>5
  <2> QED BY <2>1, <2>4, <2>5 DEF Replaced
<1>7. e.sort = node.sort /\ e.id = Len(h) + 1
  BY <1>4 DEF Entry
<1>8. tab \in DOMAIN made /\ made[tab].sort = "t" /\ tab < Len(h) + 1
  BY <1>2, <1>5
<1>9. Linkable(made, tab, e.sort, e.id)
  BY <1>1, <1>5, <1>7, <1>8 DEF Linkable, Stands, Orphan
<1>10. Tree(g, 0) /\ Kept(g, made, tab)
  <2>1. MoreEntries(g, made, tab, e)
    BY <1>6, <1>8, <1>9, Zenon DEF MoreEntries
  <2>2. Tree(made, e.id)
    BY <1>5, <1>7
  <2> QED BY <1>8, <2>1, <2>2, EntryAdded
<1>11. Grown(h, g) /\ g[Len(h) + 1] = node /\ DOMAIN g = DOMAIN h \union {Len(h) + 1}
  BY <1>2, <1>5, <1>8, <1>10 DEF Grown, Kept
<1>12. Len(g) = Len(h) + 1
  <2>1. Sequence(g)
    BY <1>10 DEF Tree, Typed
  <2>2. DOMAIN g = 1 .. Len(h) + 1 /\ Len(h) + 1 \in Nat
    BY <1>2, <1>11
  <2> QED BY <2>1, <2>2, DomainLen
<1>13. OneTypes(h) => OneTypes(g)
  BY <1>1, <1>5, <1>8, <1>10, <1>11 DEF OneTypes, OneType, Grown, Kept
<1> QED BY <1>10, <1>11, <1>12, <1>13, Zenon DEF NodeCame

LEMMA WithElemTree ==
  ASSUME NEW h, Tree(h, 0), NEW arr \in DOMAIN h, h[arr].sort = "a",
         NEW node, NewNode(node), h[arr].kind \in {"none", node.sort},
         NEW g, g = WithElem(h, arr, node)
  PROVE  Tree(g, 0) /\ NodeCame(g, h, node) /\ (OneTypes(h) => OneTypes(g))
<1>1. /\ IsTable(node) \/ IsArr(node)
      /\ Members(node) = <<>> /\ OneType(node) /\ node.sort \in {"a", "t"}
      /\ node.sort = "a" => node.kind \in {"none", "t"}
  BY NewNodeTyped
<1>2. Typed(h) /\ Sequence(h) /\ Len(h) \in Nat \ {0} /\ DOMAIN h = 1 .. Len(h)
  BY HeapDomain DEF Tree, Typed
<1>3. PICK made : Appended(made, h, node)
  BY DEF Appended
<1>4. PICK e : e = Elem(<<>>, Len(h) + 1)
  OBVIOUS
<1>5. /\ Tree(made, Len(h) + 1) /\ Grown(h, made)
      /\ DOMAIN made = DOMAIN h \union {Len(h) + 1}
      /\ made[Len(h) + 1] = node /\ \A n \in DOMAIN h : made[n] = h[n]
      /\ \A n \in DOMAIN made : ~ Holds(made[n], Len(h) + 1)
  BY <1>1, <1>3, NodeMade, Zenon
<1>6. IsArr(h[arr])
  BY <1>2 DEF Typed, IsTable
<1>7. PICK fuller : fuller = [h[arr] EXCEPT !.elems = Append(@, e), !.kind = node.sort,
                                            !.type = h[arr].type]
  OBVIOUS
<1>8. fuller.kind = node.sort /\ fuller.sort = "a"
  BY <1>6, <1>7 DEF IsArr
<1>9. made[arr] = h[arr] /\ arr \in DOMAIN made /\ arr < Len(h) + 1
  BY <1>2, <1>5
<1>10. Replaced(g, made, arr, fuller)
  <2>1. fuller = [h[arr] EXCEPT !.elems = Append(@, e), !.kind = node.sort]
    BY <1>6, <1>7 DEF IsArr
  <2>2. PICK t : Replaced(t, h, arr, fuller)
    BY DEF Replaced
  <2>3. Appended(g, t, node)
    BY <1>4, <2>1, <2>2 DEF WithElem, Appended, Replaced
  <2> QED BY <1>2, <1>3, <2>2, <2>3, UpdateBeforeAppend
<1>11. e.id = Len(h) + 1
  BY <1>4 DEF Elem
<1>12. Linkable(made, arr, node.sort, e.id)
  BY <1>1, <1>5, <1>9, <1>11 DEF Linkable, Stands, Orphan
<1>13. Tree(g, 0) /\ Kept(g, made, arr)
  <2>1. /\ made[arr].sort = "a" /\ made[arr].kind \in {"none", fuller.kind}
        /\ fuller = [made[arr] EXCEPT !.elems = Append(@, e), !.kind = fuller.kind,
                                      !.type = h[arr].type]
        /\ Linkable(made, arr, fuller.kind, e.id)
    BY <1>7, <1>8, <1>9, <1>12
  <2>2. MoreElems(g, made, arr, fuller, e, h[arr].type)
    BY <1>10, <2>1, Zenon DEF MoreElems
  <2>3. Tree(made, e.id)
    BY <1>5, <1>11
  <2> QED BY <1>9, <2>2, <2>3, ElemAdded
<1>14. Grown(h, g) /\ g[Len(h) + 1] = node /\ DOMAIN g = DOMAIN h \union {Len(h) + 1}
  BY <1>2, <1>5, <1>9, <1>13 DEF Grown, Kept
<1>15. OneTypes(h) => OneTypes(g)
  <2> SUFFICES ASSUME OneTypes(h), NEW n \in DOMAIN g PROVE OneType(g[n])
    BY DEF OneTypes
  <2>1. CASE n = Len(h) + 1
    BY <1>1, <1>14, <2>1
  <2>2. CASE n = arr
    <3>1. g[n] = fuller
      BY <1>9, <1>10, <2>2 DEF Replaced
    <3> QED BY <1>1, <1>8, <3>1 DEF OneType
  <2>3. CASE n # Len(h) + 1 /\ n # arr
    <3>1. n \in DOMAIN h /\ g[n] = h[n]
      BY <1>5, <1>13, <1>14, <2>3 DEF Kept
    <3> QED BY <3>1 DEF OneTypes
  <2> QED BY <2>1, <2>2, <2>3
<1> QED BY <1>13, <1>14, <1>15, Zenon DEF NodeCame

-----------------------------------------------------------------------------
(* Where the parser stands.                                                *)
LEMMA TailSequence ==
  ASSUME NEW s, Sequence(s), Len(s) > 0
  PROVE  Sequence(Tail(s)) /\ Len(Tail(s)) = Len(s) - 1
<1>1. s \in Seq(Range(s)) /\ s # <<>>
  BY EmptySequence DEF Sequence
<1>2. Tail(s) \in Seq(Range(s)) /\ Len(Tail(s)) = Len(s) - 1
  BY <1>1, HeadTailProperties
<1>3. Tail(s) \in Seq(Range(Tail(s)))
  BY <1>2, SeqOfRange
<1> QED BY <1>2, <1>3 DEF Sequence

(* The tree while a document is read.                                      *)
LEMMA WhileBuilding ==
  ASSUME IInv, Building
  PROVE  /\ Tree(heap, 0) /\ OneTypes(heap) /\ Typed(heap) /\ Sound(heap)
         /\ result \in {"none", "document", "error"} /\ pc \in Places
<1>1. ~ Losing
  BY DEF IInv, Settled, Losing, Building
<1>2. Tree(heap, 0)
  BY <1>1 DEF IInv, TreeInv
<1> QED BY <1>2 DEF IInv, Tree, Settled, Building

(* A step that goes on to a place, and leaves a tree behind.               *)
LEMMA GoesOn ==
  ASSUME IInv, Building, NEW place, NEW wish, Goto(place, wish),
         place \in Places \ {"freed", "nomemory"},
         place \in Over \union {"walk"} => wish \notin Wishes,
         Tree(heap', 0), place # "error" => OneTypes(heap'),
         stack' \in Seq(DOMAIN heap'), OpenAt(place, stack', heap'), Selected'
  PROVE  IInv'
<1>1. /\ pc' = place /\ tok' = wish /\ result' = result
      /\ result \in {"none", "document", "error"}
  BY WhileBuilding DEF Goto
<1>2. Settled'
  BY <1>1 DEF Settled
<1>3. Open'
  BY <1>1 DEF Open
<1>4. TreeInv'
  <2>1. Tree(heap', IF Losing' THEN 0 ELSE 0)
    OBVIOUS
  <2> QED BY <2>1 DEF TreeInv
<1>5. Building' => OneTypes(heap)'
  BY <1>1 DEF Building
<1> QED BY <1>2, <1>3, <1>4, <1>5 DEF IInv

(* A step that leaves memory and what is open in it alone.                 *)
LEMMA GoesOnQuietly ==
  ASSUME IInv, Building, NEW place, NEW wish, Goto(place, wish),
         place \in Places \ {"freed", "nomemory"},
         place \in Over \union {"walk"} => wish \notin Wishes,
         UNCHANGED <<stack, heap>>, OpenAt(place, stack, heap), Selected'
  PROVE  IInv'
<1>1. Tree(heap', 0) /\ OneTypes(heap')
  BY WhileBuilding
<1>2. stack' \in Seq(DOMAIN heap') /\ OpenAt(place, stack', heap')
  BY DEF IInv, Open
<1> QED BY <1>1, <1>2, GoesOn

LEMMA SelectedKept ==
  ASSUME Selected, UNCHANGED <<heap, curtab, path, lb>>
  PROVE  Selected'
BY DEF Selected

-----------------------------------------------------------------------------
(* The steps that leave memory alone.                                      *)
LEMMA NextTokenStep == IInv /\ NextToken => IInv'
<1> SUFFICES ASSUME IInv, NextToken PROVE IInv'
  OBVIOUS
<1>1. PICK t : tok' = t /\ pc' = (IF t.tok = "INVALID" THEN "error" ELSE pc)
  BY DEF NextToken
<1>2. pc \notin Over \union {"walk"} /\ pc \in Places
  BY DEF IInv, Settled, NextToken
<1>3. Building
  BY <1>2 DEF Building, Over
<1>4. UNCHANGED <<stack, heap, curtab, path, lb, result>>
  BY DEF NextToken, parsing
<1>5. t.tok = "INVALID" => t \notin Wishes
  BY DEF Wishes, Read, ReadDot, Token
<1>6. Settled'
  <2>1. result' \in {"none", "document", "error"}
    BY <1>3, <1>4, WhileBuilding
  <2>2. pc' \in Places /\ (pc' \in Over \union {"walk"} => t.tok = "INVALID")
    BY <1>1, <1>2 DEF Places, Over
  <2>3. pc' \in Over \union {"walk"} => tok' \notin Wishes
    BY <1>1, <1>5, <2>2, Zenon
  <2> QED BY <2>1, <2>2, <2>3 DEF Settled
<1>7. Open'
  BY <1>1, <1>4 DEF IInv, Open, OpenAt, Outside
<1>8. Selected'
  BY <1>4, SelectedKept DEF IInv
<1>9. TreeInv' /\ OneTypes(heap)'
  <2>1. Tree(heap, 0) /\ OneTypes(heap)
    BY <1>3, WhileBuilding
  <2>2. Tree(heap', IF Losing' THEN 0 ELSE 0)
    BY <1>4, <2>1
  <2> QED BY <1>4, <2>1, <2>2 DEF TreeInv
<1> QED BY <1>6, <1>7, <1>8, <1>9 DEF IInv

(* An error: whatever is open stays open.                                  *)
LEMMA FailStep ==
  ASSUME IInv, Building, Fail, tok \notin Wishes, UNCHANGED <<stack, heap>>, Selected'
  PROVE  IInv'
<1>1. OpenAt("error", stack, heap)
  BY DEF OpenAt, Outside
<1>2. Goto("error", tok)
  BY DEF Fail
<1> QED BY <1>1, <1>2, GoesOnQuietly DEF Places, Over

LEMMA Words == \A t : t.tok \notin {"READ", "READDOT"} => t \notin Wishes
BY DEF Wishes, Read, ReadDot, Token

LEMMA ErrorSteps == IInv /\ (SyntaxError \/ KeyRefused \/ KindMismatch) => IInv'
<1> SUFFICES ASSUME IInv, SyntaxError \/ KeyRefused \/ KindMismatch PROVE IInv'
  OBVIOUS
<1>1. Fail /\ UNCHANGED parsing
  BY DEF SyntaxError, KeyRefused, KindMismatch
<1>2. Building /\ tok \notin Wishes
  BY Words DEF SyntaxError, KeyRefused, KindMismatch, Building, At, Expected
<1>3. UNCHANGED <<stack, heap>> /\ Selected'
  BY <1>1, SelectedKept DEF parsing, IInv
<1> QED BY <1>1, <1>2, <1>3, FailStep

LEMMA FinishStep == IInv /\ Finish => IInv'
<1> SUFFICES ASSUME IInv, Finish PROVE IInv'
  OBVIOUS
<1>1. /\ pc = "line" /\ pc' = "done" /\ result' = "document" /\ tok' = tok
      /\ tok.tok = "NEWLINE" /\ UNCHANGED <<stack, heap, curtab, path, lb>>
  BY DEF Finish, At, parsing
<1>2. Building
  BY <1>1 DEF Building
<1>3. Settled'
  BY <1>1, Words DEF Settled, Places, Over
<1>4. Open' /\ Selected'
  BY <1>1, SelectedKept DEF Open, OpenAt, Outside, IInv
<1>5. TreeInv' /\ OneTypes(heap)'
  <2>1. Tree(heap, 0) /\ OneTypes(heap)
    BY <1>2, WhileBuilding
  <2>2. Tree(heap', IF Losing' THEN 0 ELSE 0)
    BY <1>1, <2>1
  <2> QED BY <1>1, <2>1, <2>2 DEF TreeInv
<1> QED BY <1>3, <1>4, <1>5 DEF IInv

(* The steps from place to place that touch nothing that is in memory.     *)
Moves(from, to, wish) ==
  /\ pc = from /\ Goto(to, wish) /\ UNCHANGED <<stack, heap>>
  /\ to \in Places \ Over
  /\ to = "walk" => wish \notin Wishes

LEMMA MoveStep ==
  ASSUME IInv, NEW from, NEW to, NEW wish, Moves(from, to, wish), from \notin Over,
         OpenAt(from, stack, heap) => OpenAt(to, stack, heap), Selected'
  PROVE  IInv'
<1>1. Building
  BY DEF Building, Moves, Over
<1>2. OpenAt(to, stack, heap)
  BY DEF IInv, Open, Moves
<1>3. to \in Places \ {"freed", "nomemory"}
      /\ (to \in Over \union {"walk"} => wish \notin Wishes)
  BY DEF Moves, Over
<1> QED BY <1>1, <1>2, <1>3, GoesOnQuietly DEF Moves

LEMMA EmptyLineStep == IInv /\ EmptyLine => IInv'
<1> SUFFICES ASSUME IInv, EmptyLine PROVE IInv'
  OBVIOUS
<1>1. Moves("line", "line", ReadDot) /\ Selected'
  BY SelectedKept DEF EmptyLine, At, Moves, parsing, Places, Over, Outside, IInv
<1> QED BY <1>1, MoveStep DEF Over

LEMMA SkipNewlineStep == IInv /\ SkipNewline => IInv'
<1> SUFFICES ASSUME IInv, SkipNewline PROVE IInv'
  OBVIOUS
<1>1. Moves(pc, pc, Read) /\ Selected' /\ pc \notin Over
  BY SelectedKept DEF SkipNewline, At, Moves, parsing, Places, Over, Outside, IInv
<1> QED BY <1>1, MoveStep

LEMMA PairStep == IInv /\ Pair => IInv'
<1> SUFFICES ASSUME IInv, Pair PROVE IInv'
  OBVIOUS
<1>1. Moves(pc, "equal", Read) /\ Selected' /\ pc \in {"line", "pair"}
  BY SelectedKept DEF Pair, At, Moves, Places, Over, IInv
<1>2. OpenAt(pc, stack, heap) => OpenAt("equal", stack, heap)
  BY <1>1 DEF OpenAt, Outside
<1> QED BY <1>1, <1>2, MoveStep DEF Over

LEMMA EqualStep == IInv /\ Equal => IInv'
<1> SUFFICES ASSUME IInv, Equal PROVE IInv'
  OBVIOUS
<1>1. Moves("equal", "value", Read) /\ Selected'
  BY SelectedKept DEF Equal, At, Moves, parsing, Places, Over, IInv
<1>2. OpenAt("equal", stack, heap) => OpenAt("value", stack, heap)
  BY DEF OpenAt, Outside
<1> QED BY <1>1, <1>2, MoveStep DEF Over

LEMMA EndOfLineStep == IInv /\ EndOfLine => IInv'
<1> SUFFICES ASSUME IInv, EndOfLine PROVE IInv'
  OBVIOUS
<1>1. Moves("endline", "line", Read) /\ Selected'
  BY SelectedKept DEF EndOfLine, At, Moves, parsing, Places, Over, Outside, IInv
<1>2. OpenAt("endline", stack, heap) => OpenAt("line", stack, heap)
  BY DEF OpenAt, Outside
<1> QED BY <1>1, <1>2, MoveStep DEF Over

LEMMA CommaStep == IInv /\ Comma => IInv'
<1> SUFFICES ASSUME IInv, Comma PROVE IInv'
  OBVIOUS
<1> DEFINE to == IF pc = "pairend" THEN "pair" ELSE "elem"
<1>1. Moves(pc, to, Read) /\ Selected' /\ pc \in {"pairend", "elemend"}
  BY SelectedKept DEF Comma, At, Moves, parsing, Places, Over, IInv
<1>2. OpenAt(pc, stack, heap) => OpenAt(to, stack, heap)
  BY <1>1 DEF OpenAt, Outside
<1> QED BY <1>1, <1>2, MoveStep DEF Over

LEMMA HeaderStep == IInv /\ Header => IInv'
<1> SUFFICES ASSUME IInv, Header PROVE IInv'
  OBVIOUS
<1>1. Moves("line", "select", ReadDot)
  BY DEF Header, At, Moves, Places, Over, Outside
<1>2. Selected'
  BY EmptySequence, PathAssumption DEF Header, Selected, IInv
<1>3. OpenAt("line", stack, heap) => OpenAt("select", stack, heap)
  BY DEF OpenAt, Outside
<1> QED BY <1>1, <1>2, <1>3, MoveStep DEF Over

LEMMA SecondBracketStep == IInv /\ SecondBracket => IInv'
<1> SUFFICES ASSUME IInv, SecondBracket PROVE IInv'
  OBVIOUS
<1> DEFINE wish == IF tok.tok = "LBRACKET" THEN ReadDot ELSE tok
<1>1. Moves("select", "path", wish)
  BY DEF SecondBracket, Moves, Places, Over, Outside
<1>2. Selected'
  BY DEF SecondBracket, Selected, IInv
<1>3. OpenAt("select", stack, heap) => OpenAt("path", stack, heap)
  BY DEF OpenAt, Outside
<1> QED BY <1>1, <1>2, <1>3, MoveStep DEF Over

LEMMA PathKeyStep == IInv /\ PathKey => IInv'
<1> SUFFICES ASSUME IInv, PathKey PROVE IInv'
  OBVIOUS
<1>1. pc = "path" /\ tok.tok = "STRING" /\ UNCHANGED <<stack, heap, curtab, lb>>
  BY DEF PathKey, At
<1>2. CASE Fail /\ UNCHANGED path
  <2>1. Building /\ tok \notin Wishes /\ Selected'
    BY <1>1, <1>2, Words, SelectedKept DEF Building, IInv
  <2> QED BY <1>1, <1>2, <2>1, FailStep
<1>3. CASE /\ ~ (Len(path) >= PATH_MAX) /\ Goto("pathsep", ReadDot)
           /\ \E k \in normalize_key(tok.word) : path' = Append(path, k)
  <2>1. Moves("path", "pathsep", ReadDot)
    BY <1>1, <1>3 DEF Moves, Places, Over, Outside
  <2>2. Selected'
    <3>1. Sequence(path) /\ Len(path) \in Nat /\ Len(path) + 1 <= PATH_MAX
      BY <1>3, PathAssumption, SequenceFacts DEF IInv, Selected
    <3>2. Sequence(path') /\ Len(path') = Len(path) + 1
      BY <1>3, <3>1, AppendSequence
    <3> QED BY <1>1, <3>1, <3>2 DEF IInv, Selected
  <2>3. OpenAt("path", stack, heap) => OpenAt("pathsep", stack, heap)
    BY DEF OpenAt, Outside
  <2> QED BY <2>1, <2>2, <2>3, MoveStep DEF Over
<1> QED BY <1>2, <1>3 DEF PathKey

LEMMA PathSepStep == IInv /\ PathSep => IInv'
<1> SUFFICES ASSUME IInv, PathSep PROVE IInv'
  OBVIOUS
<1>1. /\ pc = "pathsep" /\ tok.tok \in {"RBRACKET", "DOT"}
      /\ UNCHANGED <<stack, heap, path, lb>>
  BY DEF PathSep, At
<1>2. CASE Goto("path", ReadDot) /\ UNCHANGED curtab
  <2>1. Moves("pathsep", "path", ReadDot) /\ Selected'
    BY <1>1, <1>2, SelectedKept DEF Moves, Places, Over, Outside, IInv
  <2>2. OpenAt("pathsep", stack, heap) => OpenAt("path", stack, heap)
    BY DEF OpenAt, Outside
  <2> QED BY <2>1, <2>2, MoveStep DEF Over
<1>3. CASE Goto("walk", tok) /\ curtab' = ROOT
  <2>1. Moves("pathsep", "walk", tok)
    BY <1>1, <1>3, Words DEF Moves, Places, Over, Outside
  <2>2. Typed(heap)
    BY <1>1, WhileBuilding DEF Building
  <2>3. Selected'
    BY <1>1, <1>3, <2>2 DEF IInv, Selected, Typed
  <2>4. OpenAt("pathsep", stack, heap) => OpenAt("walk", stack, heap)
    BY DEF OpenAt, Outside
  <2> QED BY <2>1, <2>3, <2>4, MoveStep DEF Over
<1> QED BY <1>2, <1>3 DEF PathSep

LEMMA CloseHeaderStep == IInv /\ CloseHeader => IInv'
<1> SUFFICES ASSUME IInv, CloseHeader PROVE IInv'
  OBVIOUS
<1>1. Selected'
  BY SelectedKept DEF CloseHeader, parsing, IInv
<1>2. CASE pc = "close2" /\ Goto("closed", Read)
  <2>1. Moves("close2", "closed", Read)
    BY <1>2 DEF CloseHeader, parsing, Moves, Places, Over, Outside
  <2>2. OpenAt("close2", stack, heap) => OpenAt("closed", stack, heap)
    BY DEF OpenAt, Outside
  <2> QED BY <1>1, <2>1, <2>2, MoveStep DEF Over
<1>3. CASE pc = "closed" /\ Goto("line", tok)
  <2>1. Moves("closed", "line", tok)
    BY <1>3 DEF CloseHeader, parsing, Moves, Places, Over, Outside
  <2>2. OpenAt("closed", stack, heap) => OpenAt("line", stack, heap)
    BY DEF OpenAt, Outside
  <2> QED BY <1>1, <2>1, <2>2, MoveStep DEF Over
<1> QED BY <1>2, <1>3 DEF CloseHeader, At

-----------------------------------------------------------------------------
(* What check_key finds, and where it looks.                               *)
LEMMA CheckKeyFinds ==
  ASSUME Typed(heap), Sound(heap), NEW tab \in DOMAIN heap, heap[tab].sort = "t",
         NEW k, NEW e, e = check_key(tab, k)
  PROVE  \/ e = NoEntry \/ e.sort = "v"
         \/ e.sort \in {"a", "t"} /\ Stands(heap, e.sort, e.id)
<1> DEFINE entries == heap[tab].entries
<1>1. Sequence(entries) /\ TableSound(heap, heap[tab])
  BY SoundAt DEF Typed, IsTable, IsArr
<1>2. DOMAIN entries \subseteq Nat
  BY <1>1, SequenceFacts
<1>3. ASSUME NEW found \in SUBSET DOMAIN entries, e = AtFirst(tab, found), e # NoEntry
      PROVE  \E n \in DOMAIN entries : e = entries[n]
  <2>1. found # {} /\ e = entries[Min(found)]
    BY <1>3 DEF AtFirst
  <2>2. Min(found) \in found
    BY <1>2, <2>1, MinIn
  <2> QED BY <2>1, <2>2
<1>4. \A sort : Hits(tab, k, sort) \in SUBSET DOMAIN entries
  BY DEF Hits
<1>5. e = NoEntry \/ \E n \in DOMAIN entries : e = entries[n]
  BY <1>3, <1>4 DEF check_key
<1> QED BY <1>1, <1>5 DEF TableSound

LEMMA TargetTable ==
  ASSUME IInv, pc = "value"
  PROVE  Target \in DOMAIN heap /\ heap[Target].sort = "t"
<1>1. stack \in Seq(DOMAIN heap) /\ (stack = <<>> \/ Innermost(stack, heap, "t"))
  BY DEF IInv, Open, OpenAt
<1>2. stack # <<>> => Last(stack) \in DOMAIN heap
  BY <1>1, EmptySeq DEF Last
<1> QED BY <1>1, <1>2 DEF Target, Innermost, IInv, Selected

-----------------------------------------------------------------------------
(* What is open stays so while memory grows; a node is opened, or closed.  *)
LEMMA StackKept ==
  ASSUME NEW h, NEW g, Grown(h, g), NEW s \in Seq(DOMAIN h)
  PROVE  /\ s \in Seq(DOMAIN g)
         /\ \A place : OpenAt(place, s, h) => OpenAt(place, s, g)
<1>1. s \in Seq(DOMAIN g)
  BY SeqMonotonic DEF Grown
<1>2. s # <<>> => Last(s) \in DOMAIN h
  BY EmptySeq DEF Last
<1>3. \A sort : Innermost(s, h, sort) => Innermost(s, g, sort)
  BY <1>2 DEF Innermost, Grown
<1> QED BY <1>1, <1>3 DEF OpenAt

LEMMA Deeper ==
  ASSUME NEW h, NEW s \in Seq(DOMAIN h), NEW n \in DOMAIN h, NEW t, t = Append(s, n)
  PROVE  t \in Seq(DOMAIN h) /\ t # <<>> /\ Last(t) = n
<1>1. t \in Seq(DOMAIN h) /\ Len(t) = Len(s) + 1 /\ t[Len(s) + 1] = n /\ t # <<>>
  BY AppendProperties
<1> QED BY <1>1 DEF Last

LEMMA BehindFits ==
  ASSUME Typed(heap), NEW s \in Seq(DOMAIN heap)
  PROVE  OpenAt(Behind(s), s, heap) /\ Behind(s) \in {"endline", "pairend", "elemend"}
<1>1. s # <<>> => Last(s) \in DOMAIN heap
  BY EmptySeq DEF Last
<1>2. s # <<>> => heap[Last(s)].sort \in {"t", "a"}
  BY <1>1, HeapDomain
<1> QED BY <1>2 DEF Behind, OpenAt, Innermost, Outside

LEMMA SelectedGrown ==
  ASSUME Selected, Grown(heap, heap'), UNCHANGED <<curtab, path, lb>>
  PROVE  Selected'
BY DEF Selected, Grown

-----------------------------------------------------------------------------
(* The steps that change memory.                                           *)
LEMMA ValueStep == IInv /\ Value => IInv'
<1> SUFFICES ASSUME IInv, Value PROVE IInv'
  OBVIOUS
<1>1. /\ pc = "value" /\ Goto(Behind(stack), Read) /\ UNCHANGED <<stack, curtab, path, lb>>
      /\ \E k : heap' = WithValue(heap, Target, k, tok.word)
  BY DEF Value, At
<1>2. Building
  BY <1>1 DEF Building
<1>3. Tree(heap, 0) /\ OneTypes(heap) /\ Typed(heap)
  BY <1>2, WhileBuilding
<1>4. Target \in DOMAIN heap /\ heap[Target].sort = "t"
  BY <1>1, TargetTable
<1>5. Tree(heap', 0) /\ Grown(heap, heap') /\ OneTypes(heap')
  BY <1>1, <1>3, <1>4, WithValueTree
<1>6. stack \in Seq(DOMAIN heap)
  BY DEF IInv, Open
<1>7. stack' \in Seq(DOMAIN heap') /\ OpenAt(Behind(stack), stack', heap')
  BY <1>1, <1>3, <1>5, <1>6, BehindFits, StackKept
<1>8. Behind(stack) \in Places \ {"freed", "nomemory"}
      /\ Behind(stack) \notin Over \union {"walk"}
  BY <1>3, <1>6, BehindFits DEF Places, Outside, Over
<1>9. Selected'
  BY <1>1, <1>5, SelectedGrown DEF IInv
<1> QED BY <1>1, <1>2, <1>5, <1>7, <1>8, <1>9, GoesOn

(* A node is made or found, and opened.                                    *)
Opens(n, place) ==
  /\ pc \in {"value", "elem"} /\ Goto(place, Read) /\ UNCHANGED <<curtab, path, lb>>
  /\ stack' = Append(stack, n)
  /\ place \in {"pair", "elem"}
  /\ n \in DOMAIN heap' /\ heap'[n].sort = IF place = "pair" THEN "t" ELSE "a"

LEMMA OpensStep ==
  ASSUME IInv, NEW n, NEW place, Opens(n, place),
         Tree(heap', 0), Grown(heap, heap'), OneTypes(heap')
  PROVE  IInv'
<1>1. Building
  BY DEF Opens, Building
<1>2. stack \in Seq(DOMAIN heap')
  BY StackKept DEF IInv, Open
<1>3. stack' \in Seq(DOMAIN heap') /\ stack' # <<>> /\ Last(stack') = n
  BY <1>2, Deeper DEF Opens
<1>4. OpenAt(place, stack', heap')
  BY <1>3 DEF OpenAt, Innermost, Outside, Opens
<1>5. Selected'
  BY SelectedGrown DEF IInv, Opens
<1>6. place \in Places \ {"freed", "nomemory"} /\ place \notin Over \union {"walk"}
  BY DEF Opens, Places, Over
<1> QED BY <1>1, <1>3, <1>4, <1>5, <1>6, GoesOn DEF Opens

LEMMA ArrayValueStep == IInv /\ ArrayValue => IInv'
<1> SUFFICES ASSUME IInv, ArrayValue PROVE IInv'
  OBVIOUS
<1> DEFINE node == NewArray("none")
<1>1. /\ pc = "value" /\ Goto("elem", Read) /\ UNCHANGED <<curtab, path, lb>>
      /\ stack' = Append(stack, Len(heap) + 1)
      /\ \E k : heap' = WithNode(heap, Target, k, node)
  BY DEF ArrayValue, At
<1>2. Tree(heap, 0) /\ OneTypes(heap)
  BY <1>1, WhileBuilding DEF Building
<1>3. Target \in DOMAIN heap /\ heap[Target].sort = "t"
  BY <1>1, TargetTable
<1>4. NewNode(node) /\ node.sort = "a"
  BY DEF NewNode, NewArray
<1> HIDE DEF node
<1>5. Tree(heap', 0) /\ NodeCame(heap', heap, node) /\ OneTypes(heap')
  BY <1>1, <1>2, <1>3, <1>4, WithNodeTree
<1>6. Opens(Len(heap) + 1, "elem")
  BY <1>1, <1>4, <1>5 DEF Opens, NodeCame
<1> QED BY <1>5, <1>6, OpensStep DEF NodeCame

(* The table of an implicit entry is made explicit.                        *)
LEMMA Explicit ==
  ASSUME NEW h, Tree(h, 0), OneTypes(h), NEW n \in DOMAIN h, h[n].sort = "t",
         NEW g, g = [h EXCEPT ![n].implicit = FALSE]
  PROVE  Tree(g, 0) /\ Grown(h, g) /\ OneTypes(g)
<1> DEFINE node == [h[n] EXCEPT !.implicit = FALSE]
<1>1. Typed(h) /\ Sound(h) /\ IsTable(h[n]) /\ TableSound(h, h[n])
  BY SoundAt DEF Tree, Typed, IsArr
<1>2. node.sort = "t" /\ node.entries = h[n].entries /\ IsTable(node)
  BY <1>1 DEF IsTable
<1>3. Members(node) = Members(h[n]) /\ node.sort = h[n].sort
  BY <1>2 DEF Members
<1>4. Whole(h, node)
  BY <1>1, <1>2 DEF Whole, TableSound
<1>5. Replaced(g, h, n, node)
  BY DEF Replaced
<1> HIDE DEF node
<1>6. Tree(g, 0) /\ Kept(g, h, n)
  <2>1. Retains(g, h, n, node)
    BY <1>3, <1>4, <1>5, Zenon DEF Retains
  <2> QED BY <2>1, MembersKept
<1>7. OneTypes(g)
  BY <1>2, <1>5, <1>6 DEF Replaced, OneTypes, OneType, Kept
<1> QED BY <1>6, <1>7 DEF Kept

LEMMA TableValueStep == IInv /\ TableValue => IInv'
<1> SUFFICES ASSUME IInv, TableValue PROVE IInv'
  OBVIOUS
<1>1. pc = "value" /\ Goto("pair", Read) /\ UNCHANGED <<curtab, path, lb>>
  BY DEF TableValue, At
<1>2. Tree(heap, 0) /\ OneTypes(heap) /\ Typed(heap) /\ Sound(heap)
  BY <1>1, WhileBuilding DEF Building
<1>3. Target \in DOMAIN heap /\ heap[Target].sort = "t"
  BY <1>1, TargetTable
<1>4. ASSUME NEW k, heap' = WithNode(heap, Target, k, NewTable(FALSE)),
             stack' = Append(stack, Len(heap) + 1)
      PROVE  IInv'
  <2> DEFINE node == NewTable(FALSE)
  <2>1. NewNode(node) /\ node.sort = "t"
    BY DEF NewNode, NewTable
  <2>2. heap' = WithNode(heap, Target, k, node)
    BY <1>4
  <2> HIDE DEF node
  <2>3. Tree(heap', 0) /\ NodeCame(heap', heap, node) /\ OneTypes(heap')
    BY <1>2, <1>3, <2>1, <2>2, WithNodeTree
  <2>4. Opens(Len(heap) + 1, "pair")
    BY <1>1, <1>4, <2>1, <2>3 DEF Opens, NodeCame
  <2> QED BY <2>3, <2>4, OpensStep DEF NodeCame
<1>5. ASSUME NEW k, NEW e, e = check_key(Target, k), Implicit(e),
             heap' = [heap EXCEPT ![e.id].implicit = FALSE], stack' = Append(stack, e.id)
      PROVE  IInv'
  <2>1. e.id \in DOMAIN heap /\ heap[e.id].sort = "t"
    BY <1>2, <1>3, <1>5, CheckKeyFinds DEF Implicit, Stands, NoEntry, Entry
  <2>2. Tree(heap', 0) /\ Grown(heap, heap') /\ OneTypes(heap')
    BY <1>2, <1>5, <2>1, Explicit
  <2>3. Opens(e.id, "pair")
    BY <1>1, <1>5, <2>1, <2>2 DEF Opens, Grown
  <2> QED BY <2>2, <2>3, OpensStep
<1> QED BY <1>4, <1>5, Zenon DEF TableValue

(* In an array: it is the innermost of what is open.                       *)
LEMMA InnermostArray ==
  ASSUME IInv, pc = "elem"
  PROVE  Last(stack) \in DOMAIN heap /\ heap[Last(stack)].sort = "a"
<1>1. stack \in Seq(DOMAIN heap) /\ Innermost(stack, heap, "a")
  BY DEF IInv, Open, OpenAt
<1> QED BY <1>1, EmptySeq DEF Innermost, Last

LEMMA ElemNodeStep == IInv /\ ElemNode => IInv'
<1> SUFFICES ASSUME IInv, ElemNode PROVE IInv'
  OBVIOUS
<1> DEFINE node == IF ElemKind = "a" THEN NewArray("none") ELSE NewTable(FALSE)
           place == IF ElemKind = "a" THEN "elem" ELSE "pair"
<1>1. /\ pc = "elem" /\ tok.tok \in {"LBRACKET", "LBRACE"} /\ Fits(ElemKind)
      /\ heap' = WithElem(heap, Last(stack), node) /\ stack' = Append(stack, Len(heap) + 1)
      /\ Goto(place, Read) /\ UNCHANGED <<curtab, path, lb>>
  BY DEF ElemNode, At
<1>2. Tree(heap, 0) /\ OneTypes(heap)
  BY <1>1, WhileBuilding DEF Building
<1>3. Last(stack) \in DOMAIN heap /\ heap[Last(stack)].sort = "a"
  BY <1>1, InnermostArray
<1>4. ElemKind \in {"a", "t"}
  BY <1>1 DEF ElemKind
<1>5. NewNode(node) /\ node.sort = ElemKind
  BY <1>4 DEF NewNode, NewArray, NewTable
<1>6. heap[Last(stack)].kind \in {"none", node.sort}
  BY <1>1, <1>5 DEF Fits
<1> HIDE DEF node
<1>7. Tree(heap', 0) /\ NodeCame(heap', heap, node) /\ OneTypes(heap')
  BY <1>1, <1>2, <1>3, <1>5, <1>6, WithElemTree
<1>8. Opens(Len(heap) + 1, place)
  BY <1>1, <1>4, <1>5, <1>7 DEF Opens, NodeCame
<1> QED BY <1>7, <1>8, OpensStep DEF NodeCame

LEMMA CloseStep == IInv /\ Close => IInv'
<1> SUFFICES ASSUME IInv, Close PROVE IInv'
  OBVIOUS
<1> DEFINE rest == Front(stack)
<1>1. /\ pc \in {"pair", "pairend", "elem", "elemend"} /\ stack' = rest
      /\ Goto(Behind(rest), Read) /\ UNCHANGED <<heap, curtab, path, lb>>
  BY DEF Close, At
<1>2. Building
  BY <1>1 DEF Building
<1>3. Tree(heap, 0) /\ OneTypes(heap) /\ Typed(heap)
  BY <1>2, WhileBuilding
<1>4. stack \in Seq(DOMAIN heap) /\ stack # <<>>
  BY <1>1 DEF IInv, Open, OpenAt, Innermost
<1>5. rest \in Seq(DOMAIN heap)
  <2>1. Len(stack) \in Nat
    BY <1>4, LenProperties
  <2>2. \A k \in 1 .. Len(stack) - 1 : k \in 1 .. Len(stack)
    BY <2>1
  <2> QED BY <1>4, <2>1, <2>2, SubSeqProperties DEF Front
<1> HIDE DEF rest
<1>6. OpenAt(Behind(rest), rest, heap) /\ Behind(rest) \in {"endline", "pairend", "elemend"}
  BY <1>3, <1>5, BehindFits
<1>7. Behind(rest) \in Places \ {"freed", "nomemory"}
      /\ Behind(rest) \notin Over \union {"walk"}
  BY <1>6 DEF Places, Outside, Over
<1>8. Selected'
  BY <1>1, SelectedKept DEF IInv
<1>9. /\ Tree(heap', 0) /\ OneTypes(heap') /\ stack' \in Seq(DOMAIN heap')
      /\ OpenAt(Behind(rest), stack', heap')
  BY <1>1, <1>3, <1>5, <1>6
<1> QED BY <1>1, <1>2, <1>7, <1>8, <1>9, GoesOn

LEMMA ElemValueStep == IInv /\ ElemValue => IInv'
<1> SUFFICES ASSUME IInv, ElemValue PROVE IInv'
  OBVIOUS
<1> DEFINE arr == Last(stack)
           type == valtype(tok.word)
           first == heap[arr].elems = <<>>
           e == Elem(tok.word, 0)
           said == IF first THEN type ELSE heap[arr].type
           node == [heap[arr] EXCEPT !.elems = Append(@, e), !.kind = "v", !.type = said]
<1>1. /\ pc = "elem" /\ tok.tok = "STRING" /\ Fits("v")
      /\ heap' = [heap EXCEPT ![arr].elems = Append(@, e), ![arr].kind = "v",
                              ![arr].type = IF first THEN type ELSE @]
      /\ IF first \/ heap[arr].type = type THEN Goto("elemend", Read) ELSE Fail
      /\ UNCHANGED <<stack, curtab, path, lb>>
  BY DEF ElemValue, At
<1>2. Building
  BY <1>1 DEF Building
<1>3. Tree(heap, 0) /\ OneTypes(heap) /\ Typed(heap) /\ stack \in Seq(DOMAIN heap)
  BY <1>2, WhileBuilding DEF IInv, Open
<1>4. arr \in DOMAIN heap /\ heap[arr].sort = "a"
  BY <1>1, InnermostArray
<1>5. IsArr(heap[arr]) /\ heap[arr].kind \in {"none", "v"}
  BY <1>1, <1>3, <1>4 DEF Typed, IsTable, Fits
<1>6. /\ node.kind = "v" /\ node.sort = "a" /\ node.type = said
      /\ node.elems = Append(heap[arr].elems, e)
      /\ e.id = 0 /\ e.word = tok.word
  BY <1>5 DEF IsArr, Elem
<1>7. Replaced(heap', heap, arr, node)
  BY <1>1, <1>4, <1>5 DEF Replaced, IsArr
<1>8. Tree(heap', 0) /\ Kept(heap', heap, arr)
  <2>1. MoreElems(heap', heap, arr, node, e, said)
    BY <1>4, <1>5, <1>6, <1>7 DEF MoreElems
  <2>2. Tree(heap, e.id)
    BY <1>3, <1>6
  <2> HIDE DEF node, e
  <2> QED BY <1>4, <2>1, <2>2, ElemAdded
<1>9. Grown(heap, heap') /\ Selected'
  BY <1>1, <1>8, SelectedGrown DEF IInv, Kept
<1>10. CASE Fail
  <2>1. Goto("error", tok) /\ tok \notin Wishes
    BY <1>1, <1>10, Words DEF Fail
  <2>2. stack' \in Seq(DOMAIN heap') /\ OpenAt("error", stack', heap')
    BY <1>1, <1>3, <1>9, StackKept DEF OpenAt, Outside
  <2> QED BY <1>2, <1>8, <1>9, <2>1, <2>2, GoesOn DEF Places, Over
<1>11. CASE Goto("elemend", Read) /\ (first \/ heap[arr].type = type)
  <2>1. OneType(node)
    <3>1. ASSUME NEW k \in DOMAIN node.elems
          PROVE  valtype(node.elems[k].word) = said
      <4>1. /\ Sequence(heap[arr].elems)
            /\ Len(heap[arr].elems) \in Nat
            /\ DOMAIN heap[arr].elems = 1 .. Len(heap[arr].elems)
        BY <1>5, SequenceFacts DEF IsArr
      <4>2. /\ DOMAIN node.elems = 1 .. Len(heap[arr].elems) + 1
            /\ node.elems[Len(heap[arr].elems) + 1] = e
            /\ \A i \in 1 .. Len(heap[arr].elems) : node.elems[i] = heap[arr].elems[i]
        BY <1>6, <4>1, AppendSequence, SequenceFacts
      <4>3. CASE k = Len(heap[arr].elems) + 1
        BY <1>6, <1>11, <4>2, <4>3
      <4>4. CASE k \in 1 .. Len(heap[arr].elems)
        <5>1. heap[arr].elems # <<>>
          BY <4>1, <4>4, EmptySequence
        <5>2. heap[arr].kind = "v"
          <6>1. ArraySound(heap, heap[arr])
            BY <1>3, <1>4, SoundAt DEF Tree
          <6> QED BY <1>5, <5>1, <6>1 DEF ArraySound
        <5>3. OneType(heap[arr])
          BY <1>3, <1>4 DEF OneTypes
        <5> QED BY <1>4, <4>1, <4>2, <4>4, <5>1, <5>2, <5>3 DEF OneType
      <4> QED BY <3>1, <4>1, <4>2, <4>3, <4>4
    <3> QED BY <1>6, <3>1 DEF OneType
  <2>2. OneTypes(heap')
    BY <1>3, <1>4, <1>7, <1>8, <2>1 DEF OneTypes, Replaced, Kept
  <2>3. OpenAt("elemend", stack, heap)
    BY <1>1 DEF IInv, Open, OpenAt, Outside
  <2>4. stack' \in Seq(DOMAIN heap') /\ OpenAt("elemend", stack', heap')
    BY <1>1, <1>3, <1>9, <2>3, StackKept
  <2> QED BY <1>2, <1>8, <1>9, <1>11, <2>2, <2>4, GoesOn DEF Places, Over
<1> QED BY <1>1, <1>10, <1>11

-----------------------------------------------------------------------------
(* A header goes on to a table of memory.                                  *)
Selects(n, place, wish) ==
  /\ pc = "walk" /\ Goto(place, wish) /\ UNCHANGED <<stack, lb>>
  /\ place \in {"walk", "closed", "close2"} /\ (place = "walk" => wish = tok)
  /\ curtab' = n /\ n \in DOMAIN heap' /\ heap'[n].sort = "t"
  /\ Sequence(path') /\ Len(path') <= PATH_MAX

LEMMA SelectsStep ==
  ASSUME IInv, NEW n, NEW place, NEW wish, Selects(n, place, wish),
         Tree(heap', 0), OneTypes(heap')
  PROVE  IInv'
<1>1. Building /\ tok \notin Wishes /\ stack = <<>>
  BY DEF Selects, Building, IInv, Settled, Open, OpenAt, Outside
<1>2. stack' \in Seq(DOMAIN heap') /\ OpenAt(place, stack', heap')
  BY <1>1, EmptySeq DEF Selects, OpenAt, Outside
<1>3. Selected'
  BY DEF Selects, Selected, IInv
<1>4. /\ place \in Places \ {"freed", "nomemory"}
      /\ place \in Over \union {"walk"} => wish \notin Wishes
  BY <1>1 DEF Selects, Places, Outside, Over
<1> QED BY <1>1, <1>2, <1>3, <1>4, GoesOn DEF Selects

(* A header that names what cannot be it.                                  *)
LEMMA HeaderFails ==
  ASSUME IInv, pc = "walk", Fail, UNCHANGED <<stack, heap, curtab, path, lb>>
  PROVE  IInv'
<1>1. Building /\ tok \notin Wishes /\ Selected'
  BY SelectedKept DEF Building, IInv, Settled
<1> QED BY <1>1, FailStep

LEMMA AtWalk ==
  ASSUME IInv, pc = "walk"
  PROVE  /\ Tree(heap, 0) /\ OneTypes(heap) /\ Typed(heap) /\ Sound(heap)
         /\ curtab \in DOMAIN heap /\ heap[curtab].sort = "t"
         /\ Sequence(path) /\ Len(path) \in Nat /\ Len(path) <= PATH_MAX
BY WhileBuilding, SequenceFacts DEF Building, IInv, Selected

LEMMA WalkStepStep == IInv /\ WalkStep => IInv'
<1> SUFFICES ASSUME IInv, WalkStep PROVE IInv'
  OBVIOUS
<1>1. pc = "walk" /\ Len(path) > 1 /\ UNCHANGED <<stack, lb>>
  BY DEF WalkStep
<1>2. PICK e : e = check_key(curtab, Head(path))
  OBVIOUS
<1>3. /\ Tree(heap, 0) /\ OneTypes(heap) /\ Typed(heap) /\ Sound(heap)
      /\ curtab \in DOMAIN heap /\ heap[curtab].sort = "t"
      /\ Sequence(path) /\ Len(path) \in Nat /\ Len(path) <= PATH_MAX
  BY <1>1, AtWalk
<1>4. \/ e = NoEntry \/ e.sort = "v"
      \/ e.sort \in {"a", "t"} /\ Stands(heap, e.sort, e.id)
  BY <1>2, <1>3, CheckKeyFinds
<1>5. Sequence(Tail(path)) /\ Len(Tail(path)) <= PATH_MAX
  <2>1. Sequence(Tail(path)) /\ Len(Tail(path)) = Len(path) - 1
    BY <1>1, <1>3, TailSequence
  <2> QED BY <1>3, <2>1, PathAssumption
<1>6. CASE e = NoEntry
  <2> DEFINE node == NewTable(TRUE)
  <2>1. NewNode(node) /\ node.sort = "t"
    BY DEF NewNode, NewTable
  <2>2. /\ heap' = WithNode(heap, curtab, Head(path), node)
        /\ curtab' = Len(heap) + 1 /\ path' = Tail(path) /\ Goto("walk", tok)
    <3>1. e.sort = "none"
      BY <1>6 DEF NoEntry, Entry
    <3> QED BY <1>2, <1>6, <3>1 DEF WalkStep
  <2> HIDE DEF node
  <2>3. Tree(heap', 0) /\ NodeCame(heap', heap, node) /\ OneTypes(heap')
    BY <1>3, <2>1, <2>2, WithNodeTree
  <2>4. Selects(Len(heap) + 1, "walk", tok)
    BY <1>1, <1>5, <2>1, <2>2, <2>3 DEF Selects, NodeCame
  <2> QED BY <2>3, <2>4, SelectsStep
<1>7. CASE e # NoEntry /\ e.sort = "t"
  <2>1. curtab' = e.id /\ path' = Tail(path) /\ Goto("walk", tok) /\ UNCHANGED heap
    BY <1>2, <1>7 DEF WalkStep
  <2>2. Selects(e.id, "walk", tok)
    BY <1>1, <1>4, <1>5, <1>7, <2>1 DEF Selects, Stands
  <2> QED BY <1>3, <2>1, <2>2, SelectsStep
<1>8. CASE e # NoEntry /\ e.sort = "a" /\ heap[e.id].kind = "t" /\ heap[e.id].elems # <<>>
  <2> DEFINE elems == heap[e.id].elems
  <2>1. /\ curtab' = Last(elems).id /\ path' = Tail(path) /\ Goto("walk", tok)
        /\ UNCHANGED heap
    BY <1>2, <1>8 DEF WalkStep
  <2>2. e.id \in DOMAIN heap /\ heap[e.id].sort = "a"
    BY <1>4, <1>8 DEF Stands
  <2>3. ArraySound(heap, heap[e.id]) /\ Sequence(elems)
    BY <1>3, <2>2, SoundAt DEF Typed, IsTable, IsArr
  <2>4. Len(elems) \in DOMAIN elems
    <3>1. Len(elems) \in Nat /\ DOMAIN elems = 1 .. Len(elems)
      BY <2>3, SequenceFacts
    <3>2. Len(elems) # 0
      BY <1>8, <2>3, EmptySeq DEF Sequence
    <3> QED BY <3>1, <3>2
  <2>5. Stands(heap, "t", Last(elems).id)
    BY <1>8, <2>3, <2>4 DEF ArraySound, Last
  <2>6. Selects(Last(elems).id, "walk", tok)
    BY <1>1, <1>5, <2>1, <2>5 DEF Selects, Stands
  <2> QED BY <1>3, <2>1, <2>6, SelectsStep
<1>9. CASE /\ e # NoEntry /\ e.sort # "t"
           /\ ~ (e.sort = "a" /\ heap[e.id].kind = "t" /\ heap[e.id].elems # <<>>)
  <2>1. Fail /\ UNCHANGED <<heap, curtab, path>>
    BY <1>2, <1>9 DEF WalkStep
  <2> QED BY <1>1, <2>1, HeaderFails
<1> QED BY <1>6, <1>7, <1>8, <1>9

LEMMA SelectTableStep == IInv /\ SelectTable => IInv'
<1> SUFFICES ASSUME IInv, SelectTable PROVE IInv'
  OBVIOUS
<1>1. pc = "walk" /\ UNCHANGED <<stack, path, lb>>
  BY DEF SelectTable
<1>2. PICK e : e = check_key(curtab, path[1])
  OBVIOUS
<1>3. /\ Tree(heap, 0) /\ OneTypes(heap) /\ Typed(heap) /\ Sound(heap)
      /\ curtab \in DOMAIN heap /\ heap[curtab].sort = "t"
      /\ Sequence(path) /\ Len(path) <= PATH_MAX
  BY <1>1, AtWalk
<1>4. CASE e = NoEntry
  <2> DEFINE node == NewTable(FALSE)
  <2>1. NewNode(node) /\ node.sort = "t"
    BY DEF NewNode, NewTable
  <2>2. /\ heap' = WithNode(heap, curtab, path[1], node)
        /\ curtab' = Len(heap) + 1 /\ Goto("closed", Read)
    BY <1>2, <1>4 DEF SelectTable, Implicit, NoEntry, Entry
  <2> HIDE DEF node
  <2>3. Tree(heap', 0) /\ NodeCame(heap', heap, node) /\ OneTypes(heap')
    BY <1>3, <2>1, <2>2, WithNodeTree
  <2>4. Selects(Len(heap) + 1, "closed", Read)
    BY <1>1, <1>3, <2>1, <2>2, <2>3 DEF Selects, NodeCame
  <2> QED BY <2>3, <2>4, SelectsStep
<1>5. CASE e # NoEntry /\ Implicit(e)
  <2>1. /\ heap' = [heap EXCEPT ![e.id].implicit = FALSE]
        /\ curtab' = e.id /\ Goto("closed", Read)
    BY <1>2, <1>5 DEF SelectTable
  <2>2. e.id \in DOMAIN heap /\ heap[e.id].sort = "t"
    BY <1>2, <1>3, <1>5, CheckKeyFinds DEF Implicit, Stands
  <2>3. Tree(heap', 0) /\ Grown(heap, heap') /\ OneTypes(heap')
    BY <1>3, <2>1, <2>2, Explicit
  <2>4. Selects(e.id, "closed", Read)
    BY <1>1, <1>3, <2>1, <2>2, <2>3 DEF Selects, Grown
  <2> QED BY <2>3, <2>4, SelectsStep
<1>6. CASE e # NoEntry /\ ~ Implicit(e)
  <2>1. Fail /\ UNCHANGED <<heap, curtab>>
    BY <1>2, <1>6 DEF SelectTable
  <2> QED BY <1>1, <2>1, HeaderFails
<1> QED BY <1>4, <1>5, <1>6

LEMMA SelectArrayStep == IInv /\ SelectArray => IInv'
<1> SUFFICES ASSUME IInv, SelectArray PROVE IInv'
  OBVIOUS
<1> DEFINE arr == NewArray("t")
           tab == NewTable(FALSE)
<1>1. pc = "walk" /\ UNCHANGED <<stack, path, lb>>
  BY DEF SelectArray
<1>2. PICK e : e = check_key(curtab, path[1])
  OBVIOUS
<1>3. /\ Tree(heap, 0) /\ OneTypes(heap) /\ Typed(heap) /\ Sound(heap)
      /\ curtab \in DOMAIN heap /\ heap[curtab].sort = "t"
      /\ Sequence(path) /\ Len(path) <= PATH_MAX
  BY <1>1, AtWalk
<1>4. NewNode(arr) /\ arr.sort = "a" /\ arr.kind = "t" /\ NewNode(tab) /\ tab.sort = "t"
  BY DEF NewNode, NewArray, NewTable
<1>5. CASE e = NoEntry
  <2>1. /\ heap' = WithElem(WithNode(heap, curtab, path[1], arr), Len(heap) + 1, tab)
        /\ curtab' = Len(heap) + 2 /\ Goto("close2", Read)
    BY <1>2, <1>5 DEF SelectArray, NoEntry, Entry
  <2>2. PICK h : h = WithNode(heap, curtab, path[1], arr)
    OBVIOUS
  <2>3. heap' = WithElem(h, Len(heap) + 1, tab)
    BY <2>1, <2>2
  <2> HIDE DEF arr, tab
  <2>4. /\ Tree(h, 0) /\ NodeCame(h, heap, arr) /\ OneTypes(h)
        /\ Len(h) = Len(heap) + 1
    BY <1>3, <1>4, <2>2, WithNodeTree
  <2>5. Len(heap) + 1 \in DOMAIN h /\ h[Len(heap) + 1] = arr
    BY <2>4 DEF NodeCame
  <2>6. h[Len(heap) + 1].sort = "a" /\ h[Len(heap) + 1].kind \in {"none", tab.sort}
    BY <1>4, <2>5
  <2>7. Tree(heap', 0) /\ NodeCame(heap', h, tab) /\ OneTypes(heap')
    BY <1>4, <2>3, <2>4, <2>5, <2>6, WithElemTree
  <2>8. Len(h) + 1 = Len(heap) + 2
    BY <1>3, <2>4, HeapDomain
  <2>9. Selects(Len(heap) + 2, "close2", Read)
    BY <1>1, <1>3, <1>4, <2>1, <2>7, <2>8 DEF Selects, NodeCame
  <2> QED BY <2>7, <2>9, SelectsStep
<1>6. CASE e # NoEntry /\ e.sort = "a" /\ heap[e.id].kind \in {"none", "t"}
  <2>1. /\ heap' = WithElem(heap, e.id, tab)
        /\ curtab' = Len(heap) + 1 /\ Goto("close2", Read)
    BY <1>2, <1>6 DEF SelectArray
  <2>2. e.id \in DOMAIN heap /\ heap[e.id].sort = "a"
    BY <1>2, <1>3, <1>6, CheckKeyFinds DEF Stands
  <2> HIDE DEF tab
  <2>3. heap[e.id].kind \in {"none", tab.sort}
    BY <1>4, <1>6
  <2>4. Tree(heap', 0) /\ NodeCame(heap', heap, tab) /\ OneTypes(heap')
    BY <1>3, <1>4, <2>1, <2>2, <2>3, WithElemTree
  <2>5. Selects(Len(heap) + 1, "close2", Read)
    BY <1>1, <1>3, <1>4, <2>1, <2>4 DEF Selects, NodeCame
  <2> QED BY <2>4, <2>5, SelectsStep
<1>7. CASE e # NoEntry /\ ~ (e.sort = "a" /\ heap[e.id].kind \in {"none", "t"})
  <2>1. Fail /\ UNCHANGED <<heap, curtab>>
    BY <1>2, <1>7 DEF SelectArray
  <2> QED BY <1>1, <2>1, HeaderFails
<1> QED BY <1>5, <1>6, <1>7

-----------------------------------------------------------------------------
(* Memory runs out: the table that was allocated last may be in no other.  *)
LEMMA LostTree ==
  ASSUME IInv, pc = "walk", heap' \in Lost
  PROVE  Grown(heap, heap') /\ \E c \in Nat : Tree(heap', c)
<1> DEFINE e == check_key(curtab, path[1])
<1>1. /\ Tree(heap, 0) /\ OneTypes(heap) /\ Typed(heap)
      /\ curtab \in DOMAIN heap /\ heap[curtab].sort = "t"
  BY AtWalk
<1>2. ASSUME NEW h, Tree(h, 0), Grown(heap, h), NEW b, heap' = Append(h, NewTable(b))
      PROVE  Grown(heap, heap') /\ \E c \in Nat : Tree(heap', c)
  <2> DEFINE node == NewTable(b)
  <2>1. NewNode(node)
    BY DEF NewNode
  <2>2. Appended(heap', h, node)
    BY <1>2 DEF Appended
  <2> HIDE DEF node
  <2>3. /\ IsTable(node) \/ IsArr(node)
        /\ Members(node) = <<>>
        /\ node.sort = "a" => node.kind \in {"none", "t"}
    BY <2>1, NewNodeTyped
  <2>4. Tree(heap', Len(h) + 1) /\ Grown(h, heap')
    BY <1>2, <2>2, <2>3, NodeMade, Zenon
  <2>5. Len(h) + 1 \in Nat
    BY <1>2, HeapDomain DEF Tree
  <2> QED BY <1>2, <2>4, <2>5 DEF Grown
<1>3. ASSUME NEW h, Tree(h, 0), Grown(heap, h), heap' = h \/ heap' = Append(h, NewTable(FALSE))
      PROVE  Grown(heap, heap') /\ \E c \in Nat : Tree(heap', c)
  BY <1>2, <1>3
<1>4. Grown(heap, heap)
  BY DEF Grown
<1>5. CASE Len(path) > 1
  <2>1. heap' = Append(heap, NewTable(TRUE))
    BY <1>5 DEF Lost
  <2> QED BY <1>1, <1>2, <1>4, <2>1
<1>6. CASE ~ (Len(path) > 1)
  <2> DEFINE arr == NewArray("t")
  <2>1. PICK h : /\ heap' = h \/ heap' = Append(h, NewTable(FALSE))
                 /\ h = heap \/ h = WithNode(heap, curtab, path[1], arr)
    BY <1>6 DEF Lost
  <2>2. NewNode(arr)
    BY DEF NewNode
  <2> HIDE DEF arr
  <2>3. Tree(h, 0) /\ Grown(heap, h)
    <3>1. CASE h = heap
      BY <1>1, <1>4, <3>1
    <3>2. CASE h = WithNode(heap, curtab, path[1], arr)
      <4>1. Tree(h, 0) /\ NodeCame(h, heap, arr)
        BY <1>1, <2>2, <3>2, WithNodeTree
      <4> QED BY <4>1 DEF NodeCame
    <3> QED BY <2>1, <3>1, <3>2
  <2> QED BY <1>3, <2>1, <2>3
<1> QED BY <1>5, <1>6

LEMMA OutOfMemoryStep == IInv /\ OutOfMemory => IInv'
<1> SUFFICES ASSUME IInv, OutOfMemory PROVE IInv'
  OBVIOUS
<1>1. /\ pc' = "nomemory" /\ UNCHANGED <<tok, stack, curtab, path, lb, result>>
      /\ heap' = heap \/ (pc = "walk" /\ heap' \in Lost)
  BY DEF OutOfMemory
<1>2. Building /\ tok \notin Wishes
  <2>1. CASE pc \in {"value", "elem", "path"} /\ tok.tok \in Expected[pc]
    <3>1. tok.tok \notin {"READ", "READDOT"}
      BY <2>1 DEF Expected
    <3> QED BY <2>1, <3>1, Words DEF Building
  <2>2. CASE pc = "walk"
    BY <2>2 DEF Building, IInv, Settled
  <2> QED BY <2>1, <2>2 DEF OutOfMemory
<1>3. Grown(heap, heap') /\ \E c \in Nat : Tree(heap', c)
  <2>1. CASE heap' = heap
    BY <1>2, <2>1, WhileBuilding DEF Grown
  <2>2. CASE pc = "walk" /\ heap' \in Lost
    BY <2>2, LostTree
  <2> QED BY <1>1, <2>1, <2>2
<1>4. Settled'
  <2>1. result' \in {"none", "document", "error"}
    BY <1>1, <1>2, WhileBuilding
  <2> QED BY <1>1, <1>2, <2>1 DEF Settled, Places, Over
<1>5. Open'
  <2>1. stack' \in Seq(DOMAIN heap')
    BY <1>1, <1>3, StackKept DEF IInv, Open
  <2> QED BY <1>1, <2>1 DEF Open, OpenAt, Outside
<1>6. Selected'
  BY <1>1, <1>3, SelectedGrown DEF IInv
<1>7. TreeInv'
  <2>1. Losing'
    BY <1>1 DEF Losing
  <2>2. PICK c \in Nat : Tree(heap', c)
    BY <1>3
  <2>3. Tree(heap', IF Losing' THEN c ELSE 0)
    BY <2>1, <2>2
  <2> QED BY <2>3 DEF TreeInv
<1>8. ~ Building'
  BY <1>1 DEF Building
<1> QED BY <1>4, <1>5, <1>6, <1>7, <1>8 DEF IInv

LEMMA FreeStep == IInv /\ Free => IInv'
<1> SUFFICES ASSUME IInv, Free PROVE IInv'
  OBVIOUS
<1>1. /\ pc \in {"error", "nomemory", "done"} /\ pc' = "freed"
      /\ UNCHANGED <<tok, stack, heap, curtab, path, lb>>
      /\ result' = CASE pc = "error" -> "error" [] pc = "nomemory" -> "nomemory"
                     [] OTHER -> result
  BY DEF Free, parsing
<1>2. result \in {"none", "document", "error"} /\ tok \notin Wishes
  BY <1>1 DEF IInv, Settled, Over
<1>3. Losing' <=> Losing
  BY <1>1, <1>2 DEF Losing
<1>4. Settled'
  BY <1>1, <1>2 DEF Settled, Places, Over
<1>5. Open' /\ Selected'
  BY <1>1, SelectedKept DEF IInv, Open, OpenAt, Outside
<1>6. TreeInv'
  <2>1. PICK c \in Nat : Tree(heap, IF Losing THEN c ELSE 0)
    BY DEF IInv, TreeInv
  <2>2. Tree(heap', IF Losing' THEN c ELSE 0)
    BY <1>1, <1>3, <2>1
  <2> QED BY <2>2 DEF TreeInv
<1>7. ~ Building'
  BY <1>1 DEF Building
<1> QED BY <1>4, <1>5, <1>6, <1>7 DEF IInv

-----------------------------------------------------------------------------
LEMMA InitInv == Init => IInv
<1> SUFFICES ASSUME Init PROVE IInv
  OBVIOUS
<1> DEFINE node == NewTable(FALSE)
<1>1. /\ pc = "line" /\ stack = <<>> /\ heap = <<node>> /\ curtab = ROOT /\ path = <<>>
      /\ lb = 0 /\ result = "none" /\ tok = Token("NEWLINE", <<>>, FALSE)
  BY DEF Init
<1>2. node.sort = "t" /\ IsTable(node) /\ Members(node) = <<>> /\ node.entries = <<>>
  BY EmptySequence DEF NewTable, IsTable, Members
<1> HIDE DEF node
<1>3. heap = Append(<<>>, node) /\ DOMAIN heap = {ROOT} /\ heap[ROOT] = node
  BY <1>1 DEF ROOT
<1>4. Sequence(heap)
  BY <1>3, EmptySequence, AppendSequence
<1>5. DOMAIN <<>> = {}
  BY EmptySequence, SequenceFacts
<1>6. Tree(heap, 0)
  <2>1. Typed(heap)
    BY <1>2, <1>3, <1>4 DEF Typed
  <2>2. Sound(heap)
    BY <1>2, <1>3, <1>5 DEF Sound, TableSound
  <2>3. OneParent(heap)
    BY <1>2, <1>3, <1>5 DEF OneParent
  <2>4. Reached(heap, 0)
    BY <1>3 DEF Reached
  <2> QED BY <2>1, <2>2, <2>3, <2>4 DEF Tree
<1>7. TreeInv
  <2>1. Tree(heap, IF Losing THEN 0 ELSE 0)
    BY <1>6
  <2> QED BY <2>1 DEF TreeInv
<1>8. OneTypes(heap)
  BY <1>2, <1>3 DEF OneTypes, OneType
<1>9. Settled
  BY <1>1 DEF Settled, Places, Outside, Over
<1>10. Open
  BY <1>1, EmptySeq DEF Open, OpenAt, Outside
<1>11. Selected
  BY <1>1, <1>2, <1>3, EmptySequence, PathAssumption DEF Selected
<1> QED BY <1>7, <1>8, <1>9, <1>10, <1>11 DEF IInv

LEMMA Stuttering == IInv /\ UNCHANGED vars => IInv'
<1> SUFFICES ASSUME IInv, UNCHANGED vars PROVE IInv'
  OBVIOUS
<1>1. UNCHANGED <<tok, pc, stack, heap, curtab, path, lb, result>>
  BY DEF vars
<1>2. Settled' /\ Open' /\ Selected' /\ (Losing' <=> Losing) /\ (Building' <=> Building)
  BY <1>1, SelectedKept DEF IInv, Settled, Open, Losing, Building
<1>3. TreeInv'
  <2>1. PICK c \in Nat : Tree(heap, IF Losing THEN c ELSE 0)
    BY DEF IInv, TreeInv
  <2>2. Tree(heap', IF Losing' THEN c ELSE 0)
    BY <1>1, <1>2, <2>1
  <2> QED BY <2>2 DEF TreeInv
<1> QED BY <1>1, <1>2, <1>3 DEF IInv

(* The memory of the parser is a tree at every step: no table or array is  *)
(* in two places, and what a place says of its sort is true.               *)
THEOREM Invariance == Spec => []IInv
<1>1. Init => IInv
  BY InitInv
<1>2. IInv /\ [Next]_vars => IInv'
  BY NextTokenStep, ErrorSteps, FinishStep, EmptyLineStep, SkipNewlineStep, PairStep,
     EqualStep, ValueStep, ArrayValueStep, TableValueStep, EndOfLineStep, CommaStep,
     CloseStep, ElemValueStep, ElemNodeStep, HeaderStep, SecondBracketStep, PathKeyStep,
     PathSepStep, WalkStepStep, SelectTableStep, SelectArrayStep, CloseHeaderStep,
     OutOfMemoryStep, FreeStep, Stuttering, Zenon DEF Next
<1> QED BY <1>1, <1>2, PTL DEF Spec

(* The parser's variables are of their types; while it reads, all elements *)
(* of an array are of one kind and its values of one type, as              *)
(* toml_array_kind and toml_array_type tell the caller.                    *)
THEOREM TypeCorrect == Spec => []TypeOK
<1>1. IInv => TypeOK
  <2> SUFFICES ASSUME IInv PROVE TypeOK
    OBVIOUS
  <2>1. Range(stack) \subseteq DOMAIN heap
    BY RangeOfSeq DEF IInv, Open
  <2>2. Building => \A n \in DOMAIN heap :
          IF heap[n].sort = "a" THEN Uniform(heap[n])
          ELSE \A k \in DOMAIN heap[n].entries :
                 LET e == heap[n].entries[k]
                 IN e.sort # "v" => heap[e.id].sort = e.sort
    <3> SUFFICES ASSUME Building, NEW n \in DOMAIN heap
                 PROVE  IF heap[n].sort = "a" THEN Uniform(heap[n])
                        ELSE \A k \in DOMAIN heap[n].entries :
                               LET e == heap[n].entries[k]
                               IN e.sort # "v" => heap[e.id].sort = e.sort
      OBVIOUS
    <3>1. Typed(heap) /\ Sound(heap) /\ OneType(heap[n])
      BY WhileBuilding DEF OneTypes
    <3>2. CASE heap[n].sort = "a"
      <4>1. ArraySound(heap, heap[n])
        BY <3>1, <3>2, SoundAt, Zenon
      <4> QED BY <3>1, <3>2, <4>1 DEF ArraySound, OneType, Uniform, Stands
    <3>3. CASE heap[n].sort # "a"
      <4>1. TableSound(heap, heap[n])
        BY <3>1, <3>3, HeapDomain, SoundAt
      <4> QED BY <3>3, <4>1 DEF TableSound, Stands
    <3> QED BY <3>2, <3>3
  <2> QED BY <2>1, <2>2 DEF IInv, Selected, Settled, TypeOK
<1> QED BY <1>1, Invariance, PTL

(* What toml_free has to go through is a tree: every table and array but   *)
(* the root is in exactly one other, which is older than it, and only      *)
(* where memory ran out is there one that is in none.                      *)
TreeShaped ==
  /\ OneParent(heap)
  /\ \E c \in Nat : Reached(heap, c) /\ (c # 0 => Losing)

THEOREM TreeShape == Spec => []TreeShaped
<1>1. IInv => TreeShaped
  BY DEF IInv, TreeInv, Tree, TreeShaped
<1> QED BY <1>1, Invariance, PTL

-----------------------------------------------------------------------------
(* What a step does to the entries of the tables: a table keeps those it   *)
(* has and gets one more at most, under a key that it has not; and a table *)
(* that is new has none.  An array keeps its elements, and the kind that   *)
(* they are of.                                                            *)
Fresh(entries, k) == \A i \in DOMAIN entries : entries[i].key # k
Gets(entries, more) ==
  more = entries \/ \E e : Fresh(entries, e.key) /\ more = Append(entries, e)

Longer(old, new) ==
  /\ \A k \in DOMAIN old.elems : k \in DOMAIN new.elems /\ new.elems[k] = old.elems[k]
  /\ DOMAIN old.elems # {} => new.kind = old.kind
ArraysStay(h, g) == \A n \in DOMAIN h : h[n].sort = "a" => Longer(h[n], g[n])

Adds(g, h) ==
  /\ Grown(h, g) /\ ArraysStay(h, g)
  /\ \A n \in DOMAIN g :
       g[n].sort = "t" => IF n \in DOMAIN h THEN Gets(h[n].entries, g[n].entries)
                          ELSE g[n].entries = <<>>
SameEntries(g, h) ==
  /\ Grown(h, g) /\ ArraysStay(h, g)
  /\ \A n \in DOMAIN g :
       g[n].sort = "t" => IF n \in DOMAIN h THEN g[n].entries = h[n].entries
                          ELSE g[n].entries = <<>>

LEMMA SameAdds ==
  ASSUME NEW h, NEW g, SameEntries(g, h)
  PROVE  Adds(g, h)
BY DEF SameEntries, Adds, Gets

LEMMA SameArray ==
  ASSUME NEW node
  PROVE  Longer(node, node)
BY DEF Longer

LEMMA LongerThen ==
  ASSUME NEW old, NEW mid, NEW new, Longer(old, mid), Longer(mid, new)
  PROVE  Longer(old, new)
BY DEF Longer

LEMMA AddsThenSame ==
  ASSUME NEW h, NEW m, NEW g, Adds(m, h), SameEntries(g, m)
  PROVE  Adds(g, h)
<1>1. ArraysStay(h, g)
  <2> SUFFICES ASSUME NEW n \in DOMAIN h, h[n].sort = "a" PROVE Longer(h[n], g[n])
    BY DEF ArraysStay
  <2>1. n \in DOMAIN m /\ m[n].sort = "a" /\ Longer(h[n], m[n])
    BY DEF Adds, ArraysStay, Grown
  <2>2. Longer(m[n], g[n])
    BY <2>1 DEF SameEntries, ArraysStay
  <2> QED BY <2>1, <2>2, LongerThen
<1> QED BY <1>1 DEF SameEntries, Adds, Grown

LEMMA SameThenSame ==
  ASSUME NEW h, NEW m, NEW g, SameEntries(m, h), SameEntries(g, m), DOMAIN m = DOMAIN h
  PROVE  SameEntries(g, h)
<1>1. Adds(g, h)
  BY SameAdds, AddsThenSame
<1>2. \A n \in DOMAIN g :
        g[n].sort = "t" => IF n \in DOMAIN h THEN g[n].entries = h[n].entries
                           ELSE g[n].entries = <<>>
  BY DEF SameEntries, Grown
<1> QED BY <1>1, <1>2 DEF Adds, SameEntries

LEMMA Unchanged ==
  ASSUME NEW h
  PROVE  SameEntries(h, h)
BY SameArray DEF SameEntries, Grown, ArraysStay

(* The two ways to get a heap from another, for the tables in it.          *)
LEMMA NodeBehind ==
  ASSUME NEW h, Sequence(h), NEW node, NEW g, g = Append(h, node)
  PROVE  /\ DOMAIN g = DOMAIN h \union {Len(h) + 1} /\ Len(h) + 1 \notin DOMAIN h
         /\ g[Len(h) + 1] = node /\ \A n \in DOMAIN h : g[n] = h[n]
         /\ Sequence(g)
<1>1. Len(h) \in Nat /\ DOMAIN h = 1 .. Len(h)
  BY SequenceFacts
<1>2. /\ Sequence(g) /\ Len(g) = Len(h) + 1 /\ g[Len(h) + 1] = node
      /\ \A i \in 1 .. Len(h) : g[i] = h[i]
  BY AppendSequence
<1>3. DOMAIN g = 1 .. Len(h) + 1
  BY <1>2, SequenceFacts
<1> QED BY <1>1, <1>2, <1>3

LEMMA NewNodeAdds ==
  ASSUME NEW h, Sequence(h), NEW node, node.sort = "t" => node.entries = <<>>,
         NEW g, g = Append(h, node)
  PROVE  SameEntries(g, h)
BY NodeBehind, SameArray DEF SameEntries, Grown, ArraysStay

LEMMA EntryAdds ==
  ASSUME NEW h, NEW tab \in DOMAIN h, IsTable(h[tab]),
         NEW e, Fresh(h[tab].entries, e.key),
         NEW g, g = [h EXCEPT ![tab].entries = Append(@, e)]
  PROVE  Adds(g, h)
<1>1. /\ DOMAIN g = DOMAIN h /\ g[tab] = [h[tab] EXCEPT !.entries = Append(@, e)]
      /\ \A n \in DOMAIN h : n # tab => g[n] = h[n]
  OBVIOUS
<1>2. /\ g[tab].entries = Append(h[tab].entries, e) /\ g[tab].sort = h[tab].sort
      /\ h[tab].sort = "t"
  BY <1>1 DEF IsTable
<1>3. ArraysStay(h, g)
  BY <1>1, <1>2, SameArray DEF ArraysStay
<1> QED BY <1>1, <1>2, <1>3 DEF Adds, Gets, Grown

LEMMA ArrayAdds ==
  ASSUME NEW h, NEW arr \in DOMAIN h, h[arr].sort = "a",
         NEW node, node.sort = "a", Longer(h[arr], node), NEW g, g = [h EXCEPT ![arr] = node]
  PROVE  SameEntries(g, h)
BY SameArray DEF SameEntries, Grown, ArraysStay

(* What check_key does not find is not there.                              *)
LEMMA CheckKeyMisses ==
  ASSUME Typed(heap), Sound(heap), NEW tab \in DOMAIN heap, heap[tab].sort = "t",
         NEW k, check_key(tab, k) = NoEntry
  PROVE  Fresh(heap[tab].entries, k)
<1> DEFINE entries == heap[tab].entries
<1>1. Sequence(entries) /\ TableSound(heap, heap[tab])
  BY SoundAt DEF Typed, IsTable, IsArr
<1>2. DOMAIN entries \subseteq Nat
  BY <1>1, SequenceFacts
<1>3. \A n \in DOMAIN entries : entries[n].sort \in {"v", "a", "t"}
  BY <1>1 DEF TableSound
<1>4. ASSUME NEW found \in SUBSET DOMAIN entries, AtFirst(tab, found) = NoEntry
      PROVE  found = {}
  <2> SUFFICES ASSUME found # {} PROVE FALSE
    OBVIOUS
  <2>1. Min(found) \in DOMAIN entries
    BY <1>2, MinIn
  <2>2. entries[Min(found)].sort = "none"
    BY <1>4 DEF AtFirst, NoEntry, Entry
  <2> QED BY <1>3, <2>1, <2>2
<1>5. \A sort : Hits(tab, k, sort) \in SUBSET DOMAIN entries
  BY DEF Hits
<1>6. Hits(tab, k, "v") = {} /\ Hits(tab, k, "a") = {} /\ Hits(tab, k, "t") = {}
  BY <1>4, <1>5 DEF check_key
<1> QED BY <1>3, <1>6 DEF Fresh, Hits


(* The steps that give a table an entry, find it there, or give an array   *)
(* an element.                                                             *)
LEMMA WithNodeAdds ==
  ASSUME NEW h, Typed(h), NEW tab \in DOMAIN h, h[tab].sort = "t",
         NEW k, Fresh(h[tab].entries, k), NEW node, NewNode(node),
         NEW g, g = WithNode(h, tab, k, node)
  PROVE  Adds(g, h)
<1>1. PICK e : e = Entry(k, node.sort, <<>>, Len(h) + 1)
  OBVIOUS
<1>2. PICK m : m = [h EXCEPT ![tab].entries = Append(@, e)]
  OBVIOUS
<1>3. g = Append(m, node)
  BY <1>1, <1>2 DEF WithNode
<1>4. e.key = k
  BY <1>1 DEF Entry
<1>5. IsTable(h[tab])
  BY DEF Typed, IsArr
<1>6. Adds(m, h)
  BY <1>2, <1>4, <1>5, EntryAdds
<1>7. Sequence(m)
  <2>1. Replaced(m, h, tab, [h[tab] EXCEPT !.entries = Append(@, e)])
    BY <1>2 DEF Replaced
  <2> QED BY <2>1, UpdateSequence DEF Typed
<1>8. node.sort = "t" => node.entries = <<>>
  BY DEF NewNode, NewTable, NewArray
<1>9. SameEntries(g, m)
  BY <1>3, <1>7, <1>8, NewNodeAdds
<1> QED BY <1>6, <1>9, AddsThenSame

(* An array that is filled: its kind fits what it has.                     *)
LEMMA FilledLonger ==
  ASSUME NEW h, Sound(h), NEW arr \in DOMAIN h, IsArr(h[arr]),
         NEW node, NEW e, node.elems = Append(h[arr].elems, e),
         h[arr].kind \in {"none", node.kind}
  PROVE  Longer(h[arr], node)
<1>1. ArraySound(h, h[arr]) /\ Sequence(h[arr].elems)
  BY SoundAt DEF IsArr
<1>2. \A k \in DOMAIN h[arr].elems : k \in DOMAIN node.elems /\ node.elems[k] = h[arr].elems[k]
  BY <1>1, NodeBehind
<1>3. DOMAIN h[arr].elems # {} => node.kind = h[arr].kind
  BY <1>1, EmptySequence, SequenceFacts DEF ArraySound
<1> QED BY <1>2, <1>3 DEF Longer

LEMMA WithElemAdds ==
  ASSUME NEW h, Typed(h), Sound(h), NEW arr \in DOMAIN h, h[arr].sort = "a",
         NEW node, NewNode(node), h[arr].kind \in {"none", node.sort},
         NEW g, g = WithElem(h, arr, node)
  PROVE  SameEntries(g, h)
<1> DEFINE filled == [h[arr] EXCEPT !.elems = Append(@, Elem(<<>>, Len(h) + 1)), !.kind = node.sort]
<1>1. PICK m : m = [h EXCEPT ![arr] = filled]
  OBVIOUS
<1>2. IsArr(h[arr])
  BY DEF Typed, IsTable
<1>3. /\ filled.sort = "a" /\ filled.kind = node.sort
      /\ filled.elems = Append(h[arr].elems, Elem(<<>>, Len(h) + 1))
  BY <1>2 DEF IsArr
<1>4. g = Append(m, node)
  BY <1>1 DEF WithElem
<1> HIDE DEF filled
<1>5. SameEntries(m, h)
  <2>1. Longer(h[arr], filled)
    BY <1>2, <1>3, FilledLonger
  <2> QED BY <1>1, <1>3, <2>1, ArrayAdds
<1>6. Sequence(m) /\ DOMAIN m = DOMAIN h
  BY <1>1, UpdateSequence DEF Replaced, Typed
<1>7. node.sort = "t" => node.entries = <<>>
  BY DEF NewNode, NewTable, NewArray
<1>8. SameEntries(g, m)
  BY <1>4, <1>6, <1>7, NewNodeAdds
<1> QED BY <1>5, <1>6, <1>8, SameAdds, SameThenSame

LEMMA ExplicitAdds ==
  ASSUME NEW h, NEW n \in DOMAIN h, IsTable(h[n]), NEW g, g = [h EXCEPT ![n].implicit = FALSE]
  PROVE  SameEntries(g, h)
<1>1. /\ g[n].entries = h[n].entries /\ g[n].sort = h[n].sort /\ h[n].sort = "t"
      /\ \A m \in DOMAIN h : m # n => g[m] = h[m]
  BY DEF IsTable
<1>2. ArraysStay(h, g)
  BY <1>1, SameArray DEF ArraysStay
<1> QED BY <1>1, <1>2 DEF SameEntries, Grown

(* The actions that change memory.                                         *)
LEMMA ValueAdds ==
  ASSUME IInv, Value \/ ArrayValue \/ TableValue
  PROVE  Adds(heap', heap)
<1>1. pc = "value"
  BY DEF Value, ArrayValue, TableValue, At
<1>2. Typed(heap) /\ Sound(heap)
  BY <1>1, WhileBuilding DEF Building
<1>3. Target \in DOMAIN heap /\ heap[Target].sort = "t"
  BY <1>1, TargetTable
<1>4. \A k : check_key(Target, k) = NoEntry => Fresh(heap[Target].entries, k)
  BY <1>2, <1>3, CheckKeyMisses
<1>5. ASSUME NEW k, NEW node, NewNode(node), check_key(Target, k) = NoEntry,
             heap' = WithNode(heap, Target, k, node)
      PROVE  Adds(heap', heap)
  BY <1>2, <1>3, <1>4, <1>5, WithNodeAdds
<1>6. CASE Value
  <2>1. PICK k : check_key(Target, k) = NoEntry /\ heap' = WithValue(heap, Target, k, tok.word)
    BY <1>6 DEF Value
  <2>2. PICK e : e = Entry(k, "v", tok.word, 0)
    OBVIOUS
  <2>3. heap' = [heap EXCEPT ![Target].entries = Append(@, e)] /\ e.key = k
    BY <2>1, <2>2 DEF WithValue, Entry
  <2>4. IsTable(heap[Target])
    BY <1>2, <1>3 DEF Typed, IsArr
  <2> QED BY <1>3, <1>4, <2>1, <2>3, <2>4, EntryAdds
<1>7. CASE ArrayValue
  <2>1. NewNode(NewArray("none"))
    BY DEF NewNode
  <2> QED BY <1>5, <1>7, <2>1 DEF ArrayValue
<1>8. CASE TableValue
  <2>1. NewNode(NewTable(FALSE))
    BY DEF NewNode
  <2>2. PICK k, e : /\ e = check_key(Target, k)
                    /\ \/ e = NoEntry /\ heap' = WithNode(heap, Target, k, NewTable(FALSE))
                       \/ Implicit(e) /\ heap' = [heap EXCEPT ![e.id].implicit = FALSE]
    BY <1>8 DEF TableValue
  <2>3. CASE Implicit(e) /\ heap' = [heap EXCEPT ![e.id].implicit = FALSE]
    <3>1. e.id \in DOMAIN heap /\ heap[e.id].sort = "t"
      BY <1>2, <1>3, <2>2, <2>3, CheckKeyFinds DEF Implicit, Stands, NoEntry, Entry
    <3>2. IsTable(heap[e.id])
      BY <1>2, <3>1 DEF Typed, IsArr
    <3> QED BY <2>3, <3>1, <3>2, ExplicitAdds, SameAdds
  <2> QED BY <1>5, <2>1, <2>2, <2>3
<1> QED BY <1>6, <1>7, <1>8

LEMMA ElemAdds ==
  ASSUME IInv, ElemValue \/ ElemNode
  PROVE  Adds(heap', heap)
<1> DEFINE arr == Last(stack)
<1>1. pc = "elem"
  BY DEF ElemValue, ElemNode, At
<1>2. Typed(heap) /\ Sound(heap) /\ arr \in DOMAIN heap /\ heap[arr].sort = "a"
  BY <1>1, InnermostArray, WhileBuilding DEF Building
<1>3. IsArr(heap[arr])
  BY <1>2 DEF Typed, IsTable
<1>4. CASE ElemValue
  <2> DEFINE said == IF heap[arr].elems = <<>> THEN valtype(tok.word) ELSE heap[arr].type
             node == [heap[arr] EXCEPT !.elems = Append(@, Elem(tok.word, 0)), !.kind = "v",
                                       !.type = said]
  <2>1. heap' = [heap EXCEPT ![arr] = node]
    BY <1>2, <1>3, <1>4 DEF ElemValue, IsArr
  <2>2. /\ node.sort = "a" /\ node.kind = "v"
        /\ node.elems = Append(heap[arr].elems, Elem(tok.word, 0))
    BY <1>2, <1>3 DEF IsArr
  <2>3. heap[arr].kind \in {"none", "v"}
    BY <1>4 DEF ElemValue, Fits
  <2> HIDE DEF node
  <2>4. Longer(heap[arr], node)
    BY <1>2, <1>3, <2>2, <2>3, FilledLonger
  <2> QED BY <1>2, <2>1, <2>2, <2>4, ArrayAdds, SameAdds
<1>5. CASE ElemNode
  <2>1. PICK node : /\ NewNode(node) /\ heap' = WithElem(heap, arr, node)
                    /\ heap[arr].kind \in {"none", node.sort}
    <3>1. NewNode(NewArray("none")) /\ NewNode(NewTable(FALSE))
      BY DEF NewNode
    <3>2. NewArray("none").sort = "a" /\ NewTable(FALSE).sort = "t"
      BY DEF NewArray, NewTable
    <3>3. ElemKind \in {"a", "t"}
      BY <1>5 DEF ElemNode, At, ElemKind
    <3> QED BY <1>5, <3>1, <3>2, <3>3 DEF ElemNode, Fits
  <2> QED BY <1>2, <2>1, WithElemAdds, SameAdds
<1> QED BY <1>4, <1>5

LEMMA HeaderAdds ==
  ASSUME IInv, WalkStep \/ SelectTable \/ SelectArray
  PROVE  Adds(heap', heap)
<1>1. pc = "walk" /\ Adds(heap, heap)
  BY Unchanged, SameAdds DEF WalkStep, SelectTable, SelectArray
<1>2. /\ Tree(heap, 0) /\ Typed(heap) /\ Sound(heap)
      /\ curtab \in DOMAIN heap /\ heap[curtab].sort = "t"
  BY <1>1, AtWalk
<1>3. ASSUME NEW k, NEW node, NewNode(node), check_key(curtab, k) = NoEntry
      PROVE  Adds(WithNode(heap, curtab, k, node), heap)
  BY <1>2, <1>3, CheckKeyMisses, WithNodeAdds
<1>4. NewNode(NewTable(TRUE)) /\ NewNode(NewTable(FALSE)) /\ NewNode(NewArray("t"))
  BY DEF NewNode
<1>5. CASE WalkStep
  <2>1. \/ heap' = heap
        \/ /\ check_key(curtab, Head(path)) = NoEntry
           /\ heap' = WithNode(heap, curtab, Head(path), NewTable(TRUE))
    BY <1>5 DEF WalkStep
  <2> QED BY <1>1, <1>3, <1>4, <2>1
<1>6. CASE SelectTable
  <2>1. PICK e : e = check_key(curtab, path[1])
    OBVIOUS
  <2>2. \/ heap' = heap
        \/ e = NoEntry /\ heap' = WithNode(heap, curtab, path[1], NewTable(FALSE))
        \/ Implicit(e) /\ heap' = [heap EXCEPT ![e.id].implicit = FALSE]
    BY <1>6, <2>1 DEF SelectTable
  <2>3. CASE Implicit(e) /\ heap' = [heap EXCEPT ![e.id].implicit = FALSE]
    <3>1. e.id \in DOMAIN heap /\ heap[e.id].sort = "t"
      BY <1>2, <2>1, <2>3, CheckKeyFinds DEF Implicit, Stands, NoEntry, Entry
    <3>2. IsTable(heap[e.id])
      BY <1>2, <3>1 DEF Typed, IsArr
    <3> QED BY <2>3, <3>1, <3>2, ExplicitAdds, SameAdds
  <2> QED BY <1>1, <1>3, <1>4, <2>1, <2>2, <2>3
<1>7. CASE SelectArray
  <2>1. PICK e : e = check_key(curtab, path[1])
    OBVIOUS
  <2>2. \/ heap' = heap
        \/ e = NoEntry /\ heap' = WithElem(WithNode(heap, curtab, path[1], NewArray("t")),
                                           Len(heap) + 1, NewTable(FALSE))
        \/ /\ e.sort = "a" /\ heap[e.id].kind \in {"none", "t"}
           /\ heap' = WithElem(heap, e.id, NewTable(FALSE))
    BY <1>7, <2>1 DEF SelectArray
  <2>3. NewTable(FALSE).sort = "t" /\ NewArray("t").kind = "t"
    BY DEF NewTable, NewArray
  <2>4. CASE /\ e.sort = "a" /\ heap[e.id].kind \in {"none", "t"}
             /\ heap' = WithElem(heap, e.id, NewTable(FALSE))
    <3>1. e.id \in DOMAIN heap /\ heap[e.id].sort = "a"
      BY <1>2, <2>1, <2>4, CheckKeyFinds DEF Stands, NoEntry, Entry
    <3> QED BY <1>2, <1>4, <2>3, <2>4, <3>1, WithElemAdds, SameAdds
  <2>5. CASE e = NoEntry /\ heap' = WithElem(WithNode(heap, curtab, path[1], NewArray("t")),
                                             Len(heap) + 1, NewTable(FALSE))
    <3>1. PICK h : h = WithNode(heap, curtab, path[1], NewArray("t"))
      OBVIOUS
    <3>2. Tree(h, 0) /\ NodeCame(h, heap, NewArray("t"))
      BY <1>2, <1>4, <3>1, WithNodeTree
    <3>3. /\ Typed(h) /\ Sound(h) /\ Len(heap) + 1 \in DOMAIN h /\ h[Len(heap) + 1].sort = "a"
          /\ h[Len(heap) + 1].kind = "t"
      BY <3>2 DEF Tree, NodeCame, NewArray
    <3>4. SameEntries(heap', h)
      BY <1>4, <2>3, <2>5, <3>1, <3>3, WithElemAdds
    <3>5. Adds(h, heap)
      BY <1>3, <1>4, <2>1, <2>5, <3>1
    <3> QED BY <3>4, <3>5, AddsThenSame
  <2> QED BY <1>1, <2>2, <2>4, <2>5
<1> QED BY <1>5, <1>6, <1>7

LEMMA LostAdds ==
  ASSUME IInv, OutOfMemory
  PROVE  Adds(heap', heap)
<1>1. Adds(heap, heap)
  BY Unchanged, SameAdds
<1>2. heap' = heap \/ (pc = "walk" /\ heap' \in Lost)
  BY DEF OutOfMemory
<1>3. ASSUME pc = "walk", heap' \in Lost
      PROVE  Adds(heap', heap)
  <2>1. /\ Tree(heap, 0) /\ Typed(heap) /\ Sound(heap)
        /\ curtab \in DOMAIN heap /\ heap[curtab].sort = "t"
    BY <1>3, AtWalk
  <2>2. NewNode(NewTable(TRUE)) /\ NewNode(NewTable(FALSE)) /\ NewNode(NewArray("t"))
    BY DEF NewNode
  <2>3. PICK h, b : /\ heap' = h \/ heap' = Append(h, NewTable(b))
                    /\ \/ h = heap
                       \/ /\ check_key(curtab, path[1]) = NoEntry
                          /\ h = WithNode(heap, curtab, path[1], NewArray("t"))
    <3>1. PICK e : e = check_key(curtab, path[1])
      OBVIOUS
    <3>2. \/ heap' = Append(heap, NewTable(TRUE))
          \/ \E w \in (IF e = NoEntry THEN {WithNode(heap, curtab, path[1], NewArray("t"))}
                       ELSE {heap : x \in {"a"} \intersect {e.sort}}) :
               heap' = w \/ heap' = Append(w, NewTable(FALSE))
      BY <1>3, <3>1 DEF Lost
    <3> QED BY <3>1, <3>2
  <2>4. Adds(h, heap) /\ Sequence(h)
    <3>1. CASE h = heap
      BY <1>1, <2>1, <3>1 DEF Typed
    <3>2. CASE /\ check_key(curtab, path[1]) = NoEntry
               /\ h = WithNode(heap, curtab, path[1], NewArray("t"))
      <4>1. Adds(h, heap)
        BY <2>1, <2>2, <3>2, CheckKeyMisses, WithNodeAdds
      <4>2. Tree(h, 0) /\ NodeCame(h, heap, NewArray("t"))
        BY <2>1, <2>2, <3>2, WithNodeTree
      <4> QED BY <4>1, <4>2 DEF Tree, Typed
    <3> QED BY <2>3, <3>1, <3>2
  <2>5. SameEntries(Append(h, NewTable(b)), h)
    BY <2>4, NewNodeAdds DEF NewTable
  <2> QED BY <2>3, <2>4, <2>5, AddsThenSame
<1> QED BY <1>1, <1>2, <1>3

LEMMA StepAdds ==
  ASSUME IInv, [Next]_vars
  PROVE  Adds(heap', heap)
<1>1. CASE Value \/ ArrayValue \/ TableValue
  BY <1>1, ValueAdds
<1>2. CASE ElemValue \/ ElemNode
  BY <1>2, ElemAdds
<1>3. CASE WalkStep \/ SelectTable \/ SelectArray
  BY <1>3, HeaderAdds
<1>4. CASE OutOfMemory
  BY <1>4, LostAdds
<1>5. CASE UNCHANGED heap
  BY <1>5, Unchanged, SameAdds
<1>6. UNCHANGED parsing => UNCHANGED heap
  BY DEF parsing
<1>7. \/ Value \/ ArrayValue \/ TableValue \/ ElemValue \/ ElemNode
      \/ WalkStep \/ SelectTable \/ SelectArray \/ OutOfMemory \/ UNCHANGED heap
  BY <1>6 DEF Next, vars, NextToken, SyntaxError, Finish, EmptyLine, SkipNewline, Pair, Equal,
     KeyRefused, EndOfLine, Comma, Close, KindMismatch, Header, SecondBracket, PathKey,
     PathSep, CloseHeader, Free
<1> QED BY <1>1, <1>2, <1>3, <1>4, <1>5, <1>7

(* No table has two entries of one key, neither of one sort nor of two:    *)
(* what check_key is asked for before an entry is made.                    *)
KeysOnce(h) ==
  \A n \in DOMAIN h :
    h[n].sort = "t" => \A i, j \in DOMAIN h[n].entries :
                         h[n].entries[i].key = h[n].entries[j].key => i = j

LEMMA KeysStayOnce ==
  ASSUME NEW h, Typed(h), KeysOnce(h), NEW g, Adds(g, h)
  PROVE  KeysOnce(g)
<1> SUFFICES ASSUME NEW n \in DOMAIN g, g[n].sort = "t",
                    NEW i \in DOMAIN g[n].entries, NEW j \in DOMAIN g[n].entries,
                    g[n].entries[i].key = g[n].entries[j].key
             PROVE  i = j
  BY DEF KeysOnce
<1>1. CASE n \notin DOMAIN h
  BY <1>1, EmptySequence, SequenceFacts DEF Adds
<1>2. CASE n \in DOMAIN h
  <2> DEFINE entries == h[n].entries
  <2>1. h[n].sort = "t" /\ Gets(entries, g[n].entries)
    BY <1>2 DEF Adds, Grown
  <2>2. Sequence(entries)
    BY <1>2, <2>1 DEF Typed, IsTable, IsArr
  <2>3. \A k, l \in DOMAIN entries : entries[k].key = entries[l].key => k = l
    BY <1>2, <2>1 DEF KeysOnce
  <2>4. CASE g[n].entries = entries
    BY <2>3, <2>4
  <2>5. ASSUME NEW e, Fresh(entries, e.key), g[n].entries = Append(entries, e)
        PROVE  i = j
    <3>1. /\ DOMAIN g[n].entries = DOMAIN entries \union {Len(entries) + 1}
          /\ g[n].entries[Len(entries) + 1] = e
          /\ \A k \in DOMAIN entries : g[n].entries[k] = entries[k]
      BY <2>2, <2>5, NodeBehind, SMTT(30)
    <3> QED BY <2>3, <2>5, <3>1 DEF Fresh
  <2> QED BY <2>1, <2>4, <2>5 DEF Gets
<1> QED BY <1>1, <1>2

(* Whatever the document: no header and no pair makes a second entry under *)
(* a key that the table has, not even one of another sort.                 *)
THEOREM KeysUnique == Spec => []KeysOnce(heap)
<1>1. Init => KeysOnce(heap)
  <2> SUFFICES ASSUME Init, NEW n \in DOMAIN heap PROVE heap[n].entries = <<>>
    BY EmptySequence, SequenceFacts DEF KeysOnce
  <2> QED BY DEF Init, NewTable
<1>2. IInv /\ KeysOnce(heap) /\ [Next]_vars => KeysOnce(heap)'
  <2>1. IInv => Typed(heap)
    BY DEF IInv, TreeInv, Tree
  <2> QED BY <2>1, StepAdds, KeysStayOnce
<1> QED BY <1>1, <1>2, Invariance, PTL DEF Spec

-----------------------------------------------------------------------------
(* The places of a tree: the members of its nodes.  No two hold one node,  *)
(* and every node but the root is held at one, by a node that was made     *)
(* before it.                                                              *)
LEMMA PlaceFacts ==
  ASSUME NEW h
  PROVE  /\ \A n \in DOMAIN h : \A k \in DOMAIN Members(h[n]) : <<n, k>> \in PlacesIn(h)
         /\ \A p \in PlacesIn(h) :
              p[1] \in DOMAIN h /\ p[2] \in DOMAIN Members(h[p[1]]) /\ p = <<p[1], p[2]>>
BY DEF PlacesIn

LEMMA OnePlace ==
  ASSUME NEW h, OneParent(h), NEW p \in PlacesIn(h), Held(h, p).id # 0
  PROVE  /\ p[1] < Held(h, p).id
         /\ \A q \in PlacesIn(h) : Held(h, q).id = Held(h, p).id => q = p
BY PlaceFacts DEF OneParent, Held

LEMMA PlaceFound ==
  ASSUME NEW h, Tree(h, 0), NEW n \in DOMAIN h \ {ROOT}
  PROVE  /\ PlaceOf(h, n) \in PlacesIn(h) /\ Held(h, PlaceOf(h, n)).id = n
         /\ PlaceOf(h, n)[1] \in DOMAIN h /\ PlaceOf(h, n)[1] < n
<1>1. Typed(h) /\ OneParent(h) /\ Reached(h, 0)
  BY DEF Tree
<1>2. n # 0
  BY <1>1, HeapDomain
<1>3. \E p \in PlacesIn(h) : Held(h, p).id = n
  <2>1. PICK m \in DOMAIN h : Holds(h[m], n)
    BY <1>1, <1>2 DEF Reached
  <2>2. PICK k \in DOMAIN Members(h[m]) : Members(h[m])[k].id = n
    BY <2>1 DEF Holds
  <2>3. <<m, k>> \in PlacesIn(h) /\ Held(h, <<m, k>>).id = n
    BY <2>2, PlaceFacts DEF Held
  <2> QED BY <2>3
<1>4. PlaceOf(h, n) \in PlacesIn(h) /\ Held(h, PlaceOf(h, n)).id = n
  BY <1>3 DEF PlaceOf
<1> QED BY <1>1, <1>2, <1>4, OnePlace, PlaceFacts

(* The place of a node is the only one that holds it.                      *)
LEMMA PlaceOfHeld ==
  ASSUME NEW h, Tree(h, 0), NEW p \in PlacesIn(h), Held(h, p).id # 0
  PROVE  /\ Held(h, p).id \in DOMAIN h \ {ROOT} /\ PlaceOf(h, Held(h, p).id) = p
<1>1. Typed(h) /\ Sound(h) /\ OneParent(h)
  BY DEF Tree
<1>2. p[1] \in DOMAIN h /\ p[2] \in DOMAIN Members(h[p[1]])
  BY PlaceFacts
<1>3. Held(h, p).id \in DOMAIN h
  BY <1>1, <1>2, IdsInHeap DEF Held
<1>4. p[1] < Held(h, p).id
  BY <1>1, OnePlace
<1>5. Held(h, p).id # ROOT
  BY <1>1, <1>2, <1>4, HeapDomain DEF ROOT
<1>6. PICK n \in DOMAIN h \ {ROOT} : n = Held(h, p).id
  BY <1>3, <1>5
<1>7. PlaceOf(h, n) \in PlacesIn(h) /\ Held(h, PlaceOf(h, n)).id = n
  BY PlaceFound
<1> QED BY <1>1, <1>6, <1>7, OnePlace

(* The ways exist: those of the first nodes lead to that of the next.      *)
WayOn(h, f, n) ==
  IF n = ROOT THEN <<>> ELSE Append(f[PlaceOf(h, n)[1]], Onto(h, PlaceOf(h, n)))
WaysUpTo(h, k) == \E f : f = [n \in 1 .. k |-> WayOn(h, f, n)]

LEMMA OneWayMore ==
  ASSUME NEW h, Tree(h, 0), NEW k \in DOMAIN h, WaysUpTo(h, k - 1)
  PROVE  WaysUpTo(h, k)
<1>1. PICK f : f = [n \in 1 .. k - 1 |-> WayOn(h, f, n)]
  BY DEF WaysUpTo
<1>2. Len(h) \in Nat \ {0} /\ DOMAIN h = 1 .. Len(h)
  BY HeapDomain DEF Tree
<1>3. PICK g : g = [n \in 1 .. k |-> WayOn(h, f, n)]
  OBVIOUS
<1>4. \A n \in 1 .. k - 1 : g[n] = f[n]
  BY <1>1, <1>2, <1>3
<1>5. ASSUME NEW n \in 1 .. k PROVE WayOn(h, f, n) = WayOn(h, g, n)
  <2>1. CASE n = ROOT
    BY <2>1 DEF WayOn
  <2>2. CASE n # ROOT
    <3>1. n \in DOMAIN h \ {ROOT}
      BY <1>2, <2>2
    <3>2. PlaceOf(h, n)[1] \in 1 .. k - 1
      BY <1>2, <3>1, PlaceFound
    <3> QED BY <1>4, <2>2, <3>2 DEF WayOn
  <2> QED BY <2>1, <2>2
<1>6. g = [n \in 1 .. k |-> WayOn(h, g, n)]
  BY <1>3, <1>5
<1> QED BY <1>6 DEF WaysUpTo

LEMMA WaysExist ==
  ASSUME NEW h, Tree(h, 0)
  PROVE  DOMAIN Ways(h) = DOMAIN h /\ \A n \in DOMAIN h : Ways(h)[n] = WayOn(h, Ways(h), n)
<1>1. Len(h) \in Nat \ {0} /\ DOMAIN h = 1 .. Len(h)
  BY HeapDomain DEF Tree
<1>2. PICK Lacking : Lacking = {k \in 0 .. Len(h) : ~ WaysUpTo(h, k)}
  OBVIOUS
<1>3. Lacking = {}
  <2>0. Lacking \in SUBSET Nat
    BY <1>1, <1>2
  <2> SUFFICES ASSUME Lacking # {} PROVE FALSE
    OBVIOUS
  <2>1. PICK k \in Lacking : \A j \in Lacking : k <= j
    BY <2>0, Least
  <2>2. k \in 0 .. Len(h) /\ ~ WaysUpTo(h, k)
    BY <1>2
  <2>3. k # 0
    <3>1. PICK f : f = [n \in {} |-> <<>>]
      OBVIOUS
    <3>2. f = [n \in 1 .. 0 |-> WayOn(h, f, n)]
      BY <3>1
    <3>3. WaysUpTo(h, 0)
      BY <3>2 DEF WaysUpTo
    <3> QED BY <2>2, <3>3
  <2>4. k - 1 \in 0 .. Len(h) /\ k - 1 < k /\ k \in DOMAIN h
    BY <1>1, <2>2, <2>3
  <2>5. k - 1 \notin Lacking
    BY <2>1, <2>2, <2>4
  <2>6. WaysUpTo(h, k - 1)
    BY <1>2, <2>4, <2>5
  <2> QED BY <2>2, <2>4, <2>6, OneWayMore
<1>4. WaysUpTo(h, Len(h))
  BY <1>1, <1>2, <1>3
<1>5. \E f : f = [n \in DOMAIN h |-> WayOn(h, f, n)]
  BY <1>1, <1>4 DEF WaysUpTo
<1>6. Ways(h) = [n \in DOMAIN h |-> WayOn(h, Ways(h), n)]
  BY <1>5 DEF Ways, WayOn
<1> QED BY <1>6

(* What is put behind a sequence can be told from it.                      *)
LEMMA AppendedApart ==
  ASSUME NEW s, Sequence(s), NEW t, Sequence(t), NEW x, NEW y, Append(s, x) = Append(t, y)
  PROVE  s = t /\ x = y
<1> DEFINE S == (Range(s) \union Range(t)) \union {x, y}
<1>1. s \in Seq(S) /\ t \in Seq(S)
  BY SeqMonotonic DEF Sequence
<1>2. x \in S /\ y \in S
  OBVIOUS
<1> HIDE DEF S
<1> QED BY <1>1, <1>2, AppendInjective

LEMMA LastAndFront ==
  ASSUME NEW s, Sequence(s), NEW x
  PROVE  /\ Last(Append(s, x)) = x /\ Front(Append(s, x)) = s
         /\ Append(s, x) # <<>> /\ Len(Append(s, x)) = Len(s) + 1
<1>1. PICK t : t = Append(s, x)
  OBVIOUS
<1>2. Len(s) \in Nat /\ DOMAIN s = 1 .. Len(s)
  BY SequenceFacts
<1>3. /\ Sequence(t) /\ Len(t) = Len(s) + 1 /\ t[Len(s) + 1] = x
      /\ \A i \in 1 .. Len(s) : t[i] = s[i]
  BY <1>1, AppendSequence
<1>4. PICK f : f = SubSeq(t, 1, Len(s))
  OBVIOUS
<1> DEFINE S == Range(s) \union Range(t)
<1>5. s \in Seq(S) /\ t \in Seq(S)
  BY <1>3, SeqMonotonic DEF Sequence
<1> HIDE DEF S
<1>6. f \in Seq(S) /\ Len(f) = Len(s) /\ \A i \in 1 .. Len(s) : f[i] = t[i]
  BY <1>2, <1>3, <1>4, <1>5, SubSeqProperties
<1>7. f = s
  BY <1>3, <1>5, <1>6, SeqEqual
<1>8. t # <<>>
  BY <1>2, <1>3, EmptySequence
<1> QED BY <1>1, <1>2, <1>3, <1>4, <1>7, <1>8 DEF Last, Front

(* Ways are sequences, and no two nodes have the same.                     *)
LEMMA WaysAreSequences ==
  ASSUME NEW h, Tree(h, 0), NEW n \in DOMAIN h
  PROVE  Sequence(Ways(h)[n])
<1>1. PICK W : W = Ways(h)
  OBVIOUS
<1>2. \A m \in DOMAIN h : W[m] = WayOn(h, W, m)
  BY <1>1, WaysExist
<1>3. DOMAIN h \subseteq Nat
  BY HeapDomain DEF Tree
<1>4. PICK Other : Other = {m \in DOMAIN h : ~ Sequence(W[m])}
  OBVIOUS
<1>5. Other = {}
  <2>0. Other \in SUBSET Nat
    BY <1>3, <1>4
  <2> SUFFICES ASSUME Other # {} PROVE FALSE
    OBVIOUS
  <2>1. PICK m \in Other : \A j \in Other : m <= j
    BY <2>0, Least
  <2>2. m \in DOMAIN h /\ ~ Sequence(W[m])
    BY <1>4
  <2>3. CASE m = ROOT
    BY <1>2, <2>2, <2>3, EmptySequence DEF WayOn
  <2>4. CASE m # ROOT
    <3>1. PICK p : p = PlaceOf(h, m)
      OBVIOUS
    <3>2. p[1] \in DOMAIN h /\ p[1] < m
      BY <2>2, <2>4, <3>1, PlaceFound
    <3>3. p[1] \notin Other
      BY <1>3, <2>1, <2>2, <3>2
    <3>4. Sequence(W[p[1]])
      BY <1>4, <3>2, <3>3
    <3>5. W[m] = Append(W[p[1]], Onto(h, p))
      BY <1>2, <2>2, <2>4, <3>1 DEF WayOn
    <3> QED BY <2>2, <3>4, <3>5, AppendSequence
  <2> QED BY <2>3, <2>4
<1> QED BY <1>1, <1>4, <1>5

(* From one node two places lead on by two steps: no key is there twice.   *)
LEMMA OntoApart ==
  ASSUME NEW h, Typed(h), KeysOnce(h), NEW p \in PlacesIn(h), NEW q \in PlacesIn(h),
         p[1] = q[1], Onto(h, p) = Onto(h, q)
  PROVE  p = q
<1>1. PICK n \in DOMAIN h : n = p[1] /\ n = q[1]
  BY PlaceFacts
<1>2. /\ p = <<n, p[2]>> /\ q = <<n, q[2]>>
      /\ p[2] \in DOMAIN Members(h[n]) /\ q[2] \in DOMAIN Members(h[n])
  BY <1>1, PlaceFacts
<1>3. CASE h[n].sort = "t"
  <2>1. h[n].entries[p[2]].key = h[n].entries[q[2]].key
    BY <1>1, <1>3 DEF Onto, ByKey, Held, Members
  <2>2. p[2] = q[2]
    BY <1>2, <1>3, <2>1 DEF KeysOnce, Members
  <2> QED BY <1>2, <2>2
<1>4. CASE h[n].sort # "t"
  <2>1. p[2] = q[2]
    BY <1>1, <1>4 DEF Onto, ByNumber
  <2> QED BY <1>2, <2>1
<1> QED BY <1>3, <1>4

LEMMA WaysApart ==
  ASSUME NEW h, Tree(h, 0), KeysOnce(h), NEW n \in DOMAIN h, NEW m \in DOMAIN h,
         Ways(h)[n] = Ways(h)[m]
  PROVE  n = m
<1>1. PICK W : W = Ways(h)
  OBVIOUS
<1>2. \A i \in DOMAIN h : W[i] = WayOn(h, W, i) /\ Sequence(W[i])
  BY <1>1, WaysExist, WaysAreSequences
<1>3. Typed(h) /\ DOMAIN h \subseteq Nat
  BY HeapDomain DEF Tree
<1>4. PICK Twice : Twice = {i \in DOMAIN h : \E j \in DOMAIN h : j # i /\ W[j] = W[i]}
  OBVIOUS
<1>5. Twice = {}
  <2>0. Twice \in SUBSET Nat
    BY <1>3, <1>4
  <2> SUFFICES ASSUME Twice # {} PROVE FALSE
    OBVIOUS
  <2>1. PICK i \in Twice : \A k \in Twice : i <= k
    BY <2>0, Least
  <2>2. PICK j \in DOMAIN h : j # i /\ W[j] = W[i] /\ i \in DOMAIN h
    BY <1>4
  <2>3. \A k \in DOMAIN h : k # ROOT =>
          /\ Sequence(W[PlaceOf(h, k)[1]]) /\ PlaceOf(h, k) \in PlacesIn(h)
          /\ W[k] = Append(W[PlaceOf(h, k)[1]], Onto(h, PlaceOf(h, k)))
          /\ PlaceOf(h, k)[1] \in DOMAIN h /\ PlaceOf(h, k)[1] < k
          /\ Held(h, PlaceOf(h, k)).id = k
    BY <1>2, PlaceFound DEF WayOn
  <2>4. W[ROOT] = <<>>
    BY <1>2, <1>3 DEF Typed, WayOn
  <2>5. \A k \in DOMAIN h : k # ROOT => W[k] # <<>>
    BY <2>3, LastAndFront
  <2>6. i # ROOT /\ j # ROOT
    BY <2>2, <2>4, <2>5
  <2>7. PICK p, q : p = PlaceOf(h, i) /\ q = PlaceOf(h, j)
    OBVIOUS
  <2>8. /\ p \in PlacesIn(h) /\ p[1] \in DOMAIN h /\ p[1] < i /\ Held(h, p).id = i
        /\ Sequence(W[p[1]]) /\ W[i] = Append(W[p[1]], Onto(h, p))
    BY <2>2, <2>3, <2>6, <2>7
  <2>9. /\ q \in PlacesIn(h) /\ q[1] \in DOMAIN h /\ Held(h, q).id = j
        /\ Sequence(W[q[1]]) /\ W[j] = Append(W[q[1]], Onto(h, q))
    BY <2>2, <2>3, <2>6, <2>7
  <2>10. W[p[1]] = W[q[1]] /\ Onto(h, p) = Onto(h, q)
    <3>1. PICK a, b, x, y : a = W[p[1]] /\ b = W[q[1]] /\ x = Onto(h, p) /\ y = Onto(h, q)
      OBVIOUS
    <3>2. Sequence(a) /\ Sequence(b) /\ Append(a, x) = Append(b, y)
      BY <2>2, <2>8, <2>9, <3>1
    <3>3. a = b /\ x = y
      BY <3>2, AppendedApart
    <3> QED BY <3>1, <3>3
  <2>11. p[1] \notin Twice
    BY <1>3, <2>1, <2>2, <2>8
  <2>12. p[1] = q[1]
    <3>1. \A k \in DOMAIN h : k # p[1] => W[k] # W[p[1]]
      BY <1>4, <2>8, <2>11
    <3> QED BY <2>9, <2>10, <3>1
  <2>13. p = q
    BY <1>3, <2>8, <2>9, <2>10, <2>12, OntoApart
  <2> QED BY <2>2, <2>8, <2>9, <2>13
<1> QED BY <1>1, <1>4, <1>5

-----------------------------------------------------------------------------
(* What is at a place, and the way there.                                  *)
PathTo(h, p) == Append(Ways(h)[p[1]], Onto(h, p))

LEMMA ItemFacts ==
  ASSUME NEW h, Tree(h, 0), NEW p \in PlacesIn(h)
  PROVE  /\ ItemAt(h, Ways(h), p).path = PathTo(h, p)
         /\ ItemAt(h, Ways(h), p).sort = SortHeld(h, p)
         /\ Document!Front(PathTo(h, p)) = Ways(h)[p[1]] /\ Document!Last(PathTo(h, p)) = Onto(h, p)
         /\ Len(PathTo(h, p)) = Len(Ways(h)[p[1]]) + 1
<1>1. Sequence(Ways(h)[p[1]])
  BY PlaceFacts, WaysAreSequences
<1>2. PICK s, x : s = Ways(h)[p[1]] /\ x = Onto(h, p)
  OBVIOUS
<1>3. Front(Append(s, x)) = s /\ Last(Append(s, x)) = x /\ Len(Append(s, x)) = Len(s) + 1
  BY <1>1, <1>2, LastAndFront
<1>4. Document!Front(Append(s, x)) = s /\ Document!Last(Append(s, x)) = x
  BY <1>3 DEF Front, Last, Document!Front, Document!Last
<1> QED BY <1>2, <1>3, <1>4 DEF PathTo, ItemAt, Item

LEMMA PathsApart ==
  ASSUME NEW h, Tree(h, 0), KeysOnce(h), NEW p \in PlacesIn(h), NEW q \in PlacesIn(h),
         PathTo(h, p) = PathTo(h, q)
  PROVE  p = q
<1>1. Ways(h)[p[1]] = Ways(h)[q[1]] /\ Onto(h, p) = Onto(h, q)
  BY ItemFacts
<1>2. p[1] = q[1]
  BY <1>1, PlaceFacts, WaysApart
<1> QED BY <1>1, <1>2, OntoApart DEF Tree

(* What leads to a node is of the sort of the node.                        *)
LEMMA ItemAbove ==
  ASSUME NEW h, Tree(h, 0), NEW n \in DOMAIN h \ {ROOT}
  PROVE  \E q \in PlacesIn(h) : PathTo(h, q) = Ways(h)[n] /\ SortHeld(h, q) = h[n].sort
<1>1. PICK q : q = PlaceOf(h, n)
  OBVIOUS
<1>2. /\ q \in PlacesIn(h) /\ Held(h, q).id = n
      /\ q[1] \in DOMAIN h /\ q[2] \in DOMAIN Members(h[q[1]])
  BY <1>1, PlaceFound, PlaceFacts
<1>3. Typed(h) /\ Sound(h) /\ n # 0
  BY HeapDomain DEF Tree
<1>4. PathTo(h, q) = Ways(h)[n]
  BY <1>1, WaysExist DEF WayOn, PathTo
<1>5. CASE h[q[1]].sort = "t"
  <2>1. TableSound(h, h[q[1]])
    BY <1>2, <1>3, <1>5, SoundAt, Zenon
  <2>2. Stands(h, Held(h, q).sort, n)
    BY <1>2, <1>3, <1>5, <2>1 DEF TableSound, Held, Members
  <2> QED BY <1>2, <1>4, <1>5, <2>2 DEF SortHeld, Stands
<1>6. CASE h[q[1]].sort # "t"
  <2>1. ArraySound(h, h[q[1]])
    BY <1>2, <1>3, <1>6, SoundAt, HeapDomain
  <2>2. Stands(h, h[q[1]].kind, n)
    BY <1>2, <1>3, <1>6, <2>1 DEF ArraySound, Held, Members
  <2> QED BY <1>2, <1>4, <1>6, <2>2 DEF SortHeld, Stands
<1> QED BY <1>5, <1>6

(* The steps from one node: keys from a table, numbers from an array, and  *)
(* all the smaller ones with them.                                         *)
LEMMA StepsFrom ==
  ASSUME NEW h, Typed(h), NEW p \in PlacesIn(h)
  PROVE  /\ h[p[1]].sort = "t" => Onto(h, p).at = 0
         /\ h[p[1]].sort # "t" =>
              /\ Onto(h, p).at = p[2] /\ p[2] \in Nat \ {0}
              /\ \A i \in 1 .. p[2] - 1 :
                   /\ <<p[1], i>> \in PlacesIn(h) /\ Onto(h, <<p[1], i>>).at = i
                   /\ SortHeld(h, <<p[1], i>>) = SortHeld(h, p)
<1>1. p[1] \in DOMAIN h /\ p[2] \in DOMAIN Members(h[p[1]])
  BY PlaceFacts
<1>2. h[p[1]].sort = "t" => Onto(h, p).at = 0
  BY DEF Onto, ByKey
<1>3. ASSUME h[p[1]].sort # "t"
      PROVE  /\ Onto(h, p).at = p[2] /\ p[2] \in Nat \ {0}
             /\ \A i \in 1 .. p[2] - 1 :
                  /\ <<p[1], i>> \in PlacesIn(h) /\ Onto(h, <<p[1], i>>).at = i
                  /\ SortHeld(h, <<p[1], i>>) = SortHeld(h, p)
  <2>1. PICK l \in Nat : DOMAIN Members(h[p[1]]) = 1 .. l
    BY <1>1, MembersTyped, SequenceFacts
  <2>2. p[2] \in Nat \ {0} /\ \A i \in 1 .. p[2] - 1 : i \in DOMAIN Members(h[p[1]])
    BY <1>1, <2>1
  <2>3. \A i \in 1 .. p[2] - 1 : <<p[1], i>> \in PlacesIn(h)
    BY <1>1, <2>2, PlaceFacts
  <2> QED BY <1>3, <2>2, <2>3 DEF Onto, ByNumber, SortHeld
<1> QED BY <1>2, <1>3

(* Every entry of a tree in which no key is twice is placed: no other is   *)
(* at its place, it is in a table or an array, and the elements that its   *)
(* number counts are there.                                                *)
LEMMA AllPlaced ==
  ASSUME NEW h, Tree(h, 0), KeysOnce(h), NEW e \in Contents(h)
  PROVE  Document!Placed(Contents(h), e)
<1>1. PICK p \in PlacesIn(h) : e = ItemAt(h, Ways(h), p)
  BY DEF Contents
<1>2. /\ e.path = PathTo(h, p) /\ Document!Front(e.path) = Ways(h)[p[1]]
      /\ Document!Last(e.path) = Onto(h, p)
      /\ Len(e.path) = Len(Ways(h)[p[1]]) + 1 /\ e.sort = SortHeld(h, p)
  BY <1>1, ItemFacts
<1>3. Typed(h) /\ p[1] \in DOMAIN h
  BY PlaceFacts DEF Tree
<1>4. {o \in Contents(h) : o.path = e.path} = {e}
  <2>1. ASSUME NEW o \in Contents(h), o.path = e.path PROVE o = e
    <3>1. PICK q \in PlacesIn(h) : o = ItemAt(h, Ways(h), q)
      BY DEF Contents
    <3>2. PathTo(h, q) = PathTo(h, p)
      BY <1>2, <2>1, <3>1, ItemFacts
    <3> QED BY <1>1, <3>1, <3>2, PathsApart
  <2> QED BY <2>1
<1>5. \/ Len(e.path) = 1 /\ Document!Last(e.path).at = 0
      \/ \E o \in {o \in Contents(h) : o.path = Document!Front(e.path)} :
           o.sort = IF Document!Last(e.path).at = 0 THEN "t" ELSE "a"
  <2>1. CASE p[1] = ROOT
    <3>1. Len(Ways(h)[p[1]]) = 0
      BY <1>3, <2>1, WaysExist, EmptySequence DEF WayOn
    <3>2. Onto(h, p).at = 0
      BY <1>3, <2>1, StepsFrom DEF Typed
    <3> QED BY <1>2, <3>1, <3>2
  <2>2. CASE p[1] # ROOT
    <3>1. PICK q \in PlacesIn(h) : PathTo(h, q) = Ways(h)[p[1]] /\ SortHeld(h, q) = h[p[1]].sort
      BY <1>3, <2>2, ItemAbove
    <3>2. PICK o : o = ItemAt(h, Ways(h), q)
      OBVIOUS
    <3>3. o \in Contents(h) /\ o.path = Document!Front(e.path) /\ o.sort = h[p[1]].sort
      BY <1>2, <3>1, <3>2, ItemFacts DEF Contents
    <3>4. h[p[1]].sort = IF Document!Last(e.path).at = 0 THEN "t" ELSE "a"
      BY <1>2, <1>3, StepsFrom, HeapDomain
    <3> QED BY <3>3, <3>4
  <2> QED BY <2>1, <2>2
<1>6. ASSUME Document!Last(e.path).at > 0, NEW i \in 1 .. Document!Last(e.path).at - 1
      PROVE  \E o \in Document!Siblings(Contents(h), e) :
               Document!Last(o.path).at = i /\ o.sort = e.sort
  <2>1. h[p[1]].sort # "t" /\ Document!Last(e.path).at = p[2]
    BY <1>2, <1>3, <1>6, StepsFrom
  <2>2. PICK q : q = <<p[1], i>>
    OBVIOUS
  <2>3. q \in PlacesIn(h) /\ Onto(h, q).at = i /\ SortHeld(h, q) = SortHeld(h, p) /\ q[1] = p[1]
    BY <1>3, <1>6, <2>1, <2>2, StepsFrom
  <2>4. PICK o : o = ItemAt(h, Ways(h), q)
    OBVIOUS
  <2>5. /\ o \in Contents(h) /\ Len(o.path) = Len(e.path)
        /\ Document!Front(o.path) = Document!Front(e.path)
        /\ Document!Last(o.path).at = i /\ o.sort = e.sort
    BY <1>2, <2>3, <2>4, ItemFacts DEF Contents
  <2> QED BY <2>5 DEF Document!Siblings
<1> QED BY <1>4, <1>5, <1>6 DEF Document!Placed

-----------------------------------------------------------------------------
(* What a step adds to memory leaves everything else at its place, and so  *)
(* on its way from the root.                                               *)
Extends(g, h) ==
  /\ Grown(h, g)
  /\ \A n \in DOMAIN h : \A k \in DOMAIN Members(h[n]) :
       /\ k \in DOMAIN Members(g[n]) /\ Members(g[n])[k] = Members(h[n])[k]
       /\ h[n].sort = "a" => g[n].kind = h[n].kind

LEMMA AddsExtend ==
  ASSUME NEW h, Typed(h), NEW g, Adds(g, h)
  PROVE  Extends(g, h)
<1> SUFFICES ASSUME NEW n \in DOMAIN h, NEW k \in DOMAIN Members(h[n])
             PROVE  /\ k \in DOMAIN Members(g[n]) /\ Members(g[n])[k] = Members(h[n])[k]
                    /\ h[n].sort = "a" => g[n].kind = h[n].kind
  BY DEF Extends, Adds
<1>1. n \in DOMAIN g /\ g[n].sort = h[n].sort
  BY DEF Adds, Grown
<1>2. CASE h[n].sort = "t"
  <2>1. Gets(h[n].entries, g[n].entries) /\ Sequence(h[n].entries)
    BY <1>1, <1>2 DEF Adds, Typed, IsTable, IsArr
  <2>2. k \in DOMAIN h[n].entries
    BY <1>2 DEF Members
  <2>3. ASSUME NEW e, g[n].entries = Append(h[n].entries, e)
        PROVE  k \in DOMAIN g[n].entries /\ g[n].entries[k] = h[n].entries[k]
    BY <2>1, <2>2, <2>3, NodeBehind
  <2>4. k \in DOMAIN g[n].entries /\ g[n].entries[k] = h[n].entries[k]
    BY <2>1, <2>2, <2>3 DEF Gets
  <2> QED BY <1>1, <1>2, <2>4 DEF Members
<1>3. CASE h[n].sort # "t"
  <2>1. h[n].sort = "a" /\ k \in DOMAIN h[n].elems
    BY <1>3, HeapDomain DEF Members
  <2>2. Longer(h[n], g[n])
    BY <2>1 DEF Adds, ArraysStay
  <2> QED BY <1>1, <1>3, <2>1, <2>2 DEF Longer, Members
<1> QED BY <1>2, <1>3

(* What is defined stays defined: no step of the parser removes, replaces  *)
(* or moves an entry of a table or an element of an array, whatever comes  *)
(* later in the document and however the parse ends.                       *)
EntryStays ==
  \A n \in DOMAIN heap :
    /\ n \in DOMAIN heap' /\ heap'[n].sort = heap[n].sort
    /\ \A k \in DOMAIN Members(heap[n]) :
         /\ k \in DOMAIN Members(heap'[n])
         /\ Members(heap'[n])[k] = Members(heap[n])[k]

THEOREM EntriesStay == Spec => [][EntryStays]_vars
<1>1. IInv /\ [Next]_vars => [EntryStays]_vars
  <2> SUFFICES ASSUME IInv, [Next]_vars PROVE EntryStays
    OBVIOUS
  <2>1. Typed(heap)
    BY DEF IInv, TreeInv, Tree
  <2>2. Extends(heap', heap)
    BY <2>1, StepAdds, AddsExtend
  <2> QED BY <2>2 DEF Extends, Grown, EntryStays
<1> QED BY <1>1, Invariance, PTL DEF Spec

LEMMA PlacesStay ==
  ASSUME NEW h, NEW g, Extends(g, h), NEW p \in PlacesIn(h)
  PROVE  /\ p \in PlacesIn(g) /\ Held(g, p) = Held(h, p)
         /\ Onto(g, p) = Onto(h, p)
         /\ h[p[1]].sort \in {"t", "a"} => SortHeld(g, p) = SortHeld(h, p)
<1>1. p[1] \in DOMAIN h /\ p[2] \in DOMAIN Members(h[p[1]]) /\ p = <<p[1], p[2]>>
  BY PlaceFacts
<1>2. /\ p[1] \in DOMAIN g /\ g[p[1]].sort = h[p[1]].sort
      /\ p[2] \in DOMAIN Members(g[p[1]]) /\ Members(g[p[1]])[p[2]] = Members(h[p[1]])[p[2]]
      /\ h[p[1]].sort = "a" => g[p[1]].kind = h[p[1]].kind
  BY <1>1 DEF Extends, Grown
<1>3. p \in PlacesIn(g)
  BY <1>1, <1>2, PlaceFacts
<1>4. Held(g, p) = Held(h, p)
  BY <1>2 DEF Held
<1> QED BY <1>2, <1>3, <1>4 DEF Onto, SortHeld

LEMMA WaysStay ==
  ASSUME NEW h, Tree(h, 0), NEW g, Tree(g, 0), Extends(g, h), NEW n \in DOMAIN h
  PROVE  n \in DOMAIN g /\ Ways(g)[n] = Ways(h)[n]
<1>1. PICK V, W : V = Ways(g) /\ W = Ways(h)
  OBVIOUS
<1>2. /\ \A i \in DOMAIN h : W[i] = WayOn(h, W, i)
      /\ \A i \in DOMAIN g : V[i] = WayOn(g, V, i)
  BY <1>1, WaysExist
<1>3. DOMAIN h \subseteq Nat /\ DOMAIN h \subseteq DOMAIN g
  BY HeapDomain DEF Tree, Extends, Grown
<1>4. PICK Moved : Moved = {i \in DOMAIN h : V[i] # W[i]}
  OBVIOUS
<1>5. Moved = {}
  <2>0. Moved \in SUBSET Nat
    BY <1>3, <1>4
  <2> SUFFICES ASSUME Moved # {} PROVE FALSE
    OBVIOUS
  <2>1. PICK i \in Moved : \A j \in Moved : i <= j
    BY <2>0, Least
  <2>2. i \in DOMAIN h /\ i \in DOMAIN g /\ V[i] # W[i]
    BY <1>3, <1>4
  <2>3. i # ROOT
    BY <1>2, <2>2 DEF WayOn
  <2>4. PICK p : p = PlaceOf(h, i)
    OBVIOUS
  <2>5. p \in PlacesIn(h) /\ Held(h, p).id = i /\ p[1] \in DOMAIN h /\ p[1] < i
    BY <2>2, <2>3, <2>4, PlaceFound
  <2>6. p \in PlacesIn(g) /\ Held(g, p).id = i /\ Onto(g, p) = Onto(h, p)
    BY <2>5, PlacesStay
  <2>7. i # 0
    BY <2>2, HeapDomain DEF Tree
  <2>8. PlaceOf(g, i) = p
    BY <2>6, <2>7, PlaceOfHeld
  <2>9. p[1] \notin Moved
    BY <1>3, <2>1, <2>2, <2>5
  <2>10. V[p[1]] = W[p[1]]
    BY <1>4, <2>5, <2>9
  <2> QED BY <1>2, <2>2, <2>3, <2>4, <2>6, <2>8, <2>10 DEF WayOn
<1> QED BY <1>1, <1>3, <1>4, <1>5

LEMMA ContentsStay ==
  ASSUME NEW h, Tree(h, 0), NEW g, Tree(g, 0), Extends(g, h)
  PROVE  Contents(h) \subseteq Contents(g)
<1> SUFFICES ASSUME NEW p \in PlacesIn(h)
             PROVE  ItemAt(h, Ways(h), p) \in Contents(g)
  BY DEF Contents
<1>1. p[1] \in DOMAIN h /\ h[p[1]].sort \in {"t", "a"}
  BY PlaceFacts, HeapDomain DEF Tree
<1>2. /\ p \in PlacesIn(g) /\ Held(g, p) = Held(h, p)
      /\ Onto(g, p) = Onto(h, p) /\ SortHeld(g, p) = SortHeld(h, p)
  BY <1>1, PlacesStay
<1>3. Ways(g)[p[1]] = Ways(h)[p[1]]
  BY <1>1, WaysStay
<1>4. ItemAt(g, Ways(g), p) = ItemAt(h, Ways(h), p)
  BY <1>2, <1>3 DEF ItemAt
<1> QED BY <1>2, <1>4 DEF Contents

-----------------------------------------------------------------------------
(* The document is the caller's at the end of the text, and not before; an *)
(* error is told when the memory is given back.                            *)
Told == IF pc = "done" THEN result = "document" ELSE pc # "freed" => result = "none"

(* Where a step of the parser leads.                                       *)
LEMMA EveryStep ==
  ASSUME IInv, Next
  PROVE  \/ Free \/ Finish
         \/ /\ pc \notin Over /\ pc' \notin {"done", "freed"} /\ result' = result
<1> SUFFICES ASSUME ~ Free, ~ Finish
             PROVE  pc \notin Over /\ pc' \notin {"done", "freed"} /\ result' = result
  OBVIOUS
<1>1. CASE NextToken
  BY <1>1 DEF NextToken, IInv, Settled, Over
<1>2. CASE SyntaxError \/ KeyRefused \/ KindMismatch
  BY <1>2 DEF SyntaxError, KeyRefused, KindMismatch, Fail, Goto, At, Over, Expected
<1>3. CASE EmptyLine \/ SkipNewline \/ Pair \/ Equal \/ EndOfLine \/ Comma \/ Header \/ CloseHeader
  BY <1>3 DEF EmptyLine, SkipNewline, Pair, Equal, EndOfLine, Comma, Header, CloseHeader,
     Goto, At, Over
<1>4. CASE SecondBracket \/ PathKey \/ PathSep
  BY <1>4 DEF SecondBracket, PathKey, PathSep, Fail, Goto, At, Over
<1>5. CASE Value \/ ArrayValue \/ TableValue \/ Close
  <2>1. \A s : Behind(s) \in {"endline", "pairend", "elemend"}
    BY DEF Behind
  <2> QED BY <1>5, <2>1 DEF Value, ArrayValue, TableValue, Close, Goto, At, Over
<1>6. CASE ElemValue \/ ElemNode
  BY <1>6 DEF ElemValue, ElemNode, Fail, Goto, At, Over
<1>7. CASE WalkStep \/ SelectTable \/ SelectArray
  BY <1>7 DEF WalkStep, SelectTable, SelectArray, Fail, Goto, Over
<1>8. CASE OutOfMemory
  BY <1>8 DEF OutOfMemory, Over
<1> QED BY <1>1, <1>2, <1>3, <1>4, <1>5, <1>6, <1>7, <1>8 DEF Next

LEMMA ToldStep == IInv /\ Told /\ [Next]_vars => Told'
<1> SUFFICES ASSUME IInv, Told, [Next]_vars PROVE Told'
  OBVIOUS
<1>1. CASE UNCHANGED vars
  BY <1>1 DEF vars, Told
<1>2. CASE Free
  BY <1>2 DEF Free, Told
<1>3. CASE Finish
  BY <1>3 DEF Finish, Told
<1>4. CASE pc \notin Over /\ pc' \notin {"done", "freed"} /\ result' = result
  BY <1>4 DEF Told, Over
<1> QED BY <1>1, <1>2, <1>3, <1>4, EveryStep

(* Whatever the text and whatever comes between: a document grows by       *)
(* entries at places that were free, an array by elements behind the       *)
(* others, and the caller gets all of it or, after an error, nothing.      *)
THEOREM ParserImplements == Spec => Implements
<1>1. Init => Document!Init /\ Told
  <2> SUFFICES ASSUME Init PROVE Document!Init /\ Told
    OBVIOUS
  <2>1. pc = "line" /\ result = "none" /\ heap = <<NewTable(FALSE)>>
    BY DEF Init
  <2>2. Members(heap[1]) = <<>> /\ DOMAIN heap = {1}
    BY <2>1 DEF NewTable, Members
  <2>3. DOMAIN Members(heap[1]) = {}
    BY <2>2, EmptySequence, SequenceFacts
  <2>4. PlacesIn(heap) = {}
    BY <2>2, <2>3 DEF PlacesIn
  <2>5. Contents(heap) = {}
    BY <2>4 DEF Contents
  <2> QED BY <2>1, <2>5 DEF Document!Init, Building, Told
<1> DEFINE Inv == IInv /\ KeysOnce(heap) /\ Told
           doc == IF Building \/ result = "document" THEN Contents(heap) ELSE {}
           outcome == CASE pc = "done" \/ result = "document" -> "document"
                        [] Building /\ pc # "done" -> "reading"
                        [] OTHER -> "error"
<1>2. ASSUME Inv, Inv', [Next]_vars
      PROVE  \/ Document!Extend \/ Document!HandOver \/ Document!Reject
             \/ UNCHANGED <<doc, outcome>>
  <2>1. CASE UNCHANGED vars
    BY <2>1 DEF vars, Building
  <2>2. CASE Free
    <3>1. /\ pc \in {"error", "nomemory", "done"} /\ pc' = "freed" /\ heap' = heap
          /\ result' = CASE pc = "error" -> "error" [] pc = "nomemory" -> "nomemory"
                         [] OTHER -> result
      BY <2>2 DEF Free, parsing
    <3> QED BY <1>2, <3>1 DEF Told, Building
  <2>3. CASE Finish
    <3>1. pc = "line" /\ pc' = "done" /\ result' = "document" /\ heap' = heap /\ result = "none"
      BY <1>2, <2>3 DEF Finish, At, parsing, Told
    <3> QED BY <3>1 DEF Document!HandOver, Building
  <2>4. CASE pc \notin Over /\ pc' \notin {"done", "freed"} /\ result' = result
    <3>1. result = "none" /\ Building /\ outcome = "reading"
      BY <1>2, <2>4 DEF Told, Building, Over
    <3>2. CASE pc' \in {"error", "nomemory"}
      <4>1. ~ Building' /\ outcome' = "error" /\ doc' = {}
        BY <2>4, <3>1, <3>2 DEF Building
      <4> QED BY <3>1, <4>1 DEF Document!Reject
    <3>3. CASE pc' \notin {"error", "nomemory"}
      <4>1. Building' /\ outcome' = "reading" /\ doc' = Contents(heap') /\ doc = Contents(heap)
        BY <2>4, <3>1, <3>3 DEF Building
      <4>2. Tree(heap, 0)
        BY <1>2, <3>1, WhileBuilding
      <4>3. Tree(heap', 0) /\ KeysOnce(heap')
        <5>1. ~ Losing'
          BY <2>4, <3>1, <3>3 DEF Losing
        <5> QED BY <1>2, <5>1 DEF IInv, TreeInv
      <4>4. Extends(heap', heap)
        BY <1>2, <4>2, StepAdds, AddsExtend DEF Tree
      <4>5. Contents(heap) \subseteq Contents(heap')
        BY <4>2, <4>3, <4>4, ContentsStay
      <4>6. \A e \in Contents(heap') : Document!Placed(Contents(heap'), e)
        BY <4>3, AllPlaced
      <4> QED BY <3>1, <4>1, <4>5, <4>6 DEF Document!Extend
    <3> QED BY <3>2, <3>3
  <2> QED BY <1>2, <2>1, <2>2, <2>3, <2>4, EveryStep
<1>3. Inv /\ Inv' /\ [Next]_vars =>
        [Document!Extend \/ Document!HandOver \/ Document!Reject]_<<doc, outcome>>
  BY <1>2
<1>4. IInv /\ Told /\ [Next]_vars => Told'
  BY ToldStep
<1> HIDE DEF doc, outcome
<1> QED BY <1>1, <1>3, <1>4, Invariance, KeysUnique, PTL
       DEF Spec, Document!Spec, Implements, doc, outcome

-----------------------------------------------------------------------------
(* A sequence that lists a set: everything in it, and nothing twice.       *)
Listing(s, S) ==
  /\ s \in Seq(S)
  /\ \A i, j \in DOMAIN s : s[i] = s[j] => i = j
  /\ \A x \in S : \E i \in DOMAIN s : s[i] = x

LEMMA ListsNothing == Listing(<<>>, {})
BY EmptySeq, EmptySequence, SequenceFacts DEF Listing

LEMMA ListsOne ==
  ASSUME NEW x
  PROVE  Listing(<<x>>, {x})
<1>1. PICK s : s = <<x>>
  OBVIOUS
<1>2. Len(s) = 1 /\ s[1] = x /\ DOMAIN s = 1 .. 1
  BY <1>1
<1>3. s \in Seq({x})
  BY <1>1
<1> QED BY <1>1, <1>2, <1>3 DEF Listing

LEMMA ListsBoth ==
  ASSUME NEW s, NEW S, Listing(s, S), NEW t, NEW T, Listing(t, T), S \intersect T = {}
  PROVE  Listing(s \o t, S \union T)
<1>1. PICK U : U = S \union T
  OBVIOUS
<1>2. s \in Seq(U) /\ t \in Seq(U)
  BY <1>1, SeqMonotonic DEF Listing
<1>3. Len(s) \in Nat /\ DOMAIN s = 1 .. Len(s) /\ Len(t) \in Nat /\ DOMAIN t = 1 .. Len(t)
  BY <1>2, LenProperties
<1>4. PICK l : l = s \o t
  OBVIOUS
<1>5. /\ l \in Seq(U) /\ Len(l) = Len(s) + Len(t)
      /\ \A i \in 1 .. Len(s) + Len(t) : l[i] = IF i <= Len(s) THEN s[i] ELSE t[i - Len(s)]
  BY <1>2, <1>4, ConcatProperties
<1>6. DOMAIN l = 1 .. Len(s) + Len(t)
  BY <1>5, LenProperties
<1>7. /\ \A i \in DOMAIN s : s[i] \in S /\ \A j \in DOMAIN s : s[i] = s[j] => i = j
      /\ \A i \in DOMAIN t : t[i] \in T /\ \A j \in DOMAIN t : t[i] = t[j] => i = j
  BY <1>3, ElementOfSeq DEF Listing
<1>8. ASSUME NEW i \in DOMAIN l, NEW j \in DOMAIN l, l[i] = l[j] PROVE i = j
  <2>1. \A k \in DOMAIN l : IF k <= Len(s) THEN k \in DOMAIN s /\ l[k] = s[k] /\ l[k] \in S
                            ELSE k - Len(s) \in DOMAIN t /\ l[k] = t[k - Len(s)] /\ l[k] \in T
    BY <1>3, <1>5, <1>6, <1>7
  <2>2. i <= Len(s) <=> j <= Len(s)
    BY <1>8, <2>1
  <2> QED BY <1>3, <1>6, <1>7, <1>8, <2>1, <2>2
<1>9. ASSUME NEW x \in U PROVE \E i \in DOMAIN l : l[i] = x
  <2>1. CASE x \in S
    <3>1. PICK i \in DOMAIN s : s[i] = x
      BY <2>1 DEF Listing
    <3>2. i \in DOMAIN l /\ l[i] = x
      BY <1>3, <1>5, <1>6, <3>1
    <3> QED BY <3>2
  <2>2. CASE x \in T
    <3>1. PICK i \in DOMAIN t : t[i] = x
      BY <2>2 DEF Listing
    <3>2. PICK k \in Nat : k = Len(s) + i
      BY <1>3
    <3>3. k \in DOMAIN l /\ l[k] = x
      BY <1>3, <1>5, <1>6, <3>1, <3>2
    <3> QED BY <3>3
  <2> QED BY <1>1, <1>9, <2>1, <2>2
<1> QED BY <1>1, <1>4, <1>5, <1>8, <1>9 DEF Listing

(* Lists put one behind the other list all that is in one of them, when no *)
(* two have anything in common.                                            *)
Flat(seqs, f, i) == IF i = 1 THEN seqs[i] ELSE f[i - 1] \o seqs[i]
FlatUpTo(seqs, k) == \E f : f = [i \in 1 .. k |-> Flat(seqs, f, i)]

LEMMA FlatExists ==
  ASSUME NEW seqs, NEW l \in Nat
  PROVE  FlatUpTo(seqs, l)
<1>1. PICK Lacking : Lacking = {k \in Nat : ~ FlatUpTo(seqs, k)}
  OBVIOUS
<1>2. Lacking = {}
  <2> SUFFICES ASSUME Lacking # {} PROVE FALSE
    OBVIOUS
  <2>1. PICK k \in Lacking : \A j \in Lacking : k <= j
    BY <1>1, Least
  <2>2. k \in Nat /\ ~ FlatUpTo(seqs, k)
    BY <1>1
  <2>3. k # 0
    <3>1. PICK f : f = [i \in {} |-> <<>>]
      OBVIOUS
    <3>2. f = [i \in 1 .. 0 |-> Flat(seqs, f, i)]
      BY <3>1
    <3>3. FlatUpTo(seqs, 0)
      BY <3>2 DEF FlatUpTo
    <3> QED BY <2>2, <3>3
  <2>4. k - 1 \in Nat /\ k - 1 \notin Lacking
    BY <2>1, <2>2, <2>3
  <2>5. FlatUpTo(seqs, k - 1)
    BY <1>1, <2>4
  <2>6. PICK f : f = [i \in 1 .. k - 1 |-> Flat(seqs, f, i)]
    BY <2>5 DEF FlatUpTo
  <2>7. PICK g : g = [i \in 1 .. k |-> Flat(seqs, f, i)]
    OBVIOUS
  <2>8. \A i \in 1 .. k - 1 : g[i] = f[i]
    BY <2>2, <2>6, <2>7
  <2>9. \A i \in 1 .. k : Flat(seqs, f, i) = Flat(seqs, g, i)
    BY <2>2, <2>8 DEF Flat
  <2>10. g = [i \in 1 .. k |-> Flat(seqs, g, i)]
    BY <2>7, <2>9
  <2> QED BY <2>2, <2>10 DEF FlatUpTo
<1> QED BY <1>1, <1>2

LEMMA FlatLists ==
  ASSUME NEW seqs, NEW l \in Nat, DOMAIN seqs = 1 .. l, Sequence(seqs), NEW F,
         \A k \in 1 .. l : Listing(seqs[k], F[k]),
         \A j, k \in 1 .. l : j # k => F[j] \intersect F[k] = {}
  PROVE  Listing(FlattenSeq(seqs), UNION {F[k] : k \in 1 .. l})
<1>1. Len(seqs) = l
  BY DomainLen
<1>2. CASE l = 0
  <2>1. FlattenSeq(seqs) = seqs
    BY <1>1, <1>2 DEF FlattenSeq
  <2>2. seqs = <<>>
    BY <1>1, <1>2, EmptySeq DEF Sequence
  <2>3. UNION {F[k] : k \in 1 .. l} = {}
    BY <1>2
  <2> QED BY <2>1, <2>2, <2>3, ListsNothing
<1>3. CASE l # 0
  <2>1. \E f : f = [i \in 1 .. Len(seqs) |-> Flat(seqs, f, i)]
    BY <1>1, FlatExists DEF FlatUpTo
  <2>2. PICK f : /\ f = [i \in 1 .. l |-> Flat(seqs, f, i)]
                 /\ FlattenSeq(seqs) = f[l]
    BY <1>1, <1>3, <2>1 DEF FlattenSeq, Flat
  <2>3. PICK All : All = [i \in 1 .. l |-> UNION {F[k] : k \in 1 .. i}]
    OBVIOUS
  <2>4. PICK Other : Other = {i \in 1 .. l : ~ Listing(f[i], All[i])}
    OBVIOUS
  <2>5. Other = {}
    <3>0. Other \in SUBSET Nat
      BY <2>4
    <3> SUFFICES ASSUME Other # {} PROVE FALSE
      OBVIOUS
    <3>1. PICK i \in Other : \A j \in Other : i <= j
      BY <3>0, Least
    <3>2. i \in 1 .. l /\ ~ Listing(f[i], All[i]) /\ f[i] = Flat(seqs, f, i)
      BY <2>2, <2>4
    <3>3. CASE i = 1
      <4>1. All[i] = F[i] /\ f[i] = seqs[i]
        BY <2>3, <3>2, <3>3 DEF Flat
      <4> QED BY <3>2, <4>1
    <3>4. CASE i # 1
      <4>1. i - 1 \in 1 .. l /\ i - 1 \notin Other
        BY <3>1, <3>2, <3>4
      <4>2. Listing(f[i - 1], All[i - 1])
        BY <2>4, <4>1
      <4>3. All[i] = All[i - 1] \union F[i]
        <5>1. \A k \in 1 .. i : k = i \/ k \in 1 .. i - 1
          BY <3>2
        <5> QED BY <2>3, <3>2, <4>1, <5>1
      <4>4. All[i - 1] \intersect F[i] = {}
        BY <2>3, <3>2, <4>1
      <4>5. f[i] = f[i - 1] \o seqs[i]
        BY <3>2, <3>4 DEF Flat
      <4> QED BY <3>2, <4>2, <4>3, <4>4, <4>5, ListsBoth
    <3> QED BY <3>3, <3>4
  <2>6. Listing(f[l], All[l])
    BY <1>3, <2>4, <2>5
  <2> QED BY <1>3, <2>2, <2>3, <2>6
<1> QED BY <1>2, <1>3

(* The nodes below a node, once each.                                      *)
NodesIn(node) == {Members(node)[k].id : k \in DOMAIN Members(node)} \ {0}
IdsOf(node, sort) ==
  {node.entries[k].id : k \in {k \in DOMAIN node.entries : node.entries[k].sort = sort}}

LEMMA FunctionSequence ==
  ASSUME NEW l \in Nat, NEW f, f = [k \in 1 .. l |-> f[k]]
  PROVE  Sequence(f) /\ DOMAIN f = 1 .. l
<1>1. DOMAIN f = 1 .. l /\ f \in [1 .. l -> Range(f)]
  BY DEF Range
<1>2. f \in Seq(Range(f))
  BY <1>1
<1> QED BY <1>1, <1>2 DEF Sequence

OfSort(node, sort) == {e \in Range(node.entries) : e.sort = sort}

LEMMA SequenceIs ==
  ASSUME NEW S, NEW s \in Seq(S)
  PROVE  Sequence(s)
<1>1. Len(s) \in Nat /\ DOMAIN s = 1 .. Len(s) /\ s = [i \in 1 .. Len(s) |-> s[i]]
  BY LenProperties
<1>2. PICK l \in Nat : s = [i \in 1 .. l |-> s[i]]
  BY <1>1
<1> QED BY <1>2, FunctionSequence

LEMMA EntriesList ==
  ASSUME NEW node, Sequence(node.entries), NEW sort,
         \A j, k \in DOMAIN node.entries :
           node.entries[j].sort = sort /\ node.entries[j] = node.entries[k] => j = k
  PROVE  Listing(EntriesOf(node, sort), OfSort(node, sort))
<1>1. PICK entries : entries = node.entries
  OBVIOUS
<1>2. PICK l \in Nat : l = Len(entries) /\ DOMAIN entries = 1 .. l
  BY <1>1, SequenceFacts
<1>3. PICK seqs :
        seqs = [k \in 1 .. l |-> IF entries[k].sort = sort THEN <<entries[k]>> ELSE <<>>]
  OBVIOUS
<1>4. PICK F : F = [k \in 1 .. l |-> IF entries[k].sort = sort THEN {entries[k]} ELSE {}]
  OBVIOUS
<1>5. Sequence(seqs) /\ DOMAIN seqs = 1 .. l
  BY <1>2, <1>3, FunctionSequence
<1>6. ASSUME NEW k \in 1 .. l PROVE Listing(seqs[k], F[k])
  <2>1. CASE entries[k].sort = sort
    BY <1>3, <1>4, <2>1, ListsOne
  <2>2. CASE entries[k].sort # sort
    BY <1>3, <1>4, <2>2, ListsNothing
  <2> QED BY <2>1, <2>2
<1>7. \A j, k \in 1 .. l : j # k => F[j] \intersect F[k] = {}
  BY <1>1, <1>2, <1>4
<1>8. PICK U : U = UNION {F[k] : k \in 1 .. l}
  OBVIOUS
<1>9. Listing(FlattenSeq(seqs), U)
  <2>1. \A k \in 1 .. l : Listing(seqs[k], F[k])
    BY <1>6
  <2> QED BY <1>5, <1>7, <1>8, <2>1, FlatLists
<1>10. FlattenSeq(seqs) = EntriesOf(node, sort)
  BY <1>1, <1>2, <1>3 DEF EntriesOf
<1>11. U = OfSort(node, sort)
  BY <1>1, <1>2, <1>4, <1>8 DEF OfSort, Range
<1> QED BY <1>9, <1>10, <1>11

LEMMA EntryNodesList ==
  ASSUME NEW node, Sequence(node.entries), NEW sort,
         \A j, k \in DOMAIN node.entries :
           /\ node.entries[j].sort = sort /\ node.entries[k].sort = sort
           /\ node.entries[j].id = node.entries[k].id
           => j = k
  PROVE  Listing(EntryNodes(node, sort), IdsOf(node, sort))
<1>1. PICK s : s = EntriesOf(node, sort)
  OBVIOUS
<1>2. Listing(s, OfSort(node, sort))
  BY <1>1, EntriesList
<1>3. PICK l \in Nat : DOMAIN s = 1 .. l /\ \A i \in 1 .. l : s[i] \in OfSort(node, sort)
  BY <1>2, LenProperties, ElementOfSeq DEF Listing
<1>4. PICK ids : ids = [i \in 1 .. l |-> s[i].id]
  OBVIOUS
<1>5. ids = EntryNodes(node, sort)
  BY <1>1, <1>3, <1>4 DEF EntryNodes
<1>6. Sequence(ids) /\ DOMAIN ids = 1 .. l
  BY <1>4, FunctionSequence
<1>7. Range(ids) = IdsOf(node, sort)
  <2>1. ASSUME NEW i \in 1 .. l PROVE ids[i] \in IdsOf(node, sort)
    <3>1. PICK k \in DOMAIN node.entries : node.entries[k] = s[i] /\ s[i].sort = sort
      BY <1>3 DEF OfSort, Range
    <3> QED BY <1>4, <3>1 DEF IdsOf
  <2>2. ASSUME NEW k \in DOMAIN node.entries, node.entries[k].sort = sort
        PROVE  \E i \in 1 .. l : ids[i] = node.entries[k].id
    <3>1. node.entries[k] \in OfSort(node, sort)
      BY <2>2 DEF OfSort, Range
    <3>2. PICK i \in 1 .. l : s[i] = node.entries[k]
      BY <1>2, <1>3, <3>1 DEF Listing
    <3> QED BY <1>4, <3>2
  <2>3. Range(ids) \subseteq IdsOf(node, sort)
    BY <1>6, <2>1 DEF Range
  <2>4. IdsOf(node, sort) \subseteq Range(ids)
    <3> SUFFICES ASSUME NEW k \in DOMAIN node.entries, node.entries[k].sort = sort
                 PROVE  node.entries[k].id \in Range(ids)
      BY DEF IdsOf
    <3>1. PICK i \in 1 .. l : ids[i] = node.entries[k].id
      BY <2>2
    <3> QED BY <1>6, <3>1 DEF Range
  <2> QED BY <2>3, <2>4
<1>8. ASSUME NEW i \in 1 .. l, NEW j \in 1 .. l, ids[i] = ids[j] PROVE i = j
  <2>1. PICK m \in DOMAIN node.entries : node.entries[m] = s[i] /\ s[i].sort = sort
    BY <1>3 DEF OfSort, Range
  <2>2. PICK n \in DOMAIN node.entries : node.entries[n] = s[j] /\ s[j].sort = sort
    BY <1>3 DEF OfSort, Range
  <2>3. m = n
    BY <1>4, <1>8, <2>1, <2>2
  <2> QED BY <1>2, <1>3, <2>1, <2>2, <2>3 DEF Listing
<1>9. ids \in Seq(IdsOf(node, sort))
  BY <1>6, <1>7 DEF Sequence
<1>10. \A x \in IdsOf(node, sort) : \E i \in DOMAIN ids : ids[i] = x
  BY <1>7 DEF Range
<1> QED BY <1>5, <1>6, <1>8, <1>9, <1>10 DEF Listing

LEMMA ChildrenList ==
  ASSUME NEW h, Typed(h), Sound(h), OneParent(h), NEW n \in DOMAIN h
  PROVE  Listing(Children(h[n]), NodesIn(h[n]))
<1>1. PICK node : node = h[n]
  OBVIOUS
<1>2. \A j, k \in DOMAIN Members(node) :
        Members(node)[j].id = Members(node)[k].id /\ Members(node)[j].id # 0 => j = k
  BY <1>1 DEF OneParent
<1>3. 0 \notin DOMAIN h
  BY HeapDomain
<1>4. CASE node.sort = "t"
  <2>1. Sequence(node.entries) /\ TableSound(h, node)
    BY <1>1, <1>4, SoundAt DEF Typed, IsTable, IsArr
  <2>2. \A k \in DOMAIN node.entries :
          IF node.entries[k].sort = "v" THEN node.entries[k].id = 0
          ELSE node.entries[k].sort \in {"a", "t"} /\ node.entries[k].id # 0
    BY <1>3, <2>1 DEF TableSound, Stands
  <2>3. \A j, k \in DOMAIN node.entries :
          node.entries[j].id = node.entries[k].id /\ node.entries[j].id # 0 => j = k
    BY <1>2, <1>4 DEF Members
  <2>4. \A sort \in {"a", "t"} : Listing(EntryNodes(node, sort), IdsOf(node, sort))
    BY <2>1, <2>2, <2>3, EntryNodesList
  <2>5. IdsOf(node, "a") \intersect IdsOf(node, "t") = {}
    BY <2>2, <2>3 DEF IdsOf
  <2>6. IdsOf(node, "a") \union IdsOf(node, "t") = NodesIn(node)
    BY <1>4, <2>2 DEF IdsOf, NodesIn, Members
  <2>7. Listing(EntryNodes(node, "a") \o EntryNodes(node, "t"), NodesIn(node))
    BY <2>4, <2>5, <2>6, ListsBoth
  <2> QED BY <1>1, <1>4, <2>7 DEF Children
<1>5. CASE node.sort # "t"
  <2>1. Sequence(node.elems) /\ ArraySound(h, node)
    BY <1>1, <1>5, SoundAt, HeapDomain DEF Typed, IsTable, IsArr
  <2>2. CASE node.kind \in {"a", "t"}
    <3>1. \A k \in DOMAIN node.elems : node.elems[k].id # 0
      BY <1>3, <2>1, <2>2 DEF ArraySound, Stands
    <3>2. PICK l \in Nat : DOMAIN node.elems = 1 .. l
      BY <2>1, SequenceFacts
    <3>3. PICK s : s = [k \in 1 .. l |-> node.elems[k].id]
      OBVIOUS
    <3>4. Sequence(s) /\ DOMAIN s = 1 .. l
      BY <3>3, FunctionSequence
    <3>5. Range(s) = NodesIn(node)
      BY <1>5, <3>1, <3>2, <3>3 DEF NodesIn, Members, Range
    <3>6. \A j, k \in DOMAIN s : s[j] = s[k] => j = k
      BY <1>2, <1>5, <3>1, <3>2, <3>3 DEF Members
    <3>7. Listing(s, NodesIn(node))
      BY <3>4, <3>5, <3>6 DEF Listing, Sequence, Range
    <3> QED BY <1>1, <1>5, <2>2, <3>2, <3>3, <3>7 DEF Children
  <2>3. CASE node.kind \notin {"a", "t"}
    <3>1. DOMAIN <<>> = {}
      BY EmptySequence, SequenceFacts
    <3>2. \A k \in DOMAIN node.elems : node.elems[k].id = 0
      BY <2>1, <2>3, <3>1 DEF ArraySound
    <3>3. NodesIn(node) = {}
      BY <1>5, <3>2 DEF NodesIn, Members
    <3> QED BY <1>1, <1>5, <2>3, <3>3, ListsNothing DEF Children
  <2> QED BY <2>2, <2>3
<1> QED BY <1>4, <1>5

LEMMA ListedRange ==
  ASSUME NEW s, NEW S, Listing(s, S)
  PROVE  Range(s) = S
<1>1. DOMAIN s = 1 .. Len(s) /\ \A i \in DOMAIN s : s[i] \in S
  BY LenProperties, ElementOfSeq DEF Listing
<1> QED BY <1>1 DEF Range, Listing

LEMMA ChildrenLater ==
  ASSUME NEW h, Typed(h), Sound(h), OneParent(h), NEW n \in DOMAIN h
  PROVE  /\ Range(Children(h[n])) = NodesIn(h[n])
         /\ \A x \in NodesIn(h[n]) : x \in DOMAIN h /\ n < x /\ Holds(h[n], x)
<1>1. Range(Children(h[n])) = NodesIn(h[n])
  BY ChildrenList, ListedRange
<1>2. ASSUME NEW x \in NodesIn(h[n]) PROVE x \in DOMAIN h /\ n < x /\ Holds(h[n], x)
  <2>1. PICK k \in DOMAIN Members(h[n]) : x = Members(h[n])[k].id /\ x # 0
    BY DEF NodesIn
  <2>2. x \in DOMAIN h
    BY <2>1, IdsInHeap
  <2>3. n < x
    BY <2>1 DEF OneParent
  <2> QED BY <2>1, <2>2, <2>3 DEF Holds
<1> QED BY <1>1, <1>2

(* toml_free comes to an end: below a node there are only newer ones.      *)
FreeOn(h, f, n) ==
  FlattenSeq([k \in DOMAIN Children(h[n]) |-> f[Children(h[n])[k]]]) \o <<n>>
FreedFrom(h, k) == \E f : f = [n \in k .. Len(h) |-> FreeOn(h, f, n)]

LEMMA OneMoreFreed ==
  ASSUME NEW h, Typed(h), Sound(h), OneParent(h), NEW k \in DOMAIN h, FreedFrom(h, k + 1)
  PROVE  FreedFrom(h, k)
<1>1. PICK f : f = [n \in k + 1 .. Len(h) |-> FreeOn(h, f, n)]
  BY DEF FreedFrom
<1>2. Len(h) \in Nat \ {0} /\ DOMAIN h = 1 .. Len(h) /\ k \in 1 .. Len(h)
  BY HeapDomain
<1>3. PICK g : g = [n \in k .. Len(h) |-> FreeOn(h, f, n)]
  OBVIOUS
<1>4. \A n \in k + 1 .. Len(h) : g[n] = f[n]
  BY <1>1, <1>2, <1>3, SMTT(30)
<1>5. ASSUME NEW n \in k .. Len(h) PROVE FreeOn(h, f, n) = FreeOn(h, g, n)
  <2>1. n \in DOMAIN h
    BY <1>2
  <2>2. PICK c : c = Children(h[n])
    OBVIOUS
  <2>3. \A i \in DOMAIN c : c[i] \in k + 1 .. Len(h)
    <3>1. \A i \in DOMAIN c : c[i] \in NodesIn(h[n])
      BY <2>1, <2>2, ChildrenLater DEF Range
    <3>2. \A x \in NodesIn(h[n]) : x \in DOMAIN h /\ n < x
      BY <2>1, ChildrenLater
    <3> QED BY <1>2, <3>1, <3>2
  <2>4. [i \in DOMAIN c |-> f[c[i]]] = [i \in DOMAIN c |-> g[c[i]]]
    BY <1>4, <2>3
  <2> QED BY <2>2, <2>4 DEF FreeOn
<1>6. g = [n \in k .. Len(h) |-> FreeOn(h, g, n)]
  BY <1>3, <1>5
<1> QED BY <1>6 DEF FreedFrom

LEMMA FreeExists ==
  ASSUME NEW h, Typed(h), Sound(h), OneParent(h)
  PROVE  \E f : f = [n \in DOMAIN h |-> FreeOn(h, f, n)] /\ toml_free(h) = f[ROOT]
<1>1. PICK l \in Nat \ {0} : l = Len(h) /\ DOMAIN h = 1 .. l
  BY HeapDomain
<1>2. PICK Lacking : Lacking = {k \in 0 .. l : ~ FreedFrom(h, l + 1 - k)}
  OBVIOUS
<1>3. Lacking = {}
  <2>0. Lacking \in SUBSET Nat
    BY <1>2
  <2> SUFFICES ASSUME Lacking # {} PROVE FALSE
    OBVIOUS
  <2>1. PICK k \in Lacking : \A j \in Lacking : k <= j
    BY <2>0, Least
  <2>2. k \in 0 .. l /\ ~ FreedFrom(h, l + 1 - k)
    BY <1>2
  <2>3. k # 0
    <3>1. PICK f : f = [i \in {} |-> <<>>]
      OBVIOUS
    <3>2. f = [n \in l + 1 .. l |-> FreeOn(h, f, n)]
      BY <3>1
    <3>3. FreedFrom(h, l + 1)
      BY <1>1, <3>2 DEF FreedFrom
    <3> QED BY <2>2, <3>3
  <2>4. k - 1 \in 0 .. l /\ k - 1 \notin Lacking
    BY <2>1, <2>2, <2>3
  <2>5. PICK j \in DOMAIN h : j = l + 1 - k /\ j + 1 = l + 1 - (k - 1)
    BY <1>1, <2>2, <2>3
  <2>6. FreedFrom(h, j + 1)
    BY <1>2, <2>4, <2>5
  <2> QED BY <2>2, <2>5, <2>6, OneMoreFreed
<1>4. l \in 0 .. l /\ l + 1 - l = 1
  OBVIOUS
<1>5. FreedFrom(h, 1)
  BY <1>2, <1>3, <1>4
<1>6. \E f : f = [n \in DOMAIN h |-> FreeOn(h, f, n)]
  BY <1>1, <1>5 DEF FreedFrom
<1>7. PICK f : f = CHOOSE free : free = [n \in DOMAIN h |-> FreeOn(h, free, n)]
  OBVIOUS
<1>8. f = [n \in DOMAIN h |-> FreeOn(h, f, n)]
  BY <1>6, <1>7
<1>9. toml_free(h) = f[ROOT]
  BY <1>7 DEF toml_free, FreeOn
<1> QED BY <1>8, <1>9

(* The nodes that are given back with a node: all that are below it, and   *)
(* none that is not.                                                       *)
Subtree(h, S, n) ==
  /\ n \in S /\ S \subseteq DOMAIN h /\ \A x \in S : n <= x
  /\ \A x \in S \ {n} : \E m \in S : Holds(h[m], x)
  /\ \A m \in S : NodesIn(h[m]) \subseteq S

LEMMA OneHolder ==
  ASSUME NEW h, OneParent(h), NEW n \in DOMAIN h, NEW m \in DOMAIN h, NEW x, x # 0,
         Holds(h[n], x), Holds(h[m], x)
  PROVE  n = m /\ n < x
BY DEF OneParent, Holds

LEMMA SubtreesApart ==
  ASSUME NEW h, Typed(h), Sound(h), OneParent(h), NEW n \in DOMAIN h,
         NEW c \in NodesIn(h[n]), NEW d \in NodesIn(h[n]), c # d,
         NEW S, Subtree(h, S, c), NEW T, Subtree(h, T, d)
  PROVE  S \intersect T = {}
<1> SUFFICES ASSUME S \intersect T # {} PROVE FALSE
  OBVIOUS
<1>1. DOMAIN h \subseteq Nat \ {0}
  BY HeapDomain
<1>2. n < c /\ n < d /\ Holds(h[n], c) /\ Holds(h[n], d)
  BY ChildrenLater
<1>3. S \intersect T \in SUBSET Nat
  BY <1>1 DEF Subtree
<1>4. PICK x \in S \intersect T : \A y \in S \intersect T : x <= y
  BY <1>3, Least
<1>5. x \in DOMAIN h /\ c <= x /\ d <= x /\ c \in DOMAIN h /\ d \in DOMAIN h
  BY DEF Subtree
<1>6. ASSUME NEW m \in DOMAIN h, x = c \/ x = d, Holds(h[m], x) PROVE m = n
  BY <1>1, <1>2, <1>5, <1>6, OneHolder
<1>7. CASE x = c
  <2>1. PICK m \in T : Holds(h[m], x)
    BY <1>7 DEF Subtree
  <2>2. m = n
    BY <1>6, <1>7, <2>1 DEF Subtree
  <2> QED BY <1>1, <1>2, <1>5, <2>1, <2>2 DEF Subtree
<1>8. CASE x = d
  <2>1. PICK m \in S : Holds(h[m], x)
    BY <1>8 DEF Subtree
  <2>2. m = n
    BY <1>6, <1>8, <2>1 DEF Subtree
  <2> QED BY <1>1, <1>2, <1>5, <2>1, <2>2 DEF Subtree
<1>9. CASE x # c /\ x # d
  <2>1. PICK m \in S : Holds(h[m], x)
    BY <1>9 DEF Subtree
  <2>2. PICK k \in T : Holds(h[k], x)
    BY <1>9 DEF Subtree
  <2>3. m \in DOMAIN h /\ k \in DOMAIN h
    BY DEF Subtree
  <2>4. m = k /\ m < x
    BY <1>1, <1>5, <2>1, <2>2, <2>3, OneHolder
  <2>5. x <= m
    BY <1>4, <2>4
  <2> QED BY <1>1, <1>5, <2>3, <2>4, <2>5
<1> QED BY <1>7, <1>8, <1>9

(* What is given back with a node, from what is with the nodes below it.   *)
LEMMA SubtreeMade ==
  ASSUME NEW h, Typed(h), Sound(h), OneParent(h), NEW n \in DOMAIN h, NEW f,
         f[n] = FreeOn(h, f, n),
         \A c \in NodesIn(h[n]) : Listing(f[c], Range(f[c])) /\ Subtree(h, Range(f[c]), c)
  PROVE  Listing(f[n], Range(f[n])) /\ Subtree(h, Range(f[n]), n)
<1>1. PICK C : C = Children(h[n])
  OBVIOUS
<1>2. Listing(C, NodesIn(h[n])) /\ Range(C) = NodesIn(h[n])
  BY <1>1, ChildrenList, ChildrenLater
<1>3. PICK l \in Nat : DOMAIN C = 1 .. l
  BY <1>2, LenProperties DEF Listing
<1>4. \A k \in 1 .. l : C[k] \in NodesIn(h[n])
  BY <1>2, <1>3 DEF Range
<1>5. PICK seqs : seqs = [k \in 1 .. l |-> f[C[k]]]
  OBVIOUS
<1>6. PICK F : F = [k \in 1 .. l |-> Range(f[C[k]])]
  OBVIOUS
<1>7. Sequence(seqs) /\ DOMAIN seqs = 1 .. l
  BY <1>5, FunctionSequence
<1>8. \A k \in 1 .. l : Listing(seqs[k], F[k]) /\ Subtree(h, F[k], C[k])
  BY <1>4, <1>5, <1>6
<1>9. \A j, k \in 1 .. l : j # k => F[j] \intersect F[k] = {}
  <2> SUFFICES ASSUME NEW j \in 1 .. l, NEW k \in 1 .. l, j # k
               PROVE  F[j] \intersect F[k] = {}
    OBVIOUS
  <2>1. C[j] # C[k]
    BY <1>2, <1>3 DEF Listing
  <2> QED BY <1>4, <1>8, <2>1, SubtreesApart
<1>10. PICK U : U = UNION {F[k] : k \in 1 .. l}
  OBVIOUS
<1>11. Listing(FlattenSeq(seqs), U)
  <2>1. \A k \in 1 .. l : Listing(seqs[k], F[k])
    BY <1>8
  <2> QED BY <1>7, <1>9, <1>10, <2>1, FlatLists
<1>12. DOMAIN h \subseteq Nat
  BY HeapDomain
<1>13. \A x \in U : x \in DOMAIN h /\ n < x
  <2> SUFFICES ASSUME NEW k \in 1 .. l, NEW x \in F[k] PROVE x \in DOMAIN h /\ n < x
    BY <1>10
  <2>1. x \in DOMAIN h /\ C[k] <= x
    BY <1>8 DEF Subtree
  <2>2. C[k] \in DOMAIN h /\ n < C[k]
    BY <1>4, ChildrenLater
  <2> QED BY <1>12, <2>1, <2>2
<1>14. U \intersect {n} = {}
  BY <1>12, <1>13
<1>15. f[n] = FlattenSeq(seqs) \o <<n>>
  BY <1>1, <1>3, <1>5 DEF FreeOn
<1>16. Listing(f[n], U \union {n})
  <2>1. PICK s, t, T : s = FlattenSeq(seqs) /\ t = <<n>> /\ T = {n}
    OBVIOUS
  <2>2. Listing(t, T)
    BY <2>1, ListsOne
  <2>3. Listing(s \o t, U \union T)
    BY <1>11, <1>14, <2>1, <2>2, ListsBoth
  <2> QED BY <1>15, <2>1, <2>3
<1>17. Range(f[n]) = U \union {n}
  BY <1>16, ListedRange
<1>18. NodesIn(h[n]) \subseteq U
  <2> SUFFICES ASSUME NEW c \in NodesIn(h[n]) PROVE c \in U
    OBVIOUS
  <2>1. PICK k \in 1 .. l : C[k] = c
    BY <1>2, <1>3 DEF Listing
  <2>2. c \in F[k]
    BY <1>8, <2>1 DEF Subtree
  <2> QED BY <1>10, <2>2
<1>19. \A m \in U : NodesIn(h[m]) \subseteq U
  <2> SUFFICES ASSUME NEW k \in 1 .. l, NEW m \in F[k] PROVE NodesIn(h[m]) \subseteq U
    BY <1>10
  <2>1. NodesIn(h[m]) \subseteq F[k]
    BY <1>8 DEF Subtree
  <2> QED BY <1>10, <2>1
<1>20. \A x \in U : \E m \in U \union {n} : Holds(h[m], x)
  <2> SUFFICES ASSUME NEW k \in 1 .. l, NEW x \in F[k]
               PROVE  \E m \in U \union {n} : Holds(h[m], x)
    BY <1>10
  <2>1. CASE x = C[k]
    BY <1>4, <2>1, ChildrenLater
  <2>2. CASE x # C[k]
    <3>1. PICK m \in F[k] : Holds(h[m], x)
      BY <1>8, <2>2 DEF Subtree
    <3> QED BY <1>10, <3>1
  <2> QED BY <2>1, <2>2
<1>21. Subtree(h, U \union {n}, n)
  <2>1. \A x \in U \union {n} : x \in DOMAIN h /\ n <= x
    BY <1>12, <1>13
  <2>2. \A m \in U \union {n} : NodesIn(h[m]) \subseteq U \union {n}
    BY <1>18, <1>19
  <2> QED BY <1>20, <2>1, <2>2 DEF Subtree
<1> QED BY <1>16, <1>17, <1>21

(* toml_free lists nodes of memory, and only c may be missing.             *)
LEMMA FreesTree ==
  ASSUME NEW h, NEW c, Tree(h, c)
  PROVE  \E S \in SUBSET DOMAIN h : Listing(toml_free(h), S) /\ DOMAIN h \ {c} \subseteq S
<1>1. Typed(h) /\ Sound(h) /\ OneParent(h) /\ Reached(h, c)
  BY DEF Tree
<1>2. PICK l \in Nat \ {0} : DOMAIN h = 1 .. l
  BY <1>1, HeapDomain
<1>3. PICK f : f = [n \in DOMAIN h |-> FreeOn(h, f, n)] /\ toml_free(h) = f[ROOT]
  BY <1>1, FreeExists
<1>4. PICK Other : Other = {k \in 0 .. l - 1 :
                          ~ (/\ Listing(f[l - k], Range(f[l - k]))
                             /\ Subtree(h, Range(f[l - k]), l - k))}
  OBVIOUS
<1>5. Other = {}
  <2>0. Other \in SUBSET Nat
    BY <1>4
  <2> SUFFICES ASSUME Other # {} PROVE FALSE
    OBVIOUS
  <2>1. PICK k \in Other : \A j \in Other : k <= j
    BY <2>0, Least
  <2>2. k \in 0 .. l - 1
    BY <1>4
  <2>3. PICK n \in DOMAIN h : n = l - k
    BY <1>2, <2>2
  <2>4. ~ (Listing(f[n], Range(f[n])) /\ Subtree(h, Range(f[n]), n))
    BY <1>4, <2>3
  <2>5. ASSUME NEW d \in NodesIn(h[n])
        PROVE  Listing(f[d], Range(f[d])) /\ Subtree(h, Range(f[d]), d)
    <3>1. d \in DOMAIN h /\ n < d
      BY <1>1, ChildrenLater
    <3>2. PICK j \in 0 .. l - 1 : j = l - d /\ d = l - j /\ j < k
      BY <1>2, <2>2, <2>3, <3>1
    <3>3. j \notin Other
      BY <2>1, <2>2, <3>2
    <3> QED BY <1>4, <3>2, <3>3
  <2>6. f[n] = FreeOn(h, f, n)
    BY <1>3
  <2>7. Listing(f[n], Range(f[n])) /\ Subtree(h, Range(f[n]), n)
    BY <1>1, <2>5, <2>6, SubtreeMade
  <2> QED BY <2>4, <2>7
<1>6. PICK S : S = Range(f[ROOT])
  OBVIOUS
<1>7. Listing(f[ROOT], S) /\ Subtree(h, S, ROOT)
  <2>1. l - 1 \in 0 .. l - 1 /\ l - (l - 1) = ROOT
    BY DEF ROOT
  <2> QED BY <1>4, <1>5, <1>6, <2>1
<1>8. PICK Missed : Missed = (DOMAIN h \ {c}) \ S
  OBVIOUS
<1>9. Missed = {}
  <2>0. Missed \in SUBSET Nat
    BY <1>2, <1>8
  <2> SUFFICES ASSUME Missed # {} PROVE FALSE
    OBVIOUS
  <2>1. PICK d \in Missed : \A j \in Missed : d <= j
    BY <2>0, Least
  <2>2. d \in DOMAIN h \ {ROOT, c} /\ d \notin S
    BY <1>7, <1>8 DEF Subtree
  <2>3. PICK m \in DOMAIN h \ {c} : Holds(h[m], d)
    BY <1>1, <2>2 DEF Reached
  <2>4. d # 0 /\ d \in Nat
    BY <1>2, <2>2
  <2>5. m < d
    BY <1>1, <2>3, <2>4, OneHolder
  <2>6. m \notin Missed
    BY <1>2, <2>1, <2>2, <2>3, <2>5
  <2>7. m \in S /\ d \in NodesIn(h[m])
    BY <1>8, <2>3, <2>4, <2>6 DEF Holds, NodesIn
  <2> QED BY <1>7, <2>2, <2>7 DEF Subtree
<1>10. S \in SUBSET DOMAIN h /\ DOMAIN h \ {c} \subseteq S
  BY <1>7, <1>8, <1>9 DEF Subtree
<1> QED BY <1>3, <1>7, <1>10

(* How many there are.                                                     *)
LEMMA ListedCount ==
  ASSUME NEW s, NEW S, Listing(s, S), IsFiniteSet(S)
  PROVE  Len(s) = Cardinality(S)
<1>1. Len(s) \in Nat /\ DOMAIN s = 1 .. Len(s) /\ s \in [1 .. Len(s) -> S]
  BY LenProperties DEF Listing
<1>2. s \in Bijection(1 .. Len(s), S)
  BY <1>1 DEF Listing, Bijection, Injection, Surjection, IsInjective
<1>3. ExistsBijection(1 .. Len(s), S)
  BY <1>2 DEF ExistsBijection
<1>4. IsFiniteSet(1 .. Len(s)) /\ Cardinality(1 .. Len(s)) = Len(s)
  BY <1>1, FS_Interval
<1> QED BY <1>3, <1>4, FS_Bijection

(* toml_free, and with it each way out by longjmp, gives every table and   *)
(* array back and none twice, whatever tree the document has left; of a    *)
(* tree that memory ran out for, all but one table at most.                *)
Released == pc = "freed" => freed = toml_free(heap)

THEOREM MemoryReleased == Spec => []ReleasesAll
<1>1. Init => Released
  BY DEF Init, Released
<1>2. IInv /\ Released /\ [Next]_vars => Released'
  <2> SUFFICES ASSUME IInv, Released, [Next]_vars PROVE Released'
    OBVIOUS
  <2>1. CASE UNCHANGED vars
    BY <2>1 DEF vars, Released
  <2>2. CASE Free
    BY <2>2 DEF Free, parsing, Released
  <2>3. CASE Finish
    BY <2>3 DEF Finish, Released
  <2>4. CASE pc' \notin {"done", "freed"}
    BY <2>4 DEF Released
  <2> QED BY <2>1, <2>2, <2>3, <2>4, EveryStep
<1>3. IInv /\ Released => ReleasesAll
  <2> SUFFICES ASSUME IInv, pc = "freed", freed = toml_free(heap)
               PROVE  /\ Len(freed) = Cardinality(Range(freed))
                      /\ Range(freed) \subseteq DOMAIN heap
                      /\ Len(freed) >= IF result = "nomemory" THEN Len(heap) - 1 ELSE Len(heap)
    BY DEF Released, ReleasesAll
  <2>1. PICK c \in Nat : Tree(heap, c) /\ (result # "nomemory" => c = 0)
    BY DEF IInv, TreeInv, Losing
  <2>2. Len(heap) \in Nat \ {0} /\ DOMAIN heap = 1 .. Len(heap)
    BY <2>1, HeapDomain DEF Tree
  <2>3. PICK S \in SUBSET DOMAIN heap : Listing(freed, S) /\ DOMAIN heap \ {c} \subseteq S
    BY <2>1, FreesTree
  <2>4. Range(freed) = S
    BY <2>3, ListedRange
  <2>5. IsFiniteSet(DOMAIN heap) /\ Cardinality(DOMAIN heap) = Len(heap)
    BY <2>2, FS_Interval
  <2>6. IsFiniteSet(S)
    BY <2>5, FS_Subset
  <2>7. Len(freed) = Cardinality(S)
    BY <2>3, <2>6, ListedCount
  <2>8. /\ IsFiniteSet(DOMAIN heap \ {c})
        /\ Cardinality(DOMAIN heap \ {c}) = IF c \in DOMAIN heap THEN Len(heap) - 1 ELSE Len(heap)
    BY <2>5, FS_RemoveElement
  <2>9. Cardinality(DOMAIN heap \ {c}) <= Cardinality(S)
    BY <2>3, <2>6, FS_Subset
  <2>10. Cardinality(S) \in Nat
    BY <2>6, FS_CardinalityType
  <2>11. result # "nomemory" => c \notin DOMAIN heap
    BY <2>1, <2>2
  <2> QED BY <2>2, <2>4, <2>7, <2>8, <2>9, <2>10, <2>11
<1> QED BY <1>1, <1>2, <1>3, Invariance, PTL DEF Spec

-----------------------------------------------------------------------------
(* Characters.  What the bytes of a code weigh, and the six bits in each   *)
(* of those that follow the first.                                         *)
LEMMA Weights ==
  /\ \A j \in 1 .. 6 : Weight[j] \in Nat \ {0} /\ LeadBase[j] \in Int /\ Reach(j) \in Nat
  /\ Weight[1] = 1
BY DEF Weight, LeadBase, Reach, LeadSpan

LEMMA SixBits ==
  ASSUME NEW code \in Nat, NEW j \in 1 .. 6
  PROVE  code \div Weight[j] \in Int /\ (code \div Weight[j]) % 64 \in 0 .. 63
<1>1. PICK w \in Nat \ {0} : w = Weight[j]
  BY Weights
<1>2. PICK q \in Int : q = code \div w
  BY <1>1
<1>3. q % 64 \in 0 .. 63
  BY <1>2
<1> QED BY <1>1, <1>2, <1>3

(* A byte of six bits, shifted and put back.                               *)
LEMMA SixBitsMore ==
  ASSUME NEW code \in Nat, NEW j \in 2 .. 6
  PROVE  (code \div Weight[j]) * 64 + ((code \div Weight[j - 1]) % 64) = code \div Weight[j - 1]
<1> USE DEF Weight
<1>1. CASE j = 2
  BY <1>1
<1>2. CASE j = 3
  BY <1>2
<1>3. CASE j = 4
  BY <1>3
<1>4. CASE j = 5
  BY <1>4
<1>5. CASE j = 6
  BY <1>5
<1> QED BY <1>1, <1>2, <1>3, <1>4, <1>5

(* How many bytes a code takes: it does not reach beyond them.             *)
LEMMA BytesNeeded ==
  ASSUME NEW code \in Int, ~ Refused(code)
  PROVE  /\ BytesOf(code) \in 1 .. 6 /\ code \in 0 .. Reach(BytesOf(code))
         /\ \A m \in 1 .. BytesOf(code) - 1 : code > Reach(m)
<1>1. code \in 0 .. MAX_CODE
  BY DEF Refused, MAX_CODE, Reach, LeadSpan, Weight
<1>2. PICK n \in 1 .. 6 : code <= Reach(n) /\ \A m \in 1 .. n - 1 : code > Reach(m)
  <2>1. PICK Fit : Fit = {n \in 1 .. 6 : code <= Reach(n)}
    OBVIOUS
  <2>2. 6 \in Fit /\ Fit \subseteq Nat
    BY <1>1, <2>1 DEF MAX_CODE
  <2>3. PICK n \in Fit : \A m \in Fit : n <= m
    BY <2>2, Least
  <2>4. \A m \in 1 .. 6 : Reach(m) \in Int
    BY DEF Reach, LeadSpan, Weight
  <2> QED BY <1>1, <2>1, <2>3, <2>4
<1> QED BY <1>1, <1>2 DEF BytesOf, Reach, MAX_CODE

(* The first byte of n is one of those that n bytes begin with, and of no  *)
(* other number.                                                           *)
LEMMA LeadFits ==
  ASSUME NEW n \in 1 .. 6, NEW code \in 0 .. Reach(n)
  PROVE  /\ code \div Weight[n] \in 0 .. LeadSpan[n] - 1
         /\ LeadBase[n] + code \div Weight[n] \in LeadBytes(n)
<1> USE DEF Reach, Weight, LeadSpan, LeadBase, LeadBytes
<1>1. CASE n = 1
  BY <1>1
<1>2. CASE n = 2
  BY <1>2
<1>3. CASE n = 3
  BY <1>3
<1>4. CASE n = 4
  BY <1>4
<1>5. CASE n = 5
  BY <1>5
<1>6. CASE n = 6
  BY <1>6
<1> QED BY <1>1, <1>2, <1>3, <1>4, <1>5, <1>6

LEMMA LeadsApart ==
  ASSUME NEW n \in 1 .. 6, NEW m \in 1 .. 6, NEW b, b \in LeadBytes(n), b \in LeadBytes(m)
  PROVE  n = m
BY DEF LeadSpan, LeadBase, LeadBytes

(* What toml_utf8_to_ucs makes of a buffer that n bytes begin, and of one  *)
(* that is too short for them.                                             *)
LEMMA TooShort ==
  ASSUME NEW buf, NEW n \in 1 .. 6, Len(buf) \in Nat,
         buf # <<>> => buf[1] \in LeadBytes(n), Len(buf) < n
  PROVE  toml_utf8_to_ucs(buf) = Failed
<1>1. {m \in 1 .. 6 : buf # <<>> /\ buf[1] \in LeadBytes(m) /\ m <= Len(buf)} = {}
  BY LeadsApart
<1> QED BY <1>1 DEF toml_utf8_to_ucs

LEMMA BeginsWith ==
  ASSUME NEW buf, NEW n \in 1 .. 6, buf # <<>>, buf[1] \in LeadBytes(n), n <= Len(buf)
  PROVE  toml_utf8_to_ucs(buf) = IF \E k \in 2 .. n : buf[k] \notin TailBytes THEN Failed
                                 ELSE [len |-> n, code |-> CodeRead(buf, n)]
<1>1. PICK sizes : sizes = {m \in 1 .. 6 : buf # <<>> /\ buf[1] \in LeadBytes(m) /\ m <= Len(buf)}
  OBVIOUS
<1>2. sizes = {n}
  BY <1>1, LeadsApart
<1>3. (CHOOSE k \in sizes : TRUE) = n
  BY <1>2
<1> QED BY <1>1, <1>2, <1>3 DEF toml_utf8_to_ucs

Sums(f, buf, n) ==
  f = [k \in 1 .. n |-> IF k = 1 THEN buf[1] - LeadBase[n] ELSE f[k - 1] * 64 + (buf[k] - 128)]

(* What is read of the bytes of a code up to the k-th of them: the bits    *)
(* that they carry.                                                        *)
LEMMA CodeReturns ==
  ASSUME NEW n \in 1 .. 6, NEW code \in 0 .. Reach(n), NEW buf,
         buf[1] = LeadBase[n] + code \div Weight[n],
         \A k \in 2 .. n : buf[k] = 128 + ((code \div Weight[n - k + 1]) % 64)
  PROVE  CodeRead(buf, n) = code
<1>1. PICK f : f = [k \in 1 .. n |-> code \div Weight[n - k + 1]]
  OBVIOUS
<1>2. code \in Nat /\ \A j \in 1 .. 6 : Weight[j] \in Nat \ {0} /\ LeadBase[j] \in Int
  BY DEF Weight, LeadBase, Reach, LeadSpan
<1>3. \A j \in 1 .. 6 : code \div Weight[j] \in Int
  BY <1>2
<1>4. Sums(f, buf, n)
  <2>1. ASSUME NEW k \in 1 .. n
        PROVE  f[k] = IF k = 1 THEN buf[1] - LeadBase[n] ELSE f[k - 1] * 64 + (buf[k] - 128)
    <3>1. CASE k = 1
      <4>1. PICK q \in Int, b \in Int : q = code \div Weight[n] /\ b = LeadBase[n]
        BY <1>2, <1>3
      <4>2. f[1] = q /\ buf[1] = b + q
        BY <1>1, <4>1
      <4> QED BY <3>1, <4>1, <4>2
    <3>2. CASE k # 1
      <4>1. PICK j \in 2 .. 6 : j = n - k + 2
        BY <3>2
      <4>2. k \in 2 .. n /\ k - 1 \in 1 .. n /\ n - k + 1 = j - 1 /\ n - (k - 1) + 1 = j
        BY <3>2, <4>1
      <4>3. f[k] = code \div Weight[j - 1] /\ f[k - 1] = code \div Weight[j]
        BY <1>1, <4>2
      <4>4. buf[k] = 128 + ((code \div Weight[j - 1]) % 64)
        BY <4>2
      <4>5. (code \div Weight[j]) * 64 + ((code \div Weight[j - 1]) % 64) = code \div Weight[j - 1]
        BY <1>2, SixBitsMore
      <4>6. (code \div Weight[j - 1]) % 64 \in Int /\ code \div Weight[j] \in Int
        BY <1>2, <1>3, <4>1
      <4> QED BY <3>2, <4>3, <4>4, <4>5, <4>6
    <3> QED BY <3>1, <3>2
  <2> QED BY <1>1, <2>1 DEF Sums
<1>5. ASSUME NEW g, Sums(g, buf, n) PROVE g = f
  <2>1. PICK Other : Other = {k \in 1 .. n : g[k] # f[k]}
    OBVIOUS
  <2>2. Other = {}
    <3>0. Other \in SUBSET Nat
      BY <2>1
    <3> SUFFICES ASSUME Other # {} PROVE FALSE
      OBVIOUS
    <3>1. PICK k \in Other : \A j \in Other : k <= j
      BY <3>0, Least
    <3>2. k \in 1 .. n /\ (k # 1 => k - 1 \in 1 .. n /\ k - 1 \notin Other)
      BY <2>1, <3>1
    <3>3. k # 1 => g[k - 1] = f[k - 1]
      BY <2>1, <3>2
    <3>4. g[k] = f[k]
      BY <1>4, <1>5, <3>2, <3>3 DEF Sums
    <3> QED BY <2>1, <3>4
  <2>3. \A k \in 1 .. n : g[k] = f[k]
    BY <2>1, <2>2
  <2>4. g = [k \in 1 .. n |-> g[k]] /\ f = [k \in 1 .. n |-> f[k]]
    BY <1>1, <1>5 DEF Sums
  <2> QED BY <2>3, <2>4
<1>6. (CHOOSE g : Sums(g, buf, n)) = f
  BY <1>4, <1>5
<1>7. CodeRead(buf, n) = f[n]
  BY <1>6 DEF CodeRead, Sums
<1>8. code \div Weight[1] = code
  BY <1>2 DEF Weight
<1> QED BY <1>1, <1>7, <1>8

(* A buffer that holds the bytes of a code, and one with another of them.  *)
Bytes(code, n, buf) ==
  /\ n \in 1 .. 6 /\ code \in 0 .. Reach(n) /\ Len(buf) \in Nat /\ n <= Len(buf) /\ buf # <<>>
  /\ buf[1] = LeadBase[n] + code \div Weight[n]
  /\ \A k \in 2 .. n : buf[k] = 128 + ((code \div Weight[n - k + 1]) % 64)

LEMMA BytesRead ==
  ASSUME NEW n, NEW code, NEW buf, Bytes(code, n, buf)
  PROVE  toml_utf8_to_ucs(buf) = [len |-> n, code |-> code]
<1>1. /\ n \in 1 .. 6 /\ code \in 0 .. Reach(n) /\ n <= Len(buf) /\ buf # <<>>
      /\ buf[1] = LeadBase[n] + code \div Weight[n]
      /\ \A k \in 2 .. n : buf[k] = 128 + ((code \div Weight[n - k + 1]) % 64)
  BY DEF Bytes
<1>2. buf[1] \in LeadBytes(n)
  BY <1>1, LeadFits
<1>3. ASSUME NEW k \in 2 .. n PROVE buf[k] \in TailBytes
  <2>1. PICK j \in 1 .. 6 : j = n - k + 1
    BY <1>1
  <2>2. code \in Nat
    BY <1>1, Weights
  <2>3. PICK r \in 0 .. 63 : r = (code \div Weight[j]) % 64
    BY <2>2, SixBits
  <2>4. buf[k] = 128 + r
    BY <1>1, <2>1, <2>3
  <2> QED BY <2>4 DEF TailBytes
<1>4. CodeRead(buf, n) = code
  BY <1>1, CodeReturns
<1> QED BY <1>1, <1>2, <1>3, <1>4, BeginsWith

(* What toml_ucs_to_utf8 writes.                                           *)
LEMMA BytesWritten ==
  ASSUME NEW code \in Int, ~ Refused(code)
  PROVE  \E n \in 1 .. 6 :
           /\ code \in 0 .. Reach(n) /\ toml_ucs_to_utf8(code) \in Seq(Int)
           /\ Len(toml_ucs_to_utf8(code)) = n
           /\ Bytes(code, n, toml_ucs_to_utf8(code))
<1>1. PICK n \in 1 .. 6 : n = BytesOf(code) /\ code \in 0 .. Reach(n)
  BY BytesNeeded
<1>2. PICK f : f = [k \in 1 .. n |-> IF k = 1 THEN LeadBase[n] + code \div Weight[n]
                                     ELSE 128 + ((code \div Weight[n - k + 1]) % 64)]
  OBVIOUS
<1>3. toml_ucs_to_utf8(code) = f
  BY <1>1, <1>2 DEF toml_ucs_to_utf8
<1>4. code \in Nat
  BY <1>1, Weights
<1>5. ASSUME NEW k \in 1 .. n PROVE f[k] \in Int
  <2>1. PICK j \in 1 .. 6 : j = n - k + 1
    OBVIOUS
  <2>2. PICK r \in 0 .. 63 : r = (code \div Weight[j]) % 64
    BY <1>4, SixBits
  <2>3. PICK q \in Int, b \in Int : q = code \div Weight[n] /\ b = LeadBase[n]
    BY <1>4, SixBits, Weights
  <2>4. f[k] = IF k = 1 THEN b + q ELSE 128 + r
    BY <1>2, <2>1, <2>2, <2>3
  <2> QED BY <2>4
<1>6. f \in [1 .. n -> Int]
  BY <1>2, <1>5
<1>7. f \in Seq(Int) /\ Len(f) = n
  BY <1>6
<1>8. \A k \in 2 .. n : f[k] = 128 + ((code \div Weight[n - k + 1]) % 64)
  BY <1>2
<1>9. f[1] = LeadBase[n] + code \div Weight[n] /\ f # <<>>
  BY <1>2, <1>7
<1>10. Bytes(code, n, f)
  BY <1>1, <1>7, <1>8, <1>9 DEF Bytes
<1> QED BY <1>1, <1>3, <1>7, <1>10

(* Every code of six bytes and fewer that is not refused comes back from   *)
(* the bytes that toml_ucs_to_utf8 writes, whatever stands behind them;    *)
(* bytes that are cut, and those with one that cannot follow, are refused. *)
THEOREM CodesReadBack ==
  \A code \in Int : ReadsBack(code, Seq(Int), Int \ TailBytes)
<1> SUFFICES ASSUME NEW code \in Int PROVE ReadsBack(code, Seq(Int), Int \ TailBytes)
  OBVIOUS
<1>1. CASE Refused(code)
  BY <1>1 DEF toml_ucs_to_utf8, ReadsBack
<1>2. CASE ~ Refused(code)
  <2>1. PICK bytes : bytes = toml_ucs_to_utf8(code)
    OBVIOUS
  <2>2. PICK n \in 1 .. 6 : bytes \in Seq(Int) /\ Len(bytes) = n /\ Bytes(code, n, bytes)
    BY <1>2, <2>1, BytesWritten
  <2>3. bytes # <<>> /\ bytes[1] \in LeadBytes(n)
    BY <2>2, LeadFits DEF Bytes
  <2>4. ASSUME NEW rest \in Seq(Int)
        PROVE  toml_utf8_to_ucs(bytes \o rest) = [len |-> n, code |-> code]
    <3>1. PICK buf : buf = bytes \o rest
      OBVIOUS
    <3>2. buf \in Seq(Int) /\ Len(buf) = n + Len(rest) /\ Len(rest) \in Nat
      BY <2>2, <3>1
    <3>3. \A k \in 1 .. n : buf[k] = bytes[k]
      BY <2>2, <3>1
    <3>4. Len(buf) \in Nat /\ n <= Len(buf) /\ buf # <<>>
      BY <3>2
    <3>5. Bytes(code, n, buf)
      BY <2>2, <3>3, <3>4 DEF Bytes
    <3> QED BY <3>1, <3>5, BytesRead
  <2>5. ASSUME NEW k \in 0 .. n - 1 PROVE toml_utf8_to_ucs(SubSeq(bytes, 1, k)) = Failed
    <3>1. PICK buf : buf = SubSeq(bytes, 1, k)
      OBVIOUS
    <3>2. Len(buf) = k /\ (k # 0 => buf[1] = bytes[1])
      BY <2>2, <3>1
    <3>3. buf # <<>> => k # 0
      BY <2>2, <3>1
    <3>4. buf # <<>> => buf[1] \in LeadBytes(n)
      BY <2>3, <3>2, <3>3
    <3>5. Len(buf) \in Nat /\ Len(buf) < n
      BY <3>2
    <3> QED BY <3>1, <3>4, <3>5, TooShort
  <2>6. ASSUME NEW k \in 2 .. n, NEW b \in Int \ TailBytes
        PROVE  toml_utf8_to_ucs([bytes EXCEPT ![k] = b]) = Failed
    <3>1. PICK buf : buf = [bytes EXCEPT ![k] = b]
      OBVIOUS
    <3>2. buf \in Seq(Int) /\ Len(buf) = n /\ buf[1] = bytes[1] /\ buf[k] = b
      BY <2>2, <3>1
    <3>3. buf # <<>>
      BY <3>2
    <3>4. buf[1] \in LeadBytes(n) /\ n <= Len(buf) /\ \E m \in 2 .. n : buf[m] \notin TailBytes
      BY <2>3, <3>2
    <3> QED BY <3>1, <3>3, <3>4, BeginsWith
  <2> QED BY <1>2, <2>1, <2>2, <2>3, <2>4, <2>5, <2>6 DEF ReadsBack
<1> QED BY <1>1, <1>2
=============================================================================
