--------------------------- MODULE TomlToolsProofs --------------------------
(***************************************************************************)
(* What the tools make of a document, for every tree that the parser can   *)
(* leave: a word has one type for the array that it is in and for          *)
(* toml_json; toml_json prints every value, once, with the way to it, and  *)
(* so does toml_cat, up to a table that its stack of STACK_MAX keys has no *)
(* place for; and a pair that no array leads to is below the title of the  *)
(* table that it is in.                                                    *)
(***************************************************************************)
EXTENDS TomlTools, TomlParseProofs

-----------------------------------------------------------------------------
(* Behind a first list of one thing, that thing stays the first.           *)
LEMMA FlatFirst ==
  ASSUME NEW S, NEW l \in Nat \ {0}, NEW seqs, DOMAIN seqs = 1 .. l, Sequence(seqs),
         \A k \in 1 .. l : seqs[k] \in Seq(S), NEW x, seqs[1] = <<x>>
  PROVE  FlattenSeq(seqs) \in Seq(S) /\ FlattenSeq(seqs) # <<>> /\ FlattenSeq(seqs)[1] = x
<1>1. Len(seqs) = l
  BY DomainLen
<1>2. \E f : f = [i \in 1 .. Len(seqs) |-> Flat(seqs, f, i)]
  BY <1>1, FlatExists DEF FlatUpTo
<1>3. PICK f : /\ f = [i \in 1 .. l |-> Flat(seqs, f, i)]
               /\ FlattenSeq(seqs) = f[l]
  BY <1>1, <1>2 DEF FlattenSeq, Flat
<1>4. PICK Other : Other = {i \in 1 .. l : ~ (f[i] \in Seq(S) /\ Len(f[i]) >= 1 /\ f[i][1] = x)}
  OBVIOUS
<1>5. Other = {}
  <2>0. Other \in SUBSET Nat
    BY <1>4
  <2> SUFFICES ASSUME Other # {} PROVE FALSE
    OBVIOUS
  <2>1. PICK i \in Other : \A j \in Other : i <= j
    BY <2>0, Least
  <2>2. i \in 1 .. l /\ f[i] = Flat(seqs, f, i)
    BY <1>3, <1>4
  <2>3. CASE i = 1
    <3>1. f[i] = <<x>> /\ f[i] \in Seq(S)
      BY <2>2, <2>3 DEF Flat
    <3>2. Len(<<x>>) = 1 /\ <<x>>[1] = x
      OBVIOUS
    <3>3. PICK s : s = f[i] /\ s = <<x>>
      BY <3>1
    <3>4. s \in Seq(S) /\ Len(s) >= 1 /\ s[1] = x
      BY <3>1, <3>2, <3>3
    <3> QED BY <1>4, <3>3, <3>4
  <2>4. CASE i # 1
    <3>1. i - 1 \in 1 .. l /\ i - 1 \notin Other
      BY <2>1, <2>2, <2>4
    <3>2. PICK s : s = f[i - 1]
      OBVIOUS
    <3>3. s \in Seq(S) /\ Len(s) >= 1 /\ s[1] = x
      BY <1>4, <3>1, <3>2
    <3>4. f[i] = s \o seqs[i] /\ seqs[i] \in Seq(S)
      BY <2>2, <2>4, <3>2 DEF Flat
    <3>5. PICK t \in Seq(S) : t = seqs[i]
      BY <3>4
    <3>6. s \o t \in Seq(S) /\ Len(s \o t) >= 1 /\ (s \o t)[1] = x
      BY <3>3, ConcatProperties, LenProperties
    <3> QED BY <1>4, <3>4, <3>5, <3>6
  <2> QED BY <2>3, <2>4
<1>6. f[l] \in Seq(S) /\ Len(f[l]) >= 1 /\ f[l][1] = x
  BY <1>4, <1>5
<1>7. f[l] # <<>>
  BY <1>6
<1> QED BY <1>3, <1>6, <1>7

LEMMA WithoutFirst ==
  ASSUME NEW t, Sequence(t), NEW c
  PROVE  /\ t = <<>> => Without(t, c) = <<>>
         /\ t # <<>> /\ t[1] # c =>
              Sequence(Without(t, c)) /\ Without(t, c) # <<>> /\ Without(t, c)[1] = t[1]
<1>1. PICK l \in Nat : l = Len(t) /\ DOMAIN t = 1 .. l
  BY SequenceFacts
<1>2. PICK seqs : seqs = [k \in 1 .. l |-> IF t[k] = c THEN <<>> ELSE <<t[k]>>]
  OBVIOUS
<1>3. Sequence(seqs) /\ DOMAIN seqs = 1 .. l /\ Len(seqs) = l
  BY <1>2, FunctionSequence, DomainLen
<1>4. Without(t, c) = FlattenSeq(seqs)
  BY <1>1, <1>2 DEF Without
<1>5. ASSUME t = <<>> PROVE Without(t, c) = <<>>
  <2>1. l = 0
    BY <1>1, <1>5
  <2>2. FlattenSeq(seqs) = seqs
    BY <1>3, <2>1 DEF FlattenSeq
  <2>3. seqs = <<>>
    BY <1>3, <2>1, EmptySeq DEF Sequence
  <2> QED BY <1>4, <2>2, <2>3
<1>6. ASSUME t # <<>>, t[1] # c
      PROVE  Sequence(Without(t, c)) /\ Without(t, c) # <<>> /\ Without(t, c)[1] = t[1]
  <2>1. l # 0
    BY <1>1, <1>6, EmptySeq DEF Sequence
  <2>2. PICK S : S = Range(t)
    OBVIOUS
  <2>3. \A k \in 1 .. l : seqs[k] \in Seq(S)
    <3> SUFFICES ASSUME NEW k \in 1 .. l PROVE seqs[k] \in Seq(S)
      OBVIOUS
    <3>1. t[k] \in S
      BY <1>1, <2>2 DEF Range
    <3> QED BY <1>2, <3>1
  <2>4. seqs[1] = <<t[1]>>
    BY <1>2, <1>6, <2>1
  <2>5. PICK u : u = FlattenSeq(seqs)
    OBVIOUS
  <2>6. u \in Seq(S) /\ u # <<>> /\ u[1] = t[1]
    BY <1>3, <2>1, <2>3, <2>4, <2>5, FlatFirst
  <2>7. Sequence(u)
    BY <2>6, SequenceIs
  <2> QED BY <1>4, <2>5, <2>6, <2>7
<1> QED BY <1>5, <1>6

-----------------------------------------------------------------------------
LEMMA DigitsAre ==
  \A c \in Digit : c \in {"0", "1", "2", "3", "4", "5", "6", "7", "8", "9"}
<1>1. DOMAIN OCTAL = 1 .. 8
  BY DEF OCTAL
<1>2. \A k \in 1 .. 8 : OCTAL[k] \in {"0", "1", "2", "3", "4", "5", "6", "7"}
  BY DEF OCTAL
<1> QED BY <1>1, <1>2 DEF Digit, Range

(* The small letters are no quotes, so a quote has no capital.             *)
Small ==
  {"a", "b", "c", "d", "e", "f", "g", "h", "i", "j", "k", "l", "m",
     "n", "o", "p", "q", "r", "s", "t", "u", "v", "w", "x", "y", "z"}

LEMMA QuotesStay ==
  UpperOf(DQ) = DQ /\ UpperOf(SQ) = SQ
<1>1. /\ PRINTABLE[66] = "a" /\ PRINTABLE[67] = "b" /\ PRINTABLE[68] = "c" /\ PRINTABLE[69] = "d"
      /\ PRINTABLE[70] = "e" /\ PRINTABLE[71] = "f" /\ PRINTABLE[72] = "g" /\ PRINTABLE[73] = "h"
      /\ PRINTABLE[74] = "i" /\ PRINTABLE[75] = "j" /\ PRINTABLE[76] = "k" /\ PRINTABLE[77] = "l"
      /\ PRINTABLE[78] = "m" /\ PRINTABLE[79] = "n" /\ PRINTABLE[80] = "o" /\ PRINTABLE[81] = "p"
      /\ PRINTABLE[82] = "q" /\ PRINTABLE[83] = "r" /\ PRINTABLE[84] = "s" /\ PRINTABLE[85] = "t"
      /\ PRINTABLE[86] = "u" /\ PRINTABLE[87] = "v" /\ PRINTABLE[88] = "w" /\ PRINTABLE[89] = "x"
      /\ PRINTABLE[90] = "y" /\ PRINTABLE[91] = "z"
  BY DEF PRINTABLE
<1>2. PICK p : p = PRINTABLE
  OBVIOUS
<1>3. \A k \in 66 .. 91 : p[k] \in Small
  BY <1>1, <1>2 DEF Small
<1>4. DQ \notin Small /\ SQ \notin Small
  BY DEF DQ, SQ, Small
<1>5. \A k \in 66 .. 91 : PRINTABLE[k] # DQ /\ PRINTABLE[k] # SQ
  BY <1>2, <1>3, <1>4
<1> QED BY <1>5 DEF UpperOf

(* What begins with a quote or a letter is no number.                      *)
Foreign == {DQ, SQ, "t", "f"}

LEMMA ForeignFacts ==
  \A c \in Foreign : c \notin Digit /\ c \notin Signs /\ c # "_" /\ c # "0"
BY DigitsAre DEF Foreign, Signs, DQ, SQ

LEMMA NoSign ==
  ASSUME NEW w, Sequence(w), w = <<>> \/ w[1] \notin Signs
  PROVE  SignOf(w) = <<>> /\ Unsigned(w) = w
<1>1. SignOf(w) = <<>>
  BY DEF SignOf
<1>2. Len(<<>>) + 1 = 1
  OBVIOUS
<1>3. Unsigned(w) = SubSeq(w, 1, Len(w))
  BY <1>1, <1>2 DEF Unsigned, From
<1>4. PICK S : w \in Seq(S)
  BY DEF Sequence
<1>5. SubSeq(w, 1, Len(w)) = w
  BY <1>4
<1> QED BY <1>1, <1>3, <1>5

LEMMA StartsFirst ==
  ASSUME NEW w, Sequence(w), NEW v, Sequence(v), Len(v) >= 1, Starts(w, 1, v)
  PROVE  w # <<>> /\ w[1] = v[1]
<1>1. Len(w) \in Nat /\ Len(v) \in Nat /\ 1 + Len(v) - 1 = Len(v)
  BY SequenceFacts
<1>2. Len(v) <= Len(w) /\ SubSeq(w, 1, Len(v)) = v
  BY <1>1 DEF Starts
<1>3. PICK S : w \in Seq(S)
  BY DEF Sequence
<1>4. PICK n \in Nat : n = Len(v)
  BY <1>1
<1>5. SubSeq(w, 1, n)[1] = w[1]
  BY <1>2, <1>3, <1>4
<1>6. w # <<>>
  BY <1>2, EmptySequence
<1> QED BY <1>2, <1>4, <1>5, <1>6

-----------------------------------------------------------------------------
LEMMA NoInteger ==
  ASSUME NEW w, Sequence(w), w # <<>>, w[1] \in Foreign
  PROVE  toml_rtoi(w) = {}
<1>1. SignOf(w) = <<>> /\ Unsigned(w) = w
  BY NoSign, ForeignFacts
<1>2. PICK b : b = Without(w, "_")
  OBVIOUS
<1>3. Sequence(b) /\ b # <<>> /\ b[1] = w[1]
  <2>1. PICK c : c = "_"
    OBVIOUS
  <2>2. w[1] # c
    BY <2>1, ForeignFacts
  <2>3. Sequence(Without(w, c)) /\ Without(w, c) # <<>> /\ Without(w, c)[1] = w[1]
    BY <2>2, WithoutFirst
  <2> QED BY <1>2, <2>1, <2>3
<1>4. <<>> \o b = b
  <2>1. PICK S : b \in Seq(S)
    BY <1>3 DEF Sequence
  <2> QED BY <2>1
<1>5. ~ Starts(w, 1, <<"0">>)
  <2>1. PICK v : v = <<"0">>
    OBVIOUS
  <2>2. Len(v) = 1 /\ v[1] = "0" /\ v \in Seq({"0"})
    BY <2>1
  <2>3. Sequence(v)
    BY <2>2, SequenceIs
  <2>4. Starts(w, 1, v) => w[1] = "0"
    BY <2>2, <2>3, StartsFirst
  <2> QED BY <2>1, <2>4, ForeignFacts
<1>6. SignOf(b) = <<>> /\ Unsigned(b) = b
  BY <1>3, NoSign, ForeignFacts
<1>7. ~ HexPrefixed(b) /\ b[1] # "0"
  BY <1>3, ForeignFacts DEF HexPrefixed
<1>8. ~ Within(b, Digit)
  <2>1. 1 \in DOMAIN b
    BY <1>3, EmptySeq, SequenceFacts DEF Sequence
  <2> QED BY <1>3, <2>1, ForeignFacts DEF Within
<1>9. strtoll(b) = {}
  BY <1>3, <1>6, <1>7, <1>8 DEF strtoll
<1>10. toml_rtoi(w) = IF Len(b) < BUF_SIZE THEN strtoll(b) ELSE {}
  BY <1>1, <1>2, <1>4, <1>5 DEF toml_rtoi
<1> QED BY <1>9, <1>10

Quotes == {DQ, SQ}

LEMMA QuoteFacts ==
  \A c \in Quotes : /\ c \in Foreign /\ c \notin Digit /\ c \notin Signs /\ c # "_" /\ c # "0"
                    /\ c # "." /\ c # "-" /\ c # "I" /\ c # "N" /\ UpperOf(c) = c
<1>1. \A c \in Quotes : c \in Foreign /\ c # "." /\ c # "-" /\ c # "I" /\ c # "N"
  BY DEF Quotes, Foreign, DQ, SQ
<1>2. \A c \in Quotes : UpperOf(c) = c
  BY QuotesStay DEF Quotes
<1> QED BY <1>1, <1>2, ForeignFacts

LEMMA TwoLetters ==
  ASSUME NEW x, NEW y
  PROVE  Sequence(<<x, y>>) /\ Len(<<x, y>>) = 2 /\ <<x, y>>[1] = x
<1>1. PICK v : v = <<x, y>>
  OBVIOUS
<1>2. v \in Seq({x, y}) /\ Len(v) = 2 /\ v[1] = x
  BY <1>1
<1>3. Sequence(v)
  BY <1>2, SequenceIs
<1> QED BY <1>1, <1>2, <1>3

(* What begins with a quote is neither a float nor a timestamp.            *)
LEMMA NoFloating ==
  ASSUME NEW t, Sequence(t), t # <<>>, NEW digits, t[1] \notin digits, t[1] # ".", NEW mark
  PROVE  ~ Floating(t, digits, mark)
<1> SUFFICES ASSUME NEW n \in 1 .. Len(t), Within(SubSeq(t, 1, n), digits \union {"."})
             PROVE  FALSE
  BY Zenon DEF Floating
<1>1. PICK S : t \in Seq(S)
  BY DEF Sequence
<1>2. PICK u : u = SubSeq(t, 1, n)
  OBVIOUS
<1>3. u \in Seq(S) /\ Len(u) = n /\ u[1] = t[1]
  BY <1>1, <1>2, LenProperties
<1>4. 1 \in DOMAIN u
  BY <1>3, LenProperties
<1> QED BY <1>2, <1>3, <1>4 DEF Within

LEMMA NoFloat ==
  ASSUME NEW w, Sequence(w), w # <<>>, w[1] \in Quotes
  PROVE  ~ toml_rtod(w)
<1>1. SignOf(w) = <<>> /\ Unsigned(w) = w
  BY NoSign, QuoteFacts
<1>2. PICK b : b = Without(w, "_")
  OBVIOUS
<1>3. Sequence(b) /\ b # <<>> /\ b[1] = w[1]
  <2>1. PICK c : c = "_"
    OBVIOUS
  <2>2. w[1] # c
    BY <2>1, QuoteFacts
  <2>3. Sequence(Without(w, c)) /\ Without(w, c) # <<>> /\ Without(w, c)[1] = w[1]
    BY <2>2, WithoutFirst
  <2> QED BY <1>2, <2>1, <2>3
<1>4. <<>> \o b = b
  <2>1. PICK S : b \in Seq(S)
    BY <1>3 DEF Sequence
  <2> QED BY <2>1
<1>5. SignOf(b) = <<>> /\ Unsigned(b) = b
  BY <1>3, NoSign, QuoteFacts
<1>6. PICK l \in Nat : l = Len(b) /\ DOMAIN b = 1 .. l /\ l # 0
  BY <1>3, SequenceFacts, EmptySeq DEF Sequence
<1>7. PICK body : body = [k \in 1 .. l |-> UpperOf(b[k])]
  OBVIOUS
<1>8. Capitals(b) = body
  BY <1>6, <1>7 DEF Capitals
<1>9. Sequence(body) /\ body # <<>> /\ body[1] = w[1]
  <2>1. body[1] = w[1]
    <3>1. 1 \in 1 .. l /\ b[1] = w[1]
      BY <1>3, <1>6
    <3>2. body[1] = UpperOf(b[1])
      BY <1>7, <3>1
    <3>3. UpperOf(w[1]) = w[1]
      BY QuoteFacts
    <3> QED BY <3>1, <3>2, <3>3
  <2>2. Sequence(body) /\ DOMAIN body = 1 .. l
    BY <1>7, FunctionSequence
  <2>3. body # <<>>
    BY <1>6, <2>2, DomainLen, EmptySeq DEF Sequence
  <2> QED BY <2>1, <2>2, <2>3
<1>10. body \notin FLOAT_NAMES
  <2>1. \A name \in FLOAT_NAMES : name[1] = "I" \/ name[1] = "N"
    BY DEF FLOAT_NAMES
  <2> QED BY <1>9, <2>1, QuoteFacts
<1>11. ~ Floating(body, Digit, "E")
  BY <1>9, NoFloating, QuoteFacts
<1>12. ~ Starts(body, 1, <<"0", "X">>)
  <2>1. PICK v : v = <<"0", "X">>
    OBVIOUS
  <2>2. Sequence(v) /\ Len(v) = 2 /\ v[1] = "0"
    BY <2>1, TwoLetters
  <2>3. Starts(body, 1, v) => body[1] = "0"
    BY <1>9, <2>2, StartsFirst
  <2> QED BY <1>9, <2>1, <2>3, QuoteFacts
<1>13. ~ StrtodTakes(b)
  BY <1>3, <1>5, <1>8, <1>10, <1>11, <1>12 DEF StrtodTakes
<1> QED BY <1>1, <1>2, <1>4, <1>13 DEF toml_rtod

LEMMA NotSpaced ==
  ASSUME NEW w, w[1] \in Quotes, NEW n \in Nat \ {0}, NEW mark \in {"-", ":"}, NEW places,
         0 \notin places
  PROVE  ~ Spaced(w, 1, n, mark, places)
<1> SUFFICES ASSUME Spaced(w, 1, n, mark, places) PROVE FALSE
  OBVIOUS
<1>1. 0 \in 0 .. n - 1 /\ 1 + 0 = 1
  OBVIOUS
<1>2. w[1 + 0] \in Digit \/ (w[1 + 0] = mark /\ 0 \in places)
  BY <1>1 DEF Spaced
<1> QED BY <1>1, <1>2, QuoteFacts

LEMMA NoTimestamp ==
  ASSUME NEW w, w # <<>>, w[1] \in Quotes
  PROVE  toml_rtots(w) = {}
<1>1. ~ Spaced(w, 1, 10, "-", {4, 7})
  BY NotSpaced
<1>2. ~ Spaced(w, 1, 8, ":", {2, 5})
  BY NotSpaced
<1>3. ReadTime(w, 1, <<>>) = {}
  BY <1>2 DEF ReadTime
<1> QED BY <1>1, <1>3 DEF toml_rtots

LEMMA NoString ==
  ASSUME NEW w, Sequence(w), w = <<>> \/ w[1] \notin Quotes
  PROVE  toml_rtos(w) = {}
<1>1. \A q \in Quotes : ~ Quoted(w, q, 1)
  <2> SUFFICES ASSUME NEW q \in Quotes, Quoted(w, q, 1) PROVE FALSE
    OBVIOUS
  <2>1. Len(w) >= 2 * 1 /\ w[1] = q
    BY DEF Quoted
  <2> QED BY <2>1, EmptySequence
<1>2. \A q \in Quotes : ~ Starts(w, 1, Triple(q))
  <2> SUFFICES ASSUME NEW q \in Quotes, Starts(w, 1, Triple(q)) PROVE FALSE
    OBVIOUS
  <2>1. PICK v : v = <<q, q, q>>
    OBVIOUS
  <2>2. v \in Seq({q}) /\ Len(v) = 3 /\ v[1] = q
    BY <2>1
  <2>3. Sequence(v)
    BY <2>2, SequenceIs
  <2>4. Starts(w, 1, v)
    BY <2>1 DEF Triple
  <2>5. w # <<>> /\ w[1] = q
    BY <2>2, <2>3, <2>4, StartsFirst
  <2> QED BY <2>5
<1>3. SQ \in Quotes /\ DQ \in Quotes
  BY DEF Quotes
<1> QED BY <1>1, <1>2, <1>3 DEF toml_rtos

(* A text without a character is read as the integer 0; every other        *)
(* timestamp has a date or a time.                                         *)
LEMMA NothingIsZero == toml_rtoi(<<>>) # {}
<1>1. PICK w : w = <<>>
  OBVIOUS
<1>2. Sequence(w)
  BY <1>1, EmptySequence
<1>3. SignOf(w) = <<>> /\ Unsigned(w) = w
  BY <1>1, <1>2, NoSign
<1>4. Without(w, "_") = <<>>
  <2>1. PICK c : c = "_"
    OBVIOUS
  <2>2. Without(w, c) = <<>>
    BY <1>1, <1>2, WithoutFirst
  <2> QED BY <2>1, <2>2
<1>5. <<>> \o w = w
  <2>1. PICK S : w \in Seq(S)
    BY <1>2 DEF Sequence
  <2> QED BY <2>1
<1>6. ~ Starts(w, 1, <<"0">>)
  <2>1. PICK v : v = <<"0">>
    OBVIOUS
  <2>2. Len(v) = 1 /\ v[1] = "0" /\ v \in Seq({"0"})
    BY <2>1
  <2>3. Sequence(v)
    BY <2>2, SequenceIs
  <2>4. ~ Starts(w, 1, v)
    BY <1>1, <1>2, <2>2, <2>3, StartsFirst
  <2> QED BY <2>1, <2>4
<1>7. Len(w) = 0 /\ 0 < BUF_SIZE
  BY <1>1, EmptySequence DEF BUF_SIZE
<1>8. toml_rtoi(w) = strtoll(w)
  BY <1>1, <1>3, <1>4, <1>5, <1>6, <1>7 DEF toml_rtoi
<1>9. ~ Negative(w)
  <2>1. PICK v : v = <<"-">>
    OBVIOUS
  <2>2. Len(v) = 1 /\ Len(w) = 0
    BY <2>1, <1>7
  <2>3. w # v
    BY <2>2
  <2> QED BY <1>3, <2>1, <2>3 DEF Negative
<1>10. 0 \in strtoll(w)
  <2>1. LLONG_MAX \in Nat
    BY LimitAssumption
  <2>2. 0 <= LLONG_MAX /\ 0 >= 0 - LLONG_MAX - 1
    BY <2>1
  <2> QED BY <1>1, <1>9, <2>2 DEF strtoll
<1> QED BY <1>1, <1>8, <1>10

LEMMA FieldsThere ==
  ASSUME NEW t, NEW p, NEW n, NEW mark
  PROVE  Fields(t, p, n, mark) # <<>>
<1> DEFINE val == Number(Without(SubSeq(t, p, p + n - 1), mark), 10)
<1>0. PICK a, b, c : a = val \div 10000 /\ b = (val \div 100) % 100 /\ c = val % 100
  OBVIOUS
<1>1. PICK v : v = <<a, b, c>>
  OBVIOUS
<1>2. Fields(t, p, n, mark) = v
  BY <1>0, <1>1 DEF Fields
<1>3. Len(v) = 3 /\ Len(<<>>) = 0
  BY <1>1
<1> QED BY <1>2, <1>3

LEMMA StampShown ==
  ASSUME NEW w, w # <<>>, NEW ts \in toml_rtots(w)
  PROVE  ts.date # <<>> \/ ts.time # <<>>
<1>1. \A p, date : \A r \in ReadTime(w, p, date) : r.time # <<>>
  <2> SUFFICES ASSUME NEW p, NEW date, NEW r \in ReadTime(w, p, date) PROVE r.time # <<>>
    OBVIOUS
  <2>1. PICK f, z : f = Fields(w, p, 8, ":") /\ z = From(w, FractionEnd(w, p + 8))
    OBVIOUS
  <2>2. r = Timestamp(date, f, z)
    BY <2>1, Zenon DEF ReadTime
  <2>3. f # <<>>
    BY <2>1, FieldsThere
  <2> QED BY <2>2, <2>3 DEF Timestamp
<1>2. PICK date : date = Fields(w, 1, 10, "-")
  OBVIOUS
<1>3. date # <<>>
  BY <1>2, FieldsThere
<1>4. ts = Timestamp(date, <<>>, <<>>) \/ \E p, d : ts \in ReadTime(w, p, d)
  BY <1>2, Zenon DEF toml_rtots
<1> QED BY <1>1, <1>3, <1>4 DEF Timestamp

(* toml_json tries the types of a value in another order than the parser:  *)
(* what the one prints is what the other has, for every text.              *)
Agree(w) == /\ print_raw(w) # "exit" => print_raw(w) = TypeWord(w)
            /\ print_raw(w) = "exit" => valtype(w) \in {"s", "u"}

LEMMA BooleansAre ==
  ASSUME NEW w, toml_rtob(w) # {}
  PROVE  Sequence(w) /\ w # <<>> /\ w[1] \in Foreign \ Quotes
<1>1. CASE w = TRUE_TEXT
  <2>1. w = <<"t", "r", "u", "e">>
    BY <1>1 DEF TRUE_TEXT
  <2>2. w \in Seq({"t", "r", "u", "e"}) /\ Len(w) = 4 /\ w[1] = "t"
    BY <2>1
  <2>3. Sequence(w)
    BY <2>2, SequenceIs
  <2> QED BY <2>1, <2>2, <2>3 DEF Foreign, Quotes, DQ, SQ
<1>2. CASE w = FALSE_TEXT
  <2>1. w = <<"f", "a", "l", "s", "e">>
    BY <1>2 DEF FALSE_TEXT
  <2>2. w \in Seq({"f", "a", "l", "s", "e"}) /\ Len(w) = 5 /\ w[1] = "f"
    BY <2>1
  <2>3. Sequence(w)
    BY <2>2, SequenceIs
  <2> QED BY <2>1, <2>2, <2>3 DEF Foreign, Quotes, DQ, SQ
<1> QED BY <1>1, <1>2 DEF toml_rtob

THEOREM TypesAgree ==
  ASSUME NEW w, Sequence(w)
  PROVE  Agree(w)
<1>1. CASE w # <<>> /\ w[1] \in Quotes
  <2>1. valtype(w) = "s"
    BY <1>1 DEF valtype, Quotes
  <2>2. toml_rtoi(w) = {} /\ ~ toml_rtod(w) /\ toml_rtots(w) = {}
    BY <1>1, NoInteger, NoFloat, NoTimestamp, QuoteFacts
  <2>3. toml_rtob(w) = {}
    BY <1>1, BooleansAre
  <2>4. print_raw(w) \in {"string", "exit"}
    BY <2>2, <2>3 DEF print_raw
  <2>5. TypeWord(w) = "string"
    BY <2>1 DEF TypeWord
  <2> QED BY <2>1, <2>4, <2>5 DEF Agree
<1>2. CASE ~ (w # <<>> /\ w[1] \in Quotes)
  <2>1. toml_rtos(w) = {} /\ ~ (w # <<>> /\ w[1] \in {SQ, DQ})
    BY <1>2, NoString DEF Quotes
  <2>2. CASE toml_rtob(w) # {}
    <3>1. toml_rtoi(w) = {}
      BY <2>2, BooleansAre, NoInteger
    <3>2. print_raw(w) = "bool" /\ valtype(w) = "b"
      BY <2>1, <2>2, <3>1 DEF print_raw, valtype
    <3>3. TypeWord(w) = "bool"
      BY <3>2 DEF TypeWord
    <3> QED BY <3>2, <3>3 DEF Agree
  <2>3. CASE toml_rtob(w) = {} /\ toml_rtoi(w) # {}
    <3>1. print_raw(w) = "integer" /\ valtype(w) = "i"
      BY <2>1, <2>3 DEF print_raw, valtype
    <3>2. TypeWord(w) = "integer"
      BY <3>1 DEF TypeWord
    <3> QED BY <3>1, <3>2 DEF Agree
  <2>4. CASE toml_rtob(w) = {} /\ toml_rtoi(w) = {} /\ toml_rtod(w)
    <3>1. print_raw(w) = "float" /\ valtype(w) = "d"
      BY <2>1, <2>4 DEF print_raw, valtype
    <3>2. TypeWord(w) = "float"
      BY <3>1 DEF TypeWord
    <3> QED BY <3>1, <3>2 DEF Agree
  <2>5. CASE toml_rtob(w) = {} /\ toml_rtoi(w) = {} /\ ~ toml_rtod(w) /\ toml_rtots(w) = {}
    <3>1. print_raw(w) = "exit" /\ valtype(w) = "u"
      BY <2>1, <2>5 DEF print_raw, valtype
    <3> QED BY <3>1 DEF Agree
  <2>6. CASE toml_rtob(w) = {} /\ toml_rtoi(w) = {} /\ ~ toml_rtod(w) /\ toml_rtots(w) # {}
    <3>1. PICK ts \in toml_rtots(w) : ts = CHOOSE r \in toml_rtots(w) : TRUE
      BY <2>6
    <3>2. w # <<>>
      BY <2>6, NothingIsZero
    <3>3. ts.date # <<>> \/ ts.time # <<>>
      BY <3>2, StampShown
    <3>4. print_raw(w) = IF ts.date # <<>> /\ ts.time # <<>> THEN "datetime"
                         ELSE IF ts.date # <<>> THEN "date"
                         ELSE IF ts.time # <<>> THEN "time" ELSE "nothing"
      BY <2>1, <2>6, <3>1 DEF print_raw
    <3>5. valtype(w) = IF ts.date # <<>> /\ ts.time # <<>> THEN "T"
                       ELSE IF ts.date # <<>> THEN "D" ELSE "t"
      BY <2>1, <2>6, <3>1 DEF valtype
    <3> QED BY <3>3, <3>4, <3>5 DEF Agree, TypeWord
  <2> QED BY <2>2, <2>3, <2>4, <2>5, <2>6
<1> QED BY <1>1, <1>2

-----------------------------------------------------------------------------
(* What the tools print.  A step before a way.                             *)
LEMMA OneSequence ==
  ASSUME NEW x
  PROVE  Sequence(<<x>>) /\ Len(<<x>>) = 1 /\ <<x>>[1] = x
<1>1. PICK s : s = <<x>>
  OBVIOUS
<1>2. s \in Seq({x}) /\ Len(s) = 1 /\ s[1] = x
  BY <1>1
<1> QED BY <1>1, <1>2, SequenceIs

LEMMA JoinedSequences ==
  ASSUME NEW s, Sequence(s), NEW t, Sequence(t)
  PROVE  /\ Sequence(s \o t) /\ Len(s \o t) = Len(s) + Len(t)
         /\ DOMAIN (s \o t) = 1 .. Len(s) + Len(t)
         /\ \A i \in 1 .. Len(s) + Len(t) :
              (s \o t)[i] = IF i <= Len(s) THEN s[i] ELSE t[i - Len(s)]
<1> DEFINE S == Range(s) \union Range(t)
<1>1. s \in Seq(S) /\ t \in Seq(S)
  BY SeqMonotonic DEF Sequence
<1> HIDE DEF S
<1>2. PICK l : l = s \o t
  OBVIOUS
<1>3. /\ l \in Seq(S) /\ Len(l) = Len(s) + Len(t)
      /\ \A i \in 1 .. Len(s) + Len(t) : l[i] = IF i <= Len(s) THEN s[i] ELSE t[i - Len(s)]
  BY <1>1, <1>2, ConcatProperties
<1>4. Sequence(l) /\ DOMAIN l = 1 .. Len(s) + Len(t)
  BY <1>3, SequenceIs, LenProperties
<1> QED BY <1>2, <1>3, <1>4

LEMMA JoinedOnward ==
  ASSUME NEW s, Sequence(s), NEW t, Sequence(t), NEW u, Sequence(u)
  PROVE  (s \o t) \o u = s \o (t \o u)
<1> DEFINE S == (Range(s) \union Range(t)) \union Range(u)
<1>1. s \in Seq(S) /\ t \in Seq(S) /\ u \in Seq(S)
  BY SeqMonotonic DEF Sequence
<1> HIDE DEF S
<1> QED BY <1>1, ConcatAssociative

LEMMA JoinedNothing ==
  ASSUME NEW s, Sequence(s)
  PROVE  s \o <<>> = s /\ <<>> \o s = s
BY ConcatEmptySeq DEF Sequence

LEMMA JoinedStep ==
  ASSUME NEW s, Sequence(s), NEW x
  PROVE  s \o <<x>> = Append(s, x)
<1> DEFINE S == Range(s) \union {x}
<1>1. s \in Seq(S) /\ x \in S
  BY SeqMonotonic DEF Sequence
<1> HIDE DEF S
<1> QED BY <1>1, AppendIsConcat

LEMMA StepBefore ==
  ASSUME NEW s, Sequence(s), NEW x, NEW l, l = <<x>> \o s
  PROVE  /\ Sequence(l) /\ Len(l) = 1 + Len(s) /\ l[1] = x /\ l # <<>>
         /\ \A i \in 1 .. Len(s) : l[1 + i] = s[i]
<1>1. PICK a : a = <<x>>
  OBVIOUS
<1>2. Sequence(a) /\ Len(a) = 1 /\ a[1] = x
  BY <1>1, OneSequence
<1>3. 1 \in DOMAIN a /\ Len(s) \in Nat /\ DOMAIN s = 1 .. Len(s)
  BY <1>2, SequenceFacts
<1>4. /\ Sequence(l) /\ Len(l) = 1 + Len(s) /\ l[1] = a[1]
      /\ \A i \in DOMAIN s : l[1 + i] = s[i]
  <2>1. l = a \o s
    BY <1>1
  <2>2. Sequence(a \o s) /\ Len(a \o s) = Len(a) + Len(s)
    BY <1>2, JoinedSequences
  <2>3. \A i \in 1 .. 1 + Len(s) : l[i] = IF i <= 1 THEN a[i] ELSE s[i - 1]
    BY <1>2, <2>1, JoinedSequences
  <2>4. \A i \in 1 .. Len(s) : 1 + i \in 1 .. 1 + Len(s) /\ ~ 1 + i <= 1 /\ (1 + i) - 1 = i
    BY <1>3
  <2>5. \A i \in 1 .. Len(s) : l[1 + i] = s[i]
    BY <1>3, <2>3, <2>4
  <2>6. l[1] = a[1]
    BY <1>3, <2>3
  <2> QED BY <1>2, <1>3, <2>1, <2>2, <2>5, <2>6
<1>5. l # <<>>
  BY <1>3, <1>4, EmptySequence
<1> QED BY <1>2, <1>3, <1>4, <1>5

(* What is behind a step can be told from it.                              *)
LEMMA StepsApart ==
  ASSUME NEW s, Sequence(s), NEW t, Sequence(t), NEW x, NEW y, <<x>> \o s = <<y>> \o t
  PROVE  x = y /\ s = t
<1>1. PICK l : l = <<x>> \o s /\ l = <<y>> \o t
  OBVIOUS
<1>2. Len(l) = 1 + Len(s) /\ l[1] = x /\ \A i \in 1 .. Len(s) : l[1 + i] = s[i]
  BY <1>1, StepBefore
<1>3. Len(l) = 1 + Len(t) /\ l[1] = y /\ \A i \in 1 .. Len(t) : l[1 + i] = t[i]
  BY <1>1, StepBefore
<1>4. PICK m \in Nat, n \in Nat : m = Len(s) /\ n = Len(t)
  BY SequenceFacts
<1>5. m = n
  BY <1>2, <1>3, <1>4
<1> DEFINE S == Range(s) \union Range(t)
<1>6. s \in Seq(S) /\ t \in Seq(S)
  BY SeqMonotonic DEF Sequence
<1> HIDE DEF S
<1>7. s = t
  BY <1>2, <1>3, <1>4, <1>5, <1>6, SeqEqual
<1> QED BY <1>2, <1>3, <1>7

-----------------------------------------------------------------------------
(* A list of what is printed, as seen from the node above.                 *)
Shown(x) == Sequence(x.path) /\ "path" \in DOMAIN x /\ x = [f \in DOMAIN x |-> x[f]]
Under(step, x) == [x EXCEPT !.path = <<step>> \o @]

LEMMA UnderShown ==
  ASSUME NEW step, NEW x, Shown(x)
  PROVE  /\ Shown(Under(step, x)) /\ Under(step, x).path = <<step>> \o x.path
         /\ Under(step, x).path # <<>>
         /\ DOMAIN Under(step, x) = DOMAIN x
         /\ \A f \in DOMAIN x \ {"path"} : Under(step, x)[f] = x[f]
<1>1. PICK y : y = Under(step, x)
  OBVIOUS
<1>2. PICK way : way = <<step>> \o x.path
  OBVIOUS
<1>3. y = [f \in DOMAIN x |-> IF f = "path" THEN way ELSE x[f]]
  BY <1>1, <1>2 DEF Under, Shown
<1>4. PICK one : one = <<step>>
  OBVIOUS
<1>5. Sequence(one) /\ Len(one) = 1
  BY <1>4, OneSequence
<1>6. Sequence(way) /\ Len(way) = 1 + Len(x.path) /\ Len(x.path) \in Nat
  BY <1>2, <1>4, <1>5, JoinedSequences, SequenceFacts DEF Shown
<1>7. way # <<>>
  BY <1>6, EmptySequence
<1>8. /\ DOMAIN y = DOMAIN x /\ y.path = way /\ y = [f \in DOMAIN y |-> y[f]]
      /\ \A f \in DOMAIN x \ {"path"} : y[f] = x[f]
  BY <1>3 DEF Shown
<1> QED BY <1>1, <1>2, <1>6, <1>7, <1>8 DEF Shown

LEMMA UnderApart ==
  ASSUME NEW step, NEW other, NEW x, Shown(x), NEW y, Shown(y), Under(step, x) = Under(other, y)
  PROVE  step = other /\ x = y
<1>1. PICK u : /\ u = Under(step, x) /\ u.path = <<step>> \o x.path /\ DOMAIN u = DOMAIN x
               /\ \A f \in DOMAIN x \ {"path"} : u[f] = x[f]
  BY UnderShown
<1>2. PICK v : /\ v = Under(other, y) /\ v.path = <<other>> \o y.path /\ DOMAIN v = DOMAIN y
               /\ \A f \in DOMAIN y \ {"path"} : v[f] = y[f]
  BY UnderShown
<1>3. u = v
  BY <1>1, <1>2
<1>4. PICK s, t : s = x.path /\ t = y.path
  OBVIOUS
<1>5. Sequence(s) /\ Sequence(t) /\ <<step>> \o s = <<other>> \o t
  BY <1>1, <1>2, <1>3, <1>4 DEF Shown
<1>6. step = other /\ s = t
  BY <1>5, StepsApart
<1>7. DOMAIN x = DOMAIN y /\ \A f \in DOMAIN x : x[f] = y[f]
  BY <1>1, <1>2, <1>3, <1>4, <1>6
<1>8. x = [f \in DOMAIN x |-> x[f]] /\ y = [f \in DOMAIN x |-> x[f]]
  BY <1>7 DEF Shown
<1> QED BY <1>6, <1>8

LEMMA MappedList ==
  ASSUME NEW s, NEW S, Listing(s, S), NEW t, DOMAIN t = DOMAIN s, t = [i \in DOMAIN t |-> t[i]],
         NEW g, \A i \in DOMAIN s : t[i] = g[s[i]],
         \A x, y \in S : g[x] = g[y] => x = y
  PROVE  Listing(t, {g[x] : x \in S})
<1>1. PICK l \in Nat : DOMAIN s = 1 .. l /\ \A i \in 1 .. l : s[i] \in S
  BY LenProperties, ElementOfSeq DEF Listing
<1>2. PICK T : T = {g[x] : x \in S}
  OBVIOUS
<1>3. t = [i \in 1 .. l |-> t[i]]
  BY <1>1
<1>4. t \in Seq(T)
  <2>1. \A i \in 1 .. l : t[i] \in T
    BY <1>1, <1>2
  <2> QED BY <1>3, <2>1
<1>5. ASSUME NEW i \in 1 .. l, NEW j \in 1 .. l, t[i] = t[j] PROVE i = j
  <2>1. s[i] = s[j]
    BY <1>1, <1>5
  <2> QED BY <1>1, <2>1 DEF Listing
<1>6. ASSUME NEW x \in S PROVE \E i \in 1 .. l : t[i] = g[x]
  <2>1. PICK i \in 1 .. l : s[i] = x
    BY <1>1 DEF Listing
  <2> QED BY <1>1, <2>1
<1>7. DOMAIN t = 1 .. l /\ t \in Seq({g[x] : x \in S})
  BY <1>1, <1>2, <1>4
<1>8. \A x \in {g[x] : x \in S} : \E i \in DOMAIN t : t[i] = x
  BY <1>6, <1>7
<1> QED BY <1>5, <1>7, <1>8 DEF Listing

LEMMA BelowLists ==
  ASSUME NEW s, NEW S, Listing(s, S), \A x \in S : Shown(x), NEW step
  PROVE  Listing(Below(step, s), {Under(step, x) : x \in S})
<1>1. PICK g : g = [x \in S |-> Under(step, x)]
  OBVIOUS
<1>2. PICK t : t = Below(step, s)
  OBVIOUS
<1>3. t = [i \in DOMAIN s |-> Under(step, s[i])]
  BY <1>2 DEF Below, Under
<1>4. \A i \in DOMAIN s : s[i] \in S
  BY LenProperties, ElementOfSeq DEF Listing
<1>5. DOMAIN t = DOMAIN s /\ t = [i \in DOMAIN t |-> t[i]] /\ \A i \in DOMAIN s : t[i] = g[s[i]]
  BY <1>1, <1>3, <1>4
<1>6. \A x, y \in S : g[x] = g[y] => x = y
  BY <1>1, UnderApart
<1>7. Listing(t, {g[x] : x \in S})
  BY <1>5, <1>6, MappedList
<1>8. {g[x] : x \in S} = {Under(step, x) : x \in S}
  BY <1>1
<1> QED BY <1>2, <1>7, <1>8

(* All that is printed of a node: what is printed for each of its members, *)
(* below the step to it.                                                   *)
Placed(steps, subs, l) == [i \in 1 .. l |-> Below(steps[i], subs[i])]

LEMMA AllBelowLists ==
  ASSUME NEW l \in Nat, NEW steps, NEW subs, NEW S,
         \A i \in 1 .. l : Listing(subs[i], S[i]) /\ \A x \in S[i] : Shown(x),
         \A i, j \in 1 .. l : steps[i] = steps[j] => i = j
  PROVE  Listing(FlattenSeq(Placed(steps, subs, l)),
                 UNION {{Under(steps[i], x) : x \in S[i]} : i \in 1 .. l})
<1>1. PICK seqs : seqs = Placed(steps, subs, l)
  OBVIOUS
<1>2. PICK F : F = [i \in 1 .. l |-> {Under(steps[i], x) : x \in S[i]}]
  OBVIOUS
<1>3. seqs = [i \in 1 .. l |-> seqs[i]] /\ \A i \in 1 .. l : seqs[i] = Below(steps[i], subs[i])
  BY <1>1 DEF Placed
<1>4. Sequence(seqs) /\ DOMAIN seqs = 1 .. l
  BY <1>3, FunctionSequence
<1>5. ASSUME NEW i \in 1 .. l PROVE Listing(seqs[i], F[i])
  <2>1. PICK s, T, step : s = subs[i] /\ T = S[i] /\ step = steps[i]
    OBVIOUS
  <2>2. Listing(s, T) /\ \A x \in T : Shown(x)
    BY <2>1
  <2>3. Listing(Below(step, s), {Under(step, x) : x \in T})
    BY <2>2, BelowLists
  <2> QED BY <1>2, <1>3, <2>1, <2>3
<1>6. ASSUME NEW i \in 1 .. l, NEW j \in 1 .. l, i # j PROVE F[i] \intersect F[j] = {}
  <2> SUFFICES ASSUME NEW x \in S[i], NEW y \in S[j], Under(steps[i], x) = Under(steps[j], y)
               PROVE  FALSE
    BY <1>2
  <2>1. steps[i] = steps[j]
    BY UnderApart
  <2> QED BY <1>6, <2>1
<1>7. Listing(FlattenSeq(seqs), UNION {F[k] : k \in 1 .. l})
  BY <1>4, <1>5, <1>6, FlatLists
<1>8. UNION {F[k] : k \in 1 .. l} = UNION {{Under(steps[i], x) : x \in S[i]} : i \in 1 .. l}
  BY <1>2
<1> QED BY <1>1, <1>7, <1>8

-----------------------------------------------------------------------------
(* What is collected from a tree, as ways and what is at their ends: the   *)
(* ways to what is at a place, seen from the node that the place is in.    *)
(* At some of the places there is something of its own.                    *)
Beyond(step, S) == {<< <<step>> \o x[1], x[2] >> : x \in S}
FromPlace(h, it, v, p) ==
  Beyond(Onto(h, p), (IF p \in DOMAIN it THEN {<< <<>>, it[p] >>} ELSE {})
                     \union (IF SortHeld(h, p) # "v" THEN v[Held(h, p).id] ELSE {}))
Collects(h, it, v) ==
  \A n \in DOMAIN h :
    v[n] = UNION {FromPlace(h, it, v, <<n, k>>) : k \in DOMAIN Members(h[n])}
ValuePlaces(h) == {p \in PlacesIn(h) : SortHeld(h, p) = "v"}

LEMMA NodeBelow ==
  ASSUME NEW h, Tree(h, 0), NEW p \in PlacesIn(h), SortHeld(h, p) # "v"
  PROVE  /\ Held(h, p).id \in DOMAIN h \ {ROOT} /\ p[1] < Held(h, p).id
         /\ PlaceOf(h, Held(h, p).id) = p
         /\ h[Held(h, p).id].sort = SortHeld(h, p)
<1>1. Typed(h) /\ Sound(h) /\ OneParent(h)
  BY DEF Tree
<1>2. p[1] \in DOMAIN h /\ p[2] \in DOMAIN Members(h[p[1]])
  BY PlaceFacts
<1>3. Stands(h, SortHeld(h, p), Held(h, p).id)
  <2>1. CASE h[p[1]].sort = "t"
    <3>1. TableSound(h, h[p[1]])
      BY <1>1, <1>2, <2>1, SoundAt
    <3> QED BY <1>2, <2>1, <3>1 DEF TableSound, Held, SortHeld, Members
  <2>2. CASE h[p[1]].sort # "t"
    <3>1. ArraySound(h, h[p[1]])
      BY <1>1, <1>2, <2>2, SoundAt, HeapDomain
    <3> QED BY <1>2, <2>2, <3>1 DEF ArraySound, Held, SortHeld, Members
  <2> QED BY <2>1, <2>2
<1>4. Held(h, p).id # 0
  BY <1>1, <1>3, HeapDomain DEF Stands
<1> QED BY <1>1, <1>3, <1>4, PlaceOfHeld, OnePlace DEF Stands

LEMMA StepKind ==
  ASSUME NEW h, Tree(h, 0), NEW p \in PlacesIn(h)
  PROVE  Onto(h, p).at = 0 <=> h[p[1]].sort = "t"
<1>1. p[1] \in DOMAIN h /\ p[2] \in DOMAIN Members(h[p[1]])
  BY PlaceFacts
<1>2. CASE h[p[1]].sort = "t"
  BY <1>2 DEF Onto, ByKey
<1>3. CASE h[p[1]].sort # "t"
  <2>1. Sequence(h[p[1]].elems) /\ p[2] \in DOMAIN h[p[1]].elems
    BY <1>1, <1>3 DEF Tree, Typed, IsTable, IsArr, Members
  <2>2. p[2] # 0
    <3>1. PICK l \in Nat : DOMAIN h[p[1]].elems = 1 .. l
      BY <2>1, SequenceFacts
    <3> QED BY <2>1, <3>1
  <2>3. Onto(h, p).at = p[2]
    BY <1>3 DEF Onto, ByNumber
  <2> QED BY <1>3, <2>2, <2>3
<1> QED BY <1>2, <1>3

LEMMA WayBelow ==
  ASSUME NEW h, Tree(h, 0), NEW p \in PlacesIn(h)
  PROVE  /\ Sequence(Ways(h)[p[1]]) /\ Sequence(PathTo(h, p))
         /\ \A w : Sequence(w) => Ways(h)[p[1]] \o (<<Onto(h, p)>> \o w) = PathTo(h, p) \o w
         /\ SortHeld(h, p) # "v" => Ways(h)[Held(h, p).id] = PathTo(h, p)
<1>1. PICK s, x : s = Ways(h)[p[1]] /\ x = Onto(h, p)
  OBVIOUS
<1>2. Sequence(s)
  BY <1>1, PlaceFacts, WaysAreSequences
<1>3. PICK one : one = <<x>>
  OBVIOUS
<1>4. Sequence(one) /\ s \o one = Append(s, x)
  BY <1>2, <1>3, OneSequence, JoinedStep
<1>5. PathTo(h, p) = Append(s, x)
  BY <1>1 DEF PathTo
<1>6. \A w : Sequence(w) => s \o (one \o w) = Append(s, x) \o w
  <2> SUFFICES ASSUME NEW w, Sequence(w) PROVE s \o (one \o w) = Append(s, x) \o w
    OBVIOUS
  <2>1. Sequence(one)
    BY <1>4
  <2>2. (s \o one) \o w = s \o (one \o w)
    BY <1>2, <2>1, JoinedOnward
  <2> QED BY <1>4, <2>2
<1>7. SortHeld(h, p) # "v" => Ways(h)[Held(h, p).id] = PathTo(h, p)
  <2> SUFFICES ASSUME SortHeld(h, p) # "v" PROVE Ways(h)[Held(h, p).id] = PathTo(h, p)
    OBVIOUS
  <2>1. PICK d \in DOMAIN h \ {ROOT} : d = Held(h, p).id /\ PlaceOf(h, d) = p
    BY NodeBelow
  <2>2. Ways(h)[d] = WayOn(h, Ways(h), d)
    BY WaysExist
  <2> QED BY <2>1, <2>2 DEF WayOn, PathTo
<1>8. Sequence(Append(s, x))
  BY <1>2, AppendSequence
<1> QED BY <1>1, <1>2, <1>3, <1>5, <1>6, <1>7, <1>8

(* What is collected at a node is at a place below it.                     *)
FoundFrom(h, it, n, x) ==
  /\ Sequence(x[1]) /\ x = <<x[1], x[2]>>
  /\ \E p \in DOMAIN it : PathTo(h, p) = Ways(h)[n] \o x[1] /\ x[2] = it[p]

LEMMA FoundOnward ==
  ASSUME NEW h, Tree(h, 0), NEW it, NEW v, NEW p \in PlacesIn(h),
         SortHeld(h, p) # "v" => \A x \in v[Held(h, p).id] : FoundFrom(h, it, Held(h, p).id, x),
         NEW y \in FromPlace(h, it, v, p)
  PROVE  FoundFrom(h, it, p[1], y)
<1>1. PICK W, step, full : W = Ways(h)[p[1]] /\ step = Onto(h, p) /\ full = PathTo(h, p)
  OBVIOUS
<1>2. /\ Sequence(W) /\ Sequence(full) /\ \A w : Sequence(w) => W \o (<<step>> \o w) = full \o w
      /\ SortHeld(h, p) # "v" => Ways(h)[Held(h, p).id] = full
  BY <1>1, WayBelow
<1>3. PICK x : /\ y = << <<step>> \o x[1], x[2] >>
               /\ \/ p \in DOMAIN it /\ x = << <<>>, it[p] >>
                  \/ SortHeld(h, p) # "v" /\ x \in v[Held(h, p).id]
  <2> DEFINE A == IF p \in DOMAIN it THEN {<< <<>>, it[p] >>} ELSE {}
             B == IF SortHeld(h, p) # "v" THEN v[Held(h, p).id] ELSE {}
  <2>1. y \in Beyond(step, A \union B)
    BY <1>1 DEF FromPlace
  <2>2. PICK x \in A \union B : y = << <<step>> \o x[1], x[2] >>
    BY <2>1 DEF Beyond
  <2>3. \/ p \in DOMAIN it /\ x = << <<>>, it[p] >>
        \/ SortHeld(h, p) # "v" /\ x \in v[Held(h, p).id]
    BY <2>2
  <2> QED BY <2>2, <2>3
<1>4. CASE p \in DOMAIN it /\ x = << <<>>, it[p] >>
  <2>1. PICK w : w = x[1]
    OBVIOUS
  <2>2. w = <<>> /\ x[2] = it[p]
    BY <1>4, <2>1
  <2>3. Sequence(w) /\ full \o w = full
    BY <1>2, <2>2, EmptySequence, JoinedNothing
  <2>4. y[1] = <<step>> \o w /\ y[2] = it[p] /\ y = <<y[1], y[2]>>
    BY <1>3, <2>1, <2>2
  <2>5. Sequence(<<step>> \o w)
    BY <2>3, StepBefore
  <2>6. W \o y[1] = full
    BY <1>2, <2>3, <2>4
  <2> QED BY <1>1, <1>4, <2>4, <2>5, <2>6 DEF FoundFrom
<1>5. CASE SortHeld(h, p) # "v" /\ x \in v[Held(h, p).id]
  <2>1. /\ Sequence(x[1])
        /\ \E q \in DOMAIN it : PathTo(h, q) = full \o x[1] /\ x[2] = it[q]
    BY <1>2, <1>5 DEF FoundFrom
  <2>2. PICK w : w = x[1]
    OBVIOUS
  <2>3. y[1] = <<step>> \o w /\ y[2] = x[2] /\ y = <<y[1], y[2]>>
    BY <1>3, <2>2
  <2>4. Sequence(<<step>> \o w)
    BY <2>1, <2>2, StepBefore
  <2>5. W \o y[1] = full \o w
    BY <1>2, <2>1, <2>2, <2>3
  <2> QED BY <1>1, <2>1, <2>2, <2>3, <2>4, <2>5 DEF FoundFrom
<1> QED BY <1>3, <1>4, <1>5

(* What holds of a node when it does of all that are newer holds of all.   *)
LEMMA NewestFirst ==
  ASSUME NEW l \in Nat, NEW G,
         \A n \in 1 .. l : (\A m \in 1 .. l : n < m => m \in G) => n \in G
  PROVE  \A n \in 1 .. l : n \in G
<1>1. PICK Other : Other = {k \in 0 .. l - 1 : l - k \notin G}
  OBVIOUS
<1>2. Other = {}
  <2>0. Other \in SUBSET Nat
    BY <1>1
  <2> SUFFICES ASSUME Other # {} PROVE FALSE
    OBVIOUS
  <2>1. PICK k \in Other : \A j \in Other : k <= j
    BY <2>0, Least
  <2>2. k \in 0 .. l - 1 /\ l - k \notin G
    BY <1>1
  <2>3. PICK n \in 1 .. l : n = l - k
    BY <2>2
  <2>4. ASSUME NEW m \in 1 .. l, n < m PROVE m \in G
    <3>1. PICK j \in 0 .. l - 1 : j = l - m
      OBVIOUS
    <3>2. j < k /\ l - j = m
      BY <2>2, <2>3, <2>4, <3>1
    <3>3. j \notin Other
      BY <2>1, <2>2, <3>2
    <3> QED BY <1>1, <3>2, <3>3
  <2> QED BY <2>2, <2>3, <2>4
<1>3. ASSUME NEW n \in 1 .. l PROVE n \in G
  <2>1. PICK k \in 0 .. l - 1 : k = l - n
    OBVIOUS
  <2>2. l - k = n
    BY <2>1
  <2> QED BY <1>1, <1>2, <2>2
<1> QED BY <1>3

LEMMA OnlyPlaces ==
  ASSUME NEW h, Tree(h, 0), NEW it, NEW v, Collects(h, it, v)
  PROVE  \A n \in DOMAIN h : \A x \in v[n] : FoundFrom(h, it, n, x)
<1>1. PICK l \in Nat : DOMAIN h = 1 .. l
  BY HeapDomain DEF Tree
<1>2. PICK G : G = {n \in DOMAIN h : \A x \in v[n] : FoundFrom(h, it, n, x)}
  OBVIOUS
<1>3. ASSUME NEW n \in 1 .. l, \A m \in 1 .. l : n < m => m \in G PROVE n \in G
  <2> SUFFICES ASSUME NEW y \in v[n] PROVE FoundFrom(h, it, n, y)
    BY <1>1, <1>2
  <2>1. PICK i \in DOMAIN Members(h[n]) : y \in FromPlace(h, it, v, <<n, i>>)
    <3>1. v[n] = UNION {FromPlace(h, it, v, <<n, k>>) : k \in DOMAIN Members(h[n])}
      BY <1>1 DEF Collects
    <3>2. PICK S : S = {FromPlace(h, it, v, <<n, k>>) : k \in DOMAIN Members(h[n])}
      OBVIOUS
    <3>3. \E a \in S : y \in a
      BY <3>1, <3>2
    <3> QED BY <3>2, <3>3
  <2>2. PICK p \in PlacesIn(h) : p = <<n, i>>
    BY <1>1, PlaceFacts
  <2>3. ASSUME SortHeld(h, p) # "v"
        PROVE  \A x \in v[Held(h, p).id] : FoundFrom(h, it, Held(h, p).id, x)
    <3>1. PICK d \in DOMAIN h : d = Held(h, p).id /\ p[1] < d
      BY <2>3, NodeBelow
    <3>2. n < d
      BY <2>2, <3>1
    <3> QED BY <1>1, <1>2, <1>3, <3>1, <3>2
  <2>4. FoundFrom(h, it, p[1], y)
    BY <2>1, <2>2, <2>3, FoundOnward
  <2> QED BY <2>2, <2>4
<1>4. \A n \in 1 .. l : n \in G
  BY <1>3, NewestFirst
<1> QED BY <1>1, <1>2, <1>4

(* What is collected at a node is collected at the root.                   *)
LEMMA AllCollected ==
  ASSUME NEW h, Tree(h, 0), NEW it, NEW v, Collects(h, it, v)
  PROVE  \A n \in DOMAIN h : \A x \in v[n] : << Ways(h)[n] \o x[1], x[2] >> \in v[ROOT]
<1>1. PICK l \in Nat \ {0} : DOMAIN h = 1 .. l
  BY HeapDomain DEF Tree
<1>2. PICK Other : Other = {n \in DOMAIN h :
                        \E x \in v[n] : << Ways(h)[n] \o x[1], x[2] >> \notin v[ROOT]}
  OBVIOUS
<1>3. Other = {}
  <2>0. Other \in SUBSET Nat
    <3>1. Other \subseteq DOMAIN h
      BY <1>2
    <3> QED BY <1>1, <3>1
  <2> SUFFICES ASSUME Other # {} PROVE FALSE
    OBVIOUS
  <2>1. PICK n \in Other : \A j \in Other : n <= j
    BY <2>0, Least
  <2>2. n \in DOMAIN h
    BY <1>2
  <2>3. PICK x \in v[n] : << Ways(h)[n] \o x[1], x[2] >> \notin v[ROOT]
    BY <1>2
  <2>4. PICK w, m : w = x[1] /\ m = x[2]
    OBVIOUS
  <2>5. x = <<w, m>> /\ Sequence(w)
    <3>1. FoundFrom(h, it, n, x)
      BY <2>2, <2>3, OnlyPlaces
    <3> QED BY <2>4, <3>1 DEF FoundFrom
  <2>6. CASE n = ROOT
    <3>1. Ways(h)[n] = <<>>
      BY <2>2, <2>6, WaysExist DEF WayOn
    <3>2. Ways(h)[n] \o w = w
      BY <2>4, <2>5, <3>1, JoinedNothing
    <3> QED BY <2>3, <2>4, <2>5, <2>6, <3>2
  <2>7. CASE n # ROOT
    <3>1. PICK p : p = PlaceOf(h, n)
      OBVIOUS
    <3>2. /\ p \in PlacesIn(h) /\ Held(h, p).id = n /\ p[1] \in DOMAIN h /\ p[1] < n
          /\ p[2] \in DOMAIN Members(h[p[1]]) /\ p = <<p[1], p[2]>>
      BY <2>2, <2>7, <3>1, PlaceFound, PlaceFacts
    <3>3. SortHeld(h, p) # "v"
      <4>1. PICK q \in PlacesIn(h) : PathTo(h, q) = Ways(h)[n] /\ SortHeld(h, q) = h[n].sort
        BY <2>2, <2>7, ItemAbove
      <4>2. h[n].sort \in {"t", "a"} /\ Typed(h) /\ Sound(h) /\ n # 0
        BY <1>1, <2>2, HeapDomain DEF Tree
      <4>3. CASE h[p[1]].sort = "t"
        <5>1. TableSound(h, h[p[1]])
          BY <3>2, <4>2, <4>3, SoundAt
        <5> QED BY <3>2, <4>2, <4>3, <5>1 DEF TableSound, SortHeld, Held, Members
      <4>4. CASE h[p[1]].sort # "t"
        <5>1. ArraySound(h, h[p[1]])
          BY <3>2, <4>2, <4>4, SoundAt, HeapDomain
        <5> QED BY <3>2, <4>2, <4>4, <5>1 DEF ArraySound, SortHeld, Held, Members
      <4> QED BY <4>3, <4>4
    <3>4. PICK W, step, full : W = Ways(h)[p[1]] /\ step = Onto(h, p) /\ full = PathTo(h, p)
      OBVIOUS
    <3>5. W \o (<<step>> \o w) = full \o w
      <4>1. Sequence(w) /\ p \in PlacesIn(h)
        BY <2>5, <3>2
      <4>2. Ways(h)[p[1]] \o (<<Onto(h, p)>> \o w) = PathTo(h, p) \o w
        BY <4>1, WayBelow
      <4> QED BY <3>4, <4>2
    <3>6. Ways(h)[n] = full
      BY <3>2, <3>3, <3>4, WayBelow
    <3>7. PICK y : y = << <<step>> \o w, m >>
      OBVIOUS
    <3>8. y \in FromPlace(h, it, v, p)
      BY <2>4, <2>5, <3>2, <3>3, <3>4, <3>7 DEF FromPlace, Beyond
    <3>9. y \in v[p[1]]
      BY <3>2, <3>8 DEF Collects
    <3>10. p[1] \notin Other
      BY <1>1, <2>1, <2>2, <3>2
    <3>11. << W \o y[1], y[2] >> \in v[ROOT]
      BY <1>2, <3>2, <3>4, <3>9, <3>10
    <3>12. W \o y[1] = Ways(h)[n] \o x[1] /\ y[2] = x[2]
      BY <2>4, <2>5, <3>5, <3>6, <3>7
    <3> QED BY <2>3, <3>11, <3>12
  <2> QED BY <2>6, <2>7
<1> QED BY <1>2, <1>3

(* The whole of it: all that is at a place, and the way to it.             *)
LEMMA TreeCollected ==
  ASSUME NEW h, Tree(h, 0), NEW it, DOMAIN it \subseteq PlacesIn(h),
         NEW v, Collects(h, it, v)
  PROVE  v[ROOT] = {<< PathTo(h, p), it[p] >> : p \in DOMAIN it}
<1>1. ROOT \in DOMAIN h /\ Ways(h)[ROOT] = <<>>
  BY WaysExist DEF Tree, Typed, WayOn
<1>2. ASSUME NEW x \in v[ROOT] PROVE \E p \in DOMAIN it : x = << PathTo(h, p), it[p] >>
  <2>0. FoundFrom(h, it, ROOT, x)
    BY <1>1, OnlyPlaces
  <2>1. PICK w, m : w = x[1] /\ m = x[2]
    OBVIOUS
  <2>2. x = <<w, m>> /\ Sequence(w)
    BY <2>0, <2>1 DEF FoundFrom
  <2>3. PICK p \in DOMAIN it : PathTo(h, p) = Ways(h)[ROOT] \o x[1] /\ x[2] = it[p]
    BY <2>0 DEF FoundFrom
  <2>4. PathTo(h, p) = w
    BY <1>1, <2>1, <2>2, <2>3, JoinedNothing
  <2> QED BY <2>1, <2>2, <2>3, <2>4
<1>3. ASSUME NEW p \in DOMAIN it PROVE << PathTo(h, p), it[p] >> \in v[ROOT]
  <2>1. /\ p \in PlacesIn(h) /\ p[1] \in DOMAIN h
        /\ p[2] \in DOMAIN Members(h[p[1]]) /\ p = <<p[1], p[2]>>
    BY PlaceFacts
  <2>2. PICK W, step, full, none :
          /\ W = Ways(h)[p[1]] /\ step = Onto(h, p) /\ full = PathTo(h, p) /\ none = <<>>
          /\ Sequence(full)
    BY <2>1, WayBelow
  <2>3. W \o (<<step>> \o none) = full \o none /\ full \o none = full
    <3>1. \A u : Sequence(u) => W \o (<<step>> \o u) = full \o u
      BY <2>1, <2>2, WayBelow
    <3> QED BY <2>2, <3>1, EmptySequence, JoinedNothing
  <2>4. PICK y : y = << <<step>> \o none, it[p] >>
    OBVIOUS
  <2>5. y \in FromPlace(h, it, v, p)
    <3>1. PICK x : x = <<none, it[p]>>
      OBVIOUS
    <3>2. x \in IF p \in DOMAIN it THEN {<< <<>>, it[p] >>} ELSE {}
      BY <2>2, <3>1
    <3>3. y = << <<step>> \o x[1], x[2] >>
      BY <2>4, <3>1
    <3> QED BY <2>2, <3>2, <3>3 DEF FromPlace, Beyond
  <2>6. y \in v[p[1]]
    BY <2>1, <2>5 DEF Collects
  <2>7. << W \o y[1], y[2] >> \in v[ROOT]
    BY <2>1, <2>2, <2>6, AllCollected
  <2> QED BY <2>2, <2>3, <2>4, <2>7
<1> QED BY <1>2, <1>3

-----------------------------------------------------------------------------
(* What the accessors find.  The keys of a table come in the order of the  *)
(* sorts, and lead to the one entry that each of them has.                 *)
Built == Tree(heap, 0) /\ KeysOnce(heap)
All(node) == (EntriesOf(node, "v") \o EntriesOf(node, "a")) \o EntriesOf(node, "t")

LEMMA TableFacts ==
  ASSUME Built, NEW n \in DOMAIN heap, heap[n].sort = "t"
  PROVE  /\ Sequence(heap[n].entries) /\ Members(heap[n]) = heap[n].entries
         /\ \A k \in DOMAIN heap[n].entries :
              /\ heap[n].entries[k].sort \in {"v", "a", "t"}
              /\ heap[n].entries[k].sort # "v" => heap[n].entries[k].id \in DOMAIN heap
         /\ \A i, j \in DOMAIN heap[n].entries :
              heap[n].entries[i].key = heap[n].entries[j].key => i = j
<1>1. Typed(heap) /\ Sound(heap) /\ KeysOnce(heap)
  BY DEF Built, Tree
<1>2. Sequence(heap[n].entries)
  BY <1>1 DEF Typed, IsTable, IsArr
<1>3. TableSound(heap, heap[n])
  BY <1>1, SoundAt
<1>4. \A i, j \in DOMAIN heap[n].entries : heap[n].entries[i].key = heap[n].entries[j].key => i = j
  BY <1>1 DEF KeysOnce
<1>5. \A k \in DOMAIN heap[n].entries :
        /\ heap[n].entries[k].sort \in {"v", "a", "t"}
        /\ heap[n].entries[k].sort # "v" => heap[n].entries[k].id \in DOMAIN heap
  BY <1>3 DEF TableSound, Stands
<1> QED BY <1>2, <1>4, <1>5 DEF Members

LEMMA KeysListed ==
  ASSUME Built, NEW n \in DOMAIN heap, heap[n].sort = "t"
  PROVE  /\ Listing(All(heap[n]), Range(heap[n].entries))
         /\ \A i, j \in DOMAIN All(heap[n]) :
              i < j /\ All(heap[n])[j].sort = "v" => All(heap[n])[i].sort = "v"
<1>1. PICK node : node = heap[n]
  OBVIOUS
<1>2. /\ Sequence(node.entries)
      /\ \A k \in DOMAIN node.entries : node.entries[k].sort \in {"v", "a", "t"}
      /\ \A i, j \in DOMAIN node.entries : node.entries[i] = node.entries[j] => i = j
  BY <1>1, TableFacts
<1>3. PICK v, a, t : /\ v = EntriesOf(node, "v") /\ a = EntriesOf(node, "a")
                     /\ t = EntriesOf(node, "t")
  OBVIOUS
<1>4. PICK V, A, T : V = OfSort(node, "v") /\ A = OfSort(node, "a") /\ T = OfSort(node, "t")
  OBVIOUS
<1>5. Listing(v, V) /\ Listing(a, A) /\ Listing(t, T)
  BY <1>2, <1>3, <1>4, EntriesList
<1>6. \A e \in V : e.sort = "v"
  BY <1>4 DEF OfSort
<1>7. \A e \in A : e.sort = "a"
  BY <1>4 DEF OfSort
<1>8. \A e \in T : e.sort = "t"
  BY <1>4 DEF OfSort
<1>9. V \intersect A = {} /\ (V \union A) \intersect T = {}
  BY <1>6, <1>7, <1>8
<1>10. PICK b : b = v \o a
  OBVIOUS
<1>11. Listing(b, V \union A)
  BY <1>5, <1>9, <1>10, ListsBoth
<1>12. Listing(b \o t, (V \union A) \union T)
  BY <1>5, <1>9, <1>11, ListsBoth
<1>13. (V \union A) \union T = Range(node.entries)
  BY <1>2, <1>4 DEF OfSort, Range
<1>14. Sequence(v) /\ Sequence(a) /\ Sequence(t) /\ Sequence(b)
  BY <1>5, <1>11, SequenceIs DEF Listing
<1>15. PICK l : l = b \o t
  OBVIOUS
<1>16. /\ Len(l) = Len(b) + Len(t) /\ DOMAIN l = 1 .. Len(b) + Len(t)
       /\ \A i \in 1 .. Len(b) + Len(t) : l[i] = IF i <= Len(b) THEN b[i] ELSE t[i - Len(b)]
  BY <1>14, <1>15, JoinedSequences
<1>17. /\ Len(b) = Len(v) + Len(a)
       /\ \A i \in 1 .. Len(v) + Len(a) : b[i] = IF i <= Len(v) THEN v[i] ELSE a[i - Len(v)]
  BY <1>10, <1>14, JoinedSequences
<1>18. /\ Len(v) \in Nat /\ Len(a) \in Nat /\ Len(t) \in Nat
       /\ \A i \in 1 .. Len(v) : v[i] \in V
       /\ \A i \in 1 .. Len(a) : a[i] \in A
       /\ \A i \in 1 .. Len(t) : t[i] \in T
  BY <1>5, LenProperties, ElementOfSeq DEF Listing
<1>19. ASSUME NEW i \in DOMAIN l PROVE l[i].sort = "v" <=> i <= Len(v)
  <2>1. CASE i <= Len(v)
    <3>1. /\ i \in 1 .. Len(v) /\ i \in 1 .. Len(v) + Len(a)
          /\ i <= Len(b) /\ i \in 1 .. Len(b) + Len(t)
      BY <1>16, <1>17, <1>18, <2>1
    <3>2. l[i] = v[i]
      BY <1>16, <1>17, <2>1, <3>1
    <3> QED BY <1>6, <1>18, <2>1, <3>1, <3>2
  <2>2. CASE ~ i <= Len(v) /\ i <= Len(b)
    <3>1. /\ i - Len(v) \in 1 .. Len(a) /\ i \in 1 .. Len(v) + Len(a)
          /\ i \in 1 .. Len(b) + Len(t)
      BY <1>16, <1>17, <1>18, <2>2
    <3>2. l[i] = a[i - Len(v)]
      BY <1>16, <1>17, <2>2, <3>1
    <3> QED BY <1>7, <1>18, <2>2, <3>1, <3>2
  <2>3. CASE ~ i <= Len(b)
    <3>1. i - Len(b) \in 1 .. Len(t) /\ i \in 1 .. Len(b) + Len(t) /\ ~ i <= Len(v)
      BY <1>16, <1>17, <1>18, <2>3
    <3>2. l[i] = t[i - Len(b)]
      BY <1>16, <2>3, <3>1
    <3> QED BY <1>8, <1>18, <3>1, <3>2
  <2> QED BY <2>1, <2>2, <2>3
<1>20. \A i, j \in DOMAIN l : i < j /\ l[j].sort = "v" => l[i].sort = "v"
  <2> SUFFICES ASSUME NEW i \in DOMAIN l, NEW j \in DOMAIN l, i < j, l[j].sort = "v"
               PROVE  l[i].sort = "v"
    OBVIOUS
  <2>1. j <= Len(v)
    BY <1>19
  <2>2. i <= Len(v)
    BY <1>16, <1>17, <1>18, <2>1
  <2> QED BY <1>19, <2>2
<1>21. All(heap[n]) = l
  BY <1>1, <1>3, <1>10, <1>15 DEF All
<1> QED BY <1>1, <1>12, <1>13, <1>15, <1>20, <1>21

LEMMA MinOfOne ==
  ASSUME NEW i \in Nat
  PROVE  Min({i}) = i
BY MinIn

LEMMA EntryFound ==
  ASSUME Built, NEW n \in DOMAIN heap, heap[n].sort = "t", NEW e \in Range(heap[n].entries)
  PROVE  /\ toml_raw_in(n, e.key) = IF e.sort = "v" THEN {e.word} ELSE {}
         /\ toml_array_in(n, e.key) = IF e.sort = "a" THEN {e.id} ELSE {}
         /\ toml_table_in(n, e.key) = IF e.sort = "t" THEN {e.id} ELSE {}
<1>1. PICK entries : entries = heap[n].entries
  OBVIOUS
<1>2. PICK k \in DOMAIN entries : entries[k] = e
  BY <1>1 DEF Range
<1>3. k \in Nat /\ \A i \in DOMAIN entries : entries[i].key = e.key => i = k
  <2>1. DOMAIN entries \subseteq Nat
    BY <1>1, TableFacts, SequenceFacts
  <2> QED BY <1>1, <1>2, <2>1, TableFacts
<1>4. ASSUME NEW sort
      PROVE  Hits(n, e.key, sort) = IF e.sort = sort THEN {k} ELSE {}
  BY <1>1, <1>2, <1>3 DEF Hits
<1>5. ASSUME NEW sort
      PROVE  FirstWith(n, sort, e.key) = IF e.sort = sort THEN {e} ELSE {}
  <2>1. CASE e.sort = sort
    <3>1. Hits(n, e.key, sort) = {k} /\ {k} # {}
      BY <1>4, <2>1
    <3>2. AtFirst(n, {k}) = e
      BY <1>1, <1>2, <1>3, <3>1, MinOfOne DEF AtFirst
    <3> QED BY <2>1, <3>1, <3>2 DEF FirstWith
  <2>2. CASE e.sort # sort
    BY <1>4, <2>2 DEF FirstWith
  <2> QED BY <2>1, <2>2
<1>6. toml_raw_in(n, e.key) = IF e.sort = "v" THEN {e.word} ELSE {}
  BY <1>5 DEF toml_raw_in
<1>7. toml_array_in(n, e.key) = IF e.sort = "a" THEN {e.id} ELSE {}
  BY <1>5 DEF toml_array_in
<1>8. toml_table_in(n, e.key) = IF e.sort = "t" THEN {e.id} ELSE {}
  BY <1>5 DEF toml_table_in
<1> QED BY <1>6, <1>7, <1>8

(* The places in a node, in the order in which its members are printed.    *)
PlacesAt(n) == {<<n, k>> : k \in DOMAIN Members(heap[n])}
InOrder(n, P) ==
  /\ Listing(P, PlacesAt(n))
  /\ heap[n].sort = "t" => /\ DOMAIN P = DOMAIN All(heap[n])
                           /\ \A i \in DOMAIN P : Held(heap, P[i]) = All(heap[n])[i]
  /\ heap[n].sort # "t" => /\ DOMAIN P = DOMAIN Members(heap[n])
                           /\ \A i \in DOMAIN P : P[i] = <<n, i>>

LEMMA PlacesInOrder ==
  ASSUME Built, NEW n \in DOMAIN heap
  PROVE  \E P : InOrder(n, P)
<1>1. CASE heap[n].sort = "t"
  <2>1. PICK all, entries : all = All(heap[n]) /\ entries = heap[n].entries
    OBVIOUS
  <2>2. Listing(all, Range(entries)) /\ Members(heap[n]) = entries
    BY <1>1, <2>1, KeysListed, TableFacts
  <2>3. \A i, j \in DOMAIN entries : entries[i] = entries[j] => i = j
    BY <1>1, <2>1, TableFacts
  <2>4. PICK l \in Nat : DOMAIN all = 1 .. l /\ \A i \in 1 .. l : all[i] \in Range(entries)
    BY <2>2, LenProperties, ElementOfSeq DEF Listing
  <2>5. PICK P : P = [i \in 1 .. l |-> <<n, CHOOSE k \in DOMAIN entries : entries[k] = all[i]>>]
    OBVIOUS
  <2>6. ASSUME NEW i \in 1 .. l
        PROVE  \E k \in DOMAIN entries : P[i] = <<n, k>> /\ entries[k] = all[i]
    <3>1. PICK k \in DOMAIN entries :
            entries[k] = all[i] /\ k = CHOOSE x \in DOMAIN entries : entries[x] = all[i]
      BY <2>4 DEF Range
    <3> QED BY <2>5, <3>1
  <2>7. \A i \in 1 .. l : P[i] \in PlacesAt(n) /\ Held(heap, P[i]) = all[i]
    <3> SUFFICES ASSUME NEW i \in 1 .. l
                 PROVE  P[i] \in PlacesAt(n) /\ Held(heap, P[i]) = all[i]
      OBVIOUS
    <3>1. PICK k \in DOMAIN entries : P[i] = <<n, k>> /\ entries[k] = all[i]
      BY <2>6
    <3> QED BY <2>2, <3>1 DEF PlacesAt, Held
  <2>8. P \in Seq(PlacesAt(n)) /\ DOMAIN P = 1 .. l
    <3>1. P = [i \in 1 .. l |-> P[i]]
      BY <2>5
    <3> QED BY <2>7, <3>1
  <2>9. ASSUME NEW i \in 1 .. l, NEW j \in 1 .. l, P[i] = P[j] PROVE i = j
    <3>1. all[i] = all[j]
      BY <2>7, <2>9
    <3> QED BY <2>2, <2>4, <3>1 DEF Listing
  <2>10. ASSUME NEW k \in DOMAIN entries PROVE \E i \in 1 .. l : P[i] = <<n, k>>
    <3>1. PICK i \in 1 .. l : all[i] = entries[k]
      BY <2>2, <2>4 DEF Listing, Range
    <3>2. PICK j \in DOMAIN entries : P[i] = <<n, j>> /\ entries[j] = all[i]
      BY <2>6
    <3> QED BY <2>3, <3>1, <3>2
  <2>11. \A p \in PlacesAt(n) : \E i \in DOMAIN P : P[i] = p
    BY <2>2, <2>8, <2>10 DEF PlacesAt
  <2>12. Listing(P, PlacesAt(n))
    BY <2>8, <2>9, <2>11 DEF Listing
  <2> QED BY <1>1, <2>1, <2>4, <2>7, <2>8, <2>12 DEF InOrder
<1>2. CASE heap[n].sort # "t"
  <2>1. PICK l \in Nat : DOMAIN Members(heap[n]) = 1 .. l
    BY MembersTyped, SequenceFacts DEF Built, Tree
  <2>2. PICK P : P = [i \in 1 .. l |-> <<n, i>>]
    OBVIOUS
  <2>3. P \in Seq(PlacesAt(n)) /\ DOMAIN P = 1 .. l /\ \A i \in 1 .. l : P[i] = <<n, i>>
    BY <2>1, <2>2 DEF PlacesAt
  <2>4. \A i, j \in 1 .. l : P[i] = P[j] => i = j
    BY <2>3
  <2>5. \A p \in PlacesAt(n) : \E i \in DOMAIN P : P[i] = p
    BY <2>1, <2>3 DEF PlacesAt
  <2>6. Listing(P, PlacesAt(n))
    BY <2>3, <2>4, <2>5 DEF Listing
  <2> QED BY <1>2, <2>1, <2>3, <2>6 DEF InOrder
<1> QED BY <1>1, <1>2

-----------------------------------------------------------------------------
(* What toml_json prints of a node: what it prints of each member, in the  *)
(* order of the places.                                                    *)
Along(P) == [i \in DOMAIN P |-> Onto(heap, P[i])]
JsonSub(f, p) ==
  IF SortHeld(heap, p) = "v" THEN <<Printed(Held(heap, p).word)>> ELSE f[Held(heap, p).id]
JsonSubs(f, P) == [i \in DOMAIN P |-> JsonSub(f, P[i])]
JsonNode(f, n) == IF heap[n].sort = "t" THEN JsonTable(f, n) ELSE JsonArray(f, n)

LEMMA OrderFacts ==
  ASSUME Built, NEW n \in DOMAIN heap, NEW P, InOrder(n, P)
  PROVE  /\ Len(P) \in Nat /\ DOMAIN P = 1 .. Len(P)
         /\ \A i \in DOMAIN P :
              /\ P[i] \in PlacesIn(heap) /\ P[i] = <<n, P[i][2]>> /\ P[i][1] = n
              /\ P[i][2] \in DOMAIN Members(heap[n])
         /\ \A k \in DOMAIN Members(heap[n]) : \E i \in DOMAIN P : P[i] = <<n, k>>
         /\ \A i, j \in DOMAIN P : Onto(heap, P[i]) = Onto(heap, P[j]) => i = j
<1>1. Len(P) \in Nat /\ DOMAIN P = 1 .. Len(P) /\ \A i \in DOMAIN P : P[i] \in PlacesAt(n)
  BY LenProperties, ElementOfSeq DEF InOrder, Listing
<1>2. \A i \in DOMAIN P :
        /\ P[i] \in PlacesIn(heap) /\ P[i] = <<n, P[i][2]>> /\ P[i][1] = n
        /\ P[i][2] \in DOMAIN Members(heap[n])
  <2> SUFFICES ASSUME NEW i \in DOMAIN P
               PROVE  /\ P[i] \in PlacesIn(heap) /\ P[i] = <<n, P[i][2]>> /\ P[i][1] = n
                      /\ P[i][2] \in DOMAIN Members(heap[n])
    OBVIOUS
  <2>1. PICK k \in DOMAIN Members(heap[n]) : P[i] = <<n, k>>
    BY <1>1 DEF PlacesAt
  <2> QED BY <2>1, PlaceFacts
<1>3. \A k \in DOMAIN Members(heap[n]) : \E i \in DOMAIN P : P[i] = <<n, k>>
  BY DEF InOrder, Listing, PlacesAt
<1>4. ASSUME NEW i \in DOMAIN P, NEW j \in DOMAIN P, Onto(heap, P[i]) = Onto(heap, P[j])
      PROVE  i = j
  <2>1. Typed(heap) /\ KeysOnce(heap)
    BY DEF Built, Tree
  <2>2. P[i] = P[j]
    BY <1>2, <1>4, <2>1, OntoApart
  <2> QED BY <2>2 DEF InOrder, Listing
<1> QED BY <1>1, <1>2, <1>3, <1>4

(* What is printed of a node lists what is printed of its members.         *)
Placing(p, S) == {Under(Onto(heap, p), x) : x \in S}

LEMMA MembersList ==
  ASSUME Built, NEW n \in DOMAIN heap, NEW P, InOrder(n, P), NEW subs, NEW S,
         \A i \in DOMAIN P : Listing(subs[i], S[P[i]]) /\ \A x \in S[P[i]] : Shown(x)
  PROVE  Listing(FlattenSeq(Placed(Along(P), subs, Len(P))),
                 UNION {Placing(p, S[p]) : p \in PlacesAt(n)})
<1>1. PICK l \in Nat : l = Len(P) /\ DOMAIN P = 1 .. l
  BY OrderFacts
<1>2. PICK steps, R : steps = Along(P) /\ R = [i \in 1 .. l |-> S[P[i]]]
  OBVIOUS
<1>3. \A i, j \in 1 .. l : steps[i] = steps[j] => i = j
  BY <1>1, <1>2, OrderFacts DEF Along
<1>4. \A i \in 1 .. l : Listing(subs[i], R[i]) /\ \A x \in R[i] : Shown(x)
  BY <1>1, <1>2
<1>5. PICK U, V : /\ U = UNION {{Under(steps[i], x) : x \in R[i]} : i \in 1 .. l}
                  /\ V = UNION {Placing(p, S[p]) : p \in PlacesAt(n)}
  OBVIOUS
<1>6. Listing(FlattenSeq(Placed(steps, subs, l)), U)
  BY <1>3, <1>4, <1>5, AllBelowLists
<1>7. /\ \A i \in 1 .. l : P[i] \in PlacesAt(n)
      /\ \A p \in PlacesAt(n) : \E i \in 1 .. l : P[i] = p
  BY <1>1, LenProperties, ElementOfSeq DEF InOrder, Listing
<1>8. ASSUME NEW i \in 1 .. l
      PROVE  {Under(steps[i], x) : x \in R[i]} = Placing(P[i], S[P[i]])
  BY <1>1, <1>2 DEF Along, Placing
<1>9. ASSUME NEW y \in U PROVE y \in V
  <2>1. PICK i \in 1 .. l : y \in Placing(P[i], S[P[i]])
    BY <1>5, <1>8
  <2> QED BY <1>5, <1>7, <2>1
<1>10. ASSUME NEW y \in V PROVE y \in U
  <2>1. PICK p \in PlacesAt(n) : y \in Placing(p, S[p])
    BY <1>5
  <2>2. PICK i \in 1 .. l : P[i] = p
    BY <1>7
  <2>3. y \in {Under(steps[i], x) : x \in R[i]}
    BY <1>8, <2>1, <2>2
  <2> QED BY <1>5, <2>3
<1>11. U = V
  BY <1>9, <1>10
<1> QED BY <1>1, <1>2, <1>5, <1>6, <1>11

(* The sort of what is at a place in a table, and the step to it.          *)
LEMMA TablePlace ==
  ASSUME Built, NEW n \in DOMAIN heap, heap[n].sort = "t", NEW P, InOrder(n, P), NEW i \in DOMAIN P
  PROVE  /\ All(heap[n])[i] \in Range(heap[n].entries)
         /\ Held(heap, P[i]) = All(heap[n])[i]
         /\ SortHeld(heap, P[i]) = All(heap[n])[i].sort
         /\ Onto(heap, P[i]) = ByKey(All(heap[n])[i].key)
         /\ SortHeld(heap, P[i]) \in {"v", "a", "t"}
<1>1. DOMAIN P = DOMAIN All(heap[n]) /\ Held(heap, P[i]) = All(heap[n])[i]
  BY DEF InOrder
<1>2. P[i][1] = n
  BY OrderFacts
<1>3. All(heap[n])[i] \in Range(heap[n].entries)
  BY <1>1, KeysListed, LenProperties, ElementOfSeq DEF Listing
<1>4. All(heap[n])[i].sort \in {"v", "a", "t"}
  BY <1>3, TableFacts DEF Range
<1> QED BY <1>1, <1>2, <1>3, <1>4 DEF SortHeld, Onto

LEMMA ArrayPlace ==
  ASSUME Built, NEW n \in DOMAIN heap, heap[n].sort # "t", NEW P, InOrder(n, P)
  PROVE  /\ Members(heap[n]) = heap[n].elems /\ heap[n].kind \in {"none", "v", "a", "t"}
         /\ heap[n].kind = "none" => heap[n].elems = <<>>
         /\ DOMAIN P = DOMAIN heap[n].elems
         /\ \A i \in DOMAIN P : /\ Held(heap, P[i]) = heap[n].elems[i]
                                /\ SortHeld(heap, P[i]) = heap[n].kind
                                /\ Onto(heap, P[i]) = ByNumber(i)
<1>1. Members(heap[n]) = heap[n].elems
  BY DEF Members
<1>2. Typed(heap) /\ Sound(heap) /\ heap[n].sort = "a"
  BY HeapDomain DEF Built, Tree
<1>3. ArraySound(heap, heap[n])
  BY <1>2, SoundAt
<1>4. DOMAIN P = DOMAIN heap[n].elems /\ \A i \in DOMAIN P : P[i] = <<n, i>>
  BY <1>1 DEF InOrder
<1> QED BY <1>1, <1>3, <1>4 DEF ArraySound, Held, SortHeld, Onto

LEMMA JsonTableShape ==
  ASSUME Built, NEW n \in DOMAIN heap, heap[n].sort = "t", NEW P, InOrder(n, P), NEW f
  PROVE  JsonNode(f, n) = FlattenSeq(Placed(Along(P), JsonSubs(f, P), Len(P)))
<1>1. PICK all : all = All(heap[n])
  OBVIOUS
<1>2. DOMAIN P = DOMAIN all /\ DOMAIN P = 1 .. Len(P)
  BY <1>1, OrderFacts DEF InOrder
<1>3. PICK keys : keys = toml_key_in(n)
  OBVIOUS
<1>4. keys = [i \in 1 .. Len(P) |-> all[i].key]
  BY <1>1, <1>2, <1>3 DEF toml_key_in, All
<1>5. ASSUME NEW i \in 1 .. Len(P)
      PROVE  Below(ByKey(keys[i]), JsonEntry(f, n, keys[i])) = Below(Along(P)[i], JsonSubs(f, P)[i])
  <2>1. PICK e \in Range(heap[n].entries) :
          /\ e = all[i] /\ keys[i] = e.key /\ e.sort \in {"v", "a", "t"}
          /\ Held(heap, P[i]) = e /\ SortHeld(heap, P[i]) = e.sort
          /\ Onto(heap, P[i]) = ByKey(e.key)
    BY <1>1, <1>2, <1>4, TablePlace
  <2>2. PICK k : k = e.key
    OBVIOUS
  <2>3. /\ toml_raw_in(n, k) = IF e.sort = "v" THEN {e.word} ELSE {}
        /\ toml_array_in(n, k) = IF e.sort = "a" THEN {e.id} ELSE {}
        /\ toml_table_in(n, k) = IF e.sort = "t" THEN {e.id} ELSE {}
    BY <2>2, EntryFound
  <2>4. \A x : {x} # {} /\ (CHOOSE y \in {x} : TRUE) = x
    OBVIOUS
  <2>5. JsonEntry(f, n, k) = IF e.sort = "v" THEN <<Printed(e.word)>> ELSE f[e.id]
    <3>1. CASE e.sort = "v"
      BY <2>3, <2>4, <3>1 DEF JsonEntry
    <3>2. CASE e.sort = "a"
      BY <2>3, <2>4, <3>2 DEF JsonEntry
    <3>3. CASE e.sort = "t"
      BY <2>3, <2>4, <3>3 DEF JsonEntry
    <3> QED BY <2>1, <3>1, <3>2, <3>3
  <2>6. JsonSubs(f, P)[i] = JsonEntry(f, n, k)
    BY <1>2, <2>1, <2>5 DEF JsonSubs, JsonSub
  <2>7. Along(P)[i] = ByKey(k)
    BY <1>2, <2>1, <2>2 DEF Along
  <2> QED BY <2>1, <2>2, <2>6, <2>7
<1>6. [i \in DOMAIN keys |-> Below(ByKey(keys[i]), JsonEntry(f, n, keys[i]))]
        = Placed(Along(P), JsonSubs(f, P), Len(P))
  BY <1>4, <1>5 DEF Placed
<1> QED BY <1>3, <1>6 DEF JsonNode, JsonTable

LEMMA NodesAtKind ==
  ASSUME NEW n, NEW l \in Nat, DOMAIN heap[n].elems = 1 .. l,
         heap[n].kind \in {"none", "a", "t"}, heap[n].kind = "none" => heap[n].elems = <<>>
  PROVE  (IF toml_array_kind(n) = "t" THEN toml_table_at(n) ELSE toml_array_at(n))
           = [i \in 1 .. l |-> heap[n].elems[i].id]
<1>1. CASE heap[n].kind = "none"
  <2>1. DOMAIN <<>> = {}
    BY EmptySequence, SequenceFacts
  <2>2. 1 .. l = {}
    BY <1>1, <2>1
  <2>3. PICK nodes : nodes = toml_array_at(n)
    OBVIOUS
  <2>4. DOMAIN nodes = {} /\ nodes = [i \in DOMAIN nodes |-> nodes[i]]
    BY <1>1, <2>1, <2>3 DEF toml_array_at, toml_array_kind, ElementsAt
  <2>5. nodes = [i \in 1 .. l |-> heap[n].elems[i].id]
    BY <2>2, <2>4
  <2> QED BY <1>1, <2>3, <2>5 DEF toml_array_kind
<1>2. CASE heap[n].kind = "a"
  BY <1>2 DEF toml_array_at, toml_array_kind, ElementsAt
<1>3. CASE heap[n].kind = "t"
  BY <1>3 DEF toml_table_at, toml_array_kind, ElementsAt
<1> QED BY <1>1, <1>2, <1>3

LEMMA JsonArrayShape ==
  ASSUME Built, NEW n \in DOMAIN heap, heap[n].sort # "t", NEW P, InOrder(n, P), NEW f
  PROVE  JsonNode(f, n) = FlattenSeq(Placed(Along(P), JsonSubs(f, P), Len(P)))
<1>1. PICK elems, kind : elems = heap[n].elems /\ kind = heap[n].kind
  OBVIOUS
<1>2. /\ kind \in {"none", "v", "a", "t"}
      /\ kind = "none" => elems = <<>>
      /\ DOMAIN P = DOMAIN elems
      /\ \A i \in DOMAIN P : /\ Held(heap, P[i]) = elems[i] /\ SortHeld(heap, P[i]) = kind
                             /\ Onto(heap, P[i]) = ByNumber(i)
  BY <1>1, ArrayPlace
<1>3. PICK l \in Nat : l = Len(P) /\ DOMAIN P = 1 .. l
  BY OrderFacts
<1>4. PICK seqs : seqs = Placed(Along(P), JsonSubs(f, P), Len(P))
  OBVIOUS
<1>5. seqs = [i \in 1 .. l |-> Below(ByNumber(i), IF kind = "v" THEN <<Printed(elems[i].word)>>
                                                  ELSE f[elems[i].id])]
  BY <1>2, <1>3, <1>4 DEF Placed, Along, JsonSubs, JsonSub
<1>6. CASE kind = "v"
  <2>1. PICK raws : raws = toml_raw_at(n) /\ raws = [i \in 1 .. l |-> elems[i].word]
    BY <1>1, <1>2, <1>3, <1>6 DEF toml_raw_at, ElementsAt, toml_array_kind
  <2>2. seqs = [i \in DOMAIN raws |-> Below(ByNumber(i), <<Printed(raws[i])>>)]
    BY <1>5, <1>6, <2>1
  <2> QED BY <1>1, <1>4, <1>6, <2>1, <2>2 DEF JsonNode, JsonArray, toml_array_kind
<1>7. CASE kind # "v"
  <2>1. PICK nodes : nodes = NodesOf(n)
    OBVIOUS
  <2>2. nodes = [i \in 1 .. l |-> elems[i].id]
    <3>1. /\ DOMAIN heap[n].elems = 1 .. l /\ heap[n].kind \in {"none", "a", "t"}
          /\ heap[n].kind = "none" => heap[n].elems = <<>>
      BY <1>1, <1>2, <1>3, <1>7
    <3>2. NodesOf(n) = [i \in 1 .. l |-> heap[n].elems[i].id]
      BY <3>1, NodesAtKind DEF NodesOf
    <3> QED BY <1>1, <2>1, <3>2
  <2>3. seqs = [i \in DOMAIN nodes |-> Below(ByNumber(i), f[nodes[i]])]
    BY <1>5, <1>7, <2>2
  <2> QED BY <1>1, <1>4, <1>7, <2>1, <2>3 DEF JsonNode, JsonArray, toml_array_kind
<1> QED BY <1>6, <1>7

LEMMA JsonShape ==
  ASSUME Built, NEW n \in DOMAIN heap, NEW P, InOrder(n, P), NEW f
  PROVE  JsonNode(f, n) = FlattenSeq(Placed(Along(P), JsonSubs(f, P), Len(P)))
<1>1. CASE heap[n].sort = "t"
  BY <1>1, JsonTableShape
<1>2. CASE heap[n].sort # "t"
  BY <1>2, JsonArrayShape
<1> QED BY <1>1, <1>2

(* The walk comes to an end: below a node there are only newer ones.       *)
LEMMA JsonSame ==
  ASSUME Built, NEW n \in DOMAIN heap, NEW f, NEW g,
         \A m \in DOMAIN heap : n < m => f[m] = g[m]
  PROVE  JsonNode(f, n) = JsonNode(g, n)
<1>1. PICK P : InOrder(n, P)
  BY PlacesInOrder
<1>2. ASSUME NEW i \in DOMAIN P PROVE JsonSub(f, P[i]) = JsonSub(g, P[i])
  <2>1. PICK p \in PlacesIn(heap) : p = P[i] /\ p[1] = n
    BY <1>1, OrderFacts
  <2>2. CASE SortHeld(heap, p) = "v"
    BY <2>1, <2>2 DEF JsonSub
  <2>3. CASE SortHeld(heap, p) # "v"
    <3>1. PICK d \in DOMAIN heap : d = Held(heap, p).id /\ n < d
      BY <2>1, <2>3, NodeBelow DEF Built
    <3> QED BY <2>1, <2>3, <3>1 DEF JsonSub
  <2> QED BY <2>2, <2>3
<1>3. JsonSubs(f, P) = JsonSubs(g, P)
  BY <1>2 DEF JsonSubs
<1> QED BY <1>1, <1>3, JsonShape

JsonFrom(k) == \E f : f = [n \in k .. Len(heap) |-> JsonNode(f, n)]

LEMMA OneMoreJson ==
  ASSUME Built, NEW k \in DOMAIN heap, JsonFrom(k + 1)
  PROVE  JsonFrom(k)
<1>1. PICK f : f = [n \in k + 1 .. Len(heap) |-> JsonNode(f, n)]
  BY DEF JsonFrom
<1>2. PICK l \in Nat \ {0} : l = Len(heap) /\ DOMAIN heap = 1 .. l /\ k \in 1 .. l
  BY HeapDomain DEF Built, Tree
<1>3. PICK g : g = [n \in k .. l |-> JsonNode(f, n)]
  OBVIOUS
<1>4. \A n \in k + 1 .. l : g[n] = f[n]
  BY <1>1, <1>2, <1>3
<1>5. ASSUME NEW n \in k .. l PROVE JsonNode(f, n) = JsonNode(g, n)
  <2>1. n \in DOMAIN heap
    BY <1>2
  <2>2. \A m \in DOMAIN heap : n < m => f[m] = g[m]
    BY <1>2, <1>4
  <2> QED BY <2>1, <2>2, JsonSame
<1>6. g = [n \in k .. l |-> JsonNode(g, n)]
  BY <1>3, <1>5
<1> QED BY <1>2, <1>6 DEF JsonFrom

LEMMA JsonExists ==
  ASSUME Built
  PROVE  print_json = [n \in DOMAIN heap |-> JsonNode(print_json, n)]
<1>1. PICK l \in Nat \ {0} : l = Len(heap) /\ DOMAIN heap = 1 .. l
  BY HeapDomain DEF Built, Tree
<1>2. JsonFrom(l + 1)
  <2>1. PICK f : f = [i \in {} |-> <<>>]
    OBVIOUS
  <2>2. f = [n \in l + 1 .. l |-> JsonNode(f, n)]
    BY <2>1
  <2> QED BY <1>1, <2>2 DEF JsonFrom
<1>3. PICK G : G = {k \in 1 .. l : JsonFrom(k)}
  OBVIOUS
<1>4. ASSUME NEW k \in 1 .. l, \A m \in 1 .. l : k < m => m \in G PROVE k \in G
  <2>1. JsonFrom(k + 1)
    <3>1. CASE k = l
      BY <1>2, <3>1
    <3>2. CASE k # l
      <4>1. k + 1 \in 1 .. l /\ k < k + 1
        BY <3>2
      <4> QED BY <1>3, <1>4, <4>1
    <3> QED BY <3>1, <3>2
  <2> QED BY <1>1, <1>3, <2>1, OneMoreJson
<1>5. \A k \in 1 .. l : k \in G
  BY <1>4, NewestFirst
<1>6. \E f : f = [n \in DOMAIN heap |-> JsonNode(f, n)]
  BY <1>1, <1>3, <1>5 DEF JsonFrom
<1>7. print_json = CHOOSE f : f = [n \in DOMAIN heap |-> JsonNode(f, n)]
  BY DEF print_json, JsonNode
<1> QED BY <1>6, <1>7

(* What toml_json prints of a node, nothing of it twice.                   *)
JsonItem(x) == Shown(x) /\ DOMAIN x = {"path", "raw"}
JsonLists(n) ==
  /\ Listing(print_json[n], Range(print_json[n]))
  /\ \A x \in Range(print_json[n]) : JsonItem(x)
JsonRange(p) == Range(JsonSub(print_json, p))

LEMMA PrintedItem ==
  ASSUME NEW w
  PROVE  JsonItem(Printed(w)) /\ Printed(w).path = <<>> /\ Printed(w).raw = {w}
BY EmptySequence DEF JsonItem, Shown, Printed

LEMMA JsonSubLists ==
  ASSUME Built, NEW p \in PlacesIn(heap),
         SortHeld(heap, p) # "v" => JsonLists(Held(heap, p).id)
  PROVE  /\ Listing(JsonSub(print_json, p), JsonRange(p))
         /\ \A x \in JsonRange(p) : JsonItem(x)
<1>1. CASE SortHeld(heap, p) = "v"
  <2>1. PICK x : x = Printed(Held(heap, p).word) /\ JsonItem(x)
    BY PrintedItem
  <2>2. PICK s : s = <<x>>
    OBVIOUS
  <2>3. Listing(s, {x}) /\ Range(s) = {x}
    BY <2>2, ListsOne, ListedRange
  <2>4. JsonSub(print_json, p) = s
    BY <1>1, <2>1, <2>2 DEF JsonSub
  <2> QED BY <2>1, <2>3, <2>4 DEF JsonRange
<1>2. CASE SortHeld(heap, p) # "v"
  BY <1>2 DEF JsonLists, JsonRange, JsonSub
<1> QED BY <1>1, <1>2

LEMMA JsonNodeLists ==
  ASSUME Built, NEW n \in DOMAIN heap,
         \A m \in DOMAIN heap : n < m => JsonLists(m)
  PROVE  /\ JsonLists(n)
         /\ Range(print_json[n]) = UNION {Placing(p, JsonRange(p)) : p \in PlacesAt(n)}
<1>1. PICK P : InOrder(n, P)
  BY PlacesInOrder
<1>2. PICK subs, S : /\ subs = JsonSubs(print_json, P)
                     /\ S = [p \in PlacesAt(n) |-> JsonRange(p)]
  OBVIOUS
<1>3. ASSUME NEW p \in PlacesAt(n)
      PROVE  /\ Listing(JsonSub(print_json, p), S[p])
             /\ \A x \in S[p] : JsonItem(x)
  <2>1. p \in PlacesIn(heap) /\ p[1] = n
    BY PlaceFacts DEF PlacesAt
  <2>2. SortHeld(heap, p) # "v" => JsonLists(Held(heap, p).id)
    BY <2>1, NodeBelow DEF Built
  <2> QED BY <1>2, <2>1, <2>2, JsonSubLists
<1>4. \A i \in DOMAIN P : P[i] \in PlacesAt(n) /\ subs[i] = JsonSub(print_json, P[i])
  BY <1>1, <1>2, LenProperties, ElementOfSeq DEF JsonSubs, InOrder, Listing
<1>5. PICK U : U = UNION {Placing(p, S[p]) : p \in PlacesAt(n)}
  OBVIOUS
<1>6. Listing(FlattenSeq(Placed(Along(P), subs, Len(P))), U)
  <2>1. \A i \in DOMAIN P : Listing(subs[i], S[P[i]]) /\ \A x \in S[P[i]] : Shown(x)
    BY <1>3, <1>4 DEF JsonItem
  <2> QED BY <1>1, <1>5, <2>1, MembersList
<1>7. print_json[n] = FlattenSeq(Placed(Along(P), subs, Len(P)))
  <2>1. print_json[n] = JsonNode(print_json, n)
    BY JsonExists
  <2> QED BY <1>1, <1>2, <2>1, JsonShape
<1>8. Range(print_json[n]) = U
  BY <1>6, <1>7, ListedRange
<1>9. \A x \in U : JsonItem(x)
  <2> SUFFICES ASSUME NEW p \in PlacesAt(n), NEW x \in S[p]
               PROVE  JsonItem(Under(Onto(heap, p), x))
    BY <1>5 DEF Placing
  <2>1. JsonItem(x)
    BY <1>3
  <2> QED BY <2>1, UnderShown DEF JsonItem
<1>10. U = UNION {Placing(p, JsonRange(p)) : p \in PlacesAt(n)}
  BY <1>2, <1>5
<1> QED BY <1>6, <1>7, <1>8, <1>9, <1>10 DEF JsonLists

LEMMA AllJsonLists ==
  ASSUME Built
  PROVE  \A n \in DOMAIN heap : JsonLists(n)
<1>1. PICK l \in Nat : DOMAIN heap = 1 .. l
  BY HeapDomain DEF Built, Tree
<1>2. PICK G : G = {n \in DOMAIN heap : JsonLists(n)}
  OBVIOUS
<1>3. \A n \in 1 .. l : (\A m \in 1 .. l : n < m => m \in G) => n \in G
  BY <1>1, <1>2, JsonNodeLists
<1>4. \A n \in 1 .. l : n \in G
  BY <1>3, NewestFirst
<1> QED BY <1>1, <1>2, <1>4

(* What is printed of the tree: each value, with the way to it.            *)
JsonOf(p) == [path |-> PathTo(heap, p), raw |-> {Held(heap, p).word}]

LEMMA BeyondPairs ==
  ASSUME NEW step, NEW R, NEW S, S = {<<x.path, x.raw>> : x \in R}
  PROVE  Beyond(step, S) = {<< <<step>> \o x.path, x.raw >> : x \in R}
<1>1. ASSUME NEW x \in R
      PROVE  << <<step>> \o x.path, x.raw >> \in Beyond(step, S)
  <2>1. PICK y \in S : y = <<x.path, x.raw>>
    OBVIOUS
  <2>2. y[1] = x.path /\ y[2] = x.raw
    BY <2>1
  <2> QED BY <2>2 DEF Beyond
<1>2. ASSUME NEW z \in Beyond(step, S)
      PROVE  \E x \in R : z = << <<step>> \o x.path, x.raw >>
  <2>1. PICK y \in S : z = << <<step>> \o y[1], y[2] >>
    BY DEF Beyond
  <2>2. PICK x \in R : y = <<x.path, x.raw>>
    OBVIOUS
  <2>3. y[1] = x.path /\ y[2] = x.raw
    BY <2>2
  <2> QED BY <2>1, <2>3
<1> QED BY <1>1, <1>2

LEMMA JsonCollects ==
  ASSUME Built, NEW v, v = [n \in DOMAIN heap |-> {<<x.path, x.raw>> : x \in Range(print_json[n])}],
         NEW it, it = [p \in ValuePlaces(heap) |-> {Held(heap, p).word}]
  PROVE  Collects(heap, it, v)
<1> SUFFICES ASSUME NEW n \in DOMAIN heap
             PROVE  v[n] = UNION {FromPlace(heap, it, v, <<n, k>>) : k \in DOMAIN Members(heap[n])}
  BY DEF Collects
<1>1. ASSUME NEW p \in PlacesAt(n)
      PROVE  FromPlace(heap, it, v, p) = {<<y.path, y.raw>> : y \in Placing(p, JsonRange(p))}
  <2>1. p \in PlacesIn(heap)
    BY PlaceFacts DEF PlacesAt
  <2>2. PICK step, R : step = Onto(heap, p) /\ R = JsonRange(p)
    OBVIOUS
  <2>3. \A x \in R : JsonItem(x)
    <3>1. SortHeld(heap, p) # "v" => JsonLists(Held(heap, p).id)
      BY <2>1, AllJsonLists, NodeBelow DEF Built
    <3> QED BY <2>1, <2>2, <3>1, JsonSubLists
  <2>4. \A x \in R : Under(step, x).path = <<step>> \o x.path /\ Under(step, x).raw = x.raw
    BY <2>3, UnderShown DEF JsonItem
  <2>5. (IF p \in DOMAIN it THEN {<< <<>>, it[p] >>} ELSE {})
          \union (IF SortHeld(heap, p) # "v" THEN v[Held(heap, p).id] ELSE {})
          = {<<x.path, x.raw>> : x \in R}
    <3>0. p \in DOMAIN it <=> SortHeld(heap, p) = "v"
      BY <2>1 DEF ValuePlaces
    <3>1. CASE SortHeld(heap, p) = "v"
      <4>1. PICK x : x = Printed(Held(heap, p).word) /\ x.path = <<>> /\ x.raw = it[p]
        BY <3>0, <3>1, PrintedItem
      <4>2. PICK s : s = <<x>>
        OBVIOUS
      <4>3. Range(s) = {x}
        BY <4>2, ListsOne, ListedRange
      <4>4. R = {x}
        BY <2>2, <3>1, <4>1, <4>2, <4>3 DEF JsonRange, JsonSub
      <4> QED BY <3>0, <3>1, <4>1, <4>4
    <3>2. CASE SortHeld(heap, p) # "v"
      <4>1. Held(heap, p).id \in DOMAIN heap
        BY <2>1, <3>2, NodeBelow DEF Built
      <4> QED BY <2>2, <3>0, <3>2, <4>1 DEF JsonRange, JsonSub
    <3> QED BY <3>1, <3>2
  <2>6. FromPlace(heap, it, v, p) = {<< <<step>> \o x.path, x.raw >> : x \in R}
    <3>1. FromPlace(heap, it, v, p) = Beyond(step, {<<x.path, x.raw>> : x \in R})
      BY <2>2, <2>5 DEF FromPlace
    <3> QED BY <3>1, BeyondPairs
  <2>7. {<<y.path, y.raw>> : y \in Placing(p, R)} = {<< <<step>> \o x.path, x.raw >> : x \in R}
    <3>1. Placing(p, R) = {Under(step, x) : x \in R}
      BY <2>2 DEF Placing
    <3>2. {<<y.path, y.raw>> : y \in {Under(step, x) : x \in R}}
            = {<< <<step>> \o x.path, x.raw >> : x \in R}
      <4> DEFINE F(y) == <<y.path, y.raw>>
                 G(x) == << <<step>> \o x.path, x.raw >>
      <4>1. \A x \in R : F(Under(step, x)) = G(x)
        BY <2>4
      <4> HIDE DEF F, G
      <4>2. {F(y) : y \in {Under(step, x) : x \in R}} = {G(x) : x \in R}
        BY <4>1
      <4> QED BY <4>2 DEF F, G
    <3> QED BY <3>1, <3>2
  <2> QED BY <2>2, <2>6, <2>7
<1> DEFINE F(p) == FromPlace(heap, it, v, p)
           G(p) == Placing(p, JsonRange(p))
<1>2. PICK R : R = Range(print_json[n])
  OBVIOUS
<1>3. /\ R = UNION {G(p) : p \in PlacesAt(n)}
      /\ \A p \in PlacesAt(n) : F(p) = {<<y.path, y.raw>> : y \in G(p)}
  BY <1>1, <1>2, AllJsonLists, JsonNodeLists
<1>4. v[n] = {<<y.path, y.raw>> : y \in R}
  BY <1>2
<1> HIDE DEF F, G
<1>5. {<<y.path, y.raw>> : y \in R} = UNION {F(p) : p \in PlacesAt(n)}
  BY <1>3
<1>6. UNION {F(p) : p \in PlacesAt(n)} = UNION {F(<<n, k>>) : k \in DOMAIN Members(heap[n])}
  BY DEF PlacesAt
<1> QED BY <1>4, <1>5, <1>6 DEF F

LEMMA JsonPrinted ==
  ASSUME Built
  PROVE  Listing(print_json[ROOT], {JsonOf(p) : p \in ValuePlaces(heap)})
<1>1. PICK R : R = Range(print_json[ROOT])
  OBVIOUS
<1>2. Listing(print_json[ROOT], R) /\ \A x \in R : JsonItem(x)
  <2>1. ROOT \in DOMAIN heap
    BY DEF Built, Tree, Typed
  <2> QED BY <1>1, <2>1, AllJsonLists DEF JsonLists
<1>3. PICK v, it : /\ v = [n \in DOMAIN heap |-> {<<x.path, x.raw>> : x \in Range(print_json[n])}]
                   /\ it = [p \in ValuePlaces(heap) |-> {Held(heap, p).word}]
  OBVIOUS
<1>4. v[ROOT] = {<<PathTo(heap, p), it[p]>> : p \in DOMAIN it}
  <2>1. Tree(heap, 0) /\ DOMAIN it \subseteq PlacesIn(heap)
    BY <1>3 DEF Built, ValuePlaces
  <2>2. Collects(heap, it, v)
    BY <1>3, JsonCollects
  <2> QED BY <2>1, <2>2, TreeCollected
<1>5. {<<x.path, x.raw>> : x \in R}
        = {<<PathTo(heap, p), {Held(heap, p).word}>> : p \in ValuePlaces(heap)}
  <2>1. ROOT \in DOMAIN heap
    BY DEF Built, Tree, Typed
  <2> QED BY <1>1, <1>3, <1>4, <2>1
<1>6. ASSUME NEW x \in R PROVE x = [path |-> x.path, raw |-> x.raw]
  BY <1>2 DEF JsonItem, Shown
<1>7. R = {JsonOf(p) : p \in ValuePlaces(heap)}
  <2>1. ASSUME NEW x \in R PROVE \E p \in ValuePlaces(heap) : x = JsonOf(p)
    <3>1. PICK p \in ValuePlaces(heap) :
            <<x.path, x.raw>> = <<PathTo(heap, p), {Held(heap, p).word}>>
      BY <1>5
    <3>2. x.path = PathTo(heap, p) /\ x.raw = {Held(heap, p).word}
      BY <3>1
    <3> QED BY <1>6, <3>2 DEF JsonOf
  <2>2. ASSUME NEW p \in ValuePlaces(heap) PROVE JsonOf(p) \in R
    <3>1. PICK x \in R : <<x.path, x.raw>> = <<PathTo(heap, p), {Held(heap, p).word}>>
      BY <1>5
    <3>2. x.path = PathTo(heap, p) /\ x.raw = {Held(heap, p).word}
      BY <3>1
    <3>3. x = JsonOf(p)
      BY <1>6, <3>2 DEF JsonOf
    <3> QED BY <3>3
  <2> QED BY <2>1, <2>2
<1> QED BY <1>2, <1>7

(* Up to the first value of no type.                                       *)
LEMMA MinBelow ==
  ASSUME NEW S \in SUBSET Nat, S # {}
  PROVE  Min(S) \in S /\ \A x \in S : Min(S) <= x
BY Least DEF Min

LEMMA BeginningLists ==
  ASSUME NEW s, NEW S, Listing(s, S), NEW k \in 0 .. Len(s)
  PROVE  Listing(SubSeq(s, 1, k), {s[i] : i \in 1 .. k})
<1>1. Len(s) \in Nat /\ DOMAIN s = 1 .. Len(s)
  BY LenProperties DEF Listing
<1>2. PICK T : T = {s[i] : i \in 1 .. k}
  OBVIOUS
<1>3. \A i \in 1 .. k : s[i] \in T
  BY <1>2
<1>4. PICK l : l = SubSeq(s, 1, k)
  OBVIOUS
<1>5. l \in Seq(T) /\ Len(l) = k /\ \A i \in 1 .. k : l[i] = s[i]
  <2>1. /\ l \in Seq(T) /\ Len(l) = IF 1 <= k THEN k - 1 + 1 ELSE 0
        /\ \A i \in 1 .. k - 1 + 1 : l[i] = s[1 + i - 1]
    BY <1>1, <1>3, <1>4, SubSeqProperties
  <2> QED BY <1>1, <2>1
<1>6. DOMAIN l = 1 .. k
  BY <1>5, LenProperties
<1>7. \A i, j \in 1 .. k : s[i] = s[j] => i = j
  BY <1>1 DEF Listing
<1>8. \A i, j \in DOMAIN l : l[i] = l[j] => i = j
  BY <1>5, <1>6, <1>7
<1>9. \A x \in T : \E i \in DOMAIN l : l[i] = x
  BY <1>2, <1>5, <1>6
<1>10. Listing(l, T)
  BY <1>5, <1>8, <1>9 DEF Listing
<1> QED BY <1>2, <1>4, <1>10

LEMMA UntilExitLists ==
  ASSUME NEW s, NEW S, Listing(s, S)
  PROVE  \E T \in SUBSET S :
           /\ Listing(UntilExit(s), T) /\ \A x \in T : x.type # "exit"
           /\ (\A x \in S : x.type # "exit") => T = S
<1>1. Len(s) \in Nat /\ DOMAIN s = 1 .. Len(s) /\ \A i \in DOMAIN s : s[i] \in S
  BY LenProperties, ElementOfSeq DEF Listing
<1>2. PICK M : M = {i \in DOMAIN s : s[i].type = "exit"} \union {Len(s) + 1}
  OBVIOUS
<1>3. PICK m \in M : m = Min(M) /\ \A i \in M : m <= i
  <2>1. M \in SUBSET Nat /\ M # {}
    BY <1>1, <1>2
  <2> QED BY <2>1, MinBelow
<1>4. PICK k \in 0 .. Len(s) : k = m - 1
  BY <1>1, <1>2
<1>5. UntilExit(s) = SubSeq(s, 1, k)
  BY <1>2, <1>3, <1>4 DEF UntilExit, FirstOf
<1>6. PICK T : T = {s[i] : i \in 1 .. k}
  OBVIOUS
<1>7. Listing(UntilExit(s), T)
  BY <1>5, <1>6, BeginningLists
<1>8. ASSUME NEW i \in 1 .. k PROVE i \in DOMAIN s /\ s[i].type # "exit"
  <2>1. M \in SUBSET Nat /\ i \in Nat /\ i < m /\ i \in DOMAIN s
    BY <1>1, <1>2, <1>3, <1>4
  <2>2. i \notin M
    BY <1>3, <2>1
  <2> QED BY <1>2, <2>1, <2>2
<1>9. ASSUME \A x \in S : x.type # "exit" PROVE T = S
  <2>1. k = Len(s)
    BY <1>1, <1>2, <1>3, <1>4, <1>9
  <2> QED BY <1>1, <1>6, <2>1 DEF Listing
<1>10. T \in SUBSET S
  BY <1>1, <1>6, <1>8
<1>11. \A x \in T : x.type # "exit"
  BY <1>6, <1>8
<1> QED BY <1>7, <1>9, <1>10, <1>11

LEMMA ListedFinite ==
  ASSUME NEW s, NEW S, Listing(s, S)
  PROVE  IsFiniteSet(S)
<1>1. Len(s) \in Nat /\ DOMAIN s = 1 .. Len(s) /\ s \in [1 .. Len(s) -> S]
  BY LenProperties DEF Listing
<1>2. s \in Bijection(1 .. Len(s), S)
  BY <1>1 DEF Listing, Bijection, Injection, Surjection, IsInjective
<1> QED BY <1>1, <1>2, FS_Interval, FS_Bijection DEF ExistsBijection

(* The words in memory are texts.                                          *)
WordsIn(h) ==
  \A n \in DOMAIN h : \A k \in DOMAIN Members(h[n]) : Sequence(Members(h[n])[k].word)
TypedOf(p) == [path |-> PathTo(heap, p), type |-> print_raw(Held(heap, p).word)]

LEMMA TypesPrinted ==
  ASSUME Built
  PROVE  Listing(WithTypes(print_json[ROOT]), {TypedOf(p) : p \in ValuePlaces(heap)})
<1>1. PICK s, S, t : /\ s = print_json[ROOT] /\ S = {JsonOf(p) : p \in ValuePlaces(heap)}
                     /\ t = WithTypes(s)
  OBVIOUS
<1>2. Listing(s, S) /\ \A i \in DOMAIN s : s[i] \in S
  BY <1>1, JsonPrinted, LenProperties, ElementOfSeq DEF Listing
<1>3. PICK g : g = [x \in S |-> [path |-> x.path,
                                 type |-> IF x.raw = {} THEN "abort"
                                          ELSE print_raw(CHOOSE r \in x.raw : TRUE)]]
  OBVIOUS
<1>4. ASSUME NEW p \in ValuePlaces(heap)
      PROVE  JsonOf(p) \in S /\ g[JsonOf(p)] = TypedOf(p)
  <2>1. PICK x \in S : x = JsonOf(p)
    BY <1>1
  <2>2. x.path = PathTo(heap, p) /\ x.raw = {Held(heap, p).word}
    BY <2>1 DEF JsonOf
  <2>3. (CHOOSE r \in x.raw : TRUE) = Held(heap, p).word /\ x.raw # {}
    BY <2>2
  <2> QED BY <1>3, <2>1, <2>2, <2>3 DEF TypedOf
<1>5. DOMAIN t = DOMAIN s /\ t = [i \in DOMAIN t |-> t[i]] /\ \A i \in DOMAIN s : t[i] = g[s[i]]
  BY <1>1, <1>2, <1>3 DEF WithTypes
<1>6. ASSUME NEW x \in S, NEW y \in S, g[x] = g[y] PROVE x = y
  <2>1. PICK p \in ValuePlaces(heap), q \in ValuePlaces(heap) : x = JsonOf(p) /\ y = JsonOf(q)
    BY <1>1
  <2>2. TypedOf(p) = TypedOf(q)
    BY <1>4, <1>6, <2>1
  <2>3. PathTo(heap, p) = PathTo(heap, q)
    BY <2>2 DEF TypedOf
  <2> QED BY <2>1, <2>3, PathsApart DEF Built, ValuePlaces
<1>7. Listing(t, {g[x] : x \in S})
  BY <1>2, <1>5, <1>6, MappedList
<1>8. {g[x] : x \in S} = {TypedOf(p) : p \in ValuePlaces(heap)}
  BY <1>1, <1>4
<1> QED BY <1>1, <1>7, <1>8

LEMMA ValuesAre ==
  Values = {ItemAt(heap, Ways(heap), p) : p \in ValuePlaces(heap)}
<1>1. \A p \in PlacesIn(heap) : ItemAt(heap, Ways(heap), p).sort = SortHeld(heap, p)
  BY DEF ItemAt, Item
<1> QED BY <1>1 DEF Values, Contents, ValuePlaces

LEMMA JsonAll ==
  ASSUME Built, WordsIn(heap)
  PROVE  JsonPrintsAll
<1> DEFINE typed == {x \in Values : print_raw(x.word) # "exit"}
           wanted == {[path |-> x.path, type |-> TypeWord(x.word)] : x \in typed}
<1>1. PICK P : P = ValuePlaces(heap)
  OBVIOUS
<1>2. ASSUME NEW p \in P
      PROVE  \E x \in Values : /\ x.path = PathTo(heap, p) /\ x.word = Held(heap, p).word
                               /\ Sequence(x.word)
  <2>1. PICK x \in Values : x = ItemAt(heap, Ways(heap), p)
    BY <1>1, ValuesAre
  <2>2. x.path = PathTo(heap, p) /\ x.word = Held(heap, p).word
    BY <2>1 DEF ItemAt, Item, PathTo
  <2>3. Sequence(Held(heap, p).word)
    BY <1>1, PlaceFacts DEF WordsIn, Held, ValuePlaces
  <2> QED BY <2>2, <2>3
<1>3. ASSUME NEW x \in Values
      PROVE  \E p \in P : /\ x.path = PathTo(heap, p) /\ x.word = Held(heap, p).word
                          /\ Sequence(x.word)
  <2>1. PICK p \in P : x = ItemAt(heap, Ways(heap), p)
    BY <1>1, ValuesAre
  <2>2. x.path = PathTo(heap, p) /\ x.word = Held(heap, p).word
    BY <2>1 DEF ItemAt, Item, PathTo
  <2>3. Sequence(Held(heap, p).word)
    BY <1>1, PlaceFacts DEF WordsIn, Held, ValuePlaces
  <2> QED BY <2>2, <2>3
<1>4. \A x \in Values : Agree(x.word)
  BY <1>3, TypesAgree
<1>5. PICK S : S = {TypedOf(p) : p \in P}
  OBVIOUS
<1>6. PICK T \in SUBSET S :
        /\ Listing(toml_json, T) /\ \A y \in T : y.type # "exit"
        /\ (\A y \in S : y.type # "exit") => T = S
  BY <1>1, <1>5, TypesPrinted, UntilExitLists DEF toml_json
<1>7. Range(toml_json) = T
  BY <1>6, ListedRange
<1>8. ASSUME NEW y \in S, y.type # "exit" PROVE y \in wanted
  <2>1. PICK p \in P : y = TypedOf(p)
    BY <1>5
  <2>2. PICK x \in Values : x.path = PathTo(heap, p) /\ x.word = Held(heap, p).word
    BY <1>2
  <2>3. y = [path |-> x.path, type |-> print_raw(x.word)] /\ print_raw(x.word) # "exit"
    BY <1>8, <2>1, <2>2 DEF TypedOf
  <2>4. print_raw(x.word) = TypeWord(x.word)
    BY <1>4, <2>3 DEF Agree
  <2>5. x \in typed
    BY <2>3
  <2> QED BY <2>3, <2>4, <2>5
<1>9. ASSUME typed = Values PROVE T = wanted
  <2>1. ASSUME NEW p \in P
        PROVE  /\ TypedOf(p).type # "exit"
               /\ \E x \in typed : x.path = PathTo(heap, p) /\ x.word = Held(heap, p).word
    <3>1. PICK x \in Values : x.path = PathTo(heap, p) /\ x.word = Held(heap, p).word
      BY <1>2
    <3> QED BY <1>9, <3>1 DEF TypedOf
  <2>2. \A y \in S : y.type # "exit"
    BY <1>5, <2>1
  <2>3. T = S
    BY <1>6, <2>2
  <2>4. ASSUME NEW x \in typed PROVE [path |-> x.path, type |-> TypeWord(x.word)] \in S
    <3>1. PICK p \in P : x.path = PathTo(heap, p) /\ x.word = Held(heap, p).word
      BY <1>3
    <3>2. print_raw(x.word) = TypeWord(x.word)
      BY <1>4 DEF Agree
    <3>3. TypedOf(p) = [path |-> x.path, type |-> TypeWord(x.word)]
      BY <3>1, <3>2 DEF TypedOf
    <3> QED BY <1>5, <3>3
  <2> QED BY <1>8, <2>2, <2>3, <2>4
<1>10. \A x \in Values \ typed : valtype(x.word) \in {"s", "u"}
  BY <1>4 DEF Agree
<1>11. Len(toml_json) = Cardinality(T)
  BY <1>6, ListedFinite, ListedCount
<1>12. T \subseteq wanted
  BY <1>6, <1>8
<1> QED BY <1>7, <1>9, <1>10, <1>11, <1>12 DEF JsonPrintsAll

(* Where words come from: the tokens that are read.                        *)
WordsRead == \A read, dot : Sequence(read) => \A t \in Follows(read, dot) : Sequence(t.word)
WordsOf(node) == \A k \in DOMAIN Members(node) : Sequence(Members(node)[k].word)
WordsKnown ==
  /\ Sequence(text) /\ (tok \notin Wishes => Sequence(tok.word))
  /\ Building => WordsIn(heap)

LEMMA WordAdded ==
  ASSUME NEW s, Sequence(s), \A k \in DOMAIN s : Sequence(s[k].word),
         NEW e, Sequence(e.word), NEW t, t = Append(s, e)
  PROVE  \A k \in DOMAIN t : Sequence(t[k].word)
BY NodeBehind

LEMMA WordsReplaced ==
  ASSUME NEW h, WordsIn(h), NEW n \in DOMAIN h, NEW node, WordsOf(node),
         NEW g, g = [h EXCEPT ![n] = node]
  PROVE  WordsIn(g)
BY DEF WordsIn, WordsOf

LEMMA WordsBehind ==
  ASSUME NEW h, Sequence(h), WordsIn(h), NEW node, WordsOf(node), NEW g, g = Append(h, node)
  PROVE  WordsIn(g)
BY NodeBehind DEF WordsIn, WordsOf

LEMMA NoWords ==
  ASSUME NEW node, NewNode(node)
  PROVE  WordsOf(node)
<1>1. Members(node) = <<>>
  BY NewNodeTyped
<1>2. DOMAIN <<>> = {}
  BY EmptySequence, SequenceFacts
<1> QED BY <1>1, <1>2 DEF WordsOf

LEMMA EntryWords ==
  ASSUME NEW h, Typed(h), WordsIn(h), NEW tab \in DOMAIN h, h[tab].sort = "t",
         NEW e, Sequence(e.word), NEW g, g = [h EXCEPT ![tab].entries = Append(@, e)]
  PROVE  WordsIn(g) /\ Sequence(g)
<1>1. PICK node : node = [h[tab] EXCEPT !.entries = Append(@, e)]
  OBVIOUS
<1>2. IsTable(h[tab])
  BY DEF Typed, IsArr
<1>3. node.sort = "t" /\ node.entries = Append(h[tab].entries, e)
  BY <1>1, <1>2 DEF IsTable
<1>4. Sequence(h[tab].entries) /\ \A k \in DOMAIN h[tab].entries : Sequence(h[tab].entries[k].word)
  BY <1>2 DEF IsTable, WordsIn, Members
<1>5. \A k \in DOMAIN node.entries : Sequence(node.entries[k].word)
  BY <1>3, <1>4, WordAdded
<1>6. WordsOf(node)
  BY <1>3, <1>5 DEF WordsOf, Members
<1>7. g = [h EXCEPT ![tab] = node]
  BY <1>1
<1>8. Sequence(g)
  <2>1. Replaced(g, h, tab, node)
    BY <1>7 DEF Replaced
  <2> QED BY <2>1, UpdateSequence DEF Typed
<1> QED BY <1>6, <1>7, <1>8, WordsReplaced

LEMMA ElemWords ==
  ASSUME NEW h, Typed(h), WordsIn(h), NEW arr \in DOMAIN h, h[arr].sort = "a",
         NEW e, Sequence(e.word), NEW node, node.sort = "a", node.elems = Append(h[arr].elems, e),
         NEW g, g = [h EXCEPT ![arr] = node]
  PROVE  WordsIn(g) /\ Sequence(g)
<1>1. IsArr(h[arr])
  BY DEF Typed, IsTable
<1>2. Sequence(h[arr].elems) /\ \A k \in DOMAIN h[arr].elems : Sequence(h[arr].elems[k].word)
  BY <1>1 DEF IsArr, WordsIn, Members
<1>3. \A k \in DOMAIN node.elems : Sequence(node.elems[k].word)
  BY <1>2, WordAdded
<1>4. WordsOf(node)
  BY <1>3 DEF WordsOf, Members
<1>5. Sequence(g)
  BY UpdateSequence DEF Replaced, Typed
<1> QED BY <1>4, <1>5, WordsReplaced

LEMMA WithNodeWords ==
  ASSUME NEW h, Typed(h), WordsIn(h), NEW tab \in DOMAIN h, h[tab].sort = "t", NEW k,
         NEW node, NewNode(node), NEW g, g = WithNode(h, tab, k, node)
  PROVE  WordsIn(g)
<1>1. PICK e, m : /\ e = Entry(k, node.sort, <<>>, Len(h) + 1)
                  /\ m = [h EXCEPT ![tab].entries = Append(@, e)]
  OBVIOUS
<1>2. Sequence(e.word)
  BY <1>1, EmptySequence DEF Entry
<1>3. WordsIn(m) /\ Sequence(m)
  BY <1>1, <1>2, EntryWords
<1>4. g = Append(m, node)
  BY <1>1 DEF WithNode
<1> QED BY <1>3, <1>4, NoWords, WordsBehind

LEMMA WithElemWords ==
  ASSUME NEW h, Typed(h), WordsIn(h), NEW arr \in DOMAIN h, h[arr].sort = "a",
         NEW node, NewNode(node), NEW g, g = WithElem(h, arr, node)
  PROVE  WordsIn(g)
<1>1. PICK e, filled : /\ e = Elem(<<>>, Len(h) + 1)
                       /\ filled = [h[arr] EXCEPT !.elems = Append(@, e), !.kind = node.sort]
  OBVIOUS
<1>2. Sequence(e.word)
  BY <1>1, EmptySequence DEF Elem
<1>3. IsArr(h[arr])
  BY DEF Typed, IsTable
<1>4. filled.sort = "a" /\ filled.elems = Append(h[arr].elems, e)
  BY <1>1, <1>3 DEF IsArr
<1>5. PICK m : m = [h EXCEPT ![arr] = filled]
  OBVIOUS
<1>6. g = Append(m, node)
  BY <1>1, <1>5 DEF WithElem
<1>7. WordsIn(m) /\ Sequence(m)
  BY <1>2, <1>4, <1>5, ElemWords
<1> QED BY <1>6, <1>7, NoWords, WordsBehind

LEMMA ExplicitWords ==
  ASSUME NEW h, Typed(h), WordsIn(h), NEW n \in DOMAIN h, h[n].sort = "t",
         NEW g, g = [h EXCEPT ![n].implicit = FALSE]
  PROVE  WordsIn(g)
<1>1. PICK node : node = [h[n] EXCEPT !.implicit = FALSE]
  OBVIOUS
<1>2. IsTable(h[n])
  BY DEF Typed, IsArr
<1>3. Members(node) = Members(h[n])
  BY <1>1, <1>2 DEF IsTable, Members
<1>4. WordsOf(node)
  BY <1>3 DEF WordsIn, WordsOf
<1> QED BY <1>1, <1>4, WordsReplaced

LEMMA ValueWords ==
  ASSUME IInv, WordsKnown, Value \/ ArrayValue \/ TableValue
  PROVE  WordsIn(heap')
<1>1. pc = "value"
  BY DEF Value, ArrayValue, TableValue, At
<1>2. Typed(heap) /\ Sound(heap) /\ WordsIn(heap)
  BY <1>1, WhileBuilding DEF Building, WordsKnown
<1>3. Target \in DOMAIN heap /\ heap[Target].sort = "t"
  BY <1>1, TargetTable
<1>4. ASSUME NEW k, NEW node, NewNode(node), heap' = WithNode(heap, Target, k, node)
      PROVE  WordsIn(heap')
  BY <1>2, <1>3, <1>4, WithNodeWords
<1>5. CASE Value
  <2>1. PICK k : heap' = WithValue(heap, Target, k, tok.word)
    BY <1>5 DEF Value
  <2>2. PICK e : e = Entry(k, "v", tok.word, 0)
    OBVIOUS
  <2>3. heap' = [heap EXCEPT ![Target].entries = Append(@, e)] /\ e.word = tok.word
    BY <2>1, <2>2 DEF WithValue, Entry
  <2>4. Sequence(tok.word)
    BY <1>5, Words DEF WordsKnown, Value, At
  <2> QED BY <1>2, <1>3, <2>3, <2>4, EntryWords
<1>6. CASE ArrayValue
  <2>1. NewNode(NewArray("none"))
    BY DEF NewNode
  <2> QED BY <1>4, <1>6, <2>1 DEF ArrayValue
<1>7. CASE TableValue
  <2>1. NewNode(NewTable(FALSE))
    BY DEF NewNode
  <2>2. PICK k, e : /\ e = check_key(Target, k)
                    /\ \/ heap' = WithNode(heap, Target, k, NewTable(FALSE))
                       \/ Implicit(e) /\ heap' = [heap EXCEPT ![e.id].implicit = FALSE]
    BY <1>7 DEF TableValue
  <2>3. CASE Implicit(e) /\ heap' = [heap EXCEPT ![e.id].implicit = FALSE]
    <3>1. e.id \in DOMAIN heap /\ heap[e.id].sort = "t"
      BY <1>2, <1>3, <2>2, <2>3, CheckKeyFinds DEF Implicit, Stands, NoEntry, Entry
    <3> QED BY <1>2, <2>3, <3>1, ExplicitWords
  <2> QED BY <1>4, <2>1, <2>2, <2>3
<1> QED BY <1>5, <1>6, <1>7

LEMMA ElemsWords ==
  ASSUME IInv, WordsKnown, ElemValue \/ ElemNode
  PROVE  WordsIn(heap')
<1> DEFINE arr == Last(stack)
<1>1. pc = "elem"
  BY DEF ElemValue, ElemNode, At
<1>2. /\ Typed(heap) /\ Sound(heap) /\ arr \in DOMAIN heap /\ heap[arr].sort = "a"
      /\ WordsIn(heap)
  BY <1>1, InnermostArray, WhileBuilding DEF Building, WordsKnown
<1>3. IsArr(heap[arr])
  BY <1>2 DEF Typed, IsTable
<1>4. CASE ElemValue
  <2> DEFINE said == IF heap[arr].elems = <<>> THEN valtype(tok.word) ELSE heap[arr].type
             e == Elem(tok.word, 0)
             node == [heap[arr] EXCEPT !.elems = Append(@, e), !.kind = "v", !.type = said]
  <2>1. heap' = [heap EXCEPT ![arr] = node]
    BY <1>2, <1>3, <1>4 DEF ElemValue, IsArr
  <2>2. node.sort = "a" /\ node.elems = Append(heap[arr].elems, e)
    BY <1>2, <1>3 DEF IsArr
  <2>3. Sequence(e.word)
    BY <1>4, Words DEF WordsKnown, ElemValue, At, Elem
  <2> HIDE DEF node, e
  <2> QED BY <1>2, <2>1, <2>2, <2>3, ElemWords
<1>5. CASE ElemNode
  <2>1. PICK node : NewNode(node) /\ heap' = WithElem(heap, arr, node)
    <3>1. NewNode(NewArray("none")) /\ NewNode(NewTable(FALSE))
      BY DEF NewNode
    <3> QED BY <1>5, <3>1 DEF ElemNode
  <2> QED BY <1>2, <2>1, WithElemWords
<1> QED BY <1>4, <1>5

LEMMA HeaderWords ==
  ASSUME IInv, WordsKnown, WalkStep \/ SelectTable \/ SelectArray
  PROVE  WordsIn(heap')
<1>1. pc = "walk" /\ WordsIn(heap)
  BY DEF WalkStep, SelectTable, SelectArray, WordsKnown, Building
<1>2. /\ Tree(heap, 0) /\ Typed(heap) /\ Sound(heap)
      /\ curtab \in DOMAIN heap /\ heap[curtab].sort = "t"
  BY <1>1, AtWalk
<1>3. NewNode(NewTable(TRUE)) /\ NewNode(NewTable(FALSE)) /\ NewNode(NewArray("t"))
  BY DEF NewNode
<1>4. ASSUME NEW k, NEW node, NewNode(node)
      PROVE  WordsIn(WithNode(heap, curtab, k, node))
  BY <1>1, <1>2, <1>4, WithNodeWords
<1>5. CASE WalkStep
  <2>1. heap' = heap \/ heap' = WithNode(heap, curtab, Head(path), NewTable(TRUE))
    BY <1>5 DEF WalkStep
  <2> QED BY <1>1, <1>3, <1>4, <2>1
<1>6. CASE SelectTable
  <2>1. PICK e : e = check_key(curtab, path[1])
    OBVIOUS
  <2>2. \/ heap' = heap
        \/ heap' = WithNode(heap, curtab, path[1], NewTable(FALSE))
        \/ Implicit(e) /\ heap' = [heap EXCEPT ![e.id].implicit = FALSE]
    BY <1>6, <2>1 DEF SelectTable
  <2>3. CASE Implicit(e) /\ heap' = [heap EXCEPT ![e.id].implicit = FALSE]
    <3>1. e.id \in DOMAIN heap /\ heap[e.id].sort = "t"
      BY <1>2, <2>1, <2>3, CheckKeyFinds DEF Implicit, Stands, NoEntry, Entry
    <3> QED BY <1>1, <1>2, <2>3, <3>1, ExplicitWords
  <2> QED BY <1>1, <1>3, <1>4, <2>2, <2>3
<1>7. CASE SelectArray
  <2>1. PICK e : e = check_key(curtab, path[1])
    OBVIOUS
  <2>2. \/ heap' = heap
        \/ heap' = WithElem(WithNode(heap, curtab, path[1], NewArray("t")),
                            Len(heap) + 1, NewTable(FALSE))
        \/ e.sort = "a" /\ heap' = WithElem(heap, e.id, NewTable(FALSE))
    BY <1>7, <2>1 DEF SelectArray
  <2>3. CASE e.sort = "a" /\ heap' = WithElem(heap, e.id, NewTable(FALSE))
    <3>1. e.id \in DOMAIN heap /\ heap[e.id].sort = "a"
      BY <1>2, <2>1, <2>3, CheckKeyFinds DEF Stands, NoEntry, Entry
    <3> QED BY <1>1, <1>2, <1>3, <2>3, <3>1, WithElemWords
  <2>4. CASE heap' = WithElem(WithNode(heap, curtab, path[1], NewArray("t")),
                              Len(heap) + 1, NewTable(FALSE))
    <3>1. PICK h : h = WithNode(heap, curtab, path[1], NewArray("t"))
      OBVIOUS
    <3>2. Tree(h, 0) /\ NodeCame(h, heap, NewArray("t"))
      BY <1>2, <1>3, <3>1, WithNodeTree
    <3>3. Typed(h) /\ Len(heap) + 1 \in DOMAIN h /\ h[Len(heap) + 1].sort = "a"
      BY <3>2 DEF Tree, NodeCame, NewArray
    <3>4. WordsIn(h)
      BY <1>3, <1>4, <3>1
    <3> QED BY <1>3, <2>4, <3>1, <3>3, <3>4, WithElemWords
  <2> QED BY <1>1, <2>2, <2>3, <2>4
<1> QED BY <1>5, <1>6, <1>7

LEMMA WordsStayKnown ==
  ASSUME WordsRead, IInv, WordsKnown, [Next]_vars
  PROVE  WordsKnown'
<1>1. CASE UNCHANGED vars
  BY <1>1 DEF vars, WordsKnown, Building
<1>2. CASE NextToken
  <2>1. PICK t \in IF Stuck THEN {Last(text)} ELSE Follows(text, tok = ReadDot) :
          tok' = t /\ text' = IF Stuck THEN text ELSE Append(text, t)
    BY <1>2 DEF NextToken
  <2>2. Sequence(text)
    BY DEF WordsKnown
  <2>3. CASE Stuck
    <3>1. t \in {Eof, Token("STRING", <<>>, FALSE)}
      BY <2>1, <2>3 DEF Stuck
    <3>2. t.word = <<>>
      BY <3>1 DEF Eof, Token
    <3>3. Sequence(t.word)
      BY <3>2, EmptySequence
    <3>4. UNCHANGED heap /\ (Building' => Building)
      BY <1>2 DEF NextToken, parsing, Building, Wishes
    <3> QED BY <2>1, <2>2, <2>3, <3>3, <3>4 DEF WordsKnown
  <2>4. CASE ~ Stuck
    <3>1. Sequence(t.word)
      BY <2>1, <2>2, <2>4 DEF WordsRead
    <3>2. Sequence(text')
      BY <2>1, <2>2, <2>4, AppendSequence
    <3>3. UNCHANGED heap /\ (Building' => Building)
      BY <1>2 DEF NextToken, parsing, Building
    <3> QED BY <2>1, <3>1, <3>2, <3>3 DEF WordsKnown
  <2> QED BY <2>3, <2>4
<1>3. CASE Next /\ ~ NextToken
  <2>1. UNCHANGED text /\ (tok' = tok \/ tok' \in Wishes)
    <3>1. \A place : (Goto(place, tok) \/ Goto(place, Read) \/ Goto(place, ReadDot))
                       => UNCHANGED text /\ (tok' = tok \/ tok' \in Wishes)
      BY DEF Goto, Wishes
    <3>2. Fail => UNCHANGED text /\ tok' = tok
      BY DEF Fail, Goto
    <3> HIDE DEF Fail, Goto
    <3>3. CASE SyntaxError \/ KeyRefused \/ KindMismatch
      BY <3>2, <3>3 DEF SyntaxError, KeyRefused, KindMismatch
    <3>4. CASE EmptyLine \/ SkipNewline \/ Pair \/ Equal \/ EndOfLine \/ Comma \/ Close
      BY <3>1, <3>4 DEF EmptyLine, SkipNewline, Pair, Equal, EndOfLine, Comma, Close
    <3>5. CASE Header \/ SecondBracket \/ PathKey \/ PathSep \/ CloseHeader
      BY <3>1, <3>2, <3>5 DEF Header, SecondBracket, PathKey, PathSep, CloseHeader
    <3>6. CASE Value \/ ArrayValue \/ TableValue \/ ElemValue \/ ElemNode
      BY <3>1, <3>2, <3>6 DEF Value, ArrayValue, TableValue, ElemValue, ElemNode
    <3>7. CASE WalkStep \/ SelectTable \/ SelectArray
      BY <3>1, <3>2, <3>7 DEF WalkStep, SelectTable, SelectArray
    <3>8. CASE Finish \/ OutOfMemory \/ Free
      BY <3>8 DEF Finish, OutOfMemory, Free
    <3> QED BY <1>3, <3>3, <3>4, <3>5, <3>6, <3>7, <3>8 DEF Next
  <2>2. Building' => WordsIn(heap')
    <3>1. CASE Value \/ ArrayValue \/ TableValue
      BY <3>1, ValueWords
    <3>2. CASE ElemValue \/ ElemNode
      BY <3>2, ElemsWords
    <3>3. CASE WalkStep \/ SelectTable \/ SelectArray
      BY <3>3, HeaderWords
    <3>4. CASE OutOfMemory \/ Free
      BY <3>4 DEF OutOfMemory, Free, Building
    <3>5. CASE UNCHANGED heap /\ ~ Free /\ ~ OutOfMemory
      <4>1. Building' => Building
        BY <1>3, <3>5, EveryStep DEF Over, Building, Finish, At
      <4> QED BY <3>5, <4>1 DEF WordsKnown
    <3>6. UNCHANGED parsing => UNCHANGED heap
      BY DEF parsing
    <3>7. \/ Value \/ ArrayValue \/ TableValue \/ ElemValue \/ ElemNode \/ WalkStep
          \/ SelectTable \/ SelectArray \/ OutOfMemory \/ Free \/ UNCHANGED heap
      BY <1>3, <3>6 DEF Next, SyntaxError, Finish, EmptyLine, SkipNewline, Pair, Equal,
         KeyRefused, EndOfLine, Comma, Close, KindMismatch, Header, SecondBracket, PathKey,
         PathSep, CloseHeader
    <3> QED BY <3>1, <3>2, <3>3, <3>4, <3>5, <3>7
  <2> QED BY <2>1, <2>2 DEF WordsKnown, Wishes
<1> QED BY <1>1, <1>2, <1>3

(* toml_json prints each value of the document once, with its type, up to  *)
(* one that it exits at, whatever tree the document has made.              *)
THEOREM JsonPrints ==
  ASSUME WordsRead
  PROVE  Spec => []JsonPrintsAll
<1>1. Init => WordsKnown
  <2> SUFFICES ASSUME Init PROVE WordsKnown
    OBVIOUS
  <2>1. text = <<>> /\ tok.word = <<>>
    BY DEF Init, Token
  <2>2. heap = <<NewTable(FALSE)>>
    BY DEF Init
  <2>3. \A n \in DOMAIN heap : heap[n] = NewTable(FALSE)
    <3>1. Sequence(heap) /\ Len(heap) = 1 /\ heap[1] = NewTable(FALSE)
      BY <2>2, OneSequence
    <3>2. DOMAIN heap = 1 .. 1
      BY <3>1, SequenceFacts
    <3>3. \A n \in 1 .. 1 : n = 1
      OBVIOUS
    <3> QED BY <3>1, <3>2, <3>3, Zenon
  <2>4. NewNode(NewTable(FALSE))
    BY DEF NewNode
  <2>5. \A n \in DOMAIN heap : WordsOf(heap[n])
    BY <2>3, <2>4, NoWords
  <2> QED BY <2>1, <2>5, EmptySequence DEF WordsKnown, WordsIn, WordsOf
<1>2. IInv /\ WordsKnown /\ [Next]_vars => WordsKnown'
  BY WordsStayKnown
<1>3. IInv /\ WordsKnown /\ KeysOnce(heap) => JsonPrintsAll
  <2> SUFFICES ASSUME IInv, WordsKnown, KeysOnce(heap), pc = "done" PROVE JsonPrintsAll
    BY DEF JsonPrintsAll
  <2>1. Building
    BY DEF Building
  <2> QED BY <2>1, WhileBuilding, JsonAll DEF WordsKnown, Built
<1> QED BY <1>1, <1>2, <1>3, Invariance, KeysUnique, PTL DEF Spec

-----------------------------------------------------------------------------
(* What toml_cat prints of a node: what it prints of each member, in the   *)
(* order of the places.                                                    *)
CatSub(f, p) ==
  LET d == Held(heap, p).id
      k == Onto(heap, p).key
  IN IF SortHeld(heap, p) = "v" THEN <<ValueLine>>
     ELSE IF heap[p[1]].sort # "t" THEN f[d]
     ELSE IF SortHeld(heap, p) = "t" THEN Pushed(k, <<Title({})>> \o f[d])
     ELSE IF heap[d].kind = "t" THEN CatTables(f, d, k) ELSE f[d]
CatSubs(f, P) == [i \in DOMAIN P |-> CatSub(f, P[i])]
CatNode(f, n) == IF heap[n].sort = "t" THEN CatTable(f, n) ELSE CatArray(f, n)

LEMMA CatTableShape ==
  ASSUME Built, NEW n \in DOMAIN heap, heap[n].sort = "t", NEW P, InOrder(n, P), NEW f
  PROVE  CatNode(f, n) = FlattenSeq(Placed(Along(P), CatSubs(f, P), Len(P)))
<1>1. PICK all : all = All(heap[n])
  OBVIOUS
<1>2. DOMAIN P = DOMAIN all /\ DOMAIN P = 1 .. Len(P)
  BY <1>1, OrderFacts DEF InOrder
<1>3. PICK keys : keys = toml_key_in(n)
  OBVIOUS
<1>4. keys = [i \in 1 .. Len(P) |-> all[i].key]
  BY <1>1, <1>2, <1>3 DEF toml_key_in, All
<1>5. ASSUME NEW i \in 1 .. Len(P)
      PROVE  Below(ByKey(keys[i]), CatEntry(f, n, keys[i])) = Below(Along(P)[i], CatSubs(f, P)[i])
  <2>1. PICK e \in Range(heap[n].entries) :
          /\ e = all[i] /\ keys[i] = e.key /\ e.sort \in {"v", "a", "t"}
          /\ Held(heap, P[i]) = e /\ SortHeld(heap, P[i]) = e.sort
          /\ Onto(heap, P[i]) = ByKey(e.key)
    BY <1>1, <1>2, <1>4, TablePlace
  <2>2. PICK k : k = e.key
    OBVIOUS
  <2>3. /\ toml_raw_in(n, k) = IF e.sort = "v" THEN {e.word} ELSE {}
        /\ toml_array_in(n, k) = IF e.sort = "a" THEN {e.id} ELSE {}
        /\ toml_table_in(n, k) = IF e.sort = "t" THEN {e.id} ELSE {}
    BY <2>2, EntryFound
  <2>4. \A x : {x} # {} /\ (CHOOSE y \in {x} : TRUE) = x
    OBVIOUS
  <2>5. P[i][1] = n /\ Onto(heap, P[i]).key = k
    BY <1>2, <2>1, <2>2, OrderFacts DEF ByKey
  <2>6. CatSub(f, P[i]) = CatEntry(f, n, k)
    <3>1. CASE e.sort = "v"
      BY <2>1, <2>3, <2>4, <3>1 DEF CatEntry, CatSub
    <3>2. CASE e.sort = "a"
      BY <2>1, <2>3, <2>4, <2>5, <3>2 DEF CatEntry, CatSub, toml_array_kind
    <3>3. CASE e.sort = "t"
      BY <2>1, <2>3, <2>4, <2>5, <3>3 DEF CatEntry, CatSub
    <3> QED BY <2>1, <3>1, <3>2, <3>3
  <2>7. CatSubs(f, P)[i] = CatEntry(f, n, k)
    BY <1>2, <2>6 DEF CatSubs
  <2>8. Along(P)[i] = ByKey(k)
    BY <1>2, <2>1, <2>2 DEF Along
  <2> QED BY <2>1, <2>2, <2>7, <2>8
<1>6. [i \in DOMAIN keys |-> Below(ByKey(keys[i]), CatEntry(f, n, keys[i]))]
        = Placed(Along(P), CatSubs(f, P), Len(P))
  BY <1>4, <1>5 DEF Placed
<1> QED BY <1>3, <1>6 DEF CatNode, CatTable

LEMMA CatArrayShape ==
  ASSUME Built, NEW n \in DOMAIN heap, heap[n].sort # "t", NEW P, InOrder(n, P), NEW f
  PROVE  CatNode(f, n) = FlattenSeq(Placed(Along(P), CatSubs(f, P), Len(P)))
<1>1. PICK elems, kind : elems = heap[n].elems /\ kind = heap[n].kind
  OBVIOUS
<1>2. /\ kind \in {"none", "v", "a", "t"}
      /\ kind = "none" => elems = <<>>
      /\ DOMAIN P = DOMAIN elems
      /\ \A i \in DOMAIN P : /\ Held(heap, P[i]) = elems[i] /\ SortHeld(heap, P[i]) = kind
                             /\ Onto(heap, P[i]) = ByNumber(i)
  BY <1>1, ArrayPlace
<1>3. PICK l \in Nat : l = Len(P) /\ DOMAIN P = 1 .. l
  BY OrderFacts
<1>4. PICK seqs : seqs = Placed(Along(P), CatSubs(f, P), Len(P))
  OBVIOUS
<1>5. seqs = [i \in 1 .. l |-> Below(ByNumber(i), IF kind = "v" THEN <<ValueLine>>
                                                  ELSE f[elems[i].id])]
  <2>1. \A i \in DOMAIN P : P[i][1] = n
    BY OrderFacts
  <2>2. \A i \in DOMAIN P :
          CatSub(f, P[i]) = IF kind = "v" THEN <<ValueLine>> ELSE f[elems[i].id]
    BY <1>2, <2>1 DEF CatSub
  <2> QED BY <1>2, <1>3, <1>4, <2>2 DEF Placed, Along, CatSubs
<1>6. CASE kind = "v"
  <2>1. PICK raws : raws = toml_raw_at(n) /\ raws = [i \in 1 .. l |-> elems[i].word]
    BY <1>1, <1>2, <1>3, <1>6 DEF toml_raw_at, ElementsAt, toml_array_kind
  <2>2. seqs = [i \in DOMAIN raws |-> Below(ByNumber(i), <<ValueLine>>)]
    BY <1>5, <1>6, <2>1
  <2> QED BY <1>1, <1>4, <1>6, <2>1, <2>2 DEF CatNode, CatArray, toml_array_kind
<1>7. CASE kind # "v"
  <2>1. PICK nodes :
          nodes = IF toml_array_kind(n) = "t" THEN toml_table_at(n) ELSE toml_array_at(n)
    OBVIOUS
  <2>2. nodes = [i \in 1 .. l |-> elems[i].id]
    <3>1. /\ DOMAIN heap[n].elems = 1 .. l /\ heap[n].kind \in {"none", "a", "t"}
          /\ heap[n].kind = "none" => heap[n].elems = <<>>
      BY <1>1, <1>2, <1>3, <1>7
    <3> QED BY <1>1, <2>1, <3>1, NodesAtKind
  <2>3. seqs = [i \in DOMAIN nodes |-> Below(ByNumber(i), f[nodes[i]])]
    BY <1>5, <1>7, <2>2
  <2> QED BY <1>1, <1>4, <1>7, <2>1, <2>3 DEF CatNode, CatArray, toml_array_kind
<1> QED BY <1>6, <1>7

LEMMA CatShape ==
  ASSUME Built, NEW n \in DOMAIN heap, NEW P, InOrder(n, P), NEW f
  PROVE  CatNode(f, n) = FlattenSeq(Placed(Along(P), CatSubs(f, P), Len(P)))
<1>1. CASE heap[n].sort = "t"
  BY <1>1, CatTableShape
<1>2. CASE heap[n].sort # "t"
  BY <1>2, CatArrayShape
<1> QED BY <1>1, <1>2

(* The tables of an array, each below its title.                           *)
TitledSubs(f, Q, k) == [i \in DOMAIN Q |-> <<Title({k})>> \o f[Held(heap, Q[i]).id]]

LEMMA CatTablesShape ==
  ASSUME Built, NEW a \in DOMAIN heap, heap[a].sort # "t", heap[a].kind = "t",
         NEW Q, InOrder(a, Q), NEW f, NEW k
  PROVE  CatTables(f, a, k) = FlattenSeq(Placed(Along(Q), TitledSubs(f, Q, k), Len(Q)))
<1>1. PICK elems : elems = heap[a].elems
  OBVIOUS
<1>2. DOMAIN Q = DOMAIN elems /\ \A i \in DOMAIN Q : /\ Held(heap, Q[i]) = elems[i]
                                                     /\ Onto(heap, Q[i]) = ByNumber(i)
  BY <1>1, ArrayPlace
<1>3. PICK l \in Nat : l = Len(Q) /\ DOMAIN Q = 1 .. l
  BY OrderFacts
<1>4. PICK tabs : tabs = toml_table_at(a) /\ tabs = [i \in 1 .. l |-> elems[i].id]
  BY <1>1, <1>2, <1>3 DEF toml_table_at, ElementsAt, toml_array_kind
<1>5. Placed(Along(Q), TitledSubs(f, Q, k), l)
        = [i \in DOMAIN tabs |-> Below(ByNumber(i), <<Title({k})>> \o f[tabs[i]])]
  BY <1>2, <1>3, <1>4 DEF Placed, Along, TitledSubs
<1> QED BY <1>3, <1>4, <1>5 DEF CatTables

(* The walk comes to an end: below a node there are only newer ones.       *)
LEMMA CatTablesSame ==
  ASSUME Built, NEW a \in DOMAIN heap, heap[a].sort # "t", heap[a].kind = "t",
         NEW f, NEW g, \A m \in DOMAIN heap : a < m => f[m] = g[m], NEW k
  PROVE  CatTables(f, a, k) = CatTables(g, a, k)
<1>1. PICK Q : InOrder(a, Q)
  BY PlacesInOrder
<1>2. ASSUME NEW i \in DOMAIN Q PROVE f[Held(heap, Q[i]).id] = g[Held(heap, Q[i]).id]
  <2>1. Q[i] \in PlacesIn(heap) /\ Q[i][1] = a /\ SortHeld(heap, Q[i]) = "t"
    BY <1>1, OrderFacts, ArrayPlace
  <2>2. Held(heap, Q[i]).id \in DOMAIN heap /\ a < Held(heap, Q[i]).id
    BY <2>1, NodeBelow DEF Built
  <2> QED BY <2>2
<1>3. TitledSubs(f, Q, k) = TitledSubs(g, Q, k)
  BY <1>2 DEF TitledSubs
<1> QED BY <1>1, <1>3, CatTablesShape

LEMMA CatSame ==
  ASSUME Built, NEW n \in DOMAIN heap, NEW f, NEW g,
         \A m \in DOMAIN heap : n < m => f[m] = g[m]
  PROVE  CatNode(f, n) = CatNode(g, n)
<1>0. DOMAIN heap \subseteq Nat
  BY HeapDomain DEF Built, Tree
<1>1. PICK P : InOrder(n, P)
  BY PlacesInOrder
<1>2. ASSUME NEW i \in DOMAIN P PROVE CatSub(f, P[i]) = CatSub(g, P[i])
  <2>1. PICK p \in PlacesIn(heap) : p = P[i] /\ p[1] = n
    BY <1>1, OrderFacts
  <2>2. CASE SortHeld(heap, p) = "v"
    BY <2>1, <2>2 DEF CatSub
  <2>3. CASE SortHeld(heap, p) # "v"
    <3>1. PICK d \in DOMAIN heap : d = Held(heap, p).id /\ n < d /\ heap[d].sort = SortHeld(heap, p)
      BY <2>1, <2>3, NodeBelow DEF Built
    <3>2. f[d] = g[d]
      BY <3>1
    <3>3. PICK k : k = Onto(heap, p).key
      OBVIOUS
    <3>4. heap[d].sort # "t" /\ heap[d].kind = "t" => CatTables(f, d, k) = CatTables(g, d, k)
      <4>1. \A m \in DOMAIN heap : d < m => f[m] = g[m]
        BY <1>0, <3>1
      <4> QED BY <4>1, CatTablesSame
    <3> QED BY <2>1, <2>3, <3>1, <3>2, <3>3, <3>4 DEF CatSub
  <2> QED BY <2>2, <2>3
<1>3. CatSubs(f, P) = CatSubs(g, P)
  BY <1>2 DEF CatSubs
<1> QED BY <1>1, <1>3, CatShape

CatFrom(k) == \E f : f = [n \in k .. Len(heap) |-> CatNode(f, n)]

LEMMA OneMoreCat ==
  ASSUME Built, NEW k \in DOMAIN heap, CatFrom(k + 1)
  PROVE  CatFrom(k)
<1>1. PICK f : f = [n \in k + 1 .. Len(heap) |-> CatNode(f, n)]
  BY DEF CatFrom
<1>2. PICK l \in Nat \ {0} : l = Len(heap) /\ DOMAIN heap = 1 .. l /\ k \in 1 .. l
  BY HeapDomain DEF Built, Tree
<1>3. PICK g : g = [n \in k .. l |-> CatNode(f, n)]
  OBVIOUS
<1>4. \A n \in k + 1 .. l : g[n] = f[n]
  BY <1>1, <1>2, <1>3
<1>5. ASSUME NEW n \in k .. l PROVE CatNode(f, n) = CatNode(g, n)
  <2>1. n \in DOMAIN heap
    BY <1>2
  <2>2. \A m \in DOMAIN heap : n < m => f[m] = g[m]
    BY <1>2, <1>4
  <2> QED BY <2>1, <2>2, CatSame
<1>6. g = [n \in k .. l |-> CatNode(g, n)]
  BY <1>3, <1>5
<1> QED BY <1>2, <1>6 DEF CatFrom

LEMMA CatExists ==
  ASSUME Built
  PROVE  print_toml = [n \in DOMAIN heap |-> CatNode(print_toml, n)]
<1>1. PICK l \in Nat \ {0} : l = Len(heap) /\ DOMAIN heap = 1 .. l
  BY HeapDomain DEF Built, Tree
<1>2. CatFrom(l + 1)
  <2>1. PICK f : f = [i \in {} |-> <<>>]
    OBVIOUS
  <2>2. f = [n \in l + 1 .. l |-> CatNode(f, n)]
    BY <2>1
  <2> QED BY <1>1, <2>2 DEF CatFrom
<1>3. PICK G : G = {k \in 1 .. l : CatFrom(k)}
  OBVIOUS
<1>4. ASSUME NEW k \in 1 .. l, \A m \in 1 .. l : k < m => m \in G PROVE k \in G
  <2>1. CatFrom(k + 1)
    <3>1. CASE k = l
      BY <1>2, <3>1
    <3>2. CASE k # l
      <4>1. k + 1 \in 1 .. l /\ k < k + 1
        BY <3>2
      <4> QED BY <1>3, <1>4, <4>1
    <3> QED BY <3>1, <3>2
  <2> QED BY <1>1, <1>3, <2>1, OneMoreCat
<1>5. \A k \in 1 .. l : k \in G
  BY <1>4, NewestFirst
<1>6. \E f : f = [n \in DOMAIN heap |-> CatNode(f, n)]
  BY <1>1, <1>3, <1>5 DEF CatFrom
<1>7. print_toml = CHOOSE f : f = [n \in DOMAIN heap |-> CatNode(f, n)]
  BY DEF print_toml, CatNode
<1> QED BY <1>6, <1>7

-----------------------------------------------------------------------------
(* What the lines are.  A value has its way and no more, a title the keys  *)
(* that were on the stack.                                                 *)
CatItem(x) ==
  /\ Shown(x)
  /\ \/ DOMAIN x = {"line", "path"} /\ x.line = "value"
     \/ DOMAIN x = {"line", "path", "keys", "arrname"} /\ x.line = "title" /\ Sequence(x.keys)
Push(k, x) == IF x.line = "title" THEN [x EXCEPT !.keys = <<k>> \o @] ELSE x

LEMMA ValueLineItem == CatItem(ValueLine) /\ ValueLine.path = <<>> /\ ValueLine.line = "value"
BY EmptySequence DEF CatItem, Shown, ValueLine

LEMMA TitleItem ==
  ASSUME NEW a
  PROVE  /\ CatItem(Title(a)) /\ Title(a).path = <<>> /\ Title(a).line = "title"
         /\ Title(a).keys = <<>> /\ Title(a).arrname = a
BY EmptySequence DEF CatItem, Shown, Title

LEMMA PushItem ==
  ASSUME NEW k, NEW x, CatItem(x)
  PROVE  /\ CatItem(Push(k, x)) /\ Push(k, x).path = x.path /\ Push(k, x).line = x.line
         /\ x.line = "title" => /\ Push(k, x).keys = <<k>> \o x.keys
                                /\ Push(k, x).arrname = x.arrname
<1>1. CASE x.line # "title"
  BY <1>1 DEF Push
<1>2. CASE x.line = "title"
  <2>1. PICK keys : keys = <<k>> \o x.keys
    OBVIOUS
  <2>2. Sequence(x.keys) /\ DOMAIN x = {"line", "path", "keys", "arrname"}
    BY <1>2 DEF CatItem
  <2>3. Sequence(keys)
    BY <2>1, <2>2, StepBefore
  <2>4. PICK y : y = Push(k, x)
    OBVIOUS
  <2>5. y = [f \in DOMAIN x |-> IF f = "keys" THEN keys ELSE x[f]]
    BY <1>2, <2>1, <2>2, <2>4 DEF Push, CatItem, Shown
  <2>6. /\ DOMAIN y = DOMAIN x /\ y.path = x.path /\ y.line = x.line /\ y.keys = keys
        /\ y = [f \in DOMAIN y |-> y[f]] /\ y.arrname = x.arrname
    BY <2>2, <2>5
  <2>7. CatItem(y)
    BY <1>2, <2>2, <2>3, <2>6 DEF CatItem, Shown
  <2> QED BY <2>1, <2>4, <2>6, <2>7
<1> QED BY <1>1, <1>2

LEMMA PushApart ==
  ASSUME NEW k, NEW x, CatItem(x), NEW y, CatItem(y), Push(k, x) = Push(k, y)
  PROVE  x = y
<1>1. PICK u : /\ u = Push(k, x) /\ u.path = x.path /\ u.line = x.line
               /\ x.line = "title" => u.keys = <<k>> \o x.keys
  BY PushItem
<1>2. PICK v : /\ v = Push(k, y) /\ v.path = y.path /\ v.line = y.line
               /\ y.line = "title" => v.keys = <<k>> \o y.keys
  BY PushItem
<1>3. u = v
  BY <1>1, <1>2
<1>4. CASE x.line # "title"
  BY <1>1, <1>2, <1>3, <1>4 DEF Push
<1>5. CASE x.line = "title"
  <2>1. PICK s, t : s = x.keys /\ t = y.keys
    OBVIOUS
  <2>2. /\ Sequence(s) /\ Sequence(t) /\ DOMAIN x = {"line", "path", "keys", "arrname"}
        /\ DOMAIN y = {"line", "path", "keys", "arrname"}
    BY <1>1, <1>2, <1>3, <1>5, <2>1 DEF CatItem
  <2>3. <<k>> \o s = <<k>> \o t
    BY <1>1, <1>2, <1>3, <1>5, <2>1
  <2>4. s = t
    BY <2>2, <2>3, StepsApart
  <2>5. u = [x EXCEPT !.keys = <<k>> \o @] /\ v = [y EXCEPT !.keys = <<k>> \o @]
    BY <1>1, <1>2, <1>3, <1>5 DEF Push
  <2>6. /\ x = [f \in DOMAIN x |-> x[f]] /\ y = [f \in DOMAIN y |-> y[f]]
    BY DEF CatItem, Shown
  <2>7. u.arrname = x.arrname /\ v.arrname = y.arrname
    BY <2>2, <2>5, <2>6
  <2>8. \A f \in DOMAIN x : x[f] = y[f]
    BY <1>1, <1>2, <1>3, <2>1, <2>2, <2>4, <2>7
  <2> QED BY <2>2, <2>6, <2>8
<1> QED BY <1>4, <1>5

(* The ways to the values among some lines, and to the tables that are     *)
(* pushed on the stack.                                                    *)
Marked(x) == x.line = "value" \/ (x.line = "title" /\ x.arrname = {})
EndsOf(S) == {<<x.path, x.line>> : x \in {y \in S : Marked(y)}}
Prints(s, E) ==
  /\ Listing(s, Range(s)) /\ \A x \in Range(s) : CatItem(x)
  /\ EndsOf(Range(s)) = E

LEMMA PushedPrints ==
  ASSUME NEW s, NEW E, Prints(s, E), NEW k
  PROVE  /\ Prints(Pushed(k, s), E)
         /\ DOMAIN Pushed(k, s) = DOMAIN s
         /\ \A i \in DOMAIN s : Pushed(k, s)[i] = Push(k, s[i]) /\ CatItem(s[i])
<1>1. PICK t, S : t = Pushed(k, s) /\ S = Range(s)
  OBVIOUS
<1>2. Listing(s, S) /\ \A x \in S : CatItem(x)
  BY <1>1 DEF Prints
<1>3. PICK g : g = [x \in S |-> Push(k, x)]
  OBVIOUS
<1>4. \A i \in DOMAIN s : s[i] \in S
  BY <1>1 DEF Range
<1>5. /\ DOMAIN t = DOMAIN s /\ t = [i \in DOMAIN t |-> t[i]]
      /\ \A i \in DOMAIN s : t[i] = Push(k, s[i]) /\ t[i] = g[s[i]]
  BY <1>1, <1>3, <1>4 DEF Pushed, Push
<1>6. \A x, y \in S : g[x] = g[y] => x = y
  BY <1>2, <1>3, PushApart
<1>7. PICK T : T = {g[x] : x \in S}
  OBVIOUS
<1>8. Listing(t, T)
  BY <1>2, <1>5, <1>6, <1>7, MappedList
<1>9. Range(t) = T
  BY <1>8, ListedRange
<1>10. ASSUME NEW x \in S
       PROVE  /\ CatItem(g[x]) /\ g[x].path = x.path /\ g[x].line = x.line
              /\ Marked(g[x]) <=> Marked(x)
  <2>1. PICK y : y = g[x] /\ y = Push(k, x)
    BY <1>3
  <2>2. CatItem(x)
    BY <1>2
  <2>3. /\ CatItem(y) /\ y.path = x.path /\ y.line = x.line
        /\ x.line = "title" => y.arrname = x.arrname
    <3>1. PICK z : z = x /\ CatItem(z) /\ y = Push(k, z)
      BY <2>1, <2>2
    <3> QED BY <3>1, PushItem
  <2> QED BY <2>1, <2>3 DEF Marked
<1>11. EndsOf(T) = EndsOf(S)
  <2>1. ASSUME NEW z \in EndsOf(T) PROVE z \in EndsOf(S)
    <3>1. PICK y \in T : Marked(y) /\ z = <<y.path, y.line>>
      BY DEF EndsOf
    <3>2. PICK x \in S : y = g[x]
      BY <1>7
    <3> QED BY <1>10, <3>1, <3>2 DEF EndsOf
  <2>2. ASSUME NEW z \in EndsOf(S) PROVE z \in EndsOf(T)
    <3>1. PICK x \in S : Marked(x) /\ z = <<x.path, x.line>>
      BY DEF EndsOf
    <3>2. PICK y \in T : y = g[x]
      BY <1>7
    <3> QED BY <1>10, <3>1, <3>2 DEF EndsOf
  <2> QED BY <2>1, <2>2
<1>12. \A x \in T : CatItem(x)
  BY <1>7, <1>10
<1> QED BY <1>1, <1>2, <1>4, <1>5, <1>8, <1>9, <1>11, <1>12 DEF Prints

(* A title of an array is no end of a way.                                 *)
Heading(a) == IF a = {} THEN {<< <<>>, "title" >>} ELSE {}

LEMMA TitledPrints ==
  ASSUME NEW s, NEW E, Prints(s, E), \A x \in Range(s) : x.path # <<>>, NEW a
  PROVE  Prints(<<Title(a)>> \o s, Heading(a) \union E)
<1>1. PICK title, one, S : title = Title(a) /\ one = <<title>> /\ S = Range(s)
  OBVIOUS
<1>2. CatItem(title) /\ title.path = <<>> /\ title.line = "title" /\ title.arrname = a
  BY <1>1, TitleItem
<1>3. Listing(one, {title}) /\ Listing(s, S) /\ \A x \in S : CatItem(x)
  BY <1>1, ListsOne DEF Prints
<1>4. {title} \intersect S = {}
  BY <1>1, <1>2
<1>5. PICK t : t = one \o s
  OBVIOUS
<1>6. Listing(t, {title} \union S)
  BY <1>3, <1>4, <1>5, ListsBoth
<1>7. Range(t) = {title} \union S
  BY <1>6, ListedRange
<1>8. EndsOf({title} \union S) = Heading(a) \union EndsOf(S)
  <2>1. Marked(title) <=> a = {}
    BY <1>2 DEF Marked
  <2>2. <<title.path, title.line>> = << <<>>, "title" >>
    BY <1>2
  <2> QED BY <2>1, <2>2 DEF EndsOf, Heading
<1> QED BY <1>1, <1>2, <1>3, <1>5, <1>6, <1>7, <1>8 DEF Prints

LEMMA ValuePrints == Prints(<<ValueLine>>, {<< <<>>, "value" >>})
<1>1. PICK x, s : x = ValueLine /\ s = <<x>>
  OBVIOUS
<1>2. CatItem(x) /\ x.path = <<>> /\ x.line = "value"
  BY <1>1, ValueLineItem
<1>3. Listing(s, {x}) /\ Range(s) = {x}
  BY <1>1, ListsOne, ListedRange
<1>4. EndsOf({x}) = {<< <<>>, "value" >>}
  BY <1>2 DEF EndsOf, Marked
<1> QED BY <1>1, <1>2, <1>3, <1>4 DEF Prints

LEMMA UnderItem ==
  ASSUME NEW step, NEW x, CatItem(x)
  PROVE  /\ CatItem(Under(step, x)) /\ Under(step, x).path = <<step>> \o x.path
         /\ Under(step, x).line = x.line
         /\ Marked(Under(step, x)) <=> Marked(x)
         /\ x.line = "title" => /\ Under(step, x).keys = x.keys
                                /\ Under(step, x).arrname = x.arrname
<1>1. PICK y : /\ y = Under(step, x) /\ Shown(y) /\ y.path = <<step>> \o x.path
               /\ DOMAIN y = DOMAIN x /\ \A f \in DOMAIN x \ {"path"} : y[f] = x[f]
  BY UnderShown DEF CatItem
<1>2. CASE DOMAIN x = {"line", "path"} /\ x.line = "value"
  <2>1. y.line = x.line
    BY <1>1, <1>2
  <2> QED BY <1>1, <1>2, <2>1 DEF CatItem, Marked
<1>3. CASE DOMAIN x = {"line", "path", "keys", "arrname"} /\ x.line = "title" /\ Sequence(x.keys)
  <2>1. y.line = x.line /\ y.keys = x.keys /\ y.arrname = x.arrname
    BY <1>1, <1>3
  <2> QED BY <1>1, <1>3, <2>1 DEF CatItem, Marked
<1> QED BY <1>2, <1>3 DEF CatItem

LEMMA EndsPlaced ==
  ASSUME NEW step, NEW S, \A x \in S : CatItem(x)
  PROVE  EndsOf({Under(step, x) : x \in S}) = Beyond(step, EndsOf(S))
<1>1. PICK T : T = {Under(step, x) : x \in S}
  OBVIOUS
<1>2. ASSUME NEW z \in EndsOf(T) PROVE z \in Beyond(step, EndsOf(S))
  <2>1. PICK y \in T : Marked(y) /\ z = <<y.path, y.line>>
    BY DEF EndsOf
  <2>2. PICK x \in S : y = Under(step, x)
    BY <1>1
  <2>3. Marked(x) /\ y.line = x.line /\ y.path = <<step>> \o x.path
    BY <2>1, <2>2, UnderItem
  <2>4. PICK e \in EndsOf(S) : e = <<x.path, x.line>>
    BY <2>3 DEF EndsOf
  <2>5. e[1] = x.path /\ e[2] = x.line
    BY <2>4
  <2> QED BY <2>1, <2>3, <2>5 DEF Beyond
<1>3. ASSUME NEW z \in Beyond(step, EndsOf(S)) PROVE z \in EndsOf(T)
  <2>1. PICK e \in EndsOf(S) : z = << <<step>> \o e[1], e[2] >>
    BY DEF Beyond
  <2>2. PICK x \in S : Marked(x) /\ e = <<x.path, x.line>>
    BY DEF EndsOf
  <2>3. e[1] = x.path /\ e[2] = x.line
    BY <2>2
  <2>4. PICK y \in T : y = Under(step, x)
    BY <1>1
  <2>5. Marked(y) /\ y.line = x.line /\ y.path = <<step>> \o x.path
    BY <2>2, <2>4, UnderItem
  <2> QED BY <2>1, <2>3, <2>5 DEF EndsOf
<1> QED BY <1>1, <1>2, <1>3

(* What is at the end of the ways from a place, and the lines of a node:   *)
(* each is below one of its places.                                        *)
CatEnds == [n \in DOMAIN heap |-> EndsOf(Range(print_toml[n]))]
TablePlaces ==
  {p \in PlacesIn(heap) : heap[p[1]].sort = "t" /\ SortHeld(heap, p) = "t"}
CatMarks ==
  [p \in ValuePlaces(heap) \union TablePlaces |->
     IF SortHeld(heap, p) = "v" THEN "value" ELSE "title"]
EndsAt(p) ==
  (IF p \in DOMAIN CatMarks THEN {<< <<>>, CatMarks[p] >>} ELSE {})
  \union (IF SortHeld(heap, p) # "v" THEN CatEnds[Held(heap, p).id] ELSE {})
EndsBelow(n) == UNION {FromPlace(heap, CatMarks, CatEnds, p) : p \in PlacesAt(n)}
ComesFrom(n, x) ==
  \E p \in PlacesAt(n) : \E w : Sequence(w) /\ x.path = <<Onto(heap, p)>> \o w
AllFrom(n, s) == \A x \in Range(s) : ComesFrom(n, x)
FromMembers(s, P, subs) ==
  \A x \in Range(s) : \E i \in DOMAIN P : \E y \in Range(subs[i]) :
    CatItem(y) /\ x = Under(Onto(heap, P[i]), y)

LEMMA EndsFromPlace ==
  ASSUME NEW p \in PlacesIn(heap)
  PROVE  FromPlace(heap, CatMarks, CatEnds, p) = Beyond(Onto(heap, p), EndsAt(p))
BY DEF FromPlace, EndsAt

LEMMA EndsThere ==
  ASSUME NEW p \in PlacesIn(heap), NEW E, E = CatEnds[Held(heap, p).id]
  PROVE  /\ SortHeld(heap, p) = "v" => EndsAt(p) = {<< <<>>, "value" >>}
         /\ p \in TablePlaces => EndsAt(p) = {<< <<>>, "title" >>} \union E
         /\ SortHeld(heap, p) # "v" /\ p \notin TablePlaces => EndsAt(p) = E
<1>1. SortHeld(heap, p) = "v" => p \in DOMAIN CatMarks /\ CatMarks[p] = "value"
  BY DEF CatMarks, ValuePlaces
<1>2. p \in TablePlaces => /\ p \in DOMAIN CatMarks /\ CatMarks[p] = "title"
                           /\ SortHeld(heap, p) # "v"
  BY DEF CatMarks, TablePlaces
<1>3. SortHeld(heap, p) # "v" /\ p \notin TablePlaces => p \notin DOMAIN CatMarks
  BY DEF CatMarks, ValuePlaces
<1> HIDE DEF CatMarks
<1> QED BY <1>1, <1>2, <1>3 DEF EndsAt

LEMMA PlacedPrints ==
  ASSUME Built, NEW n \in DOMAIN heap, NEW P, InOrder(n, P), NEW subs,
         \A i \in DOMAIN P : Prints(subs[i], EndsAt(P[i])),
         NEW s, s = FlattenSeq(Placed(Along(P), subs, Len(P)))
  PROVE  Prints(s, EndsBelow(n)) /\ AllFrom(n, s) /\ FromMembers(s, P, subs)
<1>1. /\ \A i \in DOMAIN P : P[i] \in PlacesAt(n)
      /\ \A p \in PlacesAt(n) : \E i \in DOMAIN P : P[i] = p
      /\ \A i, j \in DOMAIN P : P[i] = P[j] => i = j
  BY LenProperties, ElementOfSeq DEF InOrder, Listing
<1>2. PICK S : S = [p \in PlacesAt(n) |-> Range(subs[CHOOSE i \in DOMAIN P : P[i] = p])]
  OBVIOUS
<1>3. ASSUME NEW i \in DOMAIN P PROVE S[P[i]] = Range(subs[i])
  <2>1. (CHOOSE j \in DOMAIN P : P[j] = P[i]) = i
    BY <1>1
  <2> QED BY <1>1, <1>2, <2>1
<1>4. PICK U : U = UNION {Placing(p, S[p]) : p \in PlacesAt(n)}
  OBVIOUS
<1>5. Listing(s, U)
  <2>1. \A i \in DOMAIN P : Listing(subs[i], S[P[i]]) /\ \A x \in S[P[i]] : Shown(x)
    BY <1>3 DEF Prints, CatItem
  <2> QED BY <1>4, <2>1, MembersList
<1>6. Range(s) = U
  BY <1>5, ListedRange
<1>7. ASSUME NEW p \in PlacesAt(n)
      PROVE  /\ \A x \in S[p] : CatItem(x)
             /\ EndsOf(Placing(p, S[p])) = FromPlace(heap, CatMarks, CatEnds, p)
  <2>1. PICK i \in DOMAIN P : P[i] = p
    BY <1>1
  <2>2. PICK R : R = S[p] /\ (\A x \in R : CatItem(x)) /\ EndsOf(R) = EndsAt(p)
    BY <1>3, <2>1 DEF Prints
  <2>3. PICK step : step = Onto(heap, p)
    OBVIOUS
  <2>4. EndsOf({Under(step, x) : x \in R}) = Beyond(step, EndsOf(R))
    BY <2>2, EndsPlaced
  <2>5. p \in PlacesIn(heap)
    BY PlaceFacts DEF PlacesAt
  <2> QED BY <2>2, <2>3, <2>4, <2>5, EndsFromPlace DEF Placing
<1>8. ASSUME NEW y \in U
      PROVE  /\ CatItem(y) /\ ComesFrom(n, y)
             /\ \E i \in DOMAIN P : \E x \in Range(subs[i]) :
                  CatItem(x) /\ y = Under(Onto(heap, P[i]), x)
  <2>1. PICK p \in PlacesAt(n) : y \in Placing(p, S[p])
    BY <1>4
  <2>2. PICK x \in S[p] : y = Under(Onto(heap, p), x)
    BY <2>1 DEF Placing
  <2>3. CatItem(x)
    BY <1>7
  <2>4. CatItem(y) /\ y.path = <<Onto(heap, p)>> \o x.path
    BY <2>2, <2>3, UnderItem
  <2>5. Sequence(x.path)
    BY <2>3 DEF CatItem, Shown
  <2>6. PICK i \in DOMAIN P : P[i] = p /\ x \in Range(subs[i])
    BY <1>1, <1>3
  <2> QED BY <2>2, <2>3, <2>4, <2>5, <2>6 DEF ComesFrom
<1>9. EndsOf(U) = EndsBelow(n)
  <2> DEFINE F(p) == FromPlace(heap, CatMarks, CatEnds, p)
             G(p) == Placing(p, S[p])
  <2>1. \A p \in PlacesAt(n) : EndsOf(G(p)) = F(p)
    BY <1>7
  <2>2. U = UNION {G(p) : p \in PlacesAt(n)}
    BY <1>4
  <2>3. EndsBelow(n) = UNION {F(p) : p \in PlacesAt(n)}
    BY DEF EndsBelow
  <2> HIDE DEF F, G
  <2>4. EndsOf(UNION {G(p) : p \in PlacesAt(n)}) = UNION {EndsOf(G(p)) : p \in PlacesAt(n)}
    BY DEF EndsOf
  <2>5. UNION {EndsOf(G(p)) : p \in PlacesAt(n)} = UNION {F(p) : p \in PlacesAt(n)}
    BY <2>1
  <2> QED BY <2>2, <2>3, <2>4, <2>5
<1> QED BY <1>5, <1>6, <1>8, <1>9 DEF Prints, AllFrom, FromMembers

(* What toml_cat prints of a node, nothing of it twice.                    *)
CatLists(n) ==
  /\ Prints(print_toml[n], CatEnds[n]) /\ AllFrom(n, print_toml[n])
  /\ CatEnds[n] = EndsBelow(n)

LEMMA NotEmpty ==
  ASSUME NEW n, NEW s, AllFrom(n, s)
  PROVE  \A x \in Range(s) : x.path # <<>>
<1> SUFFICES ASSUME NEW x \in Range(s) PROVE x.path # <<>>
  OBVIOUS
<1>1. PICK step, w : Sequence(w) /\ x.path = <<step>> \o w
  BY DEF AllFrom, ComesFrom
<1> QED BY <1>1, StepBefore

LEMMA CatTablesPrints ==
  ASSUME Built, NEW a \in DOMAIN heap, heap[a].sort # "t", heap[a].kind = "t",
         \A m \in DOMAIN heap : a < m => CatLists(m), CatLists(a), NEW k
  PROVE  Prints(CatTables(print_toml, a, k), CatEnds[a]) /\ AllFrom(a, CatTables(print_toml, a, k))
<1>1. PICK Q : InOrder(a, Q)
  BY PlacesInOrder
<1>2. PICK subs, s : subs = TitledSubs(print_toml, Q, k) /\ s = CatTables(print_toml, a, k)
  OBVIOUS
<1>3. ASSUME NEW i \in DOMAIN Q PROVE Prints(subs[i], EndsAt(Q[i]))
  <2>1. Q[i] \in PlacesIn(heap) /\ Q[i][1] = a /\ SortHeld(heap, Q[i]) = "t"
    BY <1>1, OrderFacts, ArrayPlace
  <2>2. PICK d \in DOMAIN heap : d = Held(heap, Q[i]).id /\ a < d
    BY <2>1, NodeBelow DEF Built
  <2>3. PICK lines, E : lines = print_toml[d] /\ E = CatEnds[d]
    OBVIOUS
  <2>4. Prints(lines, E) /\ \A x \in Range(lines) : x.path # <<>>
    BY <2>2, <2>3, NotEmpty DEF CatLists
  <2>5. Prints(<<Title({k})>> \o lines, E)
    <3>1. Prints(<<Title({k})>> \o lines, Heading({k}) \union E)
      BY <2>4, TitledPrints
    <3>2. Heading({k}) \union E = E
      BY DEF Heading
    <3> QED BY <3>1, <3>2
  <2>6. subs[i] = <<Title({k})>> \o lines
    BY <1>2, <2>2, <2>3 DEF TitledSubs
  <2>7. Q[i] \notin TablePlaces /\ EndsAt(Q[i]) = E
    BY <2>1, <2>2, <2>3, EndsThere DEF TablePlaces
  <2> QED BY <2>5, <2>6, <2>7
<1>4. s = FlattenSeq(Placed(Along(Q), subs, Len(Q)))
  BY <1>1, <1>2, CatTablesShape
<1>5. Prints(s, EndsBelow(a)) /\ AllFrom(a, s)
  BY <1>1, <1>3, <1>4, PlacedPrints
<1> QED BY <1>2, <1>5 DEF CatLists

LEMMA CatSubPrints ==
  ASSUME Built, NEW p \in PlacesIn(heap),
         \A m \in DOMAIN heap : p[1] < m => CatLists(m)
  PROVE  /\ Prints(CatSub(print_toml, p), EndsAt(p))
         /\ heap[p[1]].sort = "t" /\ SortHeld(heap, p) = "a"
              => AllFrom(Held(heap, p).id, CatSub(print_toml, p))
<1>0. DOMAIN heap \subseteq Nat /\ p[1] \in DOMAIN heap
  BY HeapDomain, PlaceFacts DEF Built, Tree
<1>1. CASE SortHeld(heap, p) = "v"
  BY <1>1, ValuePrints, EndsThere DEF CatSub
<1>2. CASE SortHeld(heap, p) # "v"
  <2>1. PICK d \in DOMAIN heap : /\ d = Held(heap, p).id /\ p[1] < d
                                 /\ heap[d].sort = SortHeld(heap, p)
    BY <1>2, NodeBelow DEF Built
  <2>2. CatLists(d) /\ \A m \in DOMAIN heap : d < m => CatLists(m)
    BY <1>0, <2>1
  <2>3. PICK lines, E, k : lines = print_toml[d] /\ E = CatEnds[d] /\ k = Onto(heap, p).key
    OBVIOUS
  <2>4. /\ Prints(lines, E) /\ AllFrom(d, lines)
        /\ EndsAt(p) = IF p \in TablePlaces THEN {<< <<>>, "title" >>} \union E ELSE E
    BY <1>2, <2>1, <2>2, <2>3, EndsThere DEF CatLists
  <2>5. CASE heap[p[1]].sort # "t"
    BY <1>2, <2>1, <2>3, <2>4, <2>5 DEF CatSub, TablePlaces
  <2>6. CASE heap[p[1]].sort = "t" /\ SortHeld(heap, p) = "t"
    <3>1. \A x \in Range(lines) : x.path # <<>>
      BY <2>4, NotEmpty
    <3>2. PICK t : t = <<Title({})>> \o lines /\ Prints(t, Heading({}) \union E)
      BY <2>4, <3>1, TitledPrints
    <3>3. Prints(Pushed(k, t), Heading({}) \union E)
      BY <3>2, PushedPrints
    <3>4. CatSub(print_toml, p) = Pushed(k, t)
      BY <2>1, <2>3, <2>6, <3>2 DEF CatSub
    <3>5. EndsAt(p) = Heading({}) \union E
      BY <2>4, <2>6 DEF TablePlaces, Heading
    <3> QED BY <2>6, <3>3, <3>4, <3>5
  <2>7. CASE heap[p[1]].sort = "t" /\ SortHeld(heap, p) # "t"
    <3>0. EndsAt(p) = E
      BY <2>4, <2>7 DEF TablePlaces
    <3>1. CASE heap[d].kind = "t"
      <4>1. Prints(CatTables(print_toml, d, k), E) /\ AllFrom(d, CatTables(print_toml, d, k))
        BY <2>1, <2>2, <2>3, <2>7, <3>1, CatTablesPrints
      <4>2. CatSub(print_toml, p) = CatTables(print_toml, d, k)
        BY <1>2, <2>1, <2>3, <2>7, <3>1 DEF CatSub
      <4> QED BY <2>1, <3>0, <4>1, <4>2
    <3>2. CASE heap[d].kind # "t"
      <4>1. CatSub(print_toml, p) = lines
        BY <1>2, <2>1, <2>3, <2>7, <3>2 DEF CatSub
      <4> QED BY <2>1, <2>4, <3>0, <4>1
    <3> QED BY <3>1, <3>2
  <2> QED BY <2>5, <2>6, <2>7
<1> QED BY <1>1, <1>2

LEMMA CatNodeShape ==
  ASSUME Built, NEW n \in DOMAIN heap, NEW P, InOrder(n, P)
  PROVE  print_toml[n] = FlattenSeq(Placed(Along(P), CatSubs(print_toml, P), Len(P)))
<1>1. print_toml[n] = CatNode(print_toml, n)
  BY CatExists
<1> QED BY <1>1, CatShape

LEMMA CatNodeLists ==
  ASSUME Built, NEW n \in DOMAIN heap,
         \A m \in DOMAIN heap : n < m => CatLists(m)
  PROVE  CatLists(n)
<1>1. PICK P : InOrder(n, P)
  BY PlacesInOrder
<1>2. PICK subs, s : subs = CatSubs(print_toml, P) /\ s = print_toml[n]
  OBVIOUS
<1>3. ASSUME NEW i \in DOMAIN P PROVE Prints(subs[i], EndsAt(P[i]))
  <2>1. PICK p \in PlacesIn(heap) : p = P[i] /\ p[1] = n
    BY <1>1, OrderFacts
  <2>2. Prints(CatSub(print_toml, p), EndsAt(p))
    BY <2>1, CatSubPrints
  <2> QED BY <1>2, <2>1, <2>2 DEF CatSubs
<1>4. s = FlattenSeq(Placed(Along(P), subs, Len(P)))
  BY <1>1, <1>2, CatNodeShape
<1>5. Prints(s, EndsBelow(n)) /\ AllFrom(n, s)
  BY <1>1, <1>3, <1>4, PlacedPrints
<1>6. CatEnds[n] = EndsBelow(n)
  BY <1>2, <1>5 DEF CatEnds, Prints
<1> QED BY <1>2, <1>5, <1>6 DEF CatLists

LEMMA AllCatLists ==
  ASSUME Built
  PROVE  \A n \in DOMAIN heap : CatLists(n)
<1>1. PICK l \in Nat : DOMAIN heap = 1 .. l
  BY HeapDomain DEF Built, Tree
<1>2. PICK G : G = {n \in DOMAIN heap : CatLists(n)}
  OBVIOUS
<1>3. \A n \in 1 .. l : (\A m \in 1 .. l : n < m => m \in G) => n \in G
  BY <1>1, <1>2, CatNodeLists
<1>4. \A n \in 1 .. l : n \in G
  BY <1>3, NewestFirst
<1> QED BY <1>1, <1>2, <1>4

(* All of the tree: a line for each value and for each table that a key    *)
(* leads to, with the way to it.                                           *)
LEMMA CatPrinted ==
  ASSUME Built
  PROVE  Prints(print_toml[ROOT], {<<PathTo(heap, p), CatMarks[p]>> : p \in DOMAIN CatMarks})
<1>1. ROOT \in DOMAIN heap /\ Tree(heap, 0)
  BY DEF Built, Tree, Typed
<1>2. Collects(heap, CatMarks, CatEnds)
  <2> SUFFICES ASSUME NEW n \in DOMAIN heap
               PROVE  CatEnds[n] = UNION {FromPlace(heap, CatMarks, CatEnds, <<n, k>>) :
                                            k \in DOMAIN Members(heap[n])}
    BY DEF Collects
  <2> DEFINE F(p) == FromPlace(heap, CatMarks, CatEnds, p)
  <2>1. CatEnds[n] = UNION {F(p) : p \in PlacesAt(n)}
    BY AllCatLists DEF CatLists, EndsBelow
  <2> HIDE DEF F
  <2>2. UNION {F(p) : p \in PlacesAt(n)} = UNION {F(<<n, k>>) : k \in DOMAIN Members(heap[n])}
    BY DEF PlacesAt
  <2> QED BY <2>1, <2>2 DEF F
<1>3. DOMAIN CatMarks \subseteq PlacesIn(heap)
  BY DEF CatMarks, ValuePlaces, TablePlaces
<1>4. CatEnds[ROOT] = {<<PathTo(heap, p), CatMarks[p]>> : p \in DOMAIN CatMarks}
  BY <1>1, <1>2, <1>3, TreeCollected
<1> QED BY <1>1, <1>4, AllCatLists DEF CatLists

-----------------------------------------------------------------------------
(* The stack: at the title of a table it has a key for each of the tables  *)
(* around it that a key leads to.                                          *)
Counts(step, w) == step.at = 0 /\ (w = <<>> \/ w[1].at = 0)

LEMMA ByTablesOnward ==
  ASSUME NEW step, NEW w, Sequence(w), NEW t, t = <<step>> \o w
  PROVE  /\ Cardinality(ByTables(w)) \in Nat
         /\ Cardinality(ByTables(t))
              = IF Counts(step, w) THEN 1 + Cardinality(ByTables(w)) ELSE Cardinality(ByTables(w))
<1>1. PICK l \in Nat : l = Len(w) /\ DOMAIN w = 1 .. l /\ (w = <<>> <=> l = 0)
  BY SequenceFacts, EmptySeq DEF Sequence
<1>2. /\ DOMAIN t = 1 .. 1 + l /\ t[1] = step
      /\ \A i \in 1 .. l : t[1 + i] = w[i]
  <2>1. Sequence(t)
    BY StepBefore
  <2>2. Len(t) = 1 + Len(w) /\ t[1] = step /\ \A i \in 1 .. Len(w) : t[1 + i] = w[i]
    BY StepBefore
  <2> QED BY <1>1, <2>1, <2>2, SequenceFacts
<1>3. PICK S, T : S = ByTables(w) /\ T = ByTables(t)
  OBVIOUS
<1>4. S \subseteq 1 .. l /\ IsFiniteSet(S) /\ Cardinality(S) \in Nat
  <2>1. S \subseteq 1 .. l
    BY <1>1, <1>3 DEF ByTables
  <2>2. IsFiniteSet(1 .. l) /\ S \in SUBSET (1 .. l)
    BY <2>1, FS_Interval
  <2>3. IsFiniteSet(S)
    BY <2>2, FS_Subset
  <2> QED BY <2>1, <2>3, FS_CardinalityType
<1>5. PICK U : U = {1 + i : i \in S}
  OBVIOUS
<1>6. IsFiniteSet(U) /\ Cardinality(U) = Cardinality(S)
  <2>1. PICK f : f = [i \in S |-> 1 + i]
    OBVIOUS
  <2>2. \A i, j \in S : 1 + i = 1 + j => i = j
    BY <1>4
  <2>3. f \in Bijection(S, U)
    BY <1>5, <2>1, <2>2 DEF Bijection, Injection, Surjection, IsInjective
  <2> QED BY <1>4, <2>3, FS_Bijection DEF ExistsBijection
<1>7. ASSUME NEW i \in 1 .. l PROVE 1 + i \in T <=> i \in S
  <2>1. i + 1 \in 1 .. l <=> (1 + i) + 1 \in 1 .. 1 + l
    OBVIOUS
  <2>2. i + 1 \in 1 .. l => t[(1 + i) + 1] = w[i + 1]
    <3>1. (1 + i) + 1 = 1 + (i + 1)
      OBVIOUS
    <3> QED BY <1>2, <3>1
  <2>3. t[1 + i] = w[i] /\ 1 + i \in 1 .. 1 + l
    BY <1>2
  <2> QED BY <1>1, <1>2, <1>3, <2>1, <2>2, <2>3 DEF ByTables
<1>8. 1 \in T <=> Counts(step, w)
  <2>1. 1 \in DOMAIN t /\ (1 + 1 \in DOMAIN t <=> l # 0)
    BY <1>2
  <2>2. l # 0 => t[1 + 1] = w[1]
    BY <1>2
  <2> QED BY <1>1, <1>2, <1>3, <2>1, <2>2 DEF ByTables, Counts
<1>9. T \subseteq 1 .. 1 + l
  BY <1>2, <1>3 DEF ByTables
<1>10. ASSUME NEW i \in 1 .. 1 + l PROVE i = 1 \/ \E j \in 1 .. l : i = 1 + j
  <2>1. i # 1 => i - 1 \in 1 .. l /\ i = 1 + (i - 1)
    OBVIOUS
  <2> QED BY <2>1
<1>11. U \subseteq T /\ 1 \notin U
  BY <1>4, <1>5, <1>7
<1>12. T \subseteq U \union {1}
  BY <1>5, <1>7, <1>9, <1>10
<1>13. CASE Counts(step, w)
  <2>1. T = U \union {1}
    BY <1>8, <1>11, <1>12, <1>13
  <2>2. Cardinality(T) = Cardinality(U) + 1
    BY <1>6, <1>11, <2>1, FS_AddElement
  <2> QED BY <1>3, <1>4, <1>6, <1>13, <2>2
<1>14. CASE ~ Counts(step, w)
  <2>1. T = U
    BY <1>8, <1>11, <1>12, <1>14
  <2> QED BY <1>3, <1>4, <1>6, <1>14, <2>1
<1> QED BY <1>13, <1>14

Pushes(x) == x.line = "title" /\ x.arrname = {}
KeyForEach(x) == Pushes(x) => Len(x.keys) = Cardinality(ByTables(x.path))
Stacked(s) == \A x \in Range(s) : KeyForEach(x)

LEMMA UnderStacked ==
  ASSUME NEW x, CatItem(x), KeyForEach(x), NEW step, ~ Counts(step, x.path)
  PROVE  KeyForEach(Under(step, x))
<1>1. PICK y, w : y = Under(step, x) /\ w = x.path /\ Sequence(w)
  BY DEF CatItem, Shown
<1>2. /\ y.path = <<step>> \o w /\ y.line = x.line
      /\ x.line = "title" => y.keys = x.keys /\ y.arrname = x.arrname
  BY <1>1, UnderItem
<1>3. PICK t : t = <<step>> \o w
  OBVIOUS
<1>4. Cardinality(ByTables(t)) = Cardinality(ByTables(w))
  BY <1>1, <1>3, ByTablesOnward
<1> QED BY <1>1, <1>2, <1>3, <1>4 DEF KeyForEach, Pushes

LEMMA PushedStacked ==
  ASSUME NEW x, CatItem(x), KeyForEach(x), NEW k, x.path = <<>> \/ x.path[1].at = 0
  PROVE  KeyForEach(Under(ByKey(k), Push(k, x)))
<1>1. PICK z, y, step, w : /\ z = Push(k, x) /\ step = ByKey(k) /\ y = Under(step, z)
                           /\ w = x.path /\ Sequence(w)
  BY DEF CatItem, Shown
<1>2. /\ CatItem(z) /\ z.path = w /\ z.line = x.line
      /\ x.line = "title" => z.keys = <<k>> \o x.keys /\ z.arrname = x.arrname
  BY <1>1, PushItem
<1>3. /\ y.path = <<step>> \o w /\ y.line = z.line
      /\ z.line = "title" => y.keys = z.keys /\ y.arrname = z.arrname
  <2>1. /\ Under(step, z).path = <<step>> \o z.path
        /\ Under(step, z).line = z.line
        /\ z.line = "title" => /\ Under(step, z).keys = z.keys
                               /\ Under(step, z).arrname = z.arrname
    BY <1>2, UnderItem
  <2>2. y = Under(step, z) /\ z.path = w
    BY <1>1, <1>2
  <2> QED BY <2>1, <2>2
<1>4. PICK t : t = <<step>> \o w
  OBVIOUS
<1>5. Counts(step, w)
  BY <1>1 DEF Counts, ByKey
<1>6. Cardinality(ByTables(t)) = 1 + Cardinality(ByTables(w))
  BY <1>1, <1>4, <1>5, ByTablesOnward
<1>7. ASSUME x.line = "title" PROVE Len(<<k>> \o x.keys) = 1 + Len(x.keys)
  <2>1. PICK keys, all : keys = x.keys /\ Sequence(keys) /\ all = <<k>> \o keys
    BY <1>7 DEF CatItem
  <2>2. Len(all) = 1 + Len(keys)
    BY <2>1, StepBefore
  <2> QED BY <2>1, <2>2
<1> QED BY <1>1, <1>2, <1>3, <1>4, <1>6, <1>7 DEF KeyForEach, Pushes

LEMMA FirstStep ==
  ASSUME Built, NEW n \in DOMAIN heap, NEW s, AllFrom(n, s), NEW x \in Range(s)
  PROVE  x.path # <<>> /\ (x.path[1].at = 0 <=> heap[n].sort = "t")
<1>0. ComesFrom(n, x)
  BY DEF AllFrom
<1>1. PICK p \in PlacesAt(n) : \E w : Sequence(w) /\ x.path = <<Onto(heap, p)>> \o w
  BY <1>0 DEF ComesFrom
<1>2. PICK step, w : step = Onto(heap, p) /\ Sequence(w) /\ x.path = <<step>> \o w
  BY <1>1
<1>3. x.path # <<>> /\ x.path[1] = step
  BY <1>2, StepBefore
<1>4. p \in PlacesIn(heap) /\ p[1] = n
  BY PlaceFacts DEF PlacesAt
<1>5. step.at = 0 <=> heap[n].sort = "t"
  BY <1>2, <1>4, StepKind DEF Built
<1> QED BY <1>3, <1>5

LEMMA CatNodeFrom ==
  ASSUME Built, NEW n \in DOMAIN heap, NEW P, InOrder(n, P)
  PROVE  FromMembers(print_toml[n], P, CatSubs(print_toml, P))
<1>1. PICK subs, s : subs = CatSubs(print_toml, P) /\ s = print_toml[n]
  OBVIOUS
<1>2. ASSUME NEW i \in DOMAIN P PROVE Prints(subs[i], EndsAt(P[i]))
  <2>1. PICK p \in PlacesIn(heap) : p = P[i]
    BY OrderFacts
  <2>2. Prints(CatSub(print_toml, p), EndsAt(p))
    BY <2>1, CatSubPrints, AllCatLists
  <2> QED BY <1>1, <2>1, <2>2 DEF CatSubs
<1>3. s = FlattenSeq(Placed(Along(P), subs, Len(P)))
  BY <1>1, CatNodeShape
<1>4. FromMembers(s, P, subs)
  BY <1>2, <1>3, PlacedPrints
<1> QED BY <1>1, <1>4

LEMMA TitledRange ==
  ASSUME NEW title, NEW s, Sequence(s), NEW y \in Range(<<title>> \o s)
  PROVE  y = title \/ y \in Range(s)
<1>1. PICK t : t = <<title>> \o s
  OBVIOUS
<1>2. PICK l \in Nat : l = Len(s) /\ DOMAIN s = 1 .. l
  BY SequenceFacts
<1>3. /\ Sequence(t) /\ Len(t) = 1 + l /\ t[1] = title
      /\ \A i \in 1 .. l : t[1 + i] = s[i]
  <2>1. Sequence(t)
    BY <1>1, StepBefore
  <2>2. Len(t) = 1 + Len(s) /\ t[1] = title /\ \A i \in 1 .. Len(s) : t[1 + i] = s[i]
    BY <1>1, StepBefore
  <2> QED BY <1>2, <2>1, <2>2
<1>4. PICK i \in 1 .. 1 + l : t[i] = y
  <2>1. DOMAIN t = 1 .. 1 + l
    BY <1>3, SequenceFacts
  <2> QED BY <1>1, <2>1 DEF Range
<1>5. CASE i # 1
  <2>1. i - 1 \in 1 .. l /\ i = 1 + (i - 1)
    BY <1>5
  <2>2. y = s[i - 1]
    BY <1>3, <1>4, <2>1
  <2> QED BY <1>2, <2>1, <2>2 DEF Range
<1> QED BY <1>3, <1>4, <1>5

LEMMA PushedRange ==
  ASSUME NEW k, NEW s, NEW y \in Range(Pushed(k, s))
  PROVE  \E x \in Range(s) : y = Push(k, x)
BY DEF Pushed, Push, Range

LEMMA TablesStacked ==
  ASSUME Built, NEW a \in DOMAIN heap, heap[a].sort # "t", heap[a].kind = "t",
         \A m \in DOMAIN heap : a < m => Stacked(print_toml[m]), NEW k
  PROVE  Stacked(CatTables(print_toml, a, k))
<1>1. PICK Q : InOrder(a, Q)
  BY PlacesInOrder
<1>2. PICK subs, s : subs = TitledSubs(print_toml, Q, k) /\ s = CatTables(print_toml, a, k)
  OBVIOUS
<1>3. ASSUME NEW i \in DOMAIN Q
      PROVE  \E d \in DOMAIN heap : /\ a < d /\ Held(heap, Q[i]).id = d /\ EndsAt(Q[i]) = CatEnds[d]
                                    /\ subs[i] = <<Title({k})>> \o print_toml[d]
  <2>1. Q[i] \in PlacesIn(heap) /\ Q[i][1] = a /\ SortHeld(heap, Q[i]) = "t"
    BY <1>1, OrderFacts, ArrayPlace
  <2>2. PICK d \in DOMAIN heap : d = Held(heap, Q[i]).id /\ a < d
    BY <2>1, NodeBelow DEF Built
  <2>3. subs[i] = <<Title({k})>> \o print_toml[d]
    BY <1>2, <2>2 DEF TitledSubs
  <2>4. Q[i] \notin TablePlaces /\ EndsAt(Q[i]) = CatEnds[d]
    BY <2>1, <2>2, EndsThere DEF TablePlaces
  <2> QED BY <2>2, <2>3, <2>4
<1>4. ASSUME NEW i \in DOMAIN Q PROVE Prints(subs[i], EndsAt(Q[i]))
  <2>1. PICK d \in DOMAIN heap : /\ EndsAt(Q[i]) = CatEnds[d]
                                 /\ subs[i] = <<Title({k})>> \o print_toml[d]
    BY <1>3
  <2>2. PICK lines, E : lines = print_toml[d] /\ E = CatEnds[d]
    OBVIOUS
  <2>3. Prints(lines, E) /\ \A x \in Range(lines) : x.path # <<>>
    BY <2>2, AllCatLists, NotEmpty DEF CatLists
  <2>4. Prints(<<Title({k})>> \o lines, Heading({k}) \union E)
    BY <2>3, TitledPrints
  <2>5. Heading({k}) \union E = E
    BY DEF Heading
  <2> QED BY <2>1, <2>2, <2>4, <2>5
<1>5. s = FlattenSeq(Placed(Along(Q), subs, Len(Q)))
  BY <1>1, <1>2, CatTablesShape
<1>6. FromMembers(s, Q, subs)
  BY <1>1, <1>4, <1>5, PlacedPrints
<1>7. ASSUME NEW x \in Range(s) PROVE KeyForEach(x)
  <2>0. PICK i \in DOMAIN Q : \E y \in Range(subs[i]) :
          CatItem(y) /\ x = Under(Onto(heap, Q[i]), y)
    BY <1>6 DEF FromMembers
  <2>1. PICK y \in Range(subs[i]) : CatItem(y) /\ x = Under(Onto(heap, Q[i]), y)
    BY <2>0
  <2>2. PICK d \in DOMAIN heap : a < d /\ subs[i] = <<Title({k})>> \o print_toml[d]
    BY <1>3
  <2>3. PICK title, lines : title = Title({k}) /\ lines = print_toml[d]
    OBVIOUS
  <2>4. Sequence(lines) /\ Stacked(lines)
    BY <1>3, <2>2, <2>3, AllCatLists DEF CatLists, Prints, Listing, Sequence
  <2>5. y = title \/ y \in Range(lines)
    BY <2>2, <2>3, <2>4, TitledRange
  <2>6. KeyForEach(title)
    <3>1. title.arrname = {k}
      BY <2>3, TitleItem
    <3> QED BY <3>1 DEF KeyForEach, Pushes
  <2>7. KeyForEach(y)
    BY <2>4, <2>5, <2>6 DEF Stacked
  <2>8. PICK step : step = Onto(heap, Q[i]) /\ step.at # 0
    <3>1. Q[i] \in PlacesIn(heap) /\ Q[i][1] = a
      BY <1>1, OrderFacts
    <3>2. Onto(heap, Q[i]).at # 0
      BY <3>1, StepKind DEF Built
    <3> QED BY <3>2
  <2>9. KeyForEach(Under(step, y))
    BY <2>1, <2>7, <2>8, UnderStacked DEF Counts
  <2> QED BY <2>1, <2>8, <2>9
<1> QED BY <1>2, <1>7 DEF Stacked

LEMMA MemberStacked ==
  ASSUME Built, NEW p \in PlacesIn(heap),
         \A m \in DOMAIN heap : p[1] < m => Stacked(print_toml[m]),
         NEW y \in Range(CatSub(print_toml, p)), CatItem(y)
  PROVE  KeyForEach(Under(Onto(heap, p), y))
<1>0. DOMAIN heap \subseteq Nat /\ p[1] \in DOMAIN heap
  BY HeapDomain, PlaceFacts DEF Built, Tree
<1>1. CASE SortHeld(heap, p) = "v"
  <2>1. PICK x : x = ValueLine /\ y \in Range(<<x>>)
    BY <1>1 DEF CatSub
  <2>2. Range(<<x>>) = {x}
    BY ListsOne, ListedRange
  <2>3. y.line = "value"
    BY <2>1, <2>2, ValueLineItem
  <2>4. Under(Onto(heap, p), y).line = "value"
    BY <2>3, UnderItem
  <2> QED BY <2>4 DEF KeyForEach, Pushes
<1>2. CASE SortHeld(heap, p) # "v"
  <2>1. PICK d \in DOMAIN heap : /\ d = Held(heap, p).id /\ p[1] < d
                                 /\ heap[d].sort = SortHeld(heap, p)
    BY <1>2, NodeBelow DEF Built
  <2>2. PICK lines, step : lines = print_toml[d] /\ step = Onto(heap, p)
    OBVIOUS
  <2>3. /\ Stacked(lines) /\ Sequence(lines) /\ AllFrom(d, lines)
        /\ \A x \in Range(lines) : CatItem(x)
    BY <2>1, <2>2, AllCatLists DEF CatLists, Prints, Listing, Sequence
  <2>4. step.at = 0 <=> heap[p[1]].sort = "t"
    BY <2>2, StepKind DEF Built
  <2>5. CASE heap[p[1]].sort # "t"
    <3>1. y \in Range(lines)
      BY <1>2, <2>1, <2>2, <2>5 DEF CatSub
    <3>2. ~ Counts(step, y.path)
      BY <2>4, <2>5 DEF Counts
    <3>3. KeyForEach(y)
      BY <2>3, <3>1 DEF Stacked
    <3> QED BY <2>2, <3>2, <3>3, UnderStacked
  <2>6. CASE heap[p[1]].sort = "t" /\ SortHeld(heap, p) = "t"
    <3>1. PICK k, title : k = step.key /\ title = Title({})
      OBVIOUS
    <3>2. y \in Range(Pushed(k, <<title>> \o lines))
      BY <2>1, <2>2, <2>6, <3>1 DEF CatSub
    <3>3. PICK x \in Range(<<title>> \o lines) : y = Push(k, x)
      BY <3>2, PushedRange
    <3>4. x = title \/ x \in Range(lines)
      BY <2>3, TitledRange
    <3>5. step = ByKey(k)
      BY <2>2, <2>6, <3>1 DEF Onto, ByKey
    <3>6. CASE x = title
      <4>1. /\ CatItem(x) /\ x.path = <<>> /\ x.line = "title" /\ x.keys = <<>>
            /\ x.arrname = {}
        BY <3>1, <3>6, TitleItem
      <4>2. KeyForEach(x)
        <5>1. ByTables(<<>>) = {}
          BY DEF ByTables
        <5>2. Cardinality(ByTables(<<>>)) = 0 /\ Len(<<>>) = 0
          BY <5>1, FS_EmptySet
        <5> QED BY <4>1, <5>2 DEF KeyForEach
      <4>3. KeyForEach(Under(ByKey(k), Push(k, x)))
        BY <4>1, <4>2, PushedStacked
      <4> QED BY <2>2, <3>3, <3>5, <4>3
    <3>7. CASE x \in Range(lines)
      <4>1. x.path[1].at = 0
        BY <2>1, <2>3, <2>6, <3>7, FirstStep
      <4>2. KeyForEach(Under(ByKey(k), Push(k, x)))
        BY <2>3, <3>7, <4>1, PushedStacked DEF Stacked
      <4> QED BY <2>2, <3>3, <3>5, <4>2
    <3> QED BY <3>4, <3>6, <3>7
  <2>7. CASE heap[p[1]].sort = "t" /\ SortHeld(heap, p) # "t"
    <3>1. AllFrom(d, CatSub(print_toml, p)) /\ Stacked(CatSub(print_toml, p))
      <4>1. CASE heap[d].kind = "t"
        <5>1. PICK k, s : k = step.key /\ s = CatTables(print_toml, d, k)
          OBVIOUS
        <5>2. CatSub(print_toml, p) = s
          BY <1>2, <2>1, <2>2, <2>7, <4>1, <5>1 DEF CatSub
        <5>3. \A m \in DOMAIN heap : d < m => Stacked(print_toml[m])
          BY <1>0, <2>1
        <5>4. Stacked(s)
          BY <2>1, <2>7, <4>1, <5>1, <5>3, TablesStacked
        <5>5. AllFrom(d, s)
          BY <2>1, <2>7, <4>1, <5>1, AllCatLists, CatTablesPrints
        <5> QED BY <5>2, <5>4, <5>5
      <4>2. CASE heap[d].kind # "t"
        <5>1. CatSub(print_toml, p) = lines
          BY <1>2, <2>1, <2>2, <2>7, <4>2 DEF CatSub
        <5> QED BY <2>3, <5>1
      <4> QED BY <4>1, <4>2
    <3>2. y.path # <<>> /\ y.path[1].at # 0
      BY <2>1, <2>7, <3>1, FirstStep
    <3>3. ~ Counts(step, y.path)
      BY <3>2 DEF Counts
    <3>4. KeyForEach(y)
      BY <3>1 DEF Stacked
    <3> QED BY <2>2, <3>3, <3>4, UnderStacked
  <2> QED BY <2>5, <2>6, <2>7
<1> QED BY <1>1, <1>2

LEMMA AllStacked ==
  ASSUME Built
  PROVE  \A n \in DOMAIN heap : Stacked(print_toml[n])
<1>1. PICK l \in Nat : DOMAIN heap = 1 .. l
  BY HeapDomain DEF Built, Tree
<1>2. PICK G : G = {n \in DOMAIN heap : Stacked(print_toml[n])}
  OBVIOUS
<1>3. ASSUME NEW n \in 1 .. l, \A m \in 1 .. l : n < m => m \in G PROVE n \in G
  <2>1. \A m \in DOMAIN heap : n < m => Stacked(print_toml[m])
    BY <1>1, <1>2, <1>3
  <2>2. PICK P : InOrder(n, P)
    BY <1>1, PlacesInOrder
  <2>3. FromMembers(print_toml[n], P, CatSubs(print_toml, P))
    BY <1>1, <2>2, CatNodeFrom
  <2>4. ASSUME NEW x \in Range(print_toml[n]) PROVE KeyForEach(x)
    <3>0. PICK i \in DOMAIN P : \E y \in Range(CatSubs(print_toml, P)[i]) :
            CatItem(y) /\ x = Under(Onto(heap, P[i]), y)
      BY <2>3, <2>4 DEF FromMembers
    <3>1. PICK y \in Range(CatSubs(print_toml, P)[i]) :
            CatItem(y) /\ x = Under(Onto(heap, P[i]), y)
      BY <3>0
    <3>2. PICK p \in PlacesIn(heap) : p = P[i] /\ p[1] = n
      <4>1. P[i] \in PlacesIn(heap) /\ P[i][1] = n
        BY <1>1, <2>2, OrderFacts
      <4> QED BY <4>1
    <3>3. y \in Range(CatSub(print_toml, p))
      BY <3>1, <3>2 DEF CatSubs
    <3>4. \A m \in DOMAIN heap : p[1] < m => Stacked(print_toml[m])
      BY <2>1, <3>2
    <3>5. KeyForEach(Under(Onto(heap, p), y))
      BY <3>1, <3>3, <3>4, MemberStacked
    <3> QED BY <3>1, <3>2, <3>5
  <2> QED BY <1>1, <1>2, <2>4 DEF Stacked
<1>4. \A n \in 1 .. l : n \in G
  BY <1>3, NewestFirst
<1> QED BY <1>1, <1>2, <1>4

-----------------------------------------------------------------------------
(* The titles.  A pair of a table that no array leads to is below the      *)
(* title of that table, or above all titles where it needs none.           *)
PlainValue(L, i) == L[i].line = "value" /\ Plain(L[i].path)
HasTitle(L, i) ==
  \E m \in 1 .. i : /\ L[m].line = "title" /\ Keys(Front(L[i].path)) = L[m].keys
                    /\ \A j \in m + 1 .. i : L[j].line # "title"
Untitled(L, i) ==
  Keys(Front(L[i].path)) = <<>> /\ \A j \in 1 .. i : L[j].line # "title"
Headed(L) == \A i \in DOMAIN L : PlainValue(L, i) => HasTitle(L, i)
Ordered(L) == \A i \in DOMAIN L : PlainValue(L, i) => HasTitle(L, i) \/ Untitled(L, i)
NoTitles(L) == \A i \in DOMAIN L : L[i].line # "title"

LEMMA OrderedJoined ==
  ASSUME NEW s, Sequence(s), NEW t, Sequence(t), Ordered(s),
         Headed(t) \/ (Ordered(t) /\ NoTitles(s))
  PROVE  Ordered(s \o t)
<1>1. PICK a \in Nat, b \in Nat :
        a = Len(s) /\ b = Len(t) /\ DOMAIN s = 1 .. a /\ DOMAIN t = 1 .. b
  BY SequenceFacts
<1>2. PICK l : l = s \o t
  OBVIOUS
<1>3. DOMAIN l = 1 .. a + b /\ \A i \in 1 .. a + b : l[i] = IF i <= a THEN s[i] ELSE t[i - a]
  BY <1>1, <1>2, JoinedSequences
<1>4. \A i \in 1 .. a : l[i] = s[i]
  BY <1>3
<1>5. \A i \in 1 .. b : l[a + i] = t[i]
  <2> SUFFICES ASSUME NEW i \in 1 .. b PROVE l[a + i] = t[i]
    OBVIOUS
  <2>1. a + i \in 1 .. a + b /\ ~ a + i <= a /\ (a + i) - a = i
    OBVIOUS
  <2> QED BY <1>3, <2>1
<1>6. ASSUME NEW i \in 1 .. a, PlainValue(l, i) PROVE HasTitle(l, i) \/ Untitled(l, i)
  <2>1. PlainValue(s, i) /\ l[i] = s[i]
    BY <1>4, <1>6 DEF PlainValue
  <2>2. \A j \in 1 .. i : l[j] = s[j] /\ j \in 1 .. a
    BY <1>4
  <2>3. CASE HasTitle(s, i)
    <3>1. PICK m \in 1 .. i : /\ s[m].line = "title" /\ Keys(Front(s[i].path)) = s[m].keys
                              /\ \A j \in m + 1 .. i : s[j].line # "title"
      BY <2>3 DEF HasTitle
    <3>2. \A j \in m + 1 .. i : l[j].line # "title"
      BY <2>2, <3>1
    <3> QED BY <2>1, <2>2, <3>1, <3>2 DEF HasTitle
  <2>4. CASE Untitled(s, i)
    BY <2>1, <2>2, <2>4 DEF Untitled
  <2> QED BY <1>1, <2>1, <2>3, <2>4 DEF Ordered
<1>7. ASSUME NEW c \in 1 .. b, PlainValue(l, a + c)
      PROVE  HasTitle(l, a + c) \/ Untitled(l, a + c)
  <2>1. PlainValue(t, c) /\ l[a + c] = t[c]
    BY <1>5, <1>7 DEF PlainValue
  <2>2. ASSUME NEW j \in 1 .. a + c, a < j PROVE \E k \in 1 .. c : k = j - a /\ l[j] = t[k]
    <3>1. PICK k \in 1 .. c : k = j - a /\ j = a + k
      BY <2>2
    <3> QED BY <1>5, <3>1
  <2>3. CASE HasTitle(t, c)
    <3>1. PICK m \in 1 .. c : /\ t[m].line = "title" /\ Keys(Front(t[c].path)) = t[m].keys
                              /\ \A j \in m + 1 .. c : t[j].line # "title"
      BY <2>3 DEF HasTitle
    <3>2. ASSUME NEW j \in (a + m) + 1 .. a + c PROVE l[j].line # "title"
      <4>1. PICK k \in 1 .. c : k = j - a /\ l[j] = t[k]
        BY <2>2
      <4> QED BY <3>1, <4>1
    <3>3. PICK n \in 1 .. a + c : n = a + m
      OBVIOUS
    <3>4. l[n] = t[m]
      BY <1>5, <3>3
    <3> QED BY <2>1, <3>1, <3>2, <3>3, <3>4 DEF HasTitle
  <2>4. CASE Untitled(t, c) /\ NoTitles(s)
    <3>1. ASSUME NEW j \in 1 .. a + c PROVE l[j].line # "title"
      <4>1. CASE j <= a
        BY <1>1, <1>4, <2>4, <4>1 DEF NoTitles
      <4>2. CASE a < j
        BY <2>2, <2>4, <4>2 DEF Untitled
      <4> QED BY <4>1, <4>2
    <3> QED BY <2>1, <2>4, <3>1 DEF Untitled
  <2>5. HasTitle(t, c) \/ (Untitled(t, c) /\ NoTitles(s))
    <3>1. CASE Headed(t)
      BY <1>1, <2>1, <3>1 DEF Headed
    <3>2. CASE Ordered(t) /\ NoTitles(s)
      BY <1>1, <2>1, <3>2 DEF Ordered
    <3> QED BY <3>1, <3>2
  <2> QED BY <2>3, <2>4, <2>5
<1>8. ASSUME NEW i \in 1 .. a + b, PlainValue(l, i) PROVE HasTitle(l, i) \/ Untitled(l, i)
  <2>1. CASE i <= a
    BY <1>6, <1>8, <2>1
  <2>2. CASE a < i
    <3>1. PICK c \in 1 .. b : i = a + c
      <4>1. i - a \in 1 .. b /\ i = a + (i - a)
        BY <2>2
      <4> QED BY <4>1
    <3> QED BY <1>7, <1>8, <3>1
  <2> QED BY <2>1, <2>2
<1> QED BY <1>2, <1>3, <1>8 DEF Ordered

LEMMA NoTitlesJoined ==
  ASSUME NEW s, Sequence(s), NEW t, Sequence(t), NoTitles(s), NoTitles(t)
  PROVE  NoTitles(s \o t)
<1>1. PICK a \in Nat, b \in Nat :
        a = Len(s) /\ b = Len(t) /\ DOMAIN s = 1 .. a /\ DOMAIN t = 1 .. b
  BY SequenceFacts
<1>2. PICK l : l = s \o t
  OBVIOUS
<1>3. DOMAIN l = 1 .. a + b /\ \A i \in 1 .. a + b : l[i] = IF i <= a THEN s[i] ELSE t[i - a]
  BY <1>1, <1>2, JoinedSequences
<1>4. ASSUME NEW i \in 1 .. a + b PROVE l[i].line # "title"
  <2>1. CASE i <= a
    BY <1>1, <1>3, <2>1 DEF NoTitles
  <2>2. CASE ~ i <= a
    <3>1. i - a \in 1 .. b
      BY <2>2
    <3> QED BY <1>1, <1>3, <2>2, <3>1 DEF NoTitles
  <2> QED BY <2>1, <2>2
<1> QED BY <1>2, <1>3, <1>4 DEF NoTitles

(* A part has titles of its own, or all before it have none.               *)
InTurn(seqs, k) ==
  /\ Sequence(seqs[k])
  /\ Headed(seqs[k]) \/ (Ordered(seqs[k]) /\ \A j \in 1 .. k : NoTitles(seqs[j]))
JoinedUpTo(seqs, f, i) ==
  /\ Sequence(f[i]) /\ Ordered(f[i])
  /\ (\A j \in 1 .. i : NoTitles(seqs[j])) => NoTitles(f[i])

LEMMA FlatOrdered ==
  ASSUME NEW seqs, NEW l \in Nat, DOMAIN seqs = 1 .. l, Sequence(seqs),
         \A k \in 1 .. l : InTurn(seqs, k)
  PROVE  Ordered(FlattenSeq(seqs))
<1>1. Len(seqs) = l
  BY DomainLen
<1>2. CASE l = 0
  <2>1. FlattenSeq(seqs) = seqs
    BY <1>1, <1>2 DEF FlattenSeq
  <2> QED BY <1>2, <2>1 DEF Ordered
<1>3. CASE l # 0
  <2>1. \E f : f = [i \in 1 .. Len(seqs) |-> Flat(seqs, f, i)]
    BY <1>1, FlatExists DEF FlatUpTo
  <2>2. PICK f : f = [i \in 1 .. l |-> Flat(seqs, f, i)] /\ FlattenSeq(seqs) = f[l]
    BY <1>1, <1>3, <2>1 DEF FlattenSeq, Flat
  <2>3. PICK Other : Other = {i \in 1 .. l : ~ JoinedUpTo(seqs, f, i)}
    OBVIOUS
  <2>4. Other = {}
    <3>0. Other \in SUBSET Nat
      BY <2>3
    <3> SUFFICES ASSUME Other # {} PROVE FALSE
      OBVIOUS
    <3>1. PICK i \in Other : \A j \in Other : i <= j
      BY <3>0, Least
    <3>2. i \in 1 .. l /\ ~ JoinedUpTo(seqs, f, i) /\ f[i] = Flat(seqs, f, i) /\ InTurn(seqs, i)
      BY <2>2, <2>3
    <3>3. PICK t : t = seqs[i] /\ Sequence(t) /\ Ordered(t)
      BY <3>2 DEF InTurn, Headed, Ordered
    <3>4. CASE i = 1
      BY <3>2, <3>3, <3>4 DEF Flat, JoinedUpTo
    <3>5. CASE i # 1
      <4>1. i - 1 \in 1 .. l /\ i - 1 \notin Other /\ \A j \in 1 .. i - 1 : j \in 1 .. i
        BY <3>1, <3>2, <3>5
      <4>2. JoinedUpTo(seqs, f, i - 1)
        BY <2>3, <4>1
      <4>3. PICK s : s = f[i - 1] /\ f[i] = s \o t /\ Sequence(s) /\ Ordered(s)
        BY <3>2, <3>3, <3>5, <4>2 DEF Flat, JoinedUpTo
      <4>4. (\A j \in 1 .. i : NoTitles(seqs[j])) => NoTitles(s) /\ NoTitles(t)
        BY <3>2, <3>3, <4>1, <4>2, <4>3 DEF JoinedUpTo
      <4>5. Headed(t) \/ (Ordered(t) /\ NoTitles(s))
        BY <3>2, <3>3, <4>4 DEF InTurn
      <4>6. Ordered(s \o t)
        BY <3>3, <4>3, <4>5, OrderedJoined
      <4>7. Sequence(s \o t)
        BY <3>3, <4>3, JoinedSequences
      <4>8. NoTitles(s) /\ NoTitles(t) => NoTitles(s \o t)
        BY <3>3, <4>3, NoTitlesJoined
      <4> QED BY <3>2, <4>3, <4>4, <4>6, <4>7, <4>8 DEF JoinedUpTo
    <3> QED BY <3>4, <3>5
  <2>5. l \in 1 .. l
    BY <1>3
  <2>6. JoinedUpTo(seqs, f, l)
    BY <2>3, <2>4, <2>5
  <2> QED BY <2>2, <2>6 DEF JoinedUpTo
<1> QED BY <1>2, <1>3

(* The keys of a way that gains a step.                                    *)
LEMMA AppendedFront ==
  ASSUME NEW w, Sequence(w), w # <<>>
  PROVE  \E u, x : Sequence(u) /\ w = Append(u, x)
<1>1. Len(w) \in Nat /\ DOMAIN w = 1 .. Len(w)
  BY SequenceFacts
<1>2. Len(w) # 0
  BY <1>1, EmptySeq DEF Sequence
<1>3. PICK l \in Nat : Len(w) = l + 1
  <2>1. Len(w) - 1 \in Nat /\ Len(w) = (Len(w) - 1) + 1
    BY <1>1, <1>2
  <2> QED BY <2>1
<1>4. PICK u, x : u = [i \in 1 .. l |-> w[i]] /\ x = w[l + 1]
  OBVIOUS
<1>5. Sequence(u) /\ DOMAIN u = 1 .. l /\ \A i \in 1 .. l : u[i] = w[i]
  BY <1>4, FunctionSequence
<1>6. Len(u) = l
  BY <1>5, DomainLen
<1>7. PICK t : t = Append(u, x)
  OBVIOUS
<1>8. Sequence(t) /\ Len(t) = l + 1 /\ t[l + 1] = x /\ \A i \in 1 .. l : t[i] = w[i]
  BY <1>5, <1>6, <1>7, AppendSequence
<1> DEFINE S == Range(w) \union Range(t)
<1>9. w \in Seq(S) /\ t \in Seq(S)
  BY <1>8, SeqMonotonic DEF Sequence
<1> HIDE DEF S
<1>10. \A i \in 1 .. l + 1 : t[i] = w[i]
  <2>1. \A i \in 1 .. l + 1 : i \in 1 .. l \/ i = l + 1
    BY <1>3
  <2> QED BY <1>4, <1>8, <2>1
<1>11. t = w
  BY <1>3, <1>8, <1>9, <1>10, SeqEqual
<1> QED BY <1>5, <1>7, <1>11

LEMMA KeysOnward ==
  ASSUME NEW step, NEW w, Sequence(w), NEW t, t = <<step>> \o w
  PROVE  /\ Keys(t) = <<step.key>> \o Keys(w) /\ Sequence(Keys(w))
         /\ Plain(t) <=> step.at = 0 /\ Plain(w)
<1>1. PICK l \in Nat : l = Len(w) /\ DOMAIN w = 1 .. l
  BY SequenceFacts
<1>2. /\ Sequence(t) /\ Len(t) = 1 + l /\ t[1] = step
      /\ \A i \in 1 .. l : t[1 + i] = w[i]
  <2>1. Sequence(t)
    BY StepBefore
  <2>2. Len(t) = 1 + Len(w) /\ t[1] = step /\ \A i \in 1 .. Len(w) : t[1 + i] = w[i]
    BY StepBefore
  <2> QED BY <1>1, <2>1, <2>2
<1>3. DOMAIN t = 1 .. 1 + l
  BY <1>2, SequenceFacts
<1>4. PICK kw, kt : kw = Keys(w) /\ kt = Keys(t)
  OBVIOUS
<1>5. Sequence(kw) /\ DOMAIN kw = 1 .. l /\ \A i \in 1 .. l : kw[i] = w[i].key
  <2>1. kw = [i \in 1 .. l |-> w[i].key]
    BY <1>1, <1>4 DEF Keys
  <2>2. kw = [i \in 1 .. l |-> kw[i]]
    BY <2>1
  <2> QED BY <2>1, <2>2, FunctionSequence
<1>6. Sequence(kt) /\ DOMAIN kt = 1 .. 1 + l /\ \A i \in 1 .. 1 + l : kt[i] = t[i].key
  <2>1. PICK n \in Nat : n = 1 + l
    OBVIOUS
  <2>2. kt = [i \in 1 .. n |-> t[i].key]
    BY <1>3, <1>4, <2>1 DEF Keys
  <2>3. kt = [i \in 1 .. n |-> kt[i]]
    BY <2>2
  <2>4. Sequence(kt) /\ DOMAIN kt = 1 .. n
    BY <2>3, FunctionSequence
  <2> QED BY <2>1, <2>2, <2>4
<1>7. Len(kw) = l /\ Len(kt) = 1 + l
  <2>1. 1 + l \in Nat
    OBVIOUS
  <2> QED BY <1>5, <1>6, <2>1, DomainLen
<1>8. PICK name, u : name = step.key /\ u = <<name>> \o kw
  OBVIOUS
<1>9. Sequence(u) /\ Len(u) = 1 + l /\ u[1] = step.key /\ \A i \in 1 .. l : u[1 + i] = kw[i]
  <2>1. Sequence(kw)
    BY <1>5
  <2>2. Sequence(u)
    BY <1>8, <2>1, StepBefore
  <2>3. Len(u) = 1 + Len(kw) /\ u[1] = name /\ \A i \in 1 .. Len(kw) : u[1 + i] = kw[i]
    BY <1>8, <2>1, StepBefore
  <2> QED BY <1>7, <1>8, <2>2, <2>3
<1>10. ASSUME NEW i \in 1 .. 1 + l PROVE i = 1 \/ \E j \in 1 .. l : i = 1 + j
  <2>1. i # 1 => i - 1 \in 1 .. l /\ i = 1 + (i - 1)
    OBVIOUS
  <2> QED BY <2>1
<1>11. \A j \in 1 .. l : 1 + j \in 1 .. 1 + l
  OBVIOUS
<1>12. ASSUME NEW i \in 1 .. 1 + l PROVE kt[i] = u[i]
  <2>1. CASE i = 1
    BY <1>2, <1>6, <1>9, <2>1
  <2>2. ASSUME NEW j \in 1 .. l, i = 1 + j PROVE kt[i] = u[i]
    BY <1>2, <1>5, <1>6, <1>9, <2>2
  <2> QED BY <1>10, <2>1, <2>2
<1> DEFINE S == Range(kt) \union Range(u)
<1>13. kt \in Seq(S) /\ u \in Seq(S)
  BY <1>6, <1>9, SeqMonotonic DEF Sequence
<1> HIDE DEF S
<1>14. kt = u
  BY <1>7, <1>9, <1>12, <1>13, SeqEqual
<1>15. Plain(t) <=> step.at = 0 /\ Plain(w)
  <2>1. ASSUME Plain(t) PROVE step.at = 0 /\ Plain(w)
    <3>1. \A i \in 1 .. 1 + l : t[i].at = 0
      BY <1>3, <2>1 DEF Plain
    <3>2. t[1].at = 0
      BY <3>1
    <3>3. ASSUME NEW j \in 1 .. l PROVE w[j].at = 0
      <4>1. t[1 + j].at = 0
        BY <1>11, <3>1
      <4> QED BY <1>2, <4>1
    <3> QED BY <1>1, <1>2, <3>2, <3>3 DEF Plain
  <2>2. ASSUME step.at = 0, Plain(w) PROVE Plain(t)
    <3>1. ASSUME NEW i \in 1 .. 1 + l PROVE t[i].at = 0
      <4>1. CASE i = 1
        BY <1>2, <2>2, <4>1
      <4>2. ASSUME NEW j \in 1 .. l, i = 1 + j PROVE t[i].at = 0
        BY <1>1, <1>2, <2>2, <4>2 DEF Plain
      <4> QED BY <1>10, <4>1, <4>2
    <3> QED BY <1>3, <3>1 DEF Plain
  <2> QED BY <2>1, <2>2
<1> QED BY <1>4, <1>5, <1>8, <1>14, <1>15

LEMMA FrontOnward ==
  ASSUME NEW step, NEW w, Sequence(w), w # <<>>, NEW t, t = <<step>> \o w
  PROVE  Keys(Front(t)) = <<step.key>> \o Keys(Front(w))
<1>1. PICK u, x : Sequence(u) /\ w = Append(u, x)
  BY AppendedFront
<1>2. Front(w) = u
  BY <1>1, LastAndFront
<1>3. PICK s, one, last : s = <<step>> \o u /\ one = <<step>> /\ last = <<x>>
  OBVIOUS
<1>4. Sequence(one) /\ Sequence(last) /\ Sequence(s)
  BY <1>1, <1>3, OneSequence, StepBefore
<1>5. w = u \o last
  BY <1>1, <1>3, JoinedStep
<1>6. t = s \o last
  <2>1. t = one \o (u \o last)
    BY <1>3, <1>5
  <2>2. s = one \o u
    BY <1>3
  <2>3. Sequence(one) /\ Sequence(u) /\ Sequence(last)
    BY <1>1, <1>4
  <2>4. (one \o u) \o last = one \o (u \o last)
    BY <2>3, JoinedOnward, SMTT(30)
  <2> QED BY <2>1, <2>2, <2>4
<1>7. t = Append(s, x)
  BY <1>3, <1>4, <1>6, JoinedStep
<1>8. Front(t) = s
  BY <1>4, <1>7, LastAndFront
<1>9. Keys(s) = <<step.key>> \o Keys(u)
  BY <1>1, <1>3, KeysOnward
<1> QED BY <1>2, <1>8, <1>9

(* The lines of a member, seen from the node that holds it.                *)
LEMMA LinesBelow ==
  ASSUME NEW s, Sequence(s), \A i \in DOMAIN s : CatItem(s[i]), NEW step
  PROVE  /\ Sequence(Below(step, s)) /\ DOMAIN Below(step, s) = DOMAIN s
         /\ \A i \in DOMAIN s : /\ Below(step, s)[i].line = s[i].line
                                /\ Below(step, s)[i].path = <<step>> \o s[i].path
                                /\ s[i].line = "title" => Below(step, s)[i].keys = s[i].keys
<1>0. PICK v : v = Below(step, s)
  OBVIOUS
<1>1. PICK l \in Nat : DOMAIN s = 1 .. l
  BY SequenceFacts
<1>2. v = [i \in 1 .. l |-> Under(step, s[i])]
  BY <1>0, <1>1 DEF Below, Under
<1>3. v = [i \in 1 .. l |-> v[i]]
  BY <1>2
<1>4. Sequence(v) /\ DOMAIN v = 1 .. l
  BY <1>3, FunctionSequence
<1>5. ASSUME NEW i \in 1 .. l
      PROVE  /\ v[i].line = s[i].line /\ v[i].path = <<step>> \o s[i].path
             /\ s[i].line = "title" => v[i].keys = s[i].keys
  <2>1. PICK x : x = s[i]
    OBVIOUS
  <2>2. CatItem(x)
    BY <1>1, <2>1
  <2>3. /\ Under(step, x).path = <<step>> \o x.path /\ Under(step, x).line = x.line
        /\ x.line = "title" => Under(step, x).keys = x.keys
    BY <2>2, UnderItem
  <2>4. v[i] = Under(step, x)
    BY <1>2, <2>1
  <2> QED BY <2>1, <2>3, <2>4
<1> QED BY <1>0, <1>1, <1>4, <1>5

LEMMA ValueSegment ==
  ASSUME NEW step, NEW v, v = Below(step, <<ValueLine>>)
  PROVE  Sequence(v) /\ Ordered(v) /\ NoTitles(v)
<1>1. PICK x, s : x = ValueLine /\ s = <<x>>
  OBVIOUS
<1>2. CatItem(x) /\ x.path = <<>> /\ x.line = "value"
  BY <1>1, ValueLineItem
<1>3. Sequence(s) /\ Len(s) = 1 /\ s[1] = x
  BY <1>1, OneSequence
<1>4. DOMAIN s = 1 .. 1 /\ \A i \in 1 .. 1 : i = 1
  BY <1>3, SequenceFacts
<1>5. \A i \in DOMAIN s : CatItem(s[i])
  BY <1>2, <1>3, <1>4
<1>6. v = Below(step, s)
  BY <1>1
<1>7. /\ Sequence(v) /\ DOMAIN v = DOMAIN s
      /\ \A i \in DOMAIN s : v[i].line = s[i].line /\ v[i].path = <<step>> \o s[i].path
  <2>1. Sequence(s)
    BY <1>3
  <2>2. /\ Sequence(Below(step, s)) /\ DOMAIN Below(step, s) = DOMAIN s
        /\ \A i \in DOMAIN s : /\ Below(step, s)[i].line = s[i].line
                               /\ Below(step, s)[i].path = <<step>> \o s[i].path
    BY <1>5, <2>1, LinesBelow
  <2> QED BY <1>6, <2>2
<1>8. PICK w : w = v[1].path
  OBVIOUS
<1>9. w = Append(<<>>, step)
  <2>1. 1 \in DOMAIN s
    BY <1>4
  <2>2. w = <<step>> \o <<>>
    BY <1>2, <1>3, <1>7, <1>8, <2>1
  <2> QED BY <2>2
<1>10. Front(w) = <<>>
  BY <1>9, LastAndFront, EmptySequence
<1>11. Keys(<<>>) = <<>>
  BY DEF Keys
<1>12. NoTitles(v)
  BY <1>2, <1>3, <1>4, <1>7 DEF NoTitles
<1>13. ASSUME NEW i \in DOMAIN v PROVE Untitled(v, i)
  <2>1. i = 1 /\ DOMAIN v = 1 .. 1
    BY <1>4, <1>7
  <2>2. \A j \in 1 .. i : v[j].line # "title"
    BY <1>12, <2>1 DEF NoTitles
  <2> QED BY <1>8, <1>10, <1>11, <2>1, <2>2 DEF Untitled
<1> QED BY <1>7, <1>12, <1>13 DEF Ordered

(* An array leads to all that is in it.                                    *)
LEMMA ArraySegment ==
  ASSUME Built, NEW a \in DOMAIN heap, heap[a].sort # "t", NEW s, NEW E, Prints(s, E),
         AllFrom(a, s), NEW step, NEW v, v = Below(step, s)
  PROVE  Sequence(v) /\ Headed(v)
<1>1. Sequence(s) /\ \A i \in DOMAIN s : s[i] \in Range(s) /\ CatItem(s[i])
  BY DEF Prints, Listing, Sequence, Range
<1>2. /\ Sequence(v) /\ DOMAIN v = DOMAIN s
      /\ \A i \in DOMAIN s : v[i].path = <<step>> \o s[i].path
  <2>1. /\ Sequence(Below(step, s)) /\ DOMAIN Below(step, s) = DOMAIN s
        /\ \A i \in DOMAIN s : Below(step, s)[i].path = <<step>> \o s[i].path
    BY <1>1, LinesBelow
  <2> QED BY <2>1
<1>3. ASSUME NEW i \in DOMAIN s, Plain(v[i].path) PROVE FALSE
  <2>0. ComesFrom(a, s[i])
    BY <1>1 DEF AllFrom
  <2>1. PICK p \in PlacesAt(a) : \E w : Sequence(w) /\ s[i].path = <<Onto(heap, p)>> \o w
    BY <2>0 DEF ComesFrom
  <2>2. p[1] = a /\ p[2] \in DOMAIN heap[a].elems
    BY DEF PlacesAt, Members
  <2>3. PICK first, w : /\ first = Onto(heap, p) /\ first = ByNumber(p[2]) /\ first.at = p[2]
                        /\ Sequence(w) /\ s[i].path = <<first>> \o w
    <3>1. Onto(heap, p) = ByNumber(p[2]) /\ ByNumber(p[2]).at = p[2]
      BY <2>2 DEF Onto, ByNumber
    <3>2. PICK w : Sequence(w) /\ s[i].path = <<Onto(heap, p)>> \o w
      BY <2>1
    <3> QED BY <3>1, <3>2
  <2>4. p[2] # 0
    <3>1. Sequence(heap[a].elems)
      BY DEF Built, Tree, Typed, IsTable, IsArr
    <3>2. PICK l \in Nat : DOMAIN heap[a].elems = 1 .. l
      BY <3>1, SequenceFacts
    <3> QED BY <2>2, <3>2
  <2>5. PICK u, t : u = <<first>> \o w /\ t = <<step>> \o u
    OBVIOUS
  <2>6. Sequence(u) /\ ~ Plain(u)
    <3>0. Sequence(w) /\ u = <<first>> \o w
      BY <2>3, <2>5
    <3>1. Plain(u) <=> first.at = 0 /\ Plain(w)
      BY <3>0, KeysOnward
    <3>2. Sequence(u)
      BY <3>0, StepBefore
    <3> QED BY <2>3, <2>4, <3>1, <3>2
  <2>7. Plain(t) <=> step.at = 0 /\ Plain(u)
    BY <2>5, <2>6, KeysOnward
  <2>8. v[i].path = t
    BY <1>2, <2>3, <2>5
  <2> QED BY <1>3, <2>6, <2>7, <2>8
<1> QED BY <1>2, <1>3 DEF Headed, PlainValue

(* What is in a table is below its title, and all titles gain its key.     *)
LEMMA TableSegment ==
  ASSUME NEW s, NEW E, Prints(s, E), \A x \in Range(s) : x.path # <<>>, Ordered(s),
         NEW k, NEW v, v = Below(ByKey(k), Pushed(k, <<Title({})>> \o s))
  PROVE  Sequence(v) /\ Headed(v)
<1>1. PICK title, step, t, u :
        /\ title = Title({}) /\ step = ByKey(k)
        /\ t = <<title>> \o s /\ u = Pushed(k, t) /\ v = Below(step, u)
  OBVIOUS
<1>2. /\ CatItem(title) /\ title.line = "title" /\ title.keys = <<>>
      /\ step.key = k /\ step.at = 0
  BY <1>1, TitleItem DEF ByKey
<1>3. Sequence(s) /\ \A i \in DOMAIN s : s[i] \in Range(s) /\ CatItem(s[i])
  BY DEF Prints, Listing, Sequence, Range
<1>4. PICK l \in Nat : l = Len(s) /\ DOMAIN s = 1 .. l
  BY <1>3, SequenceFacts
<1>5. PICK F : Prints(t, F)
  <2>1. Prints(<<Title({})>> \o s, Heading({}) \union E)
    BY TitledPrints
  <2> QED BY <1>1, <2>1
<1>6. Sequence(t) /\ Len(t) = 1 + l /\ t[1] = title /\ \A i \in 1 .. l : t[1 + i] = s[i]
  <2>1. t = <<title>> \o s
    BY <1>1
  <2>2. Sequence(t)
    BY <1>3, <2>1, StepBefore
  <2>3. Len(t) = 1 + Len(s) /\ t[1] = title /\ \A i \in 1 .. Len(s) : t[1 + i] = s[i]
    BY <1>3, <2>1, StepBefore
  <2> QED BY <1>4, <2>2, <2>3
<1>7. DOMAIN t = 1 .. 1 + l
  BY <1>6, SequenceFacts
<1>8. /\ Prints(u, F) /\ DOMAIN u = 1 .. 1 + l
      /\ \A i \in 1 .. 1 + l : u[i] = Push(k, t[i]) /\ CatItem(t[i])
  <2>1. /\ Prints(Pushed(k, t), F) /\ DOMAIN Pushed(k, t) = DOMAIN t
        /\ \A i \in DOMAIN t : Pushed(k, t)[i] = Push(k, t[i]) /\ CatItem(t[i])
    BY <1>5, PushedPrints
  <2> QED BY <1>1, <1>7, <2>1
<1>9. Sequence(u) /\ \A i \in DOMAIN u : CatItem(u[i])
  BY <1>8 DEF Prints, Listing, Sequence, Range
<1>10. /\ Sequence(v) /\ DOMAIN v = 1 .. 1 + l
       /\ \A i \in 1 .. 1 + l : /\ v[i].line = u[i].line /\ v[i].path = <<step>> \o u[i].path
                                /\ u[i].line = "title" => v[i].keys = u[i].keys
  <2>1. v = Below(step, u)
    BY <1>1
  <2>2. /\ Sequence(Below(step, u)) /\ DOMAIN Below(step, u) = DOMAIN u
        /\ \A i \in DOMAIN u : /\ Below(step, u)[i].line = u[i].line
                               /\ Below(step, u)[i].path = <<step>> \o u[i].path
                               /\ u[i].line = "title" => Below(step, u)[i].keys = u[i].keys
    BY <1>9, LinesBelow
  <2> QED BY <1>8, <2>1, <2>2
<1>11. ASSUME NEW i \in 1 .. 1 + l
       PROVE  /\ v[i].line = t[i].line /\ v[i].path = <<step>> \o t[i].path
              /\ t[i].line = "title" => v[i].keys = <<k>> \o t[i].keys
  <2>1. /\ u[i].path = t[i].path /\ u[i].line = t[i].line
        /\ t[i].line = "title" => u[i].keys = <<k>> \o t[i].keys
    BY <1>8, PushItem, SMTT(30)
  <2> QED BY <1>10, <2>1
<1>12. ASSUME NEW i \in 1 .. 1 + l, i # 1 PROVE \E c \in 1 .. l : i = 1 + c /\ t[i] = s[c]
  <2>1. PICK c \in 1 .. l : i = 1 + c
    <3>1. i - 1 \in 1 .. l /\ i = 1 + (i - 1)
      BY <1>12
    <3> QED BY <3>1
  <2> QED BY <1>6, <2>1
<1>13. ASSUME NEW c \in 1 .. l PROVE \E i \in 1 .. 1 + l : i = 1 + c /\ t[i] = s[c]
  <2>1. PICK i \in 1 .. 1 + l : i = 1 + c
    OBVIOUS
  <2> QED BY <1>6, <2>1
<1>14. v[1].line = "title" /\ v[1].keys = <<k>> \o <<>>
  BY <1>2, <1>6, <1>11, SMTT(30)
<1>15. ASSUME NEW i \in 1 .. 1 + l, PlainValue(v, i) PROVE HasTitle(v, i)
  <2>1. i # 1
    BY <1>14, <1>15 DEF PlainValue
  <2>2. PICK c \in 1 .. l : i = 1 + c /\ t[i] = s[c]
    BY <1>12, <2>1
  <2>3. PICK w : w = s[c].path /\ Sequence(w) /\ w # <<>>
    BY <1>3, <1>4 DEF CatItem, Shown
  <2>4. PICK way : way = <<step>> \o w
    OBVIOUS
  <2>12. way = v[i].path
    BY <1>11, <2>2, <2>3, <2>4
  <2>5. s[c].line = "value" /\ Plain(way)
    BY <1>11, <1>15, <2>2, <2>12 DEF PlainValue
  <2>6. Plain(way) <=> step.at = 0 /\ Plain(w)
    <3>1. Sequence(w)
      BY <2>3
    <3> QED BY <2>4, <3>1, KeysOnward
  <2>7. Keys(Front(way)) = <<k>> \o Keys(Front(w))
    <3>1. Keys(Front(way)) = <<step.key>> \o Keys(Front(w))
      BY <2>3, <2>4, FrontOnward
    <3> QED BY <1>2, <3>1
  <2>8. PlainValue(s, c)
    BY <2>3, <2>5, <2>6 DEF PlainValue
  <2>9. ASSUME NEW m \in 1 .. c, \A j \in m + 1 .. c : s[j].line # "title",
               NEW j \in (1 + m) + 1 .. i
        PROVE  v[j].line # "title"
    <3>1. j \in 1 .. 1 + l /\ j # 1
      BY <2>2
    <3>2. PICK q \in 1 .. l : j = 1 + q /\ t[j] = s[q]
      BY <1>12, <3>1
    <3>3. q \in m + 1 .. c
      BY <2>2, <3>2
    <3> QED BY <1>11, <2>9, <3>1, <3>2, <3>3
  <2>10. CASE HasTitle(s, c)
    <3>1. PICK m \in 1 .. c : /\ s[m].line = "title" /\ Keys(Front(s[c].path)) = s[m].keys
                              /\ \A j \in m + 1 .. c : s[j].line # "title"
      BY <2>10 DEF HasTitle
    <3>2. PICK n \in 1 .. 1 + l : n = 1 + m /\ t[n] = s[m]
      <4>1. m \in 1 .. l
        OBVIOUS
      <4> QED BY <1>13, <4>1
    <3>3. v[n].line = "title" /\ v[n].keys = Keys(Front(way))
      BY <1>11, <2>3, <2>7, <3>1, <3>2
    <3>4. n \in 1 .. i /\ \A j \in n + 1 .. i : v[j].line # "title"
      <4>1. n \in 1 .. i
        BY <2>2, <3>2
      <4>2. ASSUME NEW j \in n + 1 .. i PROVE v[j].line # "title"
        <5>1. j \in (1 + m) + 1 .. i
          BY <3>2
        <5> QED BY <2>9, <3>1, <5>1
      <4> QED BY <4>1, <4>2
    <3> QED BY <2>12, <3>3, <3>4 DEF HasTitle
  <2>11. CASE Untitled(s, c)
    <3>1. Keys(Front(w)) = <<>> /\ \A j \in 1 .. c : s[j].line # "title"
      BY <2>3, <2>11 DEF Untitled
    <3>2. v[1].keys = Keys(Front(way))
      BY <1>14, <2>7, <3>1
    <3>3. ASSUME NEW j \in 1 + 1 .. i PROVE v[j].line # "title"
      <4>1. j \in 1 .. 1 + l /\ j # 1
        BY <2>2
      <4>2. PICK q \in 1 .. l : j = 1 + q /\ t[j] = s[q]
        BY <1>12, <4>1
      <4>3. q \in 1 .. c
        BY <2>2, <4>2
      <4> QED BY <1>11, <3>1, <4>1, <4>2, <4>3
    <3>4. 1 \in 1 .. i
      OBVIOUS
    <3> QED BY <1>14, <2>12, <3>2, <3>3, <3>4 DEF HasTitle
  <2> QED BY <1>4, <2>8, <2>10, <2>11 DEF Ordered
<1> QED BY <1>10, <1>15 DEF Headed

LEMMA MemberSegment ==
  ASSUME Built, NEW n \in DOMAIN heap, heap[n].sort = "t",
         \A m \in DOMAIN heap : n < m /\ heap[m].sort = "t" => Ordered(print_toml[m]),
         NEW p \in PlacesIn(heap), p[1] = n, SortHeld(heap, p) \in {"v", "a", "t"},
         NEW v, v = Below(Onto(heap, p), CatSub(print_toml, p))
  PROVE  /\ Sequence(v)
         /\ SortHeld(heap, p) = "v" => Ordered(v) /\ NoTitles(v)
         /\ SortHeld(heap, p) # "v" => Headed(v)
<1>1. CASE SortHeld(heap, p) = "v"
  <2>1. v = Below(Onto(heap, p), <<ValueLine>>)
    BY <1>1 DEF CatSub
  <2> QED BY <1>1, <2>1, ValueSegment
<1>2. CASE SortHeld(heap, p) # "v"
  <2>1. PICK d \in DOMAIN heap : /\ d = Held(heap, p).id /\ n < d
                                 /\ heap[d].sort = SortHeld(heap, p)
    BY <1>2, NodeBelow DEF Built
  <2>2. CASE SortHeld(heap, p) = "a"
    <3>1. PICK s, step : s = CatSub(print_toml, p) /\ step = Onto(heap, p)
      OBVIOUS
    <3>2. \A m \in DOMAIN heap : CatLists(m)
      BY AllCatLists
    <3>3. Prints(s, EndsAt(p)) /\ AllFrom(d, s)
      BY <2>1, <2>2, <3>1, <3>2, CatSubPrints
    <3>4. v = Below(step, s) /\ heap[d].sort # "t"
      BY <2>1, <2>2, <3>1
    <3>5. Sequence(v) /\ Headed(v)
      BY <3>3, <3>4, ArraySegment
    <3> QED BY <1>2, <3>5
  <2>3. CASE SortHeld(heap, p) = "t"
    <3>1. PICK s, k : s = print_toml[d] /\ k = Onto(heap, p).key
      OBVIOUS
    <3>2. Prints(s, CatEnds[d]) /\ AllFrom(d, s)
      BY <3>1, AllCatLists DEF CatLists
    <3>3. \A x \in Range(s) : x.path # <<>>
      BY <3>2, NotEmpty
    <3>4. Ordered(s)
      BY <2>1, <2>3, <3>1
    <3>5. Onto(heap, p) = ByKey(k)
      BY <3>1 DEF Onto, ByKey
    <3>6. CatSub(print_toml, p) = Pushed(k, <<Title({})>> \o s)
      BY <2>1, <2>3, <3>1 DEF CatSub
    <3>7. v = Below(ByKey(k), Pushed(k, <<Title({})>> \o s))
      BY <3>5, <3>6
    <3>8. Sequence(v) /\ Headed(v)
      BY <3>2, <3>3, <3>4, <3>7, TableSegment
    <3> QED BY <1>2, <3>8
  <2> QED BY <1>2, <2>2, <2>3
<1> QED BY <1>1, <1>2

(* The pairs of a table come before all that has a title.                  *)
LEMMA TableOrdered ==
  ASSUME Built, NEW n \in DOMAIN heap, heap[n].sort = "t",
         \A m \in DOMAIN heap : n < m /\ heap[m].sort = "t" => Ordered(print_toml[m])
  PROVE  Ordered(print_toml[n])
<1>1. PICK P : InOrder(n, P)
  BY PlacesInOrder
<1>2. PICK l \in Nat : /\ l = Len(P) /\ DOMAIN P = 1 .. l
                       /\ \A i \in 1 .. l : P[i] \in PlacesIn(heap) /\ P[i][1] = n
  BY <1>1, OrderFacts
<1>3. PICK seqs : seqs = Placed(Along(P), CatSubs(print_toml, P), Len(P))
  OBVIOUS
<1>4. seqs = [i \in 1 .. l |-> Below(Onto(heap, P[i]), CatSub(print_toml, P[i]))]
  BY <1>2, <1>3 DEF Placed, Along, CatSubs
<1>5. ASSUME NEW i \in 1 .. l
      PROVE  /\ Sequence(seqs[i])
             /\ SortHeld(heap, P[i]) = "v" => Ordered(seqs[i]) /\ NoTitles(seqs[i])
             /\ SortHeld(heap, P[i]) # "v" => Headed(seqs[i])
  <2>1. PICK p \in PlacesIn(heap) : p = P[i] /\ p[1] = n
    BY <1>2
  <2>2. SortHeld(heap, p) \in {"v", "a", "t"}
    BY <1>1, <1>2, <2>1, TablePlace
  <2>3. PICK v : v = Below(Onto(heap, p), CatSub(print_toml, p))
    OBVIOUS
  <2>4. Sequence(v)
    BY <2>1, <2>2, <2>3, MemberSegment
  <2>5. SortHeld(heap, p) = "v" => Ordered(v) /\ NoTitles(v)
    BY <2>1, <2>2, <2>3, MemberSegment
  <2>6. SortHeld(heap, p) # "v" => Headed(v)
    BY <2>1, <2>2, <2>3, MemberSegment
  <2>7. seqs[i] = v /\ P[i] = p
    BY <1>4, <2>1, <2>3
  <2> QED BY <2>4, <2>5, <2>6, <2>7
<1>6. ASSUME NEW k \in 1 .. l, SortHeld(heap, P[k]) = "v", NEW j \in 1 .. k
      PROVE  NoTitles(seqs[j])
  <2>1. j \in 1 .. l
    OBVIOUS
  <2>2. \A i \in 1 .. l : SortHeld(heap, P[i]) = All(heap[n])[i].sort
    BY <1>1, <1>2, TablePlace
  <2>3. DOMAIN All(heap[n]) = 1 .. l
    BY <1>1, <1>2 DEF InOrder
  <2>4. j < k => All(heap[n])[j].sort = "v"
    BY <1>6, <2>1, <2>2, <2>3, KeysListed
  <2>5. SortHeld(heap, P[j]) = "v"
    BY <1>6, <2>1, <2>2, <2>4
  <2> QED BY <1>5, <2>1, <2>5
<1>7. \A k \in 1 .. l : InTurn(seqs, k)
  BY <1>5, <1>6 DEF InTurn
<1>8. Sequence(seqs) /\ DOMAIN seqs = 1 .. l
  <2>1. seqs = [i \in 1 .. l |-> seqs[i]]
    BY <1>4
  <2> QED BY <2>1, FunctionSequence
<1>9. Ordered(FlattenSeq(seqs))
  BY <1>7, <1>8, FlatOrdered
<1>10. print_toml[n] = FlattenSeq(seqs)
  BY <1>1, <1>3, CatNodeShape
<1> QED BY <1>9, <1>10

LEMMA CatOrdered ==
  ASSUME Built
  PROVE  Ordered(print_toml[ROOT])
<1>1. PICK l \in Nat : DOMAIN heap = 1 .. l
  BY HeapDomain DEF Built, Tree
<1>2. PICK G : G = {n \in DOMAIN heap : heap[n].sort = "t" => Ordered(print_toml[n])}
  OBVIOUS
<1>3. ASSUME NEW n \in 1 .. l, \A m \in 1 .. l : n < m => m \in G PROVE n \in G
  <2>1. \A m \in DOMAIN heap : n < m /\ heap[m].sort = "t" => Ordered(print_toml[m])
    BY <1>1, <1>2, <1>3
  <2>2. heap[n].sort = "t" => Ordered(print_toml[n])
    BY <1>1, <2>1, TableOrdered
  <2> QED BY <1>1, <1>2, <2>2
<1>4. \A n \in 1 .. l : n \in G
  BY <1>3, NewestFirst
<1>5. ROOT \in DOMAIN heap /\ heap[ROOT].sort = "t"
  BY DEF Built, Tree, Typed, IsTable
<1> QED BY <1>1, <1>2, <1>4, <1>5

(* The last title above a line is that of Max.                             *)
LEMMA TitleAbove ==
  ASSUME NEW L, Ordered(L), NEW l \in Nat, DOMAIN L = 1 .. l, NEW i \in 1 .. l,
         L[i].line = "value", Plain(L[i].path)
  PROVE  UnderTitle(L, i)
<1>1. HasTitle(L, i) \/ Untitled(L, i)
  BY DEF Ordered, PlainValue
<1>2. CASE HasTitle(L, i)
  <2>1. PICK m \in 1 .. i : /\ L[m].line = "title" /\ Keys(Front(L[i].path)) = L[m].keys
                            /\ \A j \in m + 1 .. i : L[j].line # "title"
    BY <1>2 DEF HasTitle
  <2>2. PICK S : S = Titles(L, i)
    OBVIOUS
  <2>3. m \in S /\ \A j \in S : m >= j /\ j \in Nat
    <3>1. m \in S
      BY <2>1, <2>2 DEF Titles
    <3>2. ASSUME NEW j \in S PROVE m >= j /\ j \in Nat
      <4>1. j \in 1 .. i /\ L[j].line = "title"
        BY <2>2 DEF Titles
      <4>2. j \notin m + 1 .. i
        BY <2>1, <4>1
      <4> QED BY <4>1, <4>2
    <3> QED BY <3>1, <3>2
  <2>4. PICK x : x = Max(S) /\ x \in S /\ \A j \in S : x >= j
    <3>1. Max(S) \in S /\ \A j \in S : Max(S) >= j
      BY <2>3 DEF Max
    <3> QED BY <3>1
  <2>5. x = m
    BY <2>3, <2>4
  <2> QED BY <2>1, <2>2, <2>4, <2>5 DEF UnderTitle
<1>3. CASE Untitled(L, i)
  <2>1. Titles(L, i) = {} /\ Keys(Front(L[i].path)) = <<>>
    BY <1>3 DEF Untitled, Titles
  <2> QED BY <2>1 DEF UnderTitle
<1> QED BY <1>1, <1>2, <1>3

-----------------------------------------------------------------------------
(* The end of the stack.  A title for which it has no place left is that   *)
(* of a table as deep as it has places, and the lines above are printed.   *)
LEMMA DeepOverruns ==
  ASSUME Built
  PROVE  Deep <=> Overruns(print_toml[ROOT]) # {}
<1>0. ROOT \in DOMAIN heap /\ Tree(heap, 0)
  BY DEF Built, Tree, Typed
<1>1. PICK L : L = print_toml[ROOT]
  OBVIOUS
<1>2. PICK S : /\ S = Range(L) /\ \A x \in S : CatItem(x)
               /\ EndsOf(S) = {<<PathTo(heap, p), CatMarks[p]>> : p \in DOMAIN CatMarks}
  BY <1>1, CatPrinted DEF Prints
<1>3. \A x \in S : KeyForEach(x)
  BY <1>0, <1>1, <1>2, AllStacked DEF Stacked
<1>4. (\A i \in DOMAIN L : L[i] \in S) /\ \A x \in S : \E i \in DOMAIN L : L[i] = x
  BY <1>2 DEF Range
<1>5. \A p \in TablePlaces : p \in DOMAIN CatMarks /\ CatMarks[p] = "title"
  BY DEF CatMarks, TablePlaces
<1>6. \A p \in DOMAIN CatMarks : CatMarks[p] = "title" => p \in TablePlaces
  BY DEF CatMarks, ValuePlaces
<1>7. ASSUME NEW p \in PlacesIn(heap)
      PROVE  p \in TablePlaces <=> SortHeld(heap, p) = "t" /\ Last(PathTo(heap, p)).at = 0
  <2>1. Sequence(Ways(heap)[p[1]])
    BY <1>0, WayBelow
  <2>2. Last(PathTo(heap, p)) = Onto(heap, p)
    <3>1. PICK s, x : s = Ways(heap)[p[1]] /\ x = Onto(heap, p) /\ Sequence(s)
      BY <2>1
    <3>2. Last(Append(s, x)) = x
      BY <3>1, LastAndFront
    <3> QED BY <3>1, <3>2 DEF PathTo
  <2>3. Onto(heap, p).at = 0 <=> heap[p[1]].sort = "t"
    BY <1>0, StepKind
  <2> QED BY <2>2, <2>3 DEF TablePlaces
<1>8. ASSUME Deep PROVE Overruns(L) # {}
  <2>1. PICK e \in Contents(heap) : /\ e.sort = "t" /\ Last(e.path).at = 0
                                    /\ Cardinality(ByTables(e.path)) >= STACK_MAX
    BY <1>8 DEF Deep
  <2>2. PICK p \in PlacesIn(heap) : e.path = PathTo(heap, p) /\ e.sort = SortHeld(heap, p)
    <3>1. PICK p \in PlacesIn(heap) : e = ItemAt(heap, Ways(heap), p)
      BY DEF Contents
    <3> QED BY <3>1 DEF ItemAt, Item, PathTo
  <2>3. p \in DOMAIN CatMarks /\ CatMarks[p] = "title"
    BY <1>5, <1>7, <2>1, <2>2
  <2>4. <<e.path, "title">> \in EndsOf(S)
    BY <1>2, <2>2, <2>3
  <2>5. PICK x \in S : Marked(x) /\ x.path = e.path /\ x.line = "title"
    BY <2>4 DEF EndsOf
  <2>6. x.arrname = {} /\ Len(x.keys) = Cardinality(ByTables(x.path))
    BY <1>3, <2>5 DEF Marked, KeyForEach, Pushes
  <2>7. PICK i \in DOMAIN L : L[i] = x
    BY <1>4
  <2>8. i \in Overruns(L)
    BY <2>1, <2>5, <2>6, <2>7 DEF Overruns
  <2> QED BY <2>8
<1>9. ASSUME Overruns(L) # {} PROVE Deep
  <2>1. PICK x \in S : x.line = "title" /\ x.arrname = {} /\ Len(x.keys) >= STACK_MAX
    BY <1>4, <1>9 DEF Overruns
  <2>2. Len(x.keys) = Cardinality(ByTables(x.path))
    BY <1>3, <2>1 DEF KeyForEach, Pushes
  <2>3. <<x.path, "title">> \in EndsOf(S)
    BY <2>1 DEF EndsOf, Marked
  <2>4. PICK p \in DOMAIN CatMarks : x.path = PathTo(heap, p) /\ CatMarks[p] = "title"
    BY <1>2, <2>3
  <2>5. p \in TablePlaces /\ p \in PlacesIn(heap)
    BY <1>6, <2>4 DEF TablePlaces
  <2>6. PICK e \in Contents(heap) : e.path = PathTo(heap, p) /\ e.sort = SortHeld(heap, p)
    <3>1. PICK e \in Contents(heap) : e = ItemAt(heap, Ways(heap), p)
      BY <2>5 DEF Contents
    <3> QED BY <3>1 DEF ItemAt, Item, PathTo
  <2>7. e.sort = "t" /\ Last(e.path).at = 0
    BY <1>7, <2>5, <2>6
  <2> QED BY <2>1, <2>2, <2>4, <2>6, <2>7 DEF Deep
<1> QED BY <1>1, <1>8, <1>9

LEMMA CatBegins ==
  ASSUME NEW L, L = print_toml[ROOT], Sequence(L), NEW l \in Nat, DOMAIN L = 1 .. l
  PROVE  \E k \in 0 .. l :
           /\ \A i \in 1 .. k : toml_cat[i] = L[i]
           /\ Overruns(L) = {} => k = l /\ DOMAIN toml_cat = 1 .. l
           /\ Overruns(L) # {} => DOMAIN toml_cat = 1 .. k + 1 /\ toml_cat[k + 1] = Overrun
<1>1. CASE Overruns(L) = {}
  <2>1. toml_cat = L /\ l \in 0 .. l
    BY <1>1 DEF toml_cat
  <2> QED BY <1>1, <2>1
<1>2. CASE Overruns(L) # {}
  <2>1. Len(L) = l
    BY DomainLen
  <2>2. PICK M : M = Overruns(L) \union {l + 1}
    OBVIOUS
  <2>3. M \in SUBSET (1 .. l + 1) /\ M # {}
    BY <2>2 DEF Overruns
  <2>4. PICK m \in 1 .. l + 1 : m = Min(M)
    <3>1. M \in SUBSET Nat
      BY <2>3
    <3>2. Min(M) \in M
      BY <2>3, <3>1, MinBelow
    <3> QED BY <2>3, <3>2
  <2>5. PICK k \in 0 .. l : k = m - 1
    BY <2>4
  <2>6. PICK s : s = SubSeq(L, 1, k)
    OBVIOUS
  <2>7. Sequence(s) /\ Len(s) = k /\ \A i \in 1 .. k : s[i] = L[i]
    <3>1. L \in Seq(Range(L))
      BY DEF Sequence
    <3>2. \A i \in 1 .. k : L[i] \in Range(L)
      BY DEF Range
    <3>3. s = [i \in 1 .. k |-> L[i]]
      BY <2>6, <3>1
    <3>4. s = [i \in 1 .. k |-> s[i]]
      BY <3>3
    <3>5. Sequence(s) /\ DOMAIN s = 1 .. k
      BY <3>4, FunctionSequence
    <3> QED BY <3>3, <3>5, DomainLen
  <2>8. toml_cat = Append(s, Overrun)
    BY <1>2, <2>1, <2>2, <2>4, <2>5, <2>6 DEF toml_cat, FirstOf
  <2>9. PICK line, t : line = Overrun /\ t = Append(s, line)
    OBVIOUS
  <2>10. /\ Sequence(t) /\ Len(t) = k + 1 /\ t[k + 1] = line
         /\ \A i \in 1 .. k : t[i] = s[i]
    BY <2>7, <2>9, AppendSequence
  <2>11. DOMAIN t = 1 .. k + 1
    BY <2>10, SequenceFacts
  <2> QED BY <1>2, <2>7, <2>8, <2>9, <2>10, <2>11
<1> QED BY <1>1, <1>2

LEMMA CatAll ==
  ASSUME Built
  PROVE  CatPrintsAll
<1>1. PICK P, E : /\ P = ValuePlaces(heap)
                  /\ E = {<<PathTo(heap, p), CatMarks[p]>> : p \in DOMAIN CatMarks}
  OBVIOUS
<1>2. PICK L : L = print_toml[ROOT]
  OBVIOUS
<1>3. Prints(L, E) /\ Ordered(L)
  BY <1>1, <1>2, CatPrinted, CatOrdered
<1>4. PICK S : /\ S = Range(L) /\ Listing(L, S) /\ (\A x \in S : CatItem(x))
               /\ EndsOf(S) = E
  BY <1>3 DEF Prints
<1>5. PICK l \in Nat : DOMAIN L = 1 .. l /\ Sequence(L)
  <2>1. Sequence(L)
    BY <1>4 DEF Listing, Sequence
  <2> QED BY <2>1, SequenceFacts
<1>6. /\ \A i \in 1 .. l : L[i] \in S
      /\ \A x \in S : \E i \in 1 .. l : L[i] = x
      /\ \A i, j \in 1 .. l : L[i] = L[j] => i = j
  BY <1>4, <1>5 DEF Listing, Range
<1>7. PICK C, k : /\ C = toml_cat /\ k \in 0 .. l
                  /\ \A i \in 1 .. k : C[i] = L[i]
                  /\ Overruns(L) = {} => k = l /\ DOMAIN C = 1 .. l
                  /\ Overruns(L) # {} => DOMAIN C = 1 .. k + 1 /\ C[k + 1] = Overrun
  <2>1. \E k \in 0 .. l :
          /\ \A i \in 1 .. k : toml_cat[i] = L[i]
          /\ Overruns(L) = {} => k = l /\ DOMAIN toml_cat = 1 .. l
          /\ Overruns(L) # {} => DOMAIN toml_cat = 1 .. k + 1 /\ toml_cat[k + 1] = Overrun
    BY <1>2, <1>5, CatBegins
  <2>2. PICK C : C = toml_cat
    OBVIOUS
  <2> QED BY <2>1, <2>2
<1>8. PICK c \in Nat : /\ DOMAIN C = 1 .. c /\ k <= c
                       /\ \A i \in 1 .. c : i \in 1 .. k \/ (Overruns(L) # {} /\ C[i] = Overrun)
  <2>1. CASE Overruns(L) = {}
    BY <1>7, <2>1
  <2>2. CASE Overruns(L) # {}
    <3>1. PICK n \in Nat : n = k + 1
      BY <1>7
    <3>2. \A i \in 1 .. n : i \in 1 .. k \/ i = n
      BY <1>7, <3>1
    <3> QED BY <1>7, <2>2, <3>1, <3>2
  <2> QED BY <2>1, <2>2
<1>9. /\ Overrun.line = "overrun" /\ 1 .. k \subseteq 1 .. l
      /\ \A i \in 1 .. k : L[i].line \in {"value", "title"}
  BY <1>4, <1>6, <1>7 DEF Overrun, CatItem
<1>10. PICK values : values = {i \in 1 .. c : C[i].line = "value"}
  OBVIOUS
<1>11. \A i \in values : i \in 1 .. k /\ C[i] = L[i] /\ L[i].line = "value"
  BY <1>7, <1>8, <1>9, <1>10
<1>12. PICK Paths : Paths = {PathTo(heap, p) : p \in P}
  OBVIOUS
<1>13. \A p \in P : p \in DOMAIN CatMarks /\ CatMarks[p] = "value"
  BY <1>1 DEF CatMarks, ValuePlaces
<1>14. ASSUME NEW p \in DOMAIN CatMarks, CatMarks[p] = "value" PROVE p \in P
  <2>1. SortHeld(heap, p) = "v"
    BY <1>14 DEF CatMarks
  <2>2. p \in PlacesIn(heap)
    BY DEF CatMarks, ValuePlaces, TablePlaces
  <2> QED BY <1>1, <2>1, <2>2 DEF ValuePlaces
<1>15. ASSUME NEW i \in values PROVE C[i].path \in Paths
  <2>1. PICK x \in S : x = C[i] /\ x.line = "value"
    BY <1>6, <1>9, <1>11
  <2>2. <<x.path, "value">> \in EndsOf(S)
    BY <2>1 DEF EndsOf, Marked
  <2>3. PICK p \in DOMAIN CatMarks : x.path = PathTo(heap, p) /\ CatMarks[p] = "value"
    BY <1>1, <1>4, <2>2
  <2> QED BY <1>12, <1>14, <2>1, <2>3
<1>16. ASSUME NEW w \in Paths, k = l PROVE \E i \in values : C[i].path = w
  <2>1. PICK p \in P : w = PathTo(heap, p)
    BY <1>12
  <2>2. <<w, "value">> \in EndsOf(S)
    BY <1>1, <1>4, <1>13, <2>1
  <2>3. PICK x \in S : x.line = "value" /\ x.path = w
    BY <2>2 DEF EndsOf
  <2>4. PICK i \in 1 .. l : L[i] = x
    BY <1>6
  <2>5. i \in 1 .. c /\ C[i] = x
    BY <1>7, <1>8, <1>16, <2>4
  <2> QED BY <1>10, <2>3, <2>5
<1>17. ASSUME NEW i \in values, NEW j \in values, C[i].path = C[j].path PROVE i = j
  <2>1. PICK x, y : x = L[i] /\ y = L[j] /\ x \in S /\ y \in S /\ CatItem(x) /\ CatItem(y)
    BY <1>4, <1>6, <1>9, <1>11
  <2>2. /\ DOMAIN x = {"line", "path"} /\ DOMAIN y = {"line", "path"}
        /\ x.line = "value" /\ y.line = "value" /\ x.path = y.path
    BY <1>11, <1>17, <2>1 DEF CatItem
  <2>3. x = [f \in DOMAIN x |-> x[f]] /\ y = [f \in DOMAIN y |-> y[f]]
    BY <2>1 DEF CatItem, Shown
  <2>4. x = y
    BY <2>2, <2>3
  <2>5. i \in 1 .. l /\ j \in 1 .. l
    BY <1>9, <1>11
  <2>6. L[i] = L[j]
    BY <2>1, <2>4
  <2> QED BY <1>6, <2>5, <2>6
<1>18. PICK wanted : wanted = {x.path : x \in Values}
  OBVIOUS
<1>19. wanted = Paths
  <2>1. ASSUME NEW p \in P PROVE ItemAt(heap, Ways(heap), p).path = PathTo(heap, p)
    BY DEF ItemAt, Item, PathTo
  <2> QED BY <1>1, <1>12, <1>18, <2>1, ValuesAre
<1>20. PICK printed : printed = {C[i].path : i \in values}
  OBVIOUS
<1>21. Cardinality(values) = Cardinality(printed)
  <2>1. IsFiniteSet(values)
    <3>1. IsFiniteSet(1 .. c) /\ values \in SUBSET (1 .. c)
      BY <1>10, FS_Interval
    <3> QED BY <3>1, FS_Subset
  <2>2. PICK f : f = [i \in values |-> C[i].path]
    OBVIOUS
  <2>3. f \in Bijection(values, printed)
    BY <1>17, <1>20, <2>2 DEF Bijection, Injection, Surjection, IsInjective
  <2> QED BY <2>1, <2>3, FS_Bijection DEF ExistsBijection
<1>22. printed \subseteq wanted
  BY <1>15, <1>19, <1>20
<1>23. Deep <=> Overruns(L) # {}
  BY <1>2, DeepOverruns
<1>24. Deep <=> \E i \in DOMAIN C : C[i].line = "overrun"
  <2>1. ASSUME Overruns(L) # {} PROVE \E i \in DOMAIN C : C[i].line = "overrun"
    <3>1. k + 1 \in DOMAIN C /\ C[k + 1].line = "overrun"
      BY <1>7, <1>9, <2>1
    <3> QED BY <3>1
  <2>2. ASSUME Overruns(L) = {} PROVE \A i \in DOMAIN C : C[i].line # "overrun"
    BY <1>7, <1>8, <1>9, <2>2
  <2> QED BY <1>23, <2>1, <2>2
<1>25. ~ Deep => printed = wanted
  BY <1>7, <1>16, <1>19, <1>20, <1>22, <1>23
<1>26. \A i \in DOMAIN C : C[i].line # "abort"
  BY <1>7, <1>8, <1>9
<1>27. Ordered(C)
  <2>1. ASSUME NEW i \in DOMAIN C, PlainValue(C, i) PROVE HasTitle(C, i) \/ Untitled(C, i)
    <3>1. i \in values
      BY <1>8, <1>10, <2>1 DEF PlainValue
    <3>2. i \in 1 .. l /\ \A j \in 1 .. i : C[j] = L[j]
      <4>1. i \in 1 .. k /\ 1 .. i \subseteq 1 .. k
        BY <1>7, <1>11, <3>1
      <4> QED BY <1>7, <1>9, <4>1
    <3>3. C[i] = L[i] /\ PlainValue(L, i)
      BY <1>11, <2>1, <3>1 DEF PlainValue
    <3>4. HasTitle(L, i) \/ Untitled(L, i)
      BY <1>3, <1>5, <3>2, <3>3 DEF Ordered
    <3>5. CASE HasTitle(L, i)
      <4>1. PICK m \in 1 .. i : /\ L[m].line = "title" /\ Keys(Front(L[i].path)) = L[m].keys
                                /\ \A j \in m + 1 .. i : L[j].line # "title"
        BY <3>5 DEF HasTitle
      <4>2. m + 1 .. i \subseteq 1 .. i
        BY <4>1
      <4> QED BY <3>2, <3>3, <4>1, <4>2 DEF HasTitle
    <3>6. CASE Untitled(L, i)
      BY <3>2, <3>3, <3>6 DEF Untitled
    <3> QED BY <3>4, <3>5, <3>6
  <2> QED BY <2>1 DEF Ordered
<1>28. \A i \in values : Plain(C[i].path) => UnderTitle(C, i)
  BY <1>8, <1>10, <1>27, TitleAbove
<1>29. /\ C = toml_cat /\ values = {i \in DOMAIN C : C[i].line = "value"}
       /\ printed = {C[i].path : i \in values} /\ wanted = {x.path : x \in Values}
  BY <1>7, <1>8, <1>10, <1>18, <1>20
<1>30. /\ values = {i \in DOMAIN toml_cat : toml_cat[i].line = "value"}
       /\ printed = {toml_cat[i].path : i \in values} /\ wanted = {x.path : x \in Values}
  BY <1>29
<1>31. /\ \A i \in DOMAIN toml_cat : toml_cat[i].line # "abort"
       /\ Deep <=> \E i \in DOMAIN toml_cat : toml_cat[i].line = "overrun"
       /\ printed \subseteq wanted
       /\ Cardinality(values) = Cardinality(printed)
       /\ ~ Deep => printed = wanted
       /\ \A i \in values : Plain(toml_cat[i].path) => UnderTitle(toml_cat, i)
  BY <1>21, <1>22, <1>24, <1>25, <1>26, <1>28, <1>29
<1> QED BY <1>30, <1>31, Zenon DEF CatPrintsAll

(* Whatever tree the document has made, toml_cat never comes to its        *)
(* abort(), prints no value twice, and writes behind the end of its stack  *)
(* exactly if there are STACK_MAX tables one in the other; otherwise it    *)
(* prints every value.  A pair of a table that no array leads to is below  *)
(* the title of that table.                                                *)
THEOREM CatPrints == Spec => []CatPrintsAll
<1>1. IInv /\ KeysOnce(heap) => CatPrintsAll
  <2> SUFFICES ASSUME IInv, KeysOnce(heap), pc = "done" PROVE CatPrintsAll
    BY DEF CatPrintsAll
  <2>1. Building
    BY DEF Building
  <2> QED BY <2>1, WhileBuilding, CatAll DEF Built
<1> QED BY <1>1, Invariance, KeysUnique, PTL
=============================================================================
