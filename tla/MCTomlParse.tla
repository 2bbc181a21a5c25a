---------------------------- MODULE MCTomlParse -----------------------------
(***************************************************************************)
(* The parser on every document of a few tokens, and what it makes of      *)
(* those that it accepts, read a second time from the text alone.          *)
(***************************************************************************)
EXTENDS TomlTools

CONSTANTS Words, MaxTokens, Lines, MaxLines

A == <<"a">>
B == <<"b">>
QUOTED == <<DQ, "a", DQ>>       \* the same key as a
ONE == <<"1">>
MCWords == {A, QUOTED, ONE, <<>>}
MCOutOfRange(buf) == FALSE      \* none of them is a number that strtod cannot hold

Sign(m) == Token(m, <<>>, FALSE)
Text(w) == Token("STRING", w, FALSE)
LEFT == Sign("LBRACKET")
RIGHT == Sign("RBRACKET")
LINE == Sign("NEWLINE")

Pair1(k, value) == <<Text(k), Sign("EQUAL")>> \o value
Arrays == { <<LEFT, RIGHT>>,
            <<LEFT, LEFT, Text(ONE), RIGHT, Sign("COMMA"), LEFT, Text(A), RIGHT, RIGHT>>,
            <<LEFT, Sign("LBRACE"), Text(A), Sign("EQUAL"), Text(ONE), Sign("RBRACE"), RIGHT>> }
Inline == <<Sign("LBRACE"), Text(B), Sign("EQUAL"), Text(ONE), Sign("RBRACE")>>
Short == { <<Text(A)>>, <<Text(A), Sign("DOT"), Text(B)>> }
TooLong == <<Text(QUOTED), Sign("DOT"), Text(B), Sign("DOT"), Text(A)>>
MCLines == {Pair1(A, v) : v \in Arrays \union {Inline}}
           \union {Pair1(k, <<Text(ONE)>>) : k \in {A, B}}
           \union { <<LEFT>> \o k \o <<RIGHT>> : k \in Short \union {TooLong} }
           \union { <<LEFT, LEFT>> \o k \o <<RIGHT, RIGHT>> : k \in Short }

MarkTokens == {"COMMA", "EQUAL", "LBRACE", "RBRACE", "LBRACKET", "RBRACKET", "NEWLINE"}

(* Any token, up to MaxTokens; and documents of MaxLines out of Lines.     *)
LineEnds(read) == {n \in DOMAIN read : read[n] = LINE}
CurrentLine(read) == SubSeq(read, 1 + Max({0} \union LineEnds(read)), Len(read))
InLines(read) ==
  LET line == CurrentLine(read)
      more == {l \in Lines : IsPrefix(line, l)}
  IN IF Cardinality(LineEnds(read)) >= MaxLines THEN {}
     ELSE {l[Len(line) + 1] : l \in more \ {line}} \union (IF line \in Lines THEN {LINE} ELSE {})

MCFollows(read, dot) ==
  {Eof}
  \union (IF Len(read) >= MaxTokens THEN {}
          ELSE {Sign(m) : m \in MarkTokens \union (IF dot THEN {"DOT"} ELSE {})}
               \union {Text(w) : w \in Words})
  \union InLines(read)

Ended == pc = "freed"

-----------------------------------------------------------------------------
(* What the text says, position by position: the reading of a person.      *)
Opens == {p \in DOMAIN text : text[p].tok \in {"LBRACKET", "LBRACE"}}
Closes == {p \in DOMAIN text : text[p].tok \in {"RBRACKET", "RBRACE"}}
Level(p) == Cardinality({q \in Opens : q < p}) - Cardinality({q \in Closes : q < p})
Headers == {p \in Opens : Level(p) = 0 /\ (p = 1 \/ text[p - 1] = LINE)}
HeaderEnd(h) == Min({p \in DOMAIN text : p > h /\ text[p].tok = "NEWLINE"})
InHeader(p) == \E h \in Headers : p \in h .. HeaderEnd(h)
Double(h) == text[h + 1] = LEFT
Named(p) == IF text[p].word = QUOTED THEN A ELSE text[p].word
HeaderKeys(h) ==
  LET words == SelectSeq([i \in 1 .. HeaderEnd(h) - h |-> h + i], LAMBDA p : text[p].tok = "STRING")
  IN [i \in DOMAIN words |-> Named(words[i])]

IsKey(p) == p + 1 \in DOMAIN text /\ text[p + 1].tok = "EQUAL"
WordValues == {p \in DOMAIN text : text[p].tok = "STRING" /\ ~ IsKey(p) /\ ~ InHeader(p)}
OpenValues == Opens \ {p \in Opens : InHeader(p)}

(* The brackets around p, and what leads from each of them to the next.    *)
Around(p) == {q \in OpenValues : q < p /\ \A r \in q + 1 .. p : Level(r) > Level(q)}
StepTo(p) ==
  IF p > 1 /\ text[p - 1].tok = "EQUAL" THEN ByKey(Named(p - 2))
  ELSE LET q == Max(Around(p))
       IN ByNumber(1 + Cardinality({c \in q .. p : text[c].tok = "COMMA" /\ Level(c) = Level(q) + 1}))
Inner(p) == LET way == SetToSortSeq(Around(p) \union {p}, LAMBDA a, b : a < b)
            IN [i \in DOMAIN way |-> StepTo(way[i])]

(* What is read so far: where, what and the way to it.  A key of a header  *)
(* that stands for an array of tables leads to the last table in it.       *)
Tables(read, way) ==
  Cardinality({r \in read : r.sort = "t" /\ Last(r.way).at > 0 /\ Front(r.way) = way})
Onward(read, way) ==
  IF Tables(read, way) = 0 THEN way ELSE Append(way, ByNumber(Tables(read, way)))
Walk(read, keys) ==
  LET way[n \in 0 .. Len(keys)] ==
        IF n = 0 THEN <<>> ELSE Onward(read, Append(way[n - 1], ByKey(keys[n])))
  IN way[Len(keys)]
HeaderWay(read, h) ==
  IF Double(h)
  THEN LET way == Append(Walk(read, Front(HeaderKeys(h))), ByKey(Last(HeaderKeys(h))))
       IN Append(way, ByNumber(1 + Tables(read, way)))
  ELSE Walk(read, HeaderKeys(h))

SortAt(p) == CASE p \in WordValues -> "v"
               [] p \in OpenValues /\ text[p] = LEFT -> "a"
               [] OTHER -> "t"
ReadOn(st, p) ==
  LET header == p \in Headers
      way == IF header THEN HeaderWay(st.read, p) ELSE st.base \o Inner(p)
      r == [at |-> p, sort |-> SortAt(p), way |-> way, header |-> header]
  IN [read |-> st.read \union {r}, base |-> IF header THEN way ELSE st.base]
Reading ==
  LET places == WordValues \union OpenValues \union Headers
      upto[n \in 0 .. Len(text)] ==
        IF n = 0 THEN [read |-> {}, base |-> <<>>]
        ELSE IF n \in places THEN ReadOn(upto[n - 1], n) ELSE upto[n - 1]
  IN upto[Len(text)].read

(* A header names every table and array that it passes.                    *)
Passed(way) == {Item(SubSeq(way, 1, n), IF n < Len(way) /\ way[n + 1].at > 0 THEN "a" ELSE "t", <<>>) :
                  n \in DOMAIN way}
Written(r) == IF r.header THEN Passed(r.way)
              ELSE {Item(r.way, r.sort, IF r.sort = "v" THEN text[r.at].word ELSE <<>>)}

(* What a node tells about itself is what a search for it finds: a table   *)
(* has as many keys as it counts and each leads to a node of that key, an  *)
(* array has its elements and the type of each of its values.  Only a node *)
(* in an array, and the root, has no key.                                  *)
SelfDescribed ==
  /\ \A t \in Nodes("t") :
       LET keys == toml_key_in(t)
       IN /\ Cardinality(Range(keys))
               = toml_table_nkval(t) + toml_table_narr(t) + toml_table_ntab(t)
          /\ \A k \in Range(keys) :
               /\ \A n \in toml_array_in(t, k) : toml_array_key(n) = {k}
               /\ \A n \in toml_table_in(t, k) : toml_table_key(n) = {k}
               /\ toml_raw_in(t, k) \union toml_array_in(t, k) \union toml_table_in(t, k) # {}
  /\ \A a \in Nodes("a") :
       /\ toml_array_nelem(a)
            = Len(toml_raw_at(a)) + Len(toml_array_at(a)) + Len(toml_table_at(a))
       /\ toml_array_type(a) = {valtype(w) : w \in Range(toml_raw_at(a))}
       /\ \A n \in Range(toml_array_at(a) \o toml_table_at(a)) : KeyOf(n) = {}


-----------------------------------------------------------------------------
(* Parsing ends, unless the text does inside an array or a table.          *)
EndsUnlessOpen == <>(Ended \/ (tok.eof /\ stack # <<>>))

(* "Return a table on success, or 0 otherwise": toml.h of toml_parse.      *)
ParseEnds == <>Ended
=============================================================================
