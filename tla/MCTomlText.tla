----------------------------- MODULE MCTomlText -----------------------------
(***************************************************************************)
(* The scanner and the readers of values on short texts.  A task is an     *)
(* alphabet and a length up to which texts over it are typed, behind a     *)
(* first text; the codes of characters are a task of their own, and so are *)
(* timestamps with one character changed, dropped or put in.               *)
(***************************************************************************)
EXTENDS TomlPrint

CONSTANTS Tasks, Codes

VARIABLES task, text, code

vars == <<task, text, code>>

Typing == [lines   |-> [first |-> <<>>,   len |-> 5,
                        chars |-> {DQ, SQ, BS, HASH, NL, SP, "a"}],
           quotes  |-> [first |-> <<DQ>>, len |-> 8, chars |-> {DQ, BS, NL, "a"}],
           literal |-> [first |-> <<SQ>>, len |-> 8, chars |-> {SQ, BS, NL, "a"}],
           short   |-> [first |-> <<DQ, BS, "u">>, len |-> 8,
                        chars |-> {DQ, "0", "8", "D", "E", "F"}],
           long    |-> [first |-> <<DQ, BS, "U">>, len |-> 12, chars |-> {DQ, "0", "8"}],
           closing |-> [first |-> <<DQ, DQ, DQ, DQ, BS, "u">>, len |-> 14,
                        chars |-> {DQ, "0", "F"}],
           content |-> [first |-> <<>>,   len |-> 4,
                        chars |-> {BS, DQ, NL, CR, TAB, SP, "u", "b", "0"}],
           number  |-> [first |-> <<>>,   len |-> 5,
                        chars |-> {"+", "-", "_", "0", "1", "8", "x", "e", "."}]]

Times == { <<"2", "0", "2", "0", "-", "0", "2", "-", "2", "9">>,
           <<"2", "0", "2", "0", "-", "0", "2", "-", "2", "9", "T">>,
           <<"0", "1", ":", "2", "3", ":", "4", "5", ".", "6">>,
           <<"2", "0", "2", "0", "-", "0", "2", "-", "2", "9", "T",
             "0", "1", ":", "2", "3", ":", "4", "5", "Z">>,
           <<"2", "0", "2", "0", "-", "0", "2", "-", "2", "9", " ",
             "0", "1", ":", "2", "3", ":", "4", "5", ".", "6", "+", "0", "7", ":", "3", "0">> }
TimeChars == {"0", "-", ":", "T", "Z", "+", "."}

Near(m) == {m - 2, m - 1, m, m + 1}
MCCodes == UNION {Near(2 ^ k) : k \in 0 .. 30}
             \union {MAX_CODE - 1, MAX_CODE, 55295, 57344, 65533, 65534, 1114111}
StringTasks == {"lines", "quotes", "literal", "short", "long", "closing"}
AllTasks == DOMAIN Typing \union {"code", "time"}
NumberTask == {"number"}

(* A number with an exponent above that of DBL_MAX is out of range; the    *)
(* texts typed are too short for one that is so in another way.            *)
MCOutOfRange(buf) ==
  \E k \in DOMAIN buf : /\ buf[k] = "e"
                        /\ \E j \in 1 .. k - 1 : buf[j] \in Digit \ {"0"}
                        /\ Within(From(buf, k + 1), Digit)
                        /\ Number(From(buf, k + 1), 10) > 308

Init == /\ task \in Tasks
        /\ code \in IF task = "code" THEN Codes ELSE {0}
        /\ text \in IF task = "time" THEN Times
                    ELSE IF task = "code" THEN {<<>>} ELSE {Typing[task].first}

Type == /\ task \in DOMAIN Typing
        /\ Len(text) < Typing[task].len
        /\ \E c \in Typing[task].chars : text' = Append(text, c)
        /\ UNCHANGED <<task, code>>

Edit == /\ task = "time" /\ text \in Times
        /\ \E p \in DOMAIN text :
             \/ text' = RemoveAt(text, p)
             \/ \E c \in TimeChars : text' = ReplaceAt(text, p, c) \/ text' = InsertAt(text, p, c)
        /\ UNCHANGED <<task, code>>

Spec == Init /\ [][Type \/ Edit]_vars

ASSUME TableAssumption == Len(PRINTABLE) = 95 /\ CharOf(65) = "A" /\ CharOf(122) = "z"

-----------------------------------------------------------------------------
(* unittest/t1.c: the size, the code and the bytes of its ten assertions.  *)
Vector(size, c, bytes) == [size |-> size, code |-> c, bytes |-> bytes]
t1 == {Vector(2, 128, <<194, 128>>), Vector(2, 2047, <<223, 191>>),
       Vector(3, 2048, <<224, 160, 128>>), Vector(3, 65533, <<239, 191, 189>>),
       Vector(4, 65536, <<240, 144, 128, 128>>),
       Vector(4, 2097151, <<247, 191, 191, 191>>),
       Vector(5, 2097152, <<248, 136, 128, 128, 128>>),
       Vector(5, 67108863, <<251, 191, 191, 191, 191>>),
       Vector(6, 67108864, <<252, 132, 128, 128, 128, 128>>),
       Vector(6, MAX_CODE, <<253, 191, 191, 191, 191, 191>>)}
ASSUME UnitTestAssumption ==
  \A v \in t1 : /\ toml_ucs_to_utf8(v.code) = v.bytes
                /\ toml_utf8_to_ucs(v.bytes) = [len |-> v.size, code |-> v.code]

(* The codes that are refused are those that the comment of                *)
(* toml_ucs_to_utf8 names (toml.c 149) and those below 0; every other is   *)
(* written as bytes and read back, also with another character behind it,  *)
(* and not when it is cut short or one of the bytes is changed.            *)
Utf8Inverse ==
  task = "code" =>
    /\ Refused(code) <=>
         code < 0 \/ code \in {65534, 65535} \/ (code >= 55296 /\ code <= 57343)
    /\ ReadsBack(code, {<<>>, <<65>>, <<128>>, <<255>>}, {65, 192, 255})

-----------------------------------------------------------------------------
(* The tokens of a text up to the one that ends it.                        *)
Tokens(t) ==
  LET from[p \in 1 .. Len(t) + 1] ==
        LET next == next_token(t, p, FALSE)
        IN IF next.len = 0 THEN <<next>> ELSE <<next>> \o from[next.ptr + next.len]
  IN from[1]

Covers(tok, k) == tok.ptr <= k /\ k < tok.ptr + tok.len
Spelling(t, tok) == SubSeq(t, tok.ptr, tok.ptr + tok.len - 1)

(* Every end of a line that is scanned is a NEWLINE of its own, also the   *)
(* one that ends a comment, but for those inside a string of three quotes: *)
(* a statement never runs on into the next line.                           *)
LinesKept ==
  LET tokens == Tokens(text)
  IN task \in StringTasks =>
     \A k \in 1 .. Last(tokens).ptr - 1 :
       text[k] = NL =>
         \E n \in DOMAIN tokens :
           /\ Covers(tokens[n], k)
           /\ \/ tokens[n].tok = "NEWLINE"
              \/ Starts(text, tokens[n].ptr, Triple(DQ))
              \/ Starts(text, tokens[n].ptr, Triple(SQ))

ThreeQuoted(s) == Starts(s, 1, Triple(DQ))

(* How many backslashes stand directly before a place.  They escape each   *)
(* other, and what is at the place only if their number is odd.            *)
BackslashesBefore(s, k) == Max({n \in 0 .. k - 1 : \A j \in 1 .. n : s[k - j] = BS})
Escaped(s, k) == BackslashesBefore(s, k) % 2 = 1

(* The last three characters are quotes, and none of them is escaped.      *)
ClosesBare(s) == /\ \A k \in 0 .. 2 : s[Len(s) - k] = DQ
                 /\ ~ Escaped(s, Len(s) - 2)

(* An escape \u or \U with the digits of a code that has no character:     *)
(* a surrogate, FFFE, FFFF or one of more than 31 bits.                    *)
NamesNoCharacter(s) ==
  \E k \in DOMAIN s :
    LET n == IF s[k] = "u" THEN 4 ELSE 8
        digits == SubSeq(s, k + 1, k + n)
    IN /\ s[k] \in {"u", "U"} /\ Escaped(s, k)
       /\ k + n < Len(s) /\ Within(digits, Range(HEX)) => Refused(CodeOf(digits))

(* Where next_token and toml_rtos agree on quoted strings, and where not:  *)
(* what the scanner takes for one is read, but for a string of three       *)
(* quotes with an escape among those that end it, where the scanner counts *)
(* on behind it, and for an escape that names no character, of which the   *)
(* scanner checks nothing but that hexadecimal digits follow.              *)
QuotesReadable ==
  LET tokens == Tokens(text)
  IN task \in StringTasks =>
     \A n \in DOMAIN tokens :
       LET s == Spelling(text, tokens[n])
       IN tokens[n].tok = "STRING" /\ tokens[n].len > 0 /\ s[1] \in {DQ, SQ} =>
            (toml_rtos(s) # {}
               <=> /\ s[1] = DQ => ~ NamesNoCharacter(s)
                   /\ ThreeQuoted(s) => ClosesBare(s))

-----------------------------------------------------------------------------
EndsLine(t, k) == t[k] = BS /\ (Starts(t, k + 1, <<NL>>) \/ Starts(t, k + 1, <<CR, NL>>))
Backslashes(t) == {k \in DOMAIN t : t[k] = BS}

(* A character goes if it is a backslash or only blanks lie between it and *)
(* a backslash before it.                                                  *)
Joined(t) ==
  FlattenSeq([k \in DOMAIN t |->
                IF \E j \in Backslashes(t) \cap (1 .. k) : \A h \in j + 1 .. k : t[h] \in BLANK
                THEN <<>> ELSE <<t[k]>>])

(* Between three double quotes a backslash at the end of a line takes that *)
(* end and all the blanks behind it away, over several lines as well; and  *)
(* between three single quotes everything stands as it is, backslashes     *)
(* too, as long as none of them is at the end of a line.  In both the line *)
(* end right behind the opening quotes is dropped.                         *)
LinesJoined ==
  LET ending == {k \in DOMAIN text : EndsLine(text, k)}
      body == AfterNewline(text)
  IN task = "content" =>
     /\ Backslashes(text) = ending /\ ~ Contains(text, DQ) =>
          toml_rtos(Triple(DQ) \o text \o Triple(DQ)) = {Joined(body)}
     /\ ending = {} => toml_rtos(Triple(SQ) \o text \o Triple(SQ)) = {body}

(* A string that toml_json prints between quotes is one token of a         *)
(* document again, and is read as the string it was.                       *)
EscapesReturn ==
  LET raw == <<DQ>> \o print_escape_string(text) \o <<DQ>>
  IN task = "content" => /\ next_token(raw, 1, FALSE).len = Len(raw)
                         /\ toml_rtos(raw) = {text}

-----------------------------------------------------------------------------
Decimal(t) == FoldSet(LAMBDA k, sum : sum + DigitValue(t[k]) * 10 ^ (Len(t) - k), 0, DOMAIN t)

(* An integer as the comments of toml_rtoi describe it: no other digit     *)
(* behind a first 0, the underscores stripped.                             *)
Integer(t) ==
  LET s == Unsigned(t)
      digits == Without(s, "_")
  IN IF s = <<"0">> THEN {0}
     ELSE IF s # <<>> /\ s[1] # "0" /\ digits # <<>> /\ Within(digits, Digit)
     THEN {n \in {IF Negative(t) THEN 0 - Decimal(digits) ELSE Decimal(digits)} :
             n <= LLONG_MAX /\ n >= 0 - LLONG_MAX - 1}
     ELSE {}

(* A text that begins with a digit, maybe behind a sign, is an integer     *)
(* exactly if its digits and underscores are one: nothing with a point, an *)
(* exponent or another base is, and the value is decimal and in range.     *)
(* And the type that the parser gives a value is the one that toml_json    *)
(* prints it with.                                                         *)
NumbersExact ==
  task = "number" /\ text # <<>> =>
    /\ CharAt(Unsigned(text), 1) \in Digit => toml_rtoi(text) = Integer(text)
    /\ print_raw(text) = CASE valtype(text) = "i" -> "integer" [] valtype(text) = "d" -> "float"
                           [] valtype(text) = "t" -> "time"    [] valtype(text) = "u" -> "exit"

(* There is no hexadecimal integer: toml_rtoi refuses another digit behind *)
(* a first 0, and the fixtures give every register in decimal because      *)
(* there is none (tests/caps-info/001/kvm.toml 10).                        *)
NoHexadecimal == task = "number" /\ Contains(text, "x") => toml_rtoi(text) = {}

-----------------------------------------------------------------------------
(* The productions full-date, partial-time and time-offset of RFC 3339,    *)
(* place by place: 0 stands for a digit.  A timestamp is a date, a time of *)
(* day, or both with or without an offset (toml.h 116).                     *)
Shape(t) == [k \in DOMAIN t |-> IF t[k] \in Digit THEN "0" ELSE t[k]]
DATE == <<"0", "0", "0", "0", "-", "0", "0", "-", "0", "0">>
TIME == <<"0", "0", ":", "0", "0", ":", "0", "0">>
FRACTIONS == {<<>>, <<".", "0">>, <<".", "0", "0">>}
OFFSETS == {<<"Z">>} \union {<<s, "0", "0", ":", "0", "0">> : s \in Signs}
SEPARATORS == {<<"T">>, <<SP>>}

Clocks(times, fractions, offsets) == {t \o f \o z : t \in times, f \in fractions, z \in offsets}
RFC3339 == {DATE} \union Clocks({TIME}, FRACTIONS, {<<>>})
           \union {DATE \o c \o t : c \in SEPARATORS,
                                   t \in Clocks({TIME}, FRACTIONS, OFFSETS \union {<<>>})}

(* What toml_rtots takes beyond that: a separator with no time behind it,  *)
(* a fraction without digits, an offset without minutes or behind a time   *)
(* alone, and a digit where the second dash or a colon belongs.            *)
LOOSE_DATES == {DATE, [DATE EXCEPT ![8] = "0"]}
LOOSE_TIMES == Clocks({TIME, [TIME EXCEPT ![3] = "0"], [TIME EXCEPT ![6] = "0"],
                       [TIME EXCEPT ![3] = "0", ![6] = "0"]},
                      FRACTIONS \union {<<".">>},
                      OFFSETS \union {<<>>} \union {<<s, "0", "0">> : s \in Signs})
LOOSE == (LOOSE_DATES \union LOOSE_TIMES
          \union {d \o c \o t : d \in LOOSE_DATES, c \in SEPARATORS, t \in LOOSE_TIMES \union {<<>>}})
         \ RFC3339

(* The three fields at their places, and the numbers that its digits make, *)
(* whatever stands between them: the last two, the two before, the rest.   *)
Ten(t, p) == 10 * DigitValue(t[p]) + DigitValue(t[p + 1])
Date(t) == <<100 * Ten(t, 1) + Ten(t, 3), Ten(t, 6), Ten(t, 9)>>
Time(t, p) == <<Ten(t, p), Ten(t, p + 3), Ten(t, p + 6)>>
Cut(t) == LET d == SelectSeq(t, LAMBDA c : c \in Digit)
              n == Len(d)
          IN <<Decimal(SubSeq(d, 1, n - 4)), Ten(d, n - 3), Ten(d, n - 1)>>

(* A text in a form of RFC 3339 is read with each field and the offset     *)
(* that stand at their places in it.  Of other texts only those of the     *)
(* loose forms are read, and a digit in the place of a mark then belongs   *)
(* to the number before it: 2020-02129 is the 29th of month 21 of 20200.   *)
TimestampsExact ==
  LET read == toml_rtots(text)
      shape == Shape(text)
      exact == shape \in RFC3339
      dated == CharAt(text, 5) = "-"
      clock == IF dated THEN 12 ELSE 1
      timed == Len(text) >= clock
  IN task = "time" =>
     /\ read # {} <=> exact \/ shape \in LOOSE
     /\ \A ts \in read :
          /\ ts.date = IF ~ dated THEN <<>>
                       ELSE IF exact THEN Date(text) ELSE Cut(SubSeq(text, 1, 10))
          /\ ts.time = IF ~ timed THEN <<>>
                       ELSE IF exact THEN Time(text, clock) ELSE Cut(SubSeq(text, clock, clock + 7))
          /\ ts.z = From(text, FirstOf(text, {k \in clock .. Len(text) :
                                                text[k] \in Signs \union {"Z"}}))
=============================================================================
