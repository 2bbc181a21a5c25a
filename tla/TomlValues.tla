----------------------------- MODULE TomlValues -----------------------------
(***************************************************************************)
(* The values of contrib/tomlc99/toml.c: how the raw text of a value is    *)
(* read as a string, a boolean, an integer, a float or a timestamp, and    *)
(* how a key is normalised.  A reader returns {v}, or {} where the C       *)
(* function returns -1, 0 or an error.                                     *)
(***************************************************************************)
EXTENDS TomlText, TomlUtf8, TLC

CONSTANTS LLONG_MAX,      \* the largest value of an int64_t
          OutOfRange(_)   \* strtod sets errno on the number: it over- or underflows
ASSUME LimitAssumption == LLONG_MAX \in Nat

Without(t, c) == FlattenSeq([k \in DOMAIN t |-> IF t[k] = c THEN <<>> ELSE <<t[k]>>])
Within(t, chars) == \A k \in DOMAIN t : t[k] \in chars
From(t, p) == SubSeq(t, p, Len(t))

(* The value of digits to a base up to 16.                                 *)
DigitValue(c) == (CHOOSE k \in DOMAIN HEX : HEX[k] = c) - 1
Number(t, base) == FoldLeft(LAMBDA n, c : n * base + DigitValue(c), 0, t)

-----------------------------------------------------------------------------
(* The bytes of a code as characters.  One that has no name here is 0x and *)
(* its number.                                                             *)
PRINTABLE == << " ", "!", DQ, "#", "$", "%", "&", SQ, "(", ")", "*", "+", ",", "-", ".", "/",
  "0", "1", "2", "3", "4", "5", "6", "7", "8", "9", ":", ";", "<", "=", ">", "?", "@",
  "A", "B", "C", "D", "E", "F", "G", "H", "I", "J", "K", "L", "M", "N", "O", "P", "Q", "R",
  "S", "T", "U", "V", "W", "X", "Y", "Z", "[", BS, "]", "^", "_", "0x96",
  "a", "b", "c", "d", "e", "f", "g", "h", "i", "j", "k", "l", "m", "n", "o", "p", "q", "r",
  "s", "t", "u", "v", "w", "x", "y", "z", "{", "|", "}", "~" >>
CharOf(b) == CASE b = 0 -> NUL [] b = 9 -> TAB [] b = 10 -> NL [] b = 13 -> CR
               [] b \in 32 .. 126 -> PRINTABLE[b - 31]
               [] OTHER -> "0x" \o ToString(b)

BLANK == {SP, TAB, CR, NL}
Unescaped == [c \in ESCAPES |-> CASE c = "b" -> CharOf(8)  [] c = "t" -> TAB
                                  [] c = "n" -> NL         [] c = "f" -> CharOf(12)
                                  [] c = "r" -> CR         [] OTHER -> c]

(* The code of four or eight hexadecimal digits.                           *)
CodeOf(digits) == IF Len(digits) = 8 /\ DigitValue(digits[1]) >= 8 THEN -1
                  ELSE Number(digits, 16)

(* Mutated: a backslash at the end of a line takes only that end.          *)
MutantNormalizeStep(st, c, kill) ==
  CASE st.at = "bad" -> st
    [] st.at = "skip" /\ c \in BLANK -> [st EXCEPT !.at = "plain", !.out = Append(@, c)]
    [] st.at = "escape" /\ kill /\ c = NL -> [st EXCEPT !.at = "skip"]
    [] st.at = "escape" /\ c \in ESCAPES ->
         [st EXCEPT !.at = "plain", !.out = Append(@, Unescaped[c])]
    [] st.at \in {"escape", "hex", "cr"} -> [st EXCEPT !.at = "bad"]
    [] OTHER -> IF c = BS THEN [st EXCEPT !.at = "escape"]
                ELSE [st EXCEPT !.at = "plain", !.out = Append(@, c)]

(* One character of normalize_string.  kill says whether a backslash at    *)
(* the end of a line takes that end and the blanks that follow with it.    *)
NormalizeStep(st, c, kill) ==
  CASE st.at = "bad" -> st
    [] st.at = "skip" /\ c \in BLANK -> st
    [] st.at = "escape" /\ kill /\ c = NL -> [st EXCEPT !.at = "skip"]
    [] st.at = "escape" /\ kill /\ c = CR -> [st EXCEPT !.at = "cr"]
    [] st.at = "escape" /\ c \in {"u", "U"} ->
         [st EXCEPT !.at = "hex", !.need = IF c = "u" THEN 4 ELSE 8, !.digits = <<>>]
    [] st.at = "escape" /\ c \in ESCAPES ->
         [st EXCEPT !.at = "plain", !.out = Append(@, Unescaped[c])]
    [] st.at = "cr" /\ c = NL -> [st EXCEPT !.at = "skip"]
    [] st.at = "hex" /\ c \in Range(HEX) ->
         LET digits == Append(st.digits, c)
             bytes == toml_ucs_to_utf8(CodeOf(digits))
         IN IF Len(digits) < st.need THEN [st EXCEPT !.digits = digits]
            ELSE IF bytes = <<>> THEN [st EXCEPT !.at = "bad"]
            ELSE [st EXCEPT !.at = "plain",
                            !.out = @ \o [k \in DOMAIN bytes |-> CharOf(bytes[k])]]
    [] st.at \in {"escape", "hex", "cr"} -> [st EXCEPT !.at = "bad"]
    [] OTHER -> IF c = BS THEN [st EXCEPT !.at = "escape"]
                ELSE [st EXCEPT !.at = "plain", !.out = Append(@, c)]

(* A string of C ends at its first NUL.                                    *)
CString(t) == SubSeq(t, 1, FirstOf(t, {k \in DOMAIN t : t[k] = NUL}) - 1)

normalize_string(src, kill) ==
  LET end == FoldLeft(LAMBDA st, c : NormalizeStep(st, c, kill),
                      [at |-> "plain", need |-> 0, digits |-> <<>>, out |-> <<>>], src)
  IN IF end.at \in {"plain", "skip"} THEN {CString(end.out)} ELSE {}

(* Every mark, a backslash at a line's end, goes with the blanks behind it.*)
KillMarks(str, mark) ==
  LET rest[p \in 1 .. Len(str) + 1] ==
        IF p > Len(str) THEN <<>>
        ELSE IF Starts(str, p, mark)
        THEN rest[FirstOf(str, {q \in p + 1 .. Len(str) : str[q] \notin BLANK})]
        ELSE <<str[p]>> \o rest[p + 1]
  IN rest[1]

kill_line_ending_backslash(str) == KillMarks(KillMarks(str, <<BS, NL>>), <<BS, CR, NL>>)

(* Between its quotes; the first line end right behind three is dropped.   *)
Inside(src, n) == SubSeq(src, n + 1, Len(src) - n)
Quoted(src, q, n) == /\ Len(src) >= 2 * n
                     /\ \A k \in 1 .. n : src[k] = q /\ src[Len(src) - n + k] = q
AfterNewline(t) == IF Starts(t, 1, <<NL>>) THEN From(t, 2)
                   ELSE IF Starts(t, 1, <<CR, NL>>) THEN From(t, 3) ELSE t

(* The raw value as a string.                                              *)
toml_rtos(src) ==
  IF Starts(src, 1, Triple(SQ))
  THEN IF Quoted(src, SQ, 3) THEN {kill_line_ending_backslash(AfterNewline(Inside(src, 3)))} ELSE {}
  ELSE IF Starts(src, 1, Triple(DQ))
  THEN IF Quoted(src, DQ, 3) THEN normalize_string(AfterNewline(Inside(src, 3)), TRUE) ELSE {}
  ELSE IF Quoted(src, SQ, 1) THEN {Inside(src, 1)}
  ELSE IF Quoted(src, DQ, 1) THEN normalize_string(Inside(src, 1), TRUE)
  ELSE {}

-----------------------------------------------------------------------------
TRUE_TEXT == <<"t", "r", "u", "e">>
FALSE_TEXT == <<"f", "a", "l", "s", "e">>

toml_rtob(src) == IF src = TRUE_TEXT THEN {TRUE} ELSE IF src = FALSE_TEXT THEN {FALSE} ELSE {}

BUF_SIZE == 100     \* sizeof(buf) in toml_rtoi and toml_rtod
Signs == {"+", "-"}
SignOf(t) == IF t # <<>> /\ t[1] \in Signs THEN <<t[1]>> ELSE <<>>
Unsigned(t) == From(t, Len(SignOf(t)) + 1)
Negative(t) == SignOf(t) = <<"-">>

(* A small letter stands 32 places behind its capital.                     *)
UpperOf(c) == IF \E k \in 66 .. 91 : PRINTABLE[k] = c
              THEN PRINTABLE[(CHOOSE k \in 66 .. 91 : PRINTABLE[k] = c) - 32] ELSE c
Capitals(t) == [k \in DOMAIN t |-> UpperOf(t[k])]
HexPrefixed(t) == Len(t) > 2 /\ t[1] = "0" /\ t[2] \in {"x", "X"}

(* strtoll with base 0: 0x begins a hexadecimal number, 0 an octal one.    *)
(* Nothing but the number may stand in buf, and no number at all is 0.     *)
strtoll(buf) ==
  LET body == Unsigned(buf)
      hex == Capitals(From(body, 3))
      read == IF buf = <<>> THEN {0}
              ELSE IF body = <<>> THEN {}
              ELSE IF HexPrefixed(body)
              THEN IF Within(hex, Range(HEX)) THEN {Number(hex, 16)} ELSE {}
              ELSE IF body[1] = "0"
              THEN IF Within(body, Range(OCTAL)) THEN {Number(body, 8)} ELSE {}
              ELSE IF Within(body, Digit) THEN {Number(body, 10)} ELSE {}
      signed == {IF Negative(buf) THEN 0 - n ELSE n : n \in read}
  IN {n \in signed : n <= LLONG_MAX /\ n >= 0 - LLONG_MAX - 1}

(* Mutated: the underscores stay in the buffer.                            *)
MutantRtoi(src) ==
  LET s == Unsigned(src)
      buf == SignOf(src) \o s
  IN IF Starts(s, 1, <<"0">>) THEN IF Len(s) = 1 THEN {0} ELSE {}
     ELSE IF Len(buf) < BUF_SIZE THEN strtoll(buf) ELSE {}

(* The raw value as an integer.                                            *)
toml_rtoi(src) ==
  LET s == Unsigned(src)
      buf == SignOf(src) \o Without(s, "_")
  IN IF Starts(s, 1, <<"0">>) THEN IF Len(s) = 1 THEN {0} ELSE {}
     ELSE IF Len(buf) < BUF_SIZE THEN strtoll(buf) ELSE {}

(* Digits with at most one point, and maybe an exponent.                   *)
Floating(t, digits, mark) ==
  \E n \in 1 .. Len(t) :
    /\ Within(SubSeq(t, 1, n), digits \union {"."})
    /\ \E k \in 1 .. n : t[k] \in digits
    /\ \A j, k \in 1 .. n : t[j] = "." /\ t[k] = "." => j = k
    /\ \/ n = Len(t)
       \/ /\ t[n + 1] = mark
          /\ Unsigned(From(t, n + 2)) # <<>>
          /\ Within(Unsigned(From(t, n + 2)), Digit)

FLOAT_NAMES == {<<"I", "N", "F">>, <<"N", "A", "N">>,
                <<"I", "N", "F", "I", "N", "I", "T", "Y">>}

(* strtod takes the whole of buf.                                          *)
StrtodTakes(buf) ==
  LET body == Capitals(Unsigned(buf))
  IN \/ buf = <<>>
     \/ body \in FLOAT_NAMES
     \/ Floating(body, Digit, "E")
     \/ Starts(body, 1, <<"0", "X">>) /\ Floating(From(body, 3), Range(HEX), "P")

(* Whether the raw value is a float; its value is not computed.            *)
toml_rtod(src) ==
  LET s == Unsigned(src)
      buf == SignOf(src) \o Without(s, "_")
  IN /\ ~ Starts(s, 1, <<".">>)
     /\ Starts(s, 1, <<"0">>) => Len(s) = 1 \/ s[2] = "."
     /\ Len(buf) < BUF_SIZE
     /\ buf # <<>> => buf[Len(buf)] # "."
     /\ StrtodTakes(buf) /\ ~ OutOfRange(buf)

-----------------------------------------------------------------------------
(* Whether n characters from p are digits but for marks at some places,    *)
(* where a digit may stand too.                                            *)
Spaced(t, p, n, mark, places) ==
  /\ Len(t) >= p + n - 1
  /\ \A k \in 0 .. n - 1 : t[p + k] \in Digit \/ (t[p + k] = mark /\ k \in places)

(* The three numbers of a date or a time: the last two have two digits.    *)
Fields(t, p, n, mark) ==
  LET val == Number(Without(SubSeq(t, p, p + n - 1), mark), 10)
  IN <<val \div 10000, (val \div 100) % 100, val % 100>>

(* What may stand behind the seconds and how much of a fraction is there.  *)
FractionEnd(t, p) ==
  IF CharAt(t, p) # "." THEN p
  ELSE FirstOf(t, {q \in p + 1 .. Len(t) : t[q] \notin Digit})
Zone(z) == \/ z = <<"Z">>
           \/ /\ Len(z) \in {3, 6} /\ z[1] \in Signs
              /\ {z[k] : k \in {2, 3, 5, 6} \cap DOMAIN z} \subseteq Digit
              /\ Len(z) = 6 => z[4] = ":"

Timestamp(date, time, z) == [date |-> date, time |-> time, z |-> z]

(* Mutated: a zone is taken without a look at its digits.                  *)
MutantReadTime(src, p, date) ==
  LET end == FractionEnd(src, p + 8)
      z == From(src, end)
  IN IF ~ Spaced(src, p, 8, ":", {2, 5}) \/ (z # <<>> /\ Len(z) \notin {1, 3, 6}) THEN {}
     ELSE {Timestamp(date, Fields(src, p, 8, ":"), z)}

(* The time at p, behind the date.                                         *)
ReadTime(src, p, date) ==
  LET end == FractionEnd(src, p + 8)
      z == From(src, end)
  IN IF ~ Spaced(src, p, 8, ":", {2, 5}) \/ (z # <<>> /\ ~ Zone(z)) THEN {}
     ELSE {Timestamp(date, Fields(src, p, 8, ":"), z)}

(* The raw value as a timestamp: a date, a time or both.                   *)
toml_rtots(src) ==
  IF CharAt(src, 5) = "-"
  THEN IF ~ Spaced(src, 1, 10, "-", {4, 7}) THEN {}
       ELSE LET date == Fields(src, 1, 10, "-")
            IN IF Len(src) = 10 \/ (Len(src) = 11 /\ src[11] \in {"T", SP})
               THEN {Timestamp(date, <<>>, <<>>)}
               ELSE IF src[11] \in {"T", SP} THEN ReadTime(src, 12, date) ELSE {}
  ELSE IF src = <<>> THEN {Timestamp(<<>>, <<>>, <<>>)} ELSE ReadTime(src, 1, <<>>)

(* The type letter of a value, u for unknown.                              *)
valtype(val) ==
  IF val # <<>> /\ val[1] \in {SQ, DQ} THEN "s"
  ELSE IF toml_rtob(val) # {} THEN "b"
  ELSE IF toml_rtoi(val) # {} THEN "i"
  ELSE IF toml_rtod(val) THEN "d"
  ELSE LET read == toml_rtots(val)
       IN IF read = {} THEN "u"
          ELSE LET ts == CHOOSE r \in read : TRUE
               IN IF ts.date # <<>> /\ ts.time # <<>> THEN "T"
                  ELSE IF ts.date # <<>> THEN "D" ELSE "t"

-----------------------------------------------------------------------------
(* The key that a token stands for, {} for a bad one: no quotes, escapes   *)
(* resolved, no line end in it.                                            *)
normalize_key(tok) ==
  IF tok # <<>> /\ tok[1] \in {SQ, DQ}
  THEN LET body == Inside(tok, IF Starts(tok, 1, Triple(tok[1])) THEN 3 ELSE 1)
           keys == IF tok[1] = SQ THEN {body} ELSE normalize_string(body, FALSE)
       IN {key \in keys : NL \notin Range(key)}
  ELSE IF Within(tok, Letter \union Digit \union {"_", "-"}) THEN {tok} ELSE {}
=============================================================================
