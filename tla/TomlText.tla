------------------------------ MODULE TomlText ------------------------------
(***************************************************************************)
(* Characters and the scanner of contrib/tomlc99/toml.c: next_token and    *)
(* scan_string.  A text is a sequence of characters, each a string of      *)
(* length one; it holds no NUL, for the parser reads up to the first one.  *)
(***************************************************************************)
EXTENDS Integers, Sequences, SequencesExt

NL == "\n"
CR == "\r"
TAB == "\t"
SP == " "
DQ == "\""
SQ == "'"
BS == "\\"
HASH == "#"
NUL == "NUL"

OCTAL == <<"0", "1", "2", "3", "4", "5", "6", "7">>
DIGITS == OCTAL \o <<"8", "9">>
HEX == DIGITS \o <<"A", "B", "C", "D", "E", "F">>
Digit == Range(OCTAL) \union {"8", "9"}
Letter == {"a", "b", "c", "d", "e", "f", "g", "h", "i", "j", "k", "l", "m", "n",
           "o", "p", "q", "r", "s", "t", "u", "v", "w", "x", "y", "z",
           "A", "B", "C", "D", "E", "F", "G", "H", "I", "J", "K", "L", "M", "N",
           "O", "P", "Q", "R", "S", "T", "U", "V", "W", "X", "Y", "Z"}

(* The characters from p on, as C sees them: behind the last one is NUL.   *)
CharAt(t, p) == IF p \in DOMAIN t THEN t[p] ELSE NUL
Starts(t, p, w) == p + Len(w) - 1 <= Len(t) /\ SubSeq(t, p, p + Len(w) - 1) = w
Triple(c) == <<c, c, c>>

(* The first position of P, or the one behind the text.                    *)
FirstOf(t, P) == Min(P \union {Len(t) + 1})

-----------------------------------------------------------------------------
ESCAPES == {"b", "t", "n", "f", "r", DQ, BS}

(* Mutated: an escaped quote counts like any other.                        *)
MutantQuoteStep(st, c, quotes) ==
  IF st.at \in {"done", "bad"} THEN st
  ELSE LET next == [st EXCEPT !.len = @ + 1]
       IN IF st.hexreq > 0
          THEN IF c \in Range(HEX) THEN [next EXCEPT !.hexreq = @ - 1]
               ELSE [st EXCEPT !.at = "bad"]
          ELSE IF c = BS THEN [next EXCEPT !.at = "body"]
          ELSE IF quotes = 1 /\ c = NL THEN [st EXCEPT !.at = "bad"]
          ELSE LET qcnt == IF c = DQ THEN st.qcnt + 1 ELSE 0
               IN [next EXCEPT !.qcnt = qcnt,
                               !.at = IF qcnt = quotes THEN "done" ELSE "body"]

(* One character of a double-quoted string that quotes many quotes end:    *)
(* escape, hexreq and qcnt are the variables of the two loops.  An escape  *)
(* and its digits leave qcnt as it is.                                     *)
QuoteStep(st, c, quotes) ==
  IF st.at \in {"done", "bad"} THEN st
  ELSE LET next == [st EXCEPT !.len = @ + 1]
       IN IF st.at = "escape"
          THEN IF c \in ESCAPES \/ (c = NL /\ quotes = 3)
               THEN [next EXCEPT !.at = "body"]
               ELSE IF c \in {"u", "U"}
               THEN [next EXCEPT !.at = "body", !.hexreq = IF c = "u" THEN 4 ELSE 8]
               ELSE [st EXCEPT !.at = "bad"]
          ELSE IF st.hexreq > 0
          THEN IF c \in Range(HEX) THEN [next EXCEPT !.hexreq = @ - 1]
               ELSE [st EXCEPT !.at = "bad"]
          ELSE IF c = BS THEN [next EXCEPT !.at = "escape"]
          ELSE IF quotes = 1 /\ c = NL THEN [st EXCEPT !.at = "bad"]
          ELSE LET qcnt == IF c = DQ THEN st.qcnt + 1 ELSE 0
               IN [next EXCEPT !.qcnt = qcnt,
                               !.at = IF qcnt = quotes THEN "done" ELSE "body"]

(* The length of the double-quoted string at p, or -1.                     *)
ScanQuoted(t, p, quotes) ==
  LET end == FoldLeft(LAMBDA st, c : QuoteStep(st, c, quotes),
                      [at |-> "body", hexreq |-> 0, qcnt |-> 0, len |-> 0],
                      SubSeq(t, p + quotes, Len(t)))
  IN IF end.at = "done" THEN quotes + end.len ELSE -1

BARE == Letter \union Digit \union {"+", "-", "_", ".", ":"}

(* The length of the string at p, or -1 for a syntax error.  A character   *)
(* that starts nothing is a string of length 0.                            *)
scan_string(t, p, dotisspecial) ==
  IF Starts(t, p, Triple(SQ))
  THEN LET close == {q \in p + 3 .. Len(t) : Starts(t, q, Triple(SQ))}
       IN IF close = {} THEN -1 ELSE Min(close) + 3 - p
  ELSE IF Starts(t, p, Triple(DQ)) THEN ScanQuoted(t, p, 3)
  ELSE IF t[p] = SQ
  THEN LET close == FirstOf(t, {q \in p + 1 .. Len(t) : t[q] \in {SQ, NL}})
       IN IF CharAt(t, close) = SQ THEN close + 1 - p ELSE -1
  ELSE IF t[p] = DQ THEN ScanQuoted(t, p, 1)
  ELSE FirstOf(t, {q \in p .. Len(t) : \/ t[q] \notin BARE
                                       \/ t[q] = "." /\ dotisspecial}) - p

-----------------------------------------------------------------------------
Mark(c) == CASE c = "," -> "COMMA"    [] c = "=" -> "EQUAL"
             [] c = "{" -> "LBRACE"   [] c = "}" -> "RBRACE"
             [] c = "[" -> "LBRACKET" [] c = "]" -> "RBRACKET"
             [] c = NL -> "NEWLINE"   [] c = "." -> "DOT"
MARKS == {",", "=", "{", "}", "[", "]", NL}
BLANKS == {CR, SP, TAB}

token(tok, ptr, len, eof) == [tok |-> tok, ptr |-> ptr, len |-> len, eof |-> eof]

(* Mutated: a comment takes the end of its line with it.                   *)
MutantTokenStart(t, p) ==
  FirstOf(t, {q \in p .. Len(t) : /\ t[q] \notin BLANKS
                                  /\ \A h \in p .. q : t[h] = HASH =>
                                       \E n \in h .. q - 1 : t[n] = NL})

(* Blanks are skipped, and a comment up to the end of its line.            *)
TokenStart(t, p) ==
  FirstOf(t, {q \in p .. Len(t) : \/ t[q] = NL
                                  \/ /\ t[q] \notin BLANKS
                                     /\ \A h \in p .. q : t[h] # HASH})

(* The token at or behind p; "INVALID" stands for a syntax error.  At the  *)
(* end of the text it is a NEWLINE of length 0, as often as it is read.    *)
next_token(t, p, dotisspecial) ==
  LET q == TokenStart(t, p)
      c == CharAt(t, q)
  IN IF q > Len(t) THEN token("NEWLINE", q, 0, TRUE)
     ELSE IF c \in MARKS \/ (c = "." /\ dotisspecial) THEN token(Mark(c), q, 1, FALSE)
     ELSE LET len == scan_string(t, q, dotisspecial)
          IN IF len < 0 THEN token("INVALID", q, 0, FALSE)
             ELSE token("STRING", q, len, FALSE)
=============================================================================
