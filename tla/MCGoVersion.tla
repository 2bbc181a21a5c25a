---------------------------- MODULE MCGoVersion -----------------------------
(***************************************************************************)
(* Every text up to MaxLen bytes over a small alphabet, typed byte by      *)
(* byte, given to sanitizeVersion and NewVersion.  The references below    *)
(* are independent of the definitions of GoVersion: they read the regular  *)
(* expression VersionRegexpRaw as a set of ways to cut the text.           *)
(***************************************************************************)
EXTENDS GoVersion

CONSTANTS Bytes,      \* the alphabet
          MaxLen      \* the bound on the length of a text

VARIABLE text

NINE == 57
LETTER == 97
MCBytes == {DASH, DOT, ZERO, NINE, LETTER}

Init == text = <<>>

Type == /\ Len(text) < MaxLen
        /\ \E c \in Bytes : text' = Append(text, c)

Spec == Init /\ [][Type]_text

-----------------------------------------------------------------------------
(* Rows of bytes without an empty place between dots.                      *)
Dotted(t) == /\ t # <<>> /\ t[1] # DOT /\ t[Len(t)] # DOT
             /\ \A k \in 1 .. Len(t) - 1 : t[k] # DOT \/ t[k + 1] # DOT

Within(t, chars) == \A k \in DOMAIN t : t[k] \in chars

Digits == ZERO .. ZERO + 9

(* The first group, and the two bodies of a prerelease.                    *)
IsSegments(t) == Dotted(t) /\ Within(t, Digits \union {DOT})
NumberBody(t) == Dotted(t) /\ Within(t, Digits \union {DOT, DASH}) /\ t[1] \in Digits
DashBody(t) == Dotted(t) /\ Within(t, Digits \union {DOT, DASH}) /\ t[1] = DASH

(* The prerelease that the tail of a match stands for: the alternatives of *)
(* the expression in the order in which they are tried.                    *)
IsTail(t) == \/ t = <<>>
             \/ t[1] = DASH /\ (NumberBody(Tail(t)) \/ DashBody(Tail(t)))
             \/ DashBody(t)

TailPre(t) == IF t = <<>> THEN <<>>
              ELSE IF NumberBody(Tail(t)) \/ DashBody(Tail(t)) THEN Tail(t)
              ELSE t

Number(t) == FoldSet(LAMBDA k, sum : sum + (t[k] - ZERO) * 10 ^ (Len(t) - k), 0, DOMAIN t)

(* The bytes that have k - 1 dots before them.                             *)
Row(t, k) ==
  LET row == {n \in DOMAIN t : /\ t[n] # DOT
                               /\ Cardinality({m \in 1 .. n : t[m] = DOT}) = k - 1}
  IN SubSeq(t, Min(row), Max(row))

Rows(t) == Cardinality({n \in DOMAIN t : t[n] = DOT}) + 1

Matched(v) ==
  LET cuts == {n \in 0 .. Len(v) : /\ IsSegments(SubSeq(v, 1, n))
                                   /\ IsTail(SubSeq(v, n + 1, Len(v)))}
      cut == CHOOSE n \in cuts : \A o \in cuts : n <= o
      segments == SubSeq(v, 1, cut)
      numbers == [k \in 1 .. Rows(segments) |-> Number(Row(segments, k))]
  IN IF cuts = {} \/ \E k \in DOMAIN numbers : numbers[k] > INT64_MAX THEN Malformed
     ELSE [ok |-> TRUE,
           segments |-> [k \in 1 .. Max({3, Len(numbers)}) |->
                           IF k <= Len(numbers) THEN numbers[k] ELSE 0],
           pre |-> TailPre(SubSeq(v, cut + 1, Len(v)))]

(* NewVersion accepts what VersionRegexpRaw matches and takes from it the  *)
(* segments and the prerelease of that match, for every text of digits,    *)
(* dots and dashes; a segment that is no int64 is an error.                *)
RegexAgrees == Within(text, Digits \union {DOT, DASH}) => NewVersion(text) = Matched(text)

-----------------------------------------------------------------------------
(* A kernel's release: numbers, maybe a dash and build numbers; then, set  *)
(* off by at most one separator, anything that starts with a letter.       *)
IsRelease(t) ==
  \E n \in 0 .. Len(t) :
    /\ IsSegments(SubSeq(t, 1, n))
    /\ \/ n = Len(t)
       \/ t[n + 1] = DASH /\ IsSegments(SubSeq(t, n + 2, Len(t)))

Suffixed(t, n) ==
  \/ n = Len(t)
  \/ t[n + 1] = LETTER
  \/ n + 2 <= Len(t) /\ t[n + 1] \in {DASH, DOT} /\ t[n + 2] = LETTER

(* The architecture and distribution tags at the end of a kernel's release *)
(* (.el7.x86_64, -azure, rc1) never change the version that is read: it is *)
(* that of the numbers alone.                                              *)
TagsIgnored ==
  \A n \in 0 .. Len(text) :
    IsRelease(SubSeq(text, 1, n)) /\ Suffixed(text, n)
      => NewVersion(sanitizeVersion(text)) = Matched(SubSeq(text, 1, n))
=============================================================================
