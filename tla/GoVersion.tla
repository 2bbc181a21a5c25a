----------------------------- MODULE GoVersion ------------------------------
(***************************************************************************)
(* The versions the version plugin compares: sanitizeVersion of            *)
(* pkg/kvminfo/versioninfo/check.go, and the constructor and the order of  *)
(* vendor/github.com/hashicorp/go-version/version.go.                      *)
(*                                                                         *)
(* A text is a sequence of bytes.  Both callers of NewVersion sanitize     *)
(* first, so it is given digits, dots and dashes only: the parts of its    *)
(* regular expression for letters, for v and for + never match, and a      *)
(* version has no metadata.  (unicode.IsDigit is taken to mean 0 to 9.)    *)
(***************************************************************************)
EXTENDS Integers, SequencesExt

CONSTANT INT64_MAX      \* the largest int64

ASSUME Int64Assumption == INT64_MAX \in Nat \ {0}

DASH == 45
DOT == 46
ZERO == 48

IsDigit(c) == c \in ZERO .. ZERO + 9
IsNumber(t) == t # <<>> /\ \A k \in DOMAIN t : IsDigit(t[k])

-----------------------------------------------------------------------------
(* Mutated: the separator before the first letter stays.                   *)
MutantSanitizeKeepsSeparator(ver) ==
  LET others == {k \in DOMAIN ver : ~(IsDigit(ver[k]) \/ ver[k] \in {DASH, DOT})}
  IN IF others = {} THEN ver ELSE SubSeq(ver, 1, Min(others) - 1)

(* The text up to the first byte that is no digit, dash or dot, without    *)
(* the one separator that may stand before it.                             *)
sanitizeVersion(ver) ==
  LET others == {k \in DOMAIN ver : ~(IsDigit(ver[k]) \/ ver[k] \in {DASH, DOT})}
      first == Min(others)
  IN IF others = {} THEN ver
     ELSE IF first > 1 /\ ~IsDigit(ver[first - 1]) THEN SubSeq(ver, 1, first - 2)
     ELSE SubSeq(ver, 1, first - 1)

-----------------------------------------------------------------------------
(* The k-th element of a set of numbers.                                   *)
Kth(S, k) == CHOOSE n \in S : Cardinality({m \in S : m < n}) = k - 1

(* strings.Split(t, "."): what stands between two neighbouring stops.      *)
Split(t) ==
  LET stops == {0, Len(t) + 1} \union {k \in DOMAIN t : t[k] = DOT}
  IN [k \in 1 .. Cardinality(stops) - 1 |-> SubSeq(t, Kth(stops, k) + 1, Kth(stops, k + 1) - 1)]

(* The number a row of digits stands for; all above INT64_MAX + 1 alike.   *)
Value(digits) ==
  LET upto[k \in 0 .. Len(digits)] ==
        IF k = 0 THEN 0 ELSE Min({10 * upto[k - 1] + (digits[k] - ZERO), INT64_MAX + 2})
  IN upto[Len(digits)]

(* strconv.ParseInt: ok, and a value also when there is an error: the      *)
(* nearest int64 when out of range, else 0.                                *)
ParseInt(t) ==
  LET negative == t # <<>> /\ t[1] = DASH
      digits == IF negative THEN Tail(t) ELSE t
      sign == IF negative THEN -1 ELSE 1
      limit == IF negative THEN INT64_MAX + 1 ELSE INT64_MAX
  IN IF ~IsNumber(digits) THEN [ok |-> FALSE, val |-> 0]
     ELSE [ok |-> Value(digits) <= limit,
           val |-> sign * Min({Value(digits), limit})]

Malformed == [ok |-> FALSE, segments |-> <<>>, pre |-> <<>>]

PadTo3(segments) == segments \o [k \in 1 .. 3 - Len(segments) |-> 0]

Dashes(v) == {k \in DOMAIN v : v[k] = DASH}
FirstDash(v) == IF Dashes(v) = {} THEN Len(v) + 1 ELSE Min(Dashes(v))
AfterDash(v) == SubSeq(v, FirstDash(v) + 1, Len(v))

(* Mutated: the dash is never part of the prerelease.                      *)
MutantPrereleaseAfterDash(v) == AfterDash(v)

(* The prerelease is what follows the first dash; where that is empty or   *)
(* starts with a dot, the expression matches only with the dash as a part  *)
(* of the prerelease.                                                      *)
Prerelease(v) ==
  IF Dashes(v) = {} THEN <<>>
  ELSE IF AfterDash(v) # <<>> /\ AfterDash(v)[1] # DOT THEN AfterDash(v)
  ELSE <<DASH>> \o AfterDash(v)

(* The segments end at the first dash, or with the text.                   *)
NewVersion(v) ==
  LET numbers == Split(SubSeq(v, 1, FirstDash(v) - 1))
      parts == Split(Prerelease(v))
  IN IF /\ \A k \in DOMAIN numbers : IsNumber(numbers[k]) /\ ParseInt(numbers[k]).ok
        /\ Dashes(v) # {} => \A k \in DOMAIN parts : parts[k] # <<>>
     THEN [ok |-> TRUE,
           segments |-> PadTo3([k \in DOMAIN numbers |-> ParseInt(numbers[k]).val]),
           pre |-> Prerelease(v)]
     ELSE Malformed

(* What both callers make of a text; the only thing they do with it.       *)
Read(text) == NewVersion(sanitizeVersion(text))

-----------------------------------------------------------------------------
(* The order of strings: byte by byte, a proper prefix first.              *)
Greater(t, u) ==
  \E n \in 0 .. Len(u) :
    /\ n < Len(t) /\ SubSeq(t, 1, n) = SubSeq(u, 1, n)
    /\ n < Len(u) => t[n + 1] > u[n + 1]

(* Mutated: parts are compared as texts also when they are numbers.        *)
MutantComparePartAsText(self, other) ==
  IF self = other THEN 0 ELSE IF Greater(self, other) THEN 1 ELSE -1

(* Numbers before texts, numbers by value, texts as strings; an empty part *)
(* is one that the other version has and this one has not.                 *)
comparePart(self, other) ==
  LET selfInt == ParseInt(self)
      otherInt == ParseInt(other)
  IN IF self = other THEN 0
     ELSE IF self = <<>> THEN (IF otherInt.ok THEN -1 ELSE 1)
     ELSE IF other = <<>> THEN (IF selfInt.ok THEN 1 ELSE -1)
     ELSE IF selfInt.ok # otherInt.ok THEN (IF selfInt.ok THEN -1 ELSE 1)
     ELSE IF ~selfInt.ok /\ Greater(self, other) THEN 1
     ELSE IF selfInt.val > otherInt.val THEN 1 ELSE -1

(* The first result of a loop of comparisons that is not "equal".          *)
FirstDifference(results) ==
  LET differ == {k \in DOMAIN results : results[k] # 0}
  IN IF differ = {} THEN 0 ELSE results[Min(differ)]

comparePrereleases(v, other) ==
  LET selfParts == Split(v)
      otherParts == Split(other)
      part(parts, k) == IF k <= Len(parts) THEN parts[k] ELSE <<>>
  IN FirstDifference([k \in 1 .. Max({Len(selfParts), Len(otherParts)}) |->
                        comparePart(part(selfParts, k), part(otherParts, k))])

(* Segments that one version lacks count as zeros.                         *)
compareSegments(self, other) ==
  LET at(segments, k) == IF k <= Len(segments) THEN segments[k] ELSE 0
      sign(n) == IF n < 0 THEN -1 ELSE IF n > 0 THEN 1 ELSE 0
  IN FirstDifference([k \in 1 .. Max({Len(self), Len(other)}) |->
                        sign(at(self, k) - at(other, k))])

(* Mutated: a release is older than its prereleases.                       *)
MutantComparePreNewer(v, other) ==
  IF v.segments # other.segments THEN compareSegments(v.segments, other.segments)
  ELSE IF v.pre = other.pre THEN 0
  ELSE IF v.pre = <<>> THEN -1
  ELSE IF other.pre = <<>> THEN 1
  ELSE comparePrereleases(v.pre, other.pre)

(* Prereleases are looked at only when the segments are the same, zeros at *)
(* the end included.                                                       *)
Compare(v, other) ==
  IF v.segments # other.segments THEN compareSegments(v.segments, other.segments)
  ELSE IF v.pre = other.pre THEN 0
  ELSE IF v.pre = <<>> THEN 1
  ELSE IF other.pre = <<>> THEN -1
  ELSE comparePrereleases(v.pre, other.pre)
=============================================================================
