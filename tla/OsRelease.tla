----------------------------- MODULE OsRelease ------------------------------
(***************************************************************************)
(* Reading an os-release file: ReadFile, parseFile and parseLine of        *)
(* vendor/github.com/cobaugh/osrelease/osrelease.go.                       *)
(*                                                                         *)
(* A file is [opens, scans, lines]: scans is FALSE when the scanner meets  *)
(* an error, a line too long for it or a failed read.  A line is           *)
(* [kind, key, value]: kind is "pair" when it has an equals sign, is not   *)
(* empty and does not start with #.  A value is [quote, text], what stands *)
(* around it and what stands inside; spaces around keys and values and the *)
(* escapes, which no ID has, are left out.                                 *)
(***************************************************************************)
EXTENDS Integers, Sequences, FiniteSetsExt

NoValue == [quote |-> "none", text |-> ""]

(* Only double quotes are removed: the test for them also guards the       *)
(* removal of single ones.                                                 *)
parseValue(value) == IF value.quote = "double" THEN [value EXCEPT !.quote = "none"]
                     ELSE value

Pairs(lines, key) == {k \in DOMAIN lines : lines[k].kind = "pair" /\ lines[k].key = key}

(* Mutated: the first line of a key wins.                                  *)
MutantFirstLineWins(file, key) ==
  IF Pairs(file.lines, key) = {} THEN NoValue
  ELSE parseValue(file.lines[Min(Pairs(file.lines, key))].value)

(* osrelease[key]: a later line replaces an earlier one, and a key that is *)
(* not there is the empty string.                                          *)
ValueOf(file, key) ==
  IF Pairs(file.lines, key) = {} THEN NoValue
  ELSE parseValue(file.lines[Max(Pairs(file.lines, key))].value)

Readable(file) == file.opens /\ file.scans
=============================================================================
