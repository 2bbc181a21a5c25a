---------------------------- MODULE ReleaseText -----------------------------
(***************************************************************************)
(* The texts of kernel releases, for the instances of the version plugin:  *)
(* what uname -r prints and what a configuration names.                    *)
(*                                                                         *)
(* A release is [segments, build, width, tags]: the numbers before the     *)
(* dash, the numbers behind it, the least number of digits of these, and   *)
(* the bytes a distribution appends.  All numbers are below 1000.          *)
(***************************************************************************)
EXTENDS GoVersion

Release(segments, build, tags) ==
  [segments |-> segments, build |-> build, width |-> 1, tags |-> tags]

LETTER == 97
El7 == <<DOT, LETTER, ZERO + 7, DOT, LETTER>>      \* .el7.x86_64

Decimal(n, width) ==
  LET digits == <<ZERO + (n \div 100), ZERO + ((n \div 10) % 10), ZERO + (n % 10)>>
      length == IF n >= 100 THEN 3 ELSE IF n >= 10 THEN 2 ELSE 1
  IN SubSeq(digits, 4 - Max({length, width}), 3)

Dots(numbers, width) ==
  LET upto[k \in 1 .. Len(numbers)] ==
        IF k = 1 THEN Decimal(numbers[1], width)
        ELSE upto[k - 1] \o <<DOT>> \o Decimal(numbers[k], width)
  IN upto[Len(numbers)]

Text(r) == Dots(r.segments, 1)
           \o (IF r.build = <<>> THEN <<>> ELSE <<DASH>> \o Dots(r.build, r.width))
           \o r.tags
=============================================================================
