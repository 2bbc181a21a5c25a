------------------------------ MODULE TomlUtf8 ------------------------------
(***************************************************************************)
(* toml_utf8_to_ucs and toml_ucs_to_utf8 of contrib/tomlc99/toml.c: a      *)
(* character's code and the one to six bytes that stand for it.            *)
(***************************************************************************)
EXTENDS Integers, Sequences

(* The first byte of n bytes begins with n ones and a zero, and carries    *)
(* the highest bits of the code; of one byte it is the code itself.        *)
LeadBase == <<0, 192, 224, 240, 248, 252>>
LeadSpan == <<128, 32, 16, 8, 4, 2>>
LeadBytes(n) == LeadBase[n] .. LeadBase[n] + LeadSpan[n] - 1

(* What the lowest bit counts of the first byte, six bits in each that     *)
(* follows, and the largest code of n bytes.                               *)
Weight == <<1, 64, 64 * 64, 64 * 64 * 64, 64 * 64 * 64 * 64, 64 * 64 * 64 * 64 * 64>>
Reach(n) == (LeadSpan[n] - 1) * Weight[n] + (Weight[n] - 1)
MAX_CODE == Reach(6)        \* 0x7FFFFFFF

(* Mutated: only the first bit of a byte that follows is looked at.        *)
MutantTailBytes == 128 .. 255

(* Every other byte begins with 10 and carries six bits.                   *)
TailBytes == 128 .. 191

Failed == [len |-> -1, code |-> -1]

(* The code of n bytes, and the character at the beginning of buf: how     *)
(* many bytes it takes and its code.                                       *)
CodeRead(buf, n) ==
  LET code[k \in 1 .. n] == IF k = 1 THEN buf[1] - LeadBase[n]
                            ELSE code[k - 1] * 64 + (buf[k] - 128)
  IN code[n]

toml_utf8_to_ucs(buf) ==
  LET sizes == {n \in 1 .. 6 : buf # <<>> /\ buf[1] \in LeadBytes(n) /\ n <= Len(buf)}
      n == CHOOSE k \in sizes : TRUE
  IN IF sizes = {} \/ \E k \in 2 .. n : buf[k] \notin TailBytes THEN Failed
     ELSE [len |-> n, code |-> CodeRead(buf, n)]

-----------------------------------------------------------------------------
(* UTF-16 surrogates, 0xD800 to 0xDFFF, and the two noncharacters, 0xFFFE *)
(* and 0xFFFF.                                                             *)
Surrogates == 216 * 256 .. 224 * 256 - 1
Noncharacters == {256 * 256 - 2, 256 * 256 - 1}

Refused(code) == code < 0 \/ code > MAX_CODE \/ code \in Surrogates \union Noncharacters
BytesOf(code) ==
  CHOOSE n \in 1 .. 6 : code <= Reach(n) /\ \A m \in 1 .. n - 1 : code > Reach(m)

(* The bytes of a code, none for one that is refused.                      *)
toml_ucs_to_utf8(code) ==
  IF Refused(code) THEN <<>>
  ELSE LET n == BytesOf(code)
       IN [k \in 1 .. n |-> IF k = 1 THEN LeadBase[n] + code \div Weight[n]
                            ELSE 128 + ((code \div Weight[n - k + 1]) % 64)]

-----------------------------------------------------------------------------
(* toml_ucs_to_utf8 has bytes for every code that it does not refuse, and  *)
(* toml_utf8_to_ucs reads them back: all of them, whatever stands behind,  *)
(* and nothing once the end of the buffer cuts them or another byte is     *)
(* where one that follows belongs.                                         *)
ReadsBack(code, behind, others) ==
  LET bytes == toml_ucs_to_utf8(code)
      n == Len(bytes)
  IN /\ bytes = <<>> <=> Refused(code)
     /\ bytes # <<>> =>
          /\ \A rest \in behind : toml_utf8_to_ucs(bytes \o rest) = [len |-> n, code |-> code]
          /\ \A k \in 0 .. n - 1 : toml_utf8_to_ucs(SubSeq(bytes, 1, k)) = Failed
          /\ \A k \in 2 .. n, b \in others : toml_utf8_to_ucs([bytes EXCEPT ![k] = b]) = Failed
=============================================================================
