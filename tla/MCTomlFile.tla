----------------------------- MODULE MCTomlFile -----------------------------
(***************************************************************************)
(* Files around the first two multiples of a small buffer, alone and two   *)
(* in a row, with a file that does not open, standard input, and NULs.     *)
(***************************************************************************)
EXTENDS TomlFile

File(len, nul, parse) == [opens |-> TRUE, stdin |-> FALSE, len |-> len, nul |-> nul, parse |-> parse]
MaxLen == 4 * CHUNK + 1
Whole == {File(len, len, "document") : len \in 0 .. MaxLen}
Others == { File(CHUNK, 1, "document"), File(2 * CHUNK, 0, "document"),
            File(3, 3, "untyped"), File(4, 4, "error"),
            [File(0, 0, "error") EXCEPT !.opens = FALSE] }
StdIn == [File(2 * CHUNK, 2 * CHUNK, "document") EXCEPT !.stdin = TRUE]

MCFiles == Whole \union Others \union {StdIn}
MCArgvs == {<<StdIn>>} \union {<<f>> : f \in Whole}
           \union {<<f, g>> : f \in Others \union {File(2 * CHUNK, 2 * CHUNK, "document")}, g \in Whole \union Others}
=============================================================================
