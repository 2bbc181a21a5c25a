------------------------------ MODULE TomlFile ------------------------------
(***************************************************************************)
(* toml_parse_file of contrib/tomlc99/toml.c under the programs that call  *)
(* it, toml_json and toml_cat: each argument is opened, read into a buffer *)
(* that grows with it, parsed, printed and closed.  A file is its length,  *)
(* the place of its first NUL and what toml_parse makes of it; a file that *)
(* ends inside an array or a table, at which toml_parse hangs, is none.    *)
(***************************************************************************)
EXTENDS Integers, Sequences

CONSTANTS Files,      \* the files that a program may be run on
          Argvs,      \* its arguments; standard input is one of its own
          CHUNK,      \* the growth of the buffer, 1000 in the code
          INT_MAX

TOOLS == {"toml_json", "toml_cat"}
PARSES == {"document", "untyped", "error"}
FileRecord == [opens : BOOLEAN, stdin : BOOLEAN, len : Nat, nul : Nat, parse : PARSES]

(* A file leaves room for the last turns of an int that counts its bytes.  *)
ASSUME FileAssumption ==
  /\ CHUNK \in Nat \ {0} /\ INT_MAX \in Nat /\ CHUNK < INT_MAX
  /\ Files \subseteq FileRecord
  /\ \A f \in Files : f.len + 2 * CHUNK < INT_MAX
  /\ Argvs \subseteq Seq(Files)

VARIABLES tool,     \* the program
          argv,     \* its files
          k,        \* the one it has come to
          pc,       \* its place
          bufsz,    \* the size of the buffer, without the byte for the NUL
          off,      \* the bytes that were read
          eof,      \* what feof says
          taken,    \* the length of the text that is parsed
          streams,  \* the files that are open
          out,      \* the files whose document was printed to its end
          status    \* the exit status

vars == <<tool, argv, k, pc, bufsz, off, eof, taken, streams, out, status>>
program == <<tool, argv, k, streams, out, status>>
buffer == <<bufsz, off, eof, taken>>

file == argv[k]
Minimum(a, b) == IF a < b THEN a ELSE b

Init == /\ tool \in TOOLS /\ argv \in Argvs
        /\ k = 1 /\ pc = "open" /\ streams = 0 /\ out = <<>> /\ status = 0
        /\ bufsz = CHUNK /\ off = 0 /\ eof = FALSE /\ taken = 0

Exit(code) == pc' = "exit" /\ status' = code

-----------------------------------------------------------------------------
(* main: fopen of the next argument, or the end.                           *)
Open ==
  /\ pc = "open" /\ k <= Len(argv)
  /\ IF file.opens
     THEN /\ pc' = "prime" /\ UNCHANGED status
          /\ streams' = IF file.stdin THEN streams ELSE streams + 1
     ELSE Exit(1) /\ UNCHANGED streams
  /\ UNCHANGED <<tool, argv, k, out, buffer>>

Return ==
  /\ pc = "open" /\ k > Len(argv)
  /\ Exit(0) /\ UNCHANGED <<tool, argv, k, streams, out, buffer>>

(* The first malloc of toml_parse_file.                                    *)
Prime ==
  /\ pc = "prime"
  /\ pc' \in {"read", "failed"}
  /\ bufsz' = CHUNK /\ off' = 0 /\ eof' = FALSE /\ taken' = 0
  /\ UNCHANGED program

(* Mutated: the bytes that are in the buffer already are not counted.      *)
MutantRoom(size) == size

Room(size) == size - off

(* fread comes back with less than it was asked for only at the end of the *)
(* file or on an error, and feof does not hold before it did.              *)
ReadMore ==
  /\ pc = "read" /\ ~ eof
  /\ bufsz' = bufsz + CHUNK
  /\ LET room == Room(bufsz')
         n == Minimum(room, file.len - off)
     IN off' = off + n /\ eof' \in BOOLEAN /\ (eof' <=> n < room)
  /\ UNCHANGED <<pc, taken, program>>

(* realloc or fread fails.                                                 *)
ReadFails ==
  /\ pc = "read" /\ ~ eof
  /\ bufsz' = bufsz + CHUNK
  /\ pc' = "failed" /\ UNCHANGED <<off, eof, taken, program>>

(* The NUL goes behind what was read; toml_parse takes the text up to the  *)
(* first one, and may find no memory.                                      *)
Parse ==
  /\ pc = "read" /\ eof
  /\ taken' = Minimum(off, file.nul)
  /\ pc' \in {"failed"} \union (IF file.parse = "error" THEN {} ELSE {"print"})
  /\ UNCHANGED <<bufsz, off, eof, program>>

(* print_raw of toml_json exits at a value of no type.                     *)
PrintTable ==
  /\ pc = "print"
  /\ IF tool = "toml_json" /\ file.parse = "untyped"
     THEN Exit(1) /\ UNCHANGED out
     ELSE pc' = "close" /\ out' = Append(out, k) /\ UNCHANGED status
  /\ UNCHANGED <<tool, argv, k, streams, buffer>>

(* Mutated: toml_json goes on like toml_cat.                               *)
MutantFailed ==
  /\ pc = "failed"
  /\ pc' = "close" /\ UNCHANGED <<buffer, program>>

(* cat: toml_json exits, toml_cat goes on.                                 *)
Failed ==
  /\ pc = "failed"
  /\ IF tool = "toml_json" THEN Exit(1) ELSE pc' = "close" /\ UNCHANGED status
  /\ UNCHANGED <<tool, argv, k, streams, out, buffer>>

Close ==
  /\ pc = "close"
  /\ pc' = "open" /\ k' = k + 1
  /\ streams' = IF file.stdin THEN streams ELSE streams - 1
  /\ UNCHANGED <<tool, argv, out, status, buffer>>

Next == \/ Open \/ Return \/ Prime \/ ReadMore \/ ReadFails
        \/ Parse \/ PrintTable \/ Failed \/ Close

Spec == Init /\ [][Next]_vars

(* Nothing but the system calls can keep a program from going on.          *)
FairSpec == Spec /\ WF_vars(Next)

-----------------------------------------------------------------------------
(* fread writes inside the buffer, and with the NUL that follows; its size *)
(* stays an int; and the parser gets the file as a whole, up to its first  *)
(* NUL, also when its length is a multiple of the growth.                  *)
FileExact ==
  /\ 0 <= off /\ off <= bufsz /\ bufsz < INT_MAX
  /\ pc = "read" /\ eof => off = file.len
  /\ pc = "print" => taken = Minimum(file.len, file.nul)

(* A program ends.  toml_json tells by its status whether it has printed   *)
(* every file; toml_cat whether it could open them; and a file is printed  *)
(* after those before it.                                                  *)
StatusTells ==
  IF tool = "toml_json" THEN status = 0 <=> out = [n \in 1 .. Len(argv) |-> n]
  ELSE status = 0 <=> \A n \in 1 .. Len(argv) : argv[n].opens
EndsWithStatus ==
  <>(/\ pc = "exit" /\ StatusTells
     /\ \A m, n \in DOMAIN out : m < n => out[m] < out[n])
=============================================================================
