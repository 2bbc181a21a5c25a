--------------------------- MODULE TomlFileProofs ---------------------------
(***************************************************************************)
(* FileExact for every set of files, every growth of the buffer and every  *)
(* sequence of arguments.                                                  *)
(***************************************************************************)
EXTENDS TomlFile, TLAPS

Working == {"prime", "read", "print", "failed", "close"}

(* The types; a program has a file while it works on one.                  *)
TypeInv ==
  /\ tool \in TOOLS /\ argv \in Argvs /\ k \in Nat \ {0}
  /\ pc \in Working \union {"open", "exit"}
  /\ bufsz \in Nat /\ off \in Nat /\ eof \in BOOLEAN /\ taken \in Nat
  /\ pc \in Working => k \in DOMAIN argv

(* The buffer is full between two turns of the loop, but for the growth of *)
(* the first turn, so that the next turn asks for some bytes and the size  *)
(* follows the length of the file.                                         *)
BufferInv ==
  /\ off <= bufsz /\ bufsz < INT_MAX
  /\ pc = "read" => /\ off <= file.len
                    /\ ~ eof => bufsz <= off + CHUNK
                    /\ eof => off = file.len

(* The text that is printed was the file's.                                *)
TextInv == pc = "print" => taken = Minimum(file.len, file.nul)

IInv == TypeInv /\ BufferInv /\ TextInv

-----------------------------------------------------------------------------
(* The file that a program works on is one of Files.                       *)
LEMMA FileTyped ==
  ASSUME TypeInv, pc \in Working
  PROVE  file \in FileRecord /\ file.len + 2 * CHUNK < INT_MAX
<1>1. argv \in Seq(Files) /\ k \in DOMAIN argv
  BY FileAssumption DEF TypeInv
<1>2. file \in Files
  BY <1>1 DEF file
<1> QED BY <1>2, FileAssumption

LEMMA InitHolds == Init => IInv
<1> SUFFICES ASSUME Init PROVE IInv
  OBVIOUS
<1>1. TypeInv
  <2>1. eof \in BOOLEAN
    BY Zenon DEF Init
  <2> QED BY <2>1, FileAssumption DEF Init, TypeInv, Working
<1>2. BufferInv
  BY FileAssumption DEF Init, BufferInv
<1>3. TextInv
  BY DEF Init, TextInv
<1> QED BY <1>1, <1>2, <1>3 DEF IInv

-----------------------------------------------------------------------------
(* One step of the loop: the bytes that fread returns fit, and it returns  *)
(* fewer than it was asked for when they are the last ones.                *)
LEMMA ReadMoreHolds == IInv /\ ReadMore => IInv'
<1> SUFFICES ASSUME IInv, ReadMore PROVE IInv'
  OBVIOUS
<1>1. pc = "read" /\ pc' = "read" /\ ~ eof /\ UNCHANGED <<tool, argv, k, taken>>
  BY DEF ReadMore, program
<1>2. file \in FileRecord /\ file.len + 2 * CHUNK < INT_MAX /\ file' = file
  BY <1>1, FileTyped DEF IInv, Working, file
<1>3. /\ off \in Nat /\ bufsz \in Nat /\ file.len \in Nat
      /\ off <= bufsz /\ off <= file.len /\ bufsz <= off + CHUNK
      /\ CHUNK \in Nat \ {0} /\ INT_MAX \in Nat
  BY <1>1, <1>2, FileAssumption DEF IInv, TypeInv, BufferInv, FileRecord
<1>4. bufsz' = bufsz + CHUNK
  BY DEF ReadMore
<1> DEFINE room == bufsz + CHUNK - off
           n == Minimum(room, file.len - off)
<1>5. off' = off + n /\ eof' \in BOOLEAN /\ (eof' <=> n < room)
  <2>1. Room(bufsz') = room
    BY <1>3, <1>4 DEF Room
  <2> QED BY <2>1, Zenon DEF ReadMore
<1>6. /\ room \in Nat /\ file.len - off \in Nat
      /\ n = IF room < file.len - off THEN room ELSE file.len - off
  BY <1>3 DEF Minimum
<1> HIDE DEF room
<1>7. n \in Nat /\ off' \in Nat /\ bufsz' \in Nat /\ eof' \in BOOLEAN
  BY <1>3, <1>4, <1>5, <1>6
<1>8. TypeInv'
  BY <1>1, <1>7 DEF IInv, TypeInv, Working
<1>9. /\ off' <= bufsz' /\ bufsz' < INT_MAX /\ off' <= file.len
      /\ ~ eof' => bufsz' <= off' + CHUNK
      /\ eof' => off' = file.len
  BY <1>2, <1>3, <1>4, <1>5, <1>6 DEF room
<1>10. BufferInv'
  BY <1>2, <1>9 DEF BufferInv
<1>11. TextInv'
  BY <1>1 DEF TextInv
<1> QED BY <1>8, <1>10, <1>11 DEF IInv

(* The parser is given what was read, which is the file.                   *)
LEMMA ParseHolds == IInv /\ Parse => IInv'
<1> SUFFICES ASSUME IInv, Parse PROVE IInv'
  OBVIOUS
<1>1. /\ pc = "read" /\ eof /\ pc' \in {"failed", "print"}
      /\ UNCHANGED <<tool, argv, k, bufsz, off, eof>>
  BY DEF Parse, program
<1>2. file \in FileRecord /\ file' = file
  BY <1>1, FileTyped DEF IInv, Working, file
<1>3. off = file.len
  BY <1>1 DEF IInv, BufferInv
<1>4. taken' = Minimum(file.len, file.nul)
  BY <1>3 DEF Parse
<1>5. taken' \in Nat
  BY <1>2, <1>4 DEF FileRecord, Minimum
<1>6. TypeInv'
  BY <1>1, <1>5 DEF IInv, TypeInv, Working
<1>7. BufferInv'
  BY <1>1 DEF IInv, BufferInv
<1>8. TextInv'
  BY <1>2, <1>4 DEF TextInv
<1> QED BY <1>6, <1>7, <1>8 DEF IInv

(* The turns of main, and the failures, leave the buffer as it is.         *)
LEMMA OthersHold ==
  ASSUME IInv, Open \/ Return \/ Prime \/ ReadFails \/ PrintTable \/ Failed \/ Close
  PROVE  IInv'
<1> USE FileAssumption DEF IInv, TypeInv, BufferInv, TextInv, Working, buffer, program
<1>1. argv \in Seq(Files)
  OBVIOUS
<1>2. CASE Open
  BY <1>1, <1>2 DEF Open, Exit
<1>3. CASE Return
  BY <1>3 DEF Return, Exit
<1>4. CASE Prime
  <2>1. file \in FileRecord /\ file' = file
    BY <1>4, FileTyped DEF Prime, file
  <2>2. ~ eof' /\ eof' \in BOOLEAN
    BY <1>4, Zenon DEF Prime
  <2>3. TypeInv' /\ TextInv'
    BY <1>4, <2>2 DEF Prime
  <2>4. BufferInv'
    BY <1>4, <2>1, <2>2 DEF Prime, FileRecord
  <2> QED BY <2>3, <2>4
<1>5. CASE ReadFails
  <2>1. file \in FileRecord /\ file.len + 2 * CHUNK < INT_MAX
    BY <1>5, FileTyped DEF ReadFails
  <2> QED BY <1>5, <2>1 DEF ReadFails, FileRecord
<1>6. CASE PrintTable
  BY <1>6 DEF PrintTable, Exit
<1>7. CASE Failed
  BY <1>7 DEF Failed, Exit
<1>8. CASE Close
  BY <1>8 DEF Close
<1> QED BY <1>2, <1>3, <1>4, <1>5, <1>6, <1>7, <1>8

LEMMA StepHolds == IInv /\ [Next]_vars => IInv'
<1> SUFFICES ASSUME IInv, [Next]_vars PROVE IInv'
  OBVIOUS
<1>1. CASE ReadMore
  BY <1>1, ReadMoreHolds
<1>2. CASE Parse
  BY <1>2, ParseHolds
<1>3. CASE Open \/ Return \/ Prime \/ ReadFails \/ PrintTable \/ Failed \/ Close
  BY <1>3, OthersHold
<1>4. CASE UNCHANGED vars
  BY <1>4 DEF vars, IInv, TypeInv, BufferInv, TextInv, file, Minimum
<1> QED BY <1>1, <1>2, <1>3, <1>4 DEF Next

LEMMA Suffices == IInv => FileExact
  BY DEF IInv, TypeInv, BufferInv, TextInv, FileExact

(* Whatever the length of a file and the growth of the buffer, the reads   *)
(* and the NUL stay inside it, its size stays an int, and what is parsed   *)
(* is the file up to its first NUL.                                        *)
THEOREM FileSafe == Spec => []FileExact
<1>1. Spec => []IInv
  BY InitHolds, StepHolds, PTL DEF Spec
<1> QED BY <1>1, Suffices, PTL
=============================================================================
