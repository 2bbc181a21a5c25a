----------------------------- MODULE KvmCapsTest ----------------------------
(***************************************************************************)
(* The test build: the library and main of KvmInfoCaps linked with         *)
(* tests/caps-info/mock_kvm_io.c, which answers from a TOML file instead   *)
(* of a kernel.  The TOML parser is abstracted to what it makes of a file: *)
(* nothing, a document with the arrays exts and msrs, or no end.           *)
(*                                                                         *)
(* An array is [kind, items]: kind is toml_array_kind's answer, with       *)
(* "none" for an array that is not there and "empty" for the code '\0'.    *)
(* An item is [int, val, wide]: int says that toml_rtoi accepts it, wide   *)
(* that its value does not fit 32 bits; val is then its low 32 bits.       *)
(***************************************************************************)
EXTENDS KvmInfoCaps

CONSTANTS Argvs,     \* the command lines of the test runs
          Trees      \* the file trees: functions from path to what is there

VARIABLES tree,      \* the files of this run
          alloc,     \* whether there is memory for the list of MSRs
          files      \* the mock's table of parsed documents

vars == <<libvars, tree, alloc, files>>

MOCK_FILE_MAX == 256
Handles == 0 .. MOCK_FILE_MAX - 1

(* A path leads to no file, to one the parser rejects, to a document, or   *)
(* to a text that ends inside an array or an inline table.                 *)
Absent == [parses |-> FALSE, there |-> FALSE]
Garbled == [parses |-> FALSE, there |-> TRUE]
Document(exts, msrs) == [parses |-> TRUE, there |-> TRUE, exts |-> exts, msrs |-> msrs]
Unended == [parses |-> FALSE, there |-> TRUE, ends |-> FALSE]
NoTable == [parses |-> FALSE]

NoArray == [kind |-> "none", items |-> <<>>]

IsArray(array) == /\ array.items \in Seq([int : BOOLEAN, val : Nat, wide : BOOLEAN])
                  /\ array.kind \in {"none", "empty"} => array.items = <<>>

IsFile(file) == \/ file \in {Absent, Garbled, Unended}
                \/ /\ file = Document(file.exts, file.msrs)
                   /\ IsArray(file.exts) /\ IsArray(file.msrs)

ASSUME TreesAssumption == \A t \in Trees, a \in Argvs : IsFile(t[DevOf(a)])

-----------------------------------------------------------------------------
(* The first free entry of the table, or -1.                               *)
find_first_free ==
  LET free == {j \in Handles : files[j] = NoTable}
  IN IF free = {} THEN -1 ELSE CHOOSE j \in free : \A k \in free : j <= k

(* An array of values, or an empty one; everything else is as if it were   *)
(* not there.                                                              *)
get_array(fd, key) ==
  IF fd < 0 \/ fd > MOCK_FILE_MAX THEN NoArray
  ELSE IF files[fd][key].kind \in {"v", "empty"} THEN files[fd][key] ELSE NoArray

(* Mutated: items that are not integers are passed over.                   *)
MutantExtensionSkipsMistakes(fd, extension) ==
  LET exts == get_array(fd, "exts").items
  IN \E j \in DOMAIN exts : exts[j].val = extension /\ ~exts[j].wide /\ exts[j].int

(* Mutated: the search starts at the second item.                          *)
MutantExtensionSkipsFirst(fd, extension) ==
  LET exts == get_array(fd, "exts").items
  IN \E j \in DOMAIN exts : /\ exts[j].val = extension /\ ~exts[j].wide
                            /\ j > 1 /\ \A k \in 1 .. j : exts[k].int

(* The loop returns at the first match, or at the first item that is not   *)
(* an integer.                                                             *)
kvm_has_extension(fd, extension) ==
  LET exts == get_array(fd, "exts").items
  IN \E j \in DOMAIN exts :
       /\ exts[j].val = extension /\ ~exts[j].wide
       /\ \A k \in 1 .. j : exts[k].int

-----------------------------------------------------------------------------
Init == /\ LibInit(Argvs)
        /\ tree \in Trees /\ alloc \in BOOLEAN
        /\ files = [j \in Handles |-> NoTable]

MainStep == Main /\ UNCHANGED <<tree, alloc, files>>

(* On a text that ends inside an array or an inline table toml_parse_file  *)
(* never returns (toml.c:761, 1403), so there is no step.                  *)
kvm_open ==
  LET fd == find_first_free
      file == tree[dev]
  IN /\ file # Unended
     /\ KVMStateOpen(IF fd >= 0 /\ file.parses THEN fd ELSE -1)
     /\ files' = IF fd >= 0 /\ file.parses
                 THEN [files EXCEPT ![fd] = file] ELSE files
     /\ UNCHANGED <<tree, alloc>>

(* Mutated: a missing array is a failure, as a missing device is.          *)
MutantMsrListNeedsArray ==
  /\ pc = "size"
  /\ LET msrs == get_array(s.fd, "msrs")
     IN IF msrs.kind = "none" \/ \E j \in DOMAIN msrs.items : ~msrs.items[j].int
        THEN NoMsrList
        ELSE /\ list' = [kvm_alloc_msr_list(Len(msrs.items)) EXCEPT
                           !.indices = [j \in DOMAIN msrs.items |-> msrs.items[j].val]]
             /\ i' = 0
             /\ pc' = "fill"
             /\ UNCHANGED <<argv, dev, mode, s, ix, err, buf, out>>
  /\ UNCHANGED <<tree, alloc, files>>

(* A missing array counts as an empty list, which is a success; an item    *)
(* that is not an integer makes the whole list NULL.  The mock does not    *)
(* look at what the allocation returns, and the first integer is then      *)
(* written through NULL.                                                   *)
kvm_get_msr_list ==
  /\ pc = "size"
  /\ LET items == get_array(s.fd, "msrs").items
         mistaken == \E j \in DOMAIN items : ~items[j].int
         writes == items # <<>> /\ items[1].int
     IN \/ /\ alloc /\ ~mistaken
           /\ list' = [kvm_alloc_msr_list(Len(items)) EXCEPT
                          !.indices = [j \in DOMAIN items |-> items[j].val]]
           /\ i' = 0
           /\ pc' = "fill"
           /\ UNCHANGED <<argv, dev, mode, s, ix, err, buf, out>>
        \/ ~alloc /\ writes /\ Kill
        \/ (IF alloc THEN mistaken ELSE ~writes) /\ NoMsrList
  /\ UNCHANGED <<tree, alloc, files>>

Fill == (SetSlot \/ SlotsDone) /\ UNCHANGED <<tree, alloc, files>>

Scan == /\ \/ ScanCap(kvm_has_extension(s.fd, allcaps[ix].extension))
           \/ ScanDone
        /\ UNCHANGED <<tree, alloc, files>>

(* Mutated: the entry of the table is not cleared.                         *)
MutantCloseKeepsEntry == /\ KVMStateClose(s.fd >= 0 /\ s.fd <= MOCK_FILE_MAX)
                         /\ UNCHANGED <<tree, alloc, files>>

kvm_close == LET inRange == s.fd >= 0 /\ s.fd <= MOCK_FILE_MAX
             IN /\ KVMStateClose(inRange)
                /\ files' = IF inRange THEN [files EXCEPT ![s.fd] = NoTable]
                                       ELSE files
                /\ UNCHANGED <<tree, alloc>>

Exit == Flush /\ UNCHANGED <<tree, alloc, files>>

Next == \/ MainStep \/ kvm_open \/ kvm_get_msr_list
        \/ Fill \/ Scan \/ kvm_close \/ Exit

Spec == Init /\ [][Next]_vars

-----------------------------------------------------------------------------
(* What the document asks for, read as a whole.  A value past 32 bits is   *)
(* no extension; it is the MSR that its low 32 bits name.                  *)
ListedExts(array) == {array.items[j].val : j \in {j \in DOMAIN array.items : ~array.items[j].wide}}
ListedMsrs(array) == {array.items[j].val : j \in DOMAIN array.items}

Plain(array) == /\ array.kind \in {"v", "empty", "none"}
                /\ \A j \in DOMAIN array.items : array.items[j].int

Asks(doc, c) ==
  /\ allcaps[c].need_msr =>
       \E index \in ListedMsrs(doc.msrs) : <<index, allcaps[c].msr>> \in SwitchArms
  /\ allcaps[c].need_extension => allcaps[c].extension \in ListedExts(doc.exts)

Names(q) == [k \in DOMAIN q |-> allcaps[q[k].cap].name]

(* On a document that lists integers the test build prints exactly the     *)
(* capabilities whose extension and MSR the document asks for, so that a   *)
(* fixture stands for the device it describes.                             *)
MockFaithful ==
  LET doc == tree[DevOf(argv)]
  IN pc = "flush" /\ doc.parses /\ Plain(doc.exts) /\ Plain(doc.msrs) /\ alloc =>
       /\ err = 0
       /\ \A c \in Caps :
            (Asks(doc, c) <=> mode = KVM_INFO_SHOW_FEATURES)
              <=> \E k \in DOMAIN buf : buf[k].cap = c

(* An array of another kind is no list.                                    *)
Values(array) == IF array.kind \in {"v", "empty"} THEN array ELSE NoArray
Mistaken(array) == \E j \in DOMAIN array.items : ~array.items[j].int

(* The first n items are integers, and the next one, if there is one, not. *)
EndsAt(array, n) == /\ \A k \in 1 .. n : array.items[k].int
                    /\ n < Len(array.items) => ~array.items[n + 1].int

Reading(doc, n) ==
  Document([kind |-> "v", items |-> SubSeq(Values(doc.exts).items, 1, n)], Values(doc.msrs))

(* What a document with a mistake stands for: with anything but integers   *)
(* in msrs it is a device that refuses the list, and nothing is printed;   *)
(* otherwise an array of another kind is a missing one, and the extensions *)
(* end in front of the first item that is no integer.                      *)
MistakesExact ==
  LET doc == tree[DevOf(argv)]
  IN pc = "flush" /\ doc.parses /\ ~(Plain(doc.exts) /\ Plain(doc.msrs)) /\ alloc =>
       IF Mistaken(Values(doc.msrs)) THEN err = -1 /\ buf = <<>>
       ELSE /\ err = 0
            /\ \A n \in 0 .. Len(Values(doc.exts).items), c \in Caps :
                 EndsAt(Values(doc.exts), n) =>
                   ((Asks(Reading(doc, n), c) <=> mode = KVM_INFO_SHOW_FEATURES)
                     <=> \E k \in DOMAIN buf : buf[k].cap = c)

(* At the end the table of documents is empty, but for the document whose  *)
(* list of MSRs was refused: KVMStateScan then returns without closing.    *)
TableReleased ==
  LET doc == tree[DevOf(argv)]
  IN pc = "flush" =>
       files = [j \in Handles |->
                  IF j = 0 /\ doc.parses /\ (alloc => Mistaken(Values(doc.msrs)))
                  THEN doc ELSE NoTable]
=============================================================================
