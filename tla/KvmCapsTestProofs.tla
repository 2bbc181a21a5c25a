------------------------- MODULE KvmCapsTestProofs --------------------------
(***************************************************************************)
(* Proofs about KvmCapsTest for every set of command lines and every set   *)
(* of documents, with lists of any length.                                 *)
(***************************************************************************)
EXTENDS KvmCapsTest, TLAPS

-----------------------------------------------------------------------------
(* Facts about the table of the library, as KvmCapsPluginProofs has them.  *)

(* The table has twelve entries.                                           *)
LEMMA DescribedLength == Len(Described) = 12
BY DEF Described

(* The first twelve entries of allcaps are the described ones.             *)
LEMMA TableEntry ==
  ASSUME NEW c \in Caps
  PROVE  c < KVMINFO_CAPS_MAX /\ c + 1 \in 1 .. 12 /\ allcaps[c] = Described[c + 1]
BY DescribedLength DEF Caps, allcaps, KVMINFO_CAPS_MAX

(* The scan of KVMStateScan goes on at each of the twelve entries and      *)
(* stops behind them.                                                      *)
LEMMA ScanStopsBehindTable ==
  ASSUME NEW c \in 0 .. Len(Described)
  PROVE  Continues(c) <=> c \in Caps
<1>1. ASSUME c \in Caps  PROVE  Continues(c)
  <2>1. c + 1 \in 1 .. 12
    BY <1>1, TableEntry
  <2>2. Described[c + 1].need_msr \/ Described[c + 1].need_extension
    BY <2>1 DEF Described, NeedsExt, NeedsMsr, NeedsBoth, capdesc
  <2> QED  BY <1>1, <2>2, TableEntry DEF Continues
<1>2. ASSUME c \notin Caps  PROVE  ~Continues(c)
  <2>1. c = 12
    BY <1>2, DescribedLength DEF Caps
  <2>2. allcaps[12] = Zero
    BY DescribedLength DEF allcaps, KVMINFO_CAPS_MAX
  <2>3. Zero.need_msr = FALSE /\ Zero.need_extension = FALSE
    BY DEF Zero, capdesc
  <2> QED  BY <2>1, <2>2, <2>3 DEF Continues
<1> QED  BY <1>1, <1>2

(* Every MSR slot the table names is inside the array of KVMState: the     *)
(* bound of KVMStateHasEnabledMSR, one too large, is never reached.        *)
LEMMA TableSlotsInRange ==
  ASSUME NEW c \in Caps
  PROVE  /\ allcaps[c].msr \in Slots
         /\ allcaps[c].msr <= KVMINFO_MSR_HV.NUM
         /\ allcaps[c].need_extension => allcaps[c].extension \in Extensions
<1>1. allcaps[c] = Described[c + 1] /\ c + 1 \in 1 .. 12
  BY TableEntry
<1>2. /\ Described[c + 1].msr \in 0 .. 8
      /\ Described[c + 1].need_extension => Described[c + 1].extension \in Extensions
  BY <1>1 DEF Described, NeedsExt, NeedsMsr, NeedsBoth, capdesc, KVMINFO_MSR_HV,
              Extensions, KVM_CAP_HYPERV, KVM_CAP_HYPERV_TIME, KVM_CAP_HYPERV_SYNIC,
              KVM_CAP_HYPERV_SYNIC2, KVM_CAP_HYPERV_VP_INDEX, KVM_CAP_HYPERV_TLBFLUSH,
              KVM_CAP_HYPERV_SEND_IPI
<1> QED  BY <1>1, <1>2 DEF Slots, KVMINFO_MSR_HV

-----------------------------------------------------------------------------
(* What the mock answers, told from the document alone.                    *)
Doc == tree[DevOf(argv)]
Items(array) == IF array.kind \in {"v", "empty"} THEN array.items ELSE <<>>

Has(doc, extension) ==
  \E j \in DOMAIN Items(doc.exts) : /\ Items(doc.exts)[j].val = extension
                                    /\ ~Items(doc.exts)[j].wide
                                    /\ \A k \in 1 .. j : Items(doc.exts)[k].int

(* One of the first n items is an MSR that sets the slot.                  *)
Announces(doc, n, slot) == \E k \in 1 .. n : <<Items(doc.msrs)[k].val, slot>> \in SwitchArms

Enabled(doc, c) ==
  /\ allcaps[c].need_msr => Announces(doc, Len(Items(doc.msrs)), allcaps[c].msr)
  /\ allcaps[c].need_extension => Has(doc, allcaps[c].extension)

-----------------------------------------------------------------------------
(* The inductive invariant.  It says that the one document of the run has  *)
(* the first place of the mock's table as long as it is open, and how far  *)
(* the two loops have come.                                                *)

Types == /\ pc \in Points /\ argv \in Argvs /\ tree \in Trees /\ alloc \in BOOLEAN
         /\ mode \in {KVM_INFO_SHOW_FEATURES, KVM_INFO_SHOW_MISSING}
         /\ s.fd \in {-1, 0} /\ s \in [fd : {-1, 0}, msrs : [Slots -> BOOLEAN]]
         /\ i \in Nat /\ ix \in 0 .. Len(Described) /\ buf \in Seq(Labels)

Arguments == pc # "main" => dev = DevOf(argv) /\ mode = ModeOf(argv)

Empty == [j \in Handles |-> NoTable]

(* KVMStateOpen gets no list of MSRs.                                      *)
Refused(doc) == alloc => Mistaken(Values(doc.msrs))

Opened == /\ pc \in {"main", "open"} => files = Empty
          /\ pc \in {"size", "fill", "scan", "close"} =>
               s.fd = 0 /\ Doc.parses /\ files = [Empty EXCEPT ![0] = Doc]
          /\ pc \in {"fill", "scan", "close"} => ~Refused(Doc)
          /\ TableReleased

SlotsUpTo(n) == \A slot \in Slots : s.msrs[slot] <=> Announces(Doc, n, slot)

Slotted ==
  /\ pc \in {"open", "size"} => SlotsUpTo(0)
  /\ pc = "fill" => /\ list.nmsrs = Len(Items(Doc.msrs))
                    /\ list.indices = [k \in DOMAIN Items(Doc.msrs) |-> Items(Doc.msrs)[k].val]
                    /\ i <= list.nmsrs /\ SlotsUpTo(i)
  /\ pc \in {"scan", "close"} => SlotsUpTo(Len(Items(Doc.msrs)))

(* The buffer has a label for each of the first n capabilities that is to  *)
(* be told of, and for no other.                                           *)
TellsOf(n) ==
  /\ \A k \in DOMAIN buf : buf[k].cap \in 0 .. n - 1
  /\ \A c \in 0 .. n - 1 : (Enabled(Doc, c) <=> mode = KVM_INFO_SHOW_FEATURES)
                             <=> \E k \in DOMAIN buf : buf[k].cap = c

Buffered ==
  /\ pc \in {"main", "open", "size", "fill"} => buf = <<>> /\ err = 0
  /\ pc = "scan" => err = 0 /\ TellsOf(ix)
  /\ pc = "close" => err = 0 /\ TellsOf(Len(Described))
  /\ pc = "flush" => IF Doc.parses /\ ~Refused(Doc) THEN err = 0 /\ TellsOf(Len(Described))
                     ELSE err = -1 /\ buf = <<>>

IInv == Types /\ Arguments /\ Opened /\ Slotted /\ Buffered

-----------------------------------------------------------------------------
(* Lemmas about the mock.                                                  *)

LEMMA DocIsFile ==
  ASSUME Types
  PROVE  IsFile(Doc)
BY TreesAssumption DEF Types, Doc

LEMMA DocHasArrays ==
  ASSUME Types, Doc.parses
  PROVE  IsArray(Doc.exts) /\ IsArray(Doc.msrs) /\ Doc # NoTable
BY DocIsFile DEF IsFile, Absent, Garbled, Unended, NoTable

LEMMA ItemsAreList ==
  ASSUME NEW array, IsArray(array)
  PROVE  /\ Items(array) \in Seq([int : BOOLEAN, val : Nat, wide : BOOLEAN])
         /\ DOMAIN Items(array) = 1 .. Len(Items(array)) /\ Len(Items(array)) \in Nat
BY DEF IsArray, Items

LEMMA ItemsAreValues == \A array : Values(array).items = Items(array)
BY DEF Values, Items, NoArray

(* In an empty table the first entry is free.                              *)
LEMMA FirstFree ==
  ASSUME files = Empty
  PROVE  find_first_free = 0
<1>1. {j \in Handles : files[j] = NoTable} = Handles
  BY DEF Empty
<1>2. 0 \in Handles /\ \A k \in Handles : 0 <= k
  BY DEF Handles, MOCK_FILE_MAX
<1>3. ASSUME NEW j \in Handles, \A k \in Handles : j <= k  PROVE  j = 0
  BY <1>2, <1>3 DEF Handles
<1> QED  BY <1>1, <1>2, <1>3 DEF find_first_free

(* What is read through the descriptor is the document.                    *)
LEMMA ReadsDoc ==
  ASSUME Types, Opened, pc \in {"size", "scan"}
  PROVE  /\ \A extension : kvm_has_extension(s.fd, extension) <=> Has(Doc, extension)
         /\ get_array(s.fd, "msrs").items = Items(Doc.msrs)
<1>1. s.fd = 0 /\ files[0] = Doc
  BY DEF Opened, Empty, Handles, MOCK_FILE_MAX
<1>2. \A key : get_array(0, key).items = Items(Doc[key])
  BY <1>1 DEF get_array, Items, NoArray, MOCK_FILE_MAX
<1> QED  BY <1>1, <1>2 DEF kvm_has_extension, Has

(* On a document of integers what the mock answers is what is asked for.   *)
LEMMA PlainIsAsked ==
  ASSUME NEW doc, IsArray(doc.exts), IsArray(doc.msrs), Plain(doc.exts), Plain(doc.msrs),
         NEW c
  PROVE  Enabled(doc, c) <=> Asks(doc, c)
<1>1. Items(doc.exts) = doc.exts.items /\ Items(doc.msrs) = doc.msrs.items
  BY DEF Plain, IsArray, Items
<1>2. \A slot : Announces(doc, Len(Items(doc.msrs)), slot)
                  <=> \E index \in ListedMsrs(doc.msrs) : <<index, slot>> \in SwitchArms
  BY <1>1, ItemsAreList DEF Announces, ListedMsrs
<1>3. \A extension : Has(doc, extension) <=> extension \in ListedExts(doc.exts)
  BY <1>1, ItemsAreList DEF Has, ListedExts, Plain
<1> QED  BY <1>2, <1>3 DEF Enabled, Asks

(* On any document it is what the part in front of the first item that is  *)
(* no integer asks for.                                                    *)
LEMMA SoundPartIsAsked ==
  ASSUME NEW doc, IsArray(doc.exts), IsArray(doc.msrs),
         NEW n \in 0 .. Len(Values(doc.exts).items), EndsAt(Values(doc.exts), n), NEW c
  PROVE  Enabled(doc, c) <=> Asks(Reading(doc, n), c)
<1> DEFINE exts == Items(doc.exts)
           read == Reading(doc, n)
<1>1. /\ exts \in Seq([int : BOOLEAN, val : Nat, wide : BOOLEAN])
      /\ DOMAIN exts = 1 .. Len(exts) /\ Len(exts) \in Nat /\ n \in 0 .. Len(exts)
  BY ItemsAreList, ItemsAreValues
<1>2. read.msrs.items = Items(doc.msrs)
  BY ItemsAreValues DEF Reading, Document
<1>3. /\ read.exts.items = SubSeq(exts, 1, n)
      /\ DOMAIN read.exts.items = 1 .. n
      /\ \A j \in 1 .. n : read.exts.items[j] = exts[j]
  <2>1. read.exts.items = SubSeq(exts, 1, n)
    BY ItemsAreValues DEF Reading, Document
  <2> QED  BY <1>1, <2>1
<1>4. \A slot : Announces(doc, Len(Items(doc.msrs)), slot)
                  <=> \E index \in ListedMsrs(read.msrs) : <<index, slot>> \in SwitchArms
  BY <1>2, ItemsAreList DEF Announces, ListedMsrs
<1>5. \A extension : Has(doc, extension) <=> extension \in ListedExts(read.exts)
  <2> SUFFICES ASSUME NEW extension
               PROVE  Has(doc, extension) <=> extension \in ListedExts(read.exts)
    OBVIOUS
  <2>1. /\ \A k \in 1 .. n : exts[k].int
        /\ n < Len(exts) => ~exts[n + 1].int
    BY ItemsAreValues DEF EndsAt
  <2>2. ASSUME NEW j \in DOMAIN exts, \A k \in 1 .. j : exts[k].int
        PROVE  j \in 1 .. n
    <3>1. CASE n + 1 \in 1 .. j
      BY <1>1, <2>1, <2>2, <3>1
    <3>2. CASE n + 1 \notin 1 .. j
      BY <1>1, <3>2
    <3> QED  BY <3>1, <3>2
  <2>3. extension \in ListedExts(read.exts)
          <=> \E j \in 1 .. n : exts[j].val = extension /\ ~exts[j].wide
    BY <1>3 DEF ListedExts
  <2>4. Has(doc, extension) <=> \E j \in 1 .. n : exts[j].val = extension /\ ~exts[j].wide
    <3>1. \A j \in 1 .. n : j \in DOMAIN exts /\ \A k \in 1 .. j : k \in 1 .. n
      BY <1>1
    <3>2. \A j \in 1 .. n : \A k \in 1 .. j : exts[k].int
      BY <2>1, <3>1
    <3>3. ASSUME NEW j \in 1 .. n, exts[j].val = extension, ~exts[j].wide
          PROVE  Has(doc, extension)
      BY <3>1, <3>2, <3>3 DEF Has
    <3>4. ASSUME Has(doc, extension)
          PROVE  \E j \in 1 .. n : exts[j].val = extension /\ ~exts[j].wide
      BY <2>2, <3>4 DEF Has
    <3> QED  BY <3>3, <3>4
  <2> QED  BY <2>3, <2>4
<1> QED  BY <1>4, <1>5 DEF Enabled, Asks

(* One label more at the end of the buffer, for capability n.              *)
LEMMA TellsOfOneMore ==
  ASSUME NEW n \in Nat, buf \in Seq(Labels), TellsOf(n), NEW label \in Labels, label.cap = n,
         mode' = mode, UNCHANGED <<tree, argv>>,
         buf' = IF Enabled(Doc, n) <=> mode = KVM_INFO_SHOW_FEATURES
                THEN Append(buf, label) ELSE buf
  PROVE  TellsOf(n + 1)'
<1> DEFINE told == Enabled(Doc, n) <=> mode = KVM_INFO_SHOW_FEATURES
<1>1. /\ Doc' = Doc
      /\ \A c : Enabled(Doc, c)' <=> Enabled(Doc, c)
  BY DEF Doc, Enabled, Has, Announces
<1>2. \A k \in DOMAIN buf : buf[k].cap \in 0 .. n - 1
  BY DEF TellsOf
<1>3. ASSUME \A k \in DOMAIN buf' : buf'[k].cap \in 0 .. n,
             \A c \in 0 .. n : (Enabled(Doc, c) <=> mode = KVM_INFO_SHOW_FEATURES)
                                 <=> \E k \in DOMAIN buf' : buf'[k].cap = c
      PROVE  TellsOf(n + 1)'
  <2>1. (n + 1) - 1 = n
    OBVIOUS
  <2>2. \A c : (Enabled(Doc, c)' <=> mode' = KVM_INFO_SHOW_FEATURES)
               <=> (Enabled(Doc, c) <=> mode = KVM_INFO_SHOW_FEATURES)
    BY <1>1
  <2> QED  BY <1>3, <2>1, <2>2, Zenon DEF TellsOf
<1>4. CASE told
  <2>1. buf' = Append(buf, label)
    BY <1>4
  <2>2. /\ DOMAIN buf' = 1 .. Len(buf) + 1 /\ DOMAIN buf = 1 .. Len(buf) /\ Len(buf) \in Nat
        /\ \A k \in DOMAIN buf : buf'[k] = buf[k]
        /\ buf'[Len(buf) + 1] = label
    BY <2>1
  <2>3. \A k \in DOMAIN buf' : buf'[k].cap \in 0 .. n
    BY <1>2, <2>2
  <2>4. \A c \in 0 .. n - 1 : (\E k \in DOMAIN buf' : buf'[k].cap = c)
                                <=> \E k \in DOMAIN buf : buf[k].cap = c
    BY <2>2
  <2>5. \E k \in DOMAIN buf' : buf'[k].cap = n
    BY <2>2
  <2>6. \A c \in 0 .. n : (Enabled(Doc, c) <=> mode = KVM_INFO_SHOW_FEATURES)
                             <=> \E k \in DOMAIN buf' : buf'[k].cap = c
    <3>1. \A c \in 0 .. n : c \in 0 .. n - 1 \/ c = n
      OBVIOUS
    <3> QED  BY <3>1, <2>4, <2>5, <1>4 DEF TellsOf
  <2> QED  BY <2>3, <2>6, <1>3
<1>5. CASE ~told
  <2>1. buf' = buf
    BY <1>5
  <2>2. ~\E k \in DOMAIN buf : buf[k].cap = n
    BY <1>2
  <2>3. \A k \in DOMAIN buf' : buf'[k].cap \in 0 .. n
    BY <1>2, <2>1
  <2>4. \A c \in 0 .. n : (Enabled(Doc, c) <=> mode = KVM_INFO_SHOW_FEATURES)
                             <=> \E k \in DOMAIN buf' : buf'[k].cap = c
    <3>1. \A c \in 0 .. n : c \in 0 .. n - 1 \/ c = n
      OBVIOUS
    <3> QED  BY <3>1, <2>1, <2>2, <1>5 DEF TellsOf
  <2> QED  BY <2>3, <2>4, <1>3
<1> QED  BY <1>4, <1>5

-----------------------------------------------------------------------------
(* Proof of the invariant.                                                 *)

LEMMA InitIInv == Init => IInv
<1> SUFFICES ASSUME Init PROVE IInv
  OBVIOUS
<1> USE DEF Init, LibInit
<1>1. Types
  BY DEF Types, Points, Described
<1>2. Arguments /\ Opened /\ Slotted /\ Buffered
  BY DEF Arguments, Opened, TableReleased, Empty, Slotted, Buffered
<1> QED  BY <1>1, <1>2 DEF IInv

(* Every step leaves the document as it is.                                *)
LEMMA SameDoc ==
  ASSUME UNCHANGED <<tree, argv>>
  PROVE  /\ Doc' = Doc /\ Empty' = Empty
         /\ \A c : Enabled(Doc, c)' <=> Enabled(Doc, c)
         /\ \A n, slot : Announces(Doc, n, slot)' <=> Announces(Doc, n, slot)
BY DEF Doc, Empty, Enabled, Has, Announces

(* What Opened and Buffered say of the document is said of it for good.    *)
LEMMA SameRefusal ==
  ASSUME UNCHANGED <<tree, argv, alloc>>
  PROVE  Refused(Doc)' <=> Refused(Doc)
BY SameDoc DEF Refused

LEMMA MainKeeps == ASSUME IInv, MainStep PROVE IInv'
<1>1. /\ pc = "main" /\ pc' = "open" /\ dev' = DevOf(argv) /\ mode' = ModeOf(argv)
      /\ s' = [fd |-> -1, msrs |-> [slot \in Slots |-> FALSE]]
      /\ UNCHANGED <<argv, list, i, ix, err, buf, out, tree, alloc, files>>
  BY DEF MainStep, Main
<1>2. Types'
  BY <1>1 DEF IInv, Types, Points, ModeOf
<1>3. Arguments' /\ Opened'
  BY <1>1 DEF IInv, Arguments, Opened, TableReleased, Empty
<1>4. Slotted'
  BY <1>1 DEF Slotted, SlotsUpTo, Announces
<1>5. Buffered'
  BY <1>1 DEF IInv, Buffered
<1> QED  BY <1>2, <1>3, <1>4, <1>5 DEF IInv

(* The document is opened at the first entry, or the run ends.             *)
LEMMA OpenKeeps == ASSUME IInv, kvm_open PROVE IInv'
<1>1. /\ pc = "open" /\ find_first_free = 0 /\ dev = DevOf(argv) /\ buf = <<>> /\ err = 0
  BY FirstFree DEF kvm_open, KVMStateOpen, IInv, Opened, Arguments, Buffered
<1>2. UNCHANGED <<argv, dev, mode, list, i, ix, buf, out, tree, alloc>> /\ s'.msrs = s.msrs
  BY DEF kvm_open, KVMStateOpen, IInv, Types
<1>3. CASE Doc.parses
  <2>1. /\ s' = [s EXCEPT !.fd = 0] /\ pc' = "size" /\ err' = err
        /\ files' = [files EXCEPT ![0] = Doc]
    BY <1>1, <1>3 DEF kvm_open, KVMStateOpen, Doc
  <2>2. Types'
    BY <1>2, <2>1 DEF IInv, Types, Points
  <2>3. Arguments' /\ Buffered'
    BY <1>1, <1>2, <2>1 DEF IInv, Arguments, Buffered
  <2>4. Opened'
    <3>1. files = Empty /\ Empty' = Empty /\ Doc' = Doc
      BY <1>1, <1>2, SameDoc DEF IInv, Opened, Empty
    <3>2. s'.fd = 0
      BY <2>1 DEF IInv, Types
    <3> QED  BY <1>3, <2>1, <3>1, <3>2 DEF Opened, TableReleased
  <2>5. Slotted'
    BY <1>1, <1>2, <2>1, SameDoc DEF IInv, Slotted, SlotsUpTo
  <2> QED  BY <2>2, <2>3, <2>4, <2>5 DEF IInv
<1>4. CASE ~Doc.parses
  <2>1. s' = [s EXCEPT !.fd = -1] /\ pc' = "flush" /\ err' = -1 /\ files' = files
    BY <1>1, <1>4 DEF kvm_open, KVMStateOpen, Doc
  <2>2. Types'
    BY <1>2, <2>1 DEF IInv, Types, Points
  <2>3. Arguments' /\ Slotted'
    BY <1>1, <1>2, <2>1 DEF IInv, Arguments, Slotted
  <2>4. Opened'
    <3>1. files = Empty /\ Empty' = Empty /\ Doc' = Doc
      BY <1>1, <1>2, SameDoc DEF IInv, Opened
    <3>2. TableReleased'
      BY <1>4, <2>1, <3>1 DEF TableReleased, Empty, Doc
    <3> QED  BY <2>1, <3>2 DEF Opened
  <2>5. Buffered'
    BY <1>1, <1>2, <1>4, <2>1, SameDoc DEF Buffered
  <2> QED  BY <2>2, <2>3, <2>4, <2>5 DEF IInv
<1> QED  BY <1>3, <1>4

(* A list of integers is handed on; any other item refuses it, as does a  *)
(* lack of memory, unless that ends the process.                           *)
LEMMA MsrListKeeps == ASSUME IInv, kvm_get_msr_list PROVE IInv'
<1> DEFINE items == Items(Doc.msrs)
           mistaken == \E j \in DOMAIN items : ~items[j].int
           writes == items # <<>> /\ items[1].int
<1>1. pc = "size" /\ Doc.parses /\ get_array(s.fd, "msrs").items = items
  BY ReadsDoc DEF kvm_get_msr_list, IInv, Opened
<1>2. UNCHANGED <<argv, dev, mode, s, ix, buf, out, tree, alloc, files>>
  BY DEF kvm_get_msr_list, NoMsrList, Kill
<1>3. DOMAIN items = 1 .. Len(items) /\ Len(items) \in Nat
  BY <1>1, DocHasArrays, ItemsAreList DEF IInv
<1>4. Refused(Doc) <=> (alloc => mistaken)
  BY ItemsAreValues DEF Refused, Mistaken
<1>5. Doc' = Doc /\ Empty' = Empty /\ (Refused(Doc)' <=> Refused(Doc))
  BY <1>2, SameDoc, SameRefusal
<1>6. /\ s.fd = 0 /\ files = [Empty EXCEPT ![0] = Doc]
      /\ buf = <<>> /\ err = 0
  BY <1>1 DEF IInv, Opened, Buffered
<1>7. CASE (IF alloc THEN mistaken ELSE ~writes) /\ NoMsrList
  <2>1. pc' = "flush" /\ err' = -1 /\ i' = i
    BY <1>7 DEF NoMsrList
  <2>2. Refused(Doc)
    BY <1>4, <1>7
  <2>3. Types'
    BY <1>2, <2>1 DEF IInv, Types, Points
  <2>4. Arguments' /\ Slotted'
    BY <1>1, <1>2, <2>1 DEF IInv, Arguments, Slotted
  <2>5. Opened'
    <3>1. files' = [j \in Handles |-> IF j = 0 THEN Doc ELSE NoTable]
      BY <1>2, <1>6 DEF Empty
    <3>2. TableReleased'
      BY <1>1, <1>5, <2>2, <3>1 DEF TableReleased, Refused, Doc
    <3> QED  BY <2>1, <3>2 DEF Opened
  <2>6. Buffered'
    BY <1>2, <1>5, <1>6, <2>1, <2>2 DEF Buffered
  <2> QED  BY <2>3, <2>4, <2>5, <2>6 DEF IInv
<1>8. CASE ~alloc /\ writes /\ Kill
  <2>1. pc' = "killed" /\ UNCHANGED <<i, err, list>>
    BY <1>8 DEF Kill
  <2>2. Types' /\ Arguments'
    BY <1>1, <1>2, <2>1 DEF IInv, Types, Points, Arguments
  <2> QED  BY <2>1, <2>2 DEF IInv, Opened, TableReleased, Slotted, Buffered
<1>9. CASE /\ alloc /\ ~mistaken
           /\ list' = [kvm_alloc_msr_list(Len(items)) EXCEPT
                         !.indices = [j \in DOMAIN items |-> items[j].val]]
           /\ i' = 0 /\ pc' = "fill" /\ err' = err
  <2>1. list'.nmsrs = Len(items) /\ list'.indices = [j \in DOMAIN items |-> items[j].val]
    BY <1>9 DEF kvm_alloc_msr_list
  <2>2. Types' /\ Arguments'
    <3>1. pc = "size" /\ pc' = "fill" /\ i' = 0
      BY <1>1, <1>9
    <3> QED  BY <1>2, <3>1 DEF IInv, Types, Points, Arguments
  <2>3. Opened'
    <3>1. ~Refused(Doc)'
      BY <1>4, <1>5, <1>9
    <3>2. pc' = "fill" /\ s'.fd = 0 /\ Doc'.parses /\ files' = [Empty' EXCEPT ![0] = Doc']
      BY <1>1, <1>2, <1>5, <1>6, <1>9
    <3> QED  BY <3>1, <3>2 DEF Opened, TableReleased
  <2>4. Buffered'
    BY <1>2, <1>6, <1>9 DEF Buffered
  <2>5. Slotted'
    <3>1. SlotsUpTo(0)
      BY <1>1 DEF IInv, Slotted
    <3>2. SlotsUpTo(0)'
      BY <1>2, <3>1, SameDoc DEF SlotsUpTo
    <3>3. pc' = "fill" /\ i' = 0 /\ 0 <= list'.nmsrs
      BY <1>3, <1>9, <2>1
    <3>4. list'.nmsrs = Len(Items(Doc'.msrs))
          /\ list'.indices = [k \in DOMAIN Items(Doc'.msrs) |-> Items(Doc'.msrs)[k].val]
      BY <1>5, <2>1
    <3>5. SlotsUpTo(i)'
      BY <3>2, <3>3 DEF SlotsUpTo
    <3> QED  BY <3>3, <3>4, <3>5 DEF Slotted
  <2> QED  BY <2>2, <2>3, <2>4, <2>5 DEF IInv
<1> QED  BY <1>1, <1>7, <1>8, <1>9 DEF kvm_get_msr_list

(* One item more: the slots are those that the items so far announce.      *)
LEMMA SetSlotKeeps ==
  ASSUME IInv, SetSlot, UNCHANGED <<tree, alloc, files>>
  PROVE  IInv'
<1> DEFINE items == Items(Doc.msrs)
<1>1. /\ pc = "fill" /\ i < list.nmsrs /\ i' = i + 1
      /\ UNCHANGED <<pc, argv, dev, mode, list, ix, err, buf, out>>
  BY DEF SetSlot
<1>2. s' = [s EXCEPT !.msrs =
             [slot \in Slots |-> \/ s.msrs[slot]
                                 \/ <<list.indices[i + 1], slot>> \in SwitchArms]]
  BY DEF SetSlot
<1>3. s \in [fd : {-1, 0}, msrs : [Slots -> BOOLEAN]] /\ i \in Nat
  BY DEF IInv, Types
<1>4. s'.fd = s.fd /\ s' \in [fd : {-1, 0}, msrs : [Slots -> BOOLEAN]]
  BY <1>2, <1>3
<1>5. Types'
  BY <1>1, <1>3, <1>4 DEF IInv, Types
<1>6. Arguments' /\ Opened'
  BY <1>1, <1>4, SameDoc, SameRefusal DEF IInv, Arguments, Opened, TableReleased
<1>7. Buffered'
  BY <1>1 DEF IInv, Buffered
<1>8. /\ DOMAIN items = 1 .. Len(items) /\ Len(items) \in Nat
      /\ list.nmsrs = Len(items) /\ list.indices = [k \in DOMAIN items |-> items[k].val]
      /\ SlotsUpTo(i)
  BY <1>1, DocHasArrays, ItemsAreList DEF IInv, Opened, Slotted
<1>9. Slotted'
  <2>1. i + 1 \in 1 .. Len(items) /\ list.indices[i + 1] = items[i + 1].val
    BY <1>1, <1>3, <1>8
  <2>2. ASSUME NEW slot \in Slots
        PROVE  s'.msrs[slot] <=> Announces(Doc, i + 1, slot)
    <3>1. s'.msrs[slot] <=> s.msrs[slot] \/ <<items[i + 1].val, slot>> \in SwitchArms
      BY <1>2, <1>3, <2>1
    <3>2. s.msrs[slot] <=> Announces(Doc, i, slot)
      BY <1>8 DEF SlotsUpTo
    <3>3. Announces(Doc, i + 1, slot)
            <=> Announces(Doc, i, slot) \/ <<items[i + 1].val, slot>> \in SwitchArms
      <4>1. \A k \in 1 .. i + 1 : k \in 1 .. i \/ k = i + 1
        BY <1>3
      <4>2. \A k \in 1 .. i : k \in 1 .. i + 1
        BY <1>3
      <4>3. i + 1 \in 1 .. i + 1
        BY <1>3
      <4> QED  BY <4>1, <4>2, <4>3 DEF Announces
    <3> QED  BY <3>1, <3>2, <3>3
  <2>3. SlotsUpTo(i)'
    BY <1>1, <2>2, SameDoc DEF SlotsUpTo
  <2> QED  BY <1>1, <1>3, <1>8, <2>1, <2>3, SameDoc DEF Slotted
<1> QED  BY <1>5, <1>6, <1>7, <1>9 DEF IInv

LEMMA SlotsDoneKeeps ==
  ASSUME IInv, SlotsDone, UNCHANGED <<tree, alloc, files>>
  PROVE  IInv'
<1>1. /\ pc = "fill" /\ pc' = "scan" /\ i >= list.nmsrs /\ err' = 0 /\ ix' = 0
      /\ UNCHANGED <<argv, dev, mode, s, i, buf, out>>
  BY DEF SlotsDone
<1>2. Types'
  BY <1>1, DescribedLength DEF IInv, Types, Points
<1>3. Arguments' /\ Opened'
  BY <1>1, SameDoc, SameRefusal DEF IInv, Arguments, Opened, TableReleased
<1>4. Slotted'
  <2>1. Len(Items(Doc.msrs)) \in Nat
    BY <1>1, DocHasArrays, ItemsAreList DEF IInv, Opened
  <2>2. i = Len(Items(Doc.msrs)) /\ SlotsUpTo(i)
    BY <1>1, <2>1 DEF IInv, Types, Slotted
  <2> QED  BY <1>1, <2>2, SameDoc DEF Slotted, SlotsUpTo
<1>5. Buffered'
  BY <1>1 DEF IInv, Buffered, TellsOf
<1> QED  BY <1>2, <1>3, <1>4, <1>5 DEF IInv

(* The label of the capability is printed or not as the document says.     *)
LEMMA ScanCapKeeps ==
  ASSUME IInv, UNCHANGED <<tree, alloc, files>>,
         ScanCap(kvm_has_extension(s.fd, allcaps[ix].extension))
  PROVE  IInv'
<1> DEFINE cap == allcaps[ix]
           msr_ok == cap.need_msr => KVMStateHasEnabledMSR(cap.msr)
           ext_ok == cap.need_extension => kvm_has_extension(s.fd, cap.extension)
<1>1. /\ pc = "scan" /\ Continues(ix) /\ ix' = ix + 1
      /\ buf' = IF must_emit_label(msr_ok /\ ext_ok, mode)
                THEN Append(buf, Label(ix, mode)) ELSE buf
      /\ UNCHANGED <<pc, argv, dev, mode, s, list, i, err, out>>
  BY DEF ScanCap
<1>2. ix \in Caps /\ ix \in Nat /\ ix + 1 \in 0 .. Len(Described)
  BY <1>1, ScanStopsBehindTable, DescribedLength DEF IInv, Types, Caps
<1>3. msr_ok /\ ext_ok <=> Enabled(Doc, ix)
  <2>1. cap.msr \in Slots /\ cap.msr <= KVMINFO_MSR_HV.NUM
    BY <1>2, TableSlotsInRange
  <2>2. KVMStateHasEnabledMSR(cap.msr) <=> Announces(Doc, Len(Items(Doc.msrs)), cap.msr)
    BY <1>1, <2>1 DEF KVMStateHasEnabledMSR, IInv, Slotted, SlotsUpTo
  <2>3. kvm_has_extension(s.fd, cap.extension) <=> Has(Doc, cap.extension)
    BY <1>1, ReadsDoc DEF IInv
  <2> QED  BY <2>2, <2>3 DEF Enabled
<1>4. mode \in {KVM_INFO_SHOW_FEATURES, KVM_INFO_SHOW_MISSING}
  BY DEF IInv, Types
<1>5. must_emit_label(msr_ok /\ ext_ok, mode)
        <=> (Enabled(Doc, ix) <=> mode = KVM_INFO_SHOW_FEATURES)
  BY <1>3, <1>4 DEF must_emit_label, KVM_INFO_SHOW_FEATURES, KVM_INFO_SHOW_MISSING
<1>6. Label(ix, mode) \in Labels /\ Label(ix, mode).cap = ix
  BY <1>2 DEF Label, Labels, Suffix
<1>7. buf' = IF Enabled(Doc, ix) <=> mode = KVM_INFO_SHOW_FEATURES
             THEN Append(buf, Label(ix, mode)) ELSE buf
  BY <1>1, <1>5
<1>8. Types'
  <2>1. buf' \in Seq(Labels)
    BY <1>6, <1>7 DEF IInv, Types
  <2> QED  BY <1>1, <1>2, <2>1 DEF IInv, Types
<1>9. Arguments' /\ Opened' /\ Slotted'
  BY <1>1, SameDoc, SameRefusal
     DEF IInv, Arguments, Opened, TableReleased, Slotted, SlotsUpTo
<1>10. TellsOf(ix)'
  <2>1. buf \in Seq(Labels) /\ TellsOf(ix)
    BY <1>1 DEF IInv, Types, Buffered
  <2>2. ASSUME NEW n \in Nat, n = ix
        PROVE  TellsOf(n + 1)'
    BY <1>1, <1>6, <1>7, <2>1, <2>2, TellsOfOneMore
  <2> QED  BY <1>1, <1>2, <2>2 DEF TellsOf
<1>11. Buffered'
  <2>1. err = 0
    BY <1>1 DEF IInv, Buffered
  <2> QED  BY <1>1, <1>10, <2>1 DEF Buffered
<1> QED  BY <1>8, <1>9, <1>11 DEF IInv

LEMMA ScanDoneKeeps ==
  ASSUME IInv, ScanDone, UNCHANGED <<tree, alloc, files>>
  PROVE  IInv'
<1>1. /\ pc = "scan" /\ pc' = "close" /\ ~Continues(ix)
      /\ UNCHANGED <<argv, dev, mode, s, list, i, ix, err, buf, out>>
  BY DEF ScanDone
<1>2. ix = Len(Described)
  <2>1. ix \in 0 .. Len(Described)
    BY DEF IInv, Types
  <2>2. ix \notin Caps
    BY <1>1, <2>1, ScanStopsBehindTable
  <2> QED  BY <2>1, <2>2, DescribedLength DEF Caps
<1>3. Types'
  BY <1>1 DEF IInv, Types, Points
<1>4. Arguments' /\ Opened' /\ Slotted'
  BY <1>1, SameDoc, SameRefusal
     DEF IInv, Arguments, Opened, TableReleased, Slotted, SlotsUpTo
<1>5. Buffered'
  BY <1>1, <1>2, SameDoc DEF IInv, Buffered, TellsOf
<1> QED  BY <1>3, <1>4, <1>5 DEF IInv

(* Closing clears the place of the document: the table is empty again.     *)
LEMMA CloseKeeps == ASSUME IInv, kvm_close PROVE IInv'
<1>1. pc = "close" /\ s.fd = 0 /\ Doc.parses /\ ~Refused(Doc) /\ files = [Empty EXCEPT ![0] = Doc]
  BY DEF kvm_close, KVMStateClose, IInv, Opened
<1>2. /\ pc' = "flush" /\ s' = [s EXCEPT !.fd = -1] /\ files' = [files EXCEPT ![0] = NoTable]
      /\ UNCHANGED <<argv, dev, mode, list, i, ix, err, buf, out, tree, alloc>>
  BY <1>1 DEF kvm_close, KVMStateClose, MOCK_FILE_MAX
<1>3. Types'
  BY <1>2 DEF IInv, Types, Points
<1>4. Opened'
  <2>1. Doc' = Doc /\ (Refused(Doc)' <=> Refused(Doc))
    BY <1>2, SameDoc, SameRefusal
  <2>2. files' = [j \in Handles |-> NoTable]
    BY <1>1, <1>2 DEF Empty
  <2>3. TableReleased'
    BY <1>1, <2>1, <2>2 DEF TableReleased, Refused, Doc
  <2> QED  BY <1>2, <2>3 DEF Opened
<1>5. Arguments' /\ Slotted'
  BY <1>1, <1>2 DEF IInv, Arguments, Slotted
<1>6. Buffered'
  BY <1>1, <1>2, SameDoc, SameRefusal DEF IInv, Buffered, TellsOf
<1> QED  BY <1>3, <1>4, <1>5, <1>6 DEF IInv

LEMMA ExitKeeps == ASSUME IInv, Exit \/ UNCHANGED vars PROVE IInv'
<1>1. CASE Exit
  BY <1>1 DEF Exit, Flush, IInv, Types, Points, Arguments, Opened, TableReleased, Slotted,
              Buffered
<1>2. CASE UNCHANGED vars
  <2> USE <1>2 DEF vars, libvars
  <2>1. Types' /\ Arguments'
    BY DEF IInv, Types, Arguments
  <2>2. Opened' /\ Slotted'
    BY SameDoc, SameRefusal DEF IInv, Opened, TableReleased, Slotted, SlotsUpTo, Doc
  <2>3. Buffered'
    BY SameDoc, SameRefusal DEF IInv, Buffered, TellsOf
  <2> QED  BY <2>1, <2>2, <2>3 DEF IInv
<1> QED  BY <1>1, <1>2

-----------------------------------------------------------------------------
(* The theorems.                                                           *)

(* The invariant is inductive, and so holds in every reachable state.      *)
THEOREM Invariance == Spec => []IInv
<1>1. Init => IInv
  BY InitIInv
<1>2. IInv /\ [Next]_vars => IInv'
  BY MainKeeps, OpenKeeps, MsrListKeeps, SetSlotKeeps, SlotsDoneKeeps, ScanCapKeeps,
     ScanDoneKeeps, CloseKeeps, ExitKeeps DEF Next, Fill, Scan
<1> QED  BY <1>1, <1>2, PTL DEF Spec

(* The table of the mock is empty at the end, but for the one document     *)
(* whose list of MSRs was refused.                                         *)
THEOREM Released == Spec => []TableReleased
<1>1. IInv => TableReleased
  BY DEF IInv, Opened
<1> QED  BY <1>1, Invariance, PTL

(* On every document whose arrays list integers, of whatever length and    *)
(* order, the test build prints exactly the capabilities that the document *)
(* asks for, or under its other name exactly those that it does not.       *)
THEOREM Faithful == Spec => []MockFaithful
<1>1. IInv => MockFaithful
  <2> SUFFICES ASSUME IInv, pc = "flush", Doc.parses, Plain(Doc.exts), Plain(Doc.msrs), alloc
               PROVE  /\ err = 0
                      /\ \A c \in Caps : (Asks(Doc, c) <=> mode = KVM_INFO_SHOW_FEATURES)
                                           <=> \E k \in DOMAIN buf : buf[k].cap = c
    BY DEF MockFaithful, Doc
  <2>1. err = 0 /\ TellsOf(Len(Described))
    <3>1. \A j \in DOMAIN Doc.msrs.items : Doc.msrs.items[j].int
      BY DEF Plain
    <3>2. ~Refused(Doc)
      BY <3>1, DocHasArrays, ItemsAreValues DEF IInv, Refused, Mistaken, Items, IsArray
    <3> QED  BY <3>2 DEF IInv, Buffered
  <2>2. \A c \in Caps : Enabled(Doc, c) <=> Asks(Doc, c)
    BY DocHasArrays, PlainIsAsked DEF IInv
  <2> QED  BY <2>1, <2>2 DEF TellsOf, Caps
<1> QED  BY <1>1, Invariance, PTL

(* On every document with a mistake, wherever it stands, the test build    *)
(* prints nothing if the list of MSRs is spoiled, and otherwise exactly    *)
(* what the document without the mistaken part asks for.                   *)
THEOREM Mistakes == Spec => []MistakesExact
<1>1. IInv => MistakesExact
  <2> SUFFICES ASSUME IInv, pc = "flush", Doc.parses, alloc
               PROVE  IF Mistaken(Values(Doc.msrs)) THEN err = -1 /\ buf = <<>>
                      ELSE /\ err = 0
                           /\ \A n \in 0 .. Len(Values(Doc.exts).items), c \in Caps :
                                EndsAt(Values(Doc.exts), n) =>
                                  ((Asks(Reading(Doc, n), c) <=> mode = KVM_INFO_SHOW_FEATURES)
                                    <=> \E k \in DOMAIN buf : buf[k].cap = c)
    BY DEF MistakesExact, Doc
  <2>1. CASE Mistaken(Values(Doc.msrs))
    BY <2>1 DEF IInv, Buffered, Refused
  <2>2. CASE ~Mistaken(Values(Doc.msrs))
    <3>1. err = 0 /\ TellsOf(Len(Described))
      BY <2>2 DEF IInv, Buffered, Refused
    <3>2. ASSUME NEW n \in 0 .. Len(Values(Doc.exts).items), EndsAt(Values(Doc.exts), n),
                 NEW c \in Caps
          PROVE  Asks(Reading(Doc, n), c) <=> Enabled(Doc, c)
      BY <3>2, DocHasArrays, SoundPartIsAsked DEF IInv
    <3> QED  BY <2>2, <3>1, <3>2 DEF TellsOf, Caps
  <2> QED  BY <2>1, <2>2
<1> QED  BY <1>1, Invariance, PTL
=============================================================================
