------------------------ MODULE KvmCapsPluginProofs -------------------------
(***************************************************************************)
(* Proofs about KvmCapsPlugin for every set of command lines, hosts and    *)
(* descriptors.                                                            *)
(***************************************************************************)
EXTENDS KvmCapsPlugin, TLAPS

-----------------------------------------------------------------------------
(* Facts about the table and the allocation.                               *)

(* The allocation of kvm_alloc_msr_list has place for the requested number *)
(* of indices, and never for less than 1K worth of them.                   *)
LEMMA CapacityCovers ==
  ASSUME NEW nmsrs \in Nat
  PROVE  /\ Capacity(nmsrs) \in Nat
         /\ Capacity(nmsrs) >= nmsrs
         /\ Capacity(nmsrs) >= 255
BY DEF Capacity, AllocBytes, MAX

(* The table has twelve entries.                                           *)
LEMMA DescribedLength == Len(Described) = 12
BY DEF Described

(* The first twelve entries of allcaps are the described ones.             *)
LEMMA TableEntry ==
  ASSUME NEW c \in Caps
  PROVE  c < KVMINFO_CAPS_MAX /\ c + 1 \in 1 .. 12 /\ allcaps[c] = Described[c + 1]
BY DescribedLength DEF Caps, allcaps, KVMINFO_CAPS_MAX

(* The scan of KVMStateScan goes on at each of the twelve entries and      *)
(* stops behind them.                                                      *)
LEMMA ScanStopsBehindTable ==
  ASSUME NEW c \in 0 .. Len(Described)
  PROVE  Continues(c) <=> c \in Caps
<1>1. ASSUME c \in Caps  PROVE  Continues(c)
  <2>1. c + 1 \in 1 .. 12
    BY <1>1, TableEntry
  <2>2. Described[c + 1].need_msr \/ Described[c + 1].need_extension
    BY <2>1 DEF Described, NeedsExt, NeedsMsr, NeedsBoth, capdesc
  <2> QED  BY <1>1, <2>2, TableEntry DEF Continues
<1>2. ASSUME c \notin Caps  PROVE  ~Continues(c)
  <2>1. c = 12
    BY <1>2, DescribedLength DEF Caps
  <2>2. allcaps[12] = Zero
    BY DescribedLength DEF allcaps, KVMINFO_CAPS_MAX
  <2>3. Zero.need_msr = FALSE /\ Zero.need_extension = FALSE
    BY DEF Zero, capdesc
  <2> QED  BY <2>1, <2>2, <2>3 DEF Continues
<1> QED  BY <1>1, <1>2

(* Every MSR slot the table names is inside the array of KVMState: the     *)
(* bound of KVMStateHasEnabledMSR, one too large, is never reached.        *)
LEMMA TableSlotsInRange ==
  ASSUME NEW c \in Caps
  PROVE  /\ allcaps[c].msr \in Slots
         /\ allcaps[c].msr <= KVMINFO_MSR_HV.NUM
         /\ allcaps[c].need_extension => allcaps[c].extension \in Extensions
<1>1. allcaps[c] = Described[c + 1] /\ c + 1 \in 1 .. 12
  BY TableEntry
<1>2. /\ Described[c + 1].msr \in 0 .. 8
      /\ Described[c + 1].need_extension => Described[c + 1].extension \in Extensions
  BY <1>1 DEF Described, NeedsExt, NeedsMsr, NeedsBoth, capdesc, KVMINFO_MSR_HV,
              Extensions, KVM_CAP_HYPERV, KVM_CAP_HYPERV_TIME, KVM_CAP_HYPERV_SYNIC,
              KVM_CAP_HYPERV_SYNIC2, KVM_CAP_HYPERV_VP_INDEX, KVM_CAP_HYPERV_TLBFLUSH,
              KVM_CAP_HYPERV_SEND_IPI
<1> QED  BY <1>1, <1>2 DEF Slots, KVMINFO_MSR_HV

(* No two capabilities of the table have one name.                         *)
LEMMA NamesDiffer ==
  ASSUME NEW c \in Caps, NEW d \in Caps, allcaps[c].name = allcaps[d].name
  PROVE  c = d
<1>1. /\ allcaps[c] = Described[c + 1] /\ allcaps[d] = Described[d + 1]
      /\ c + 1 \in 1 .. 12 /\ d + 1 \in 1 .. 12 /\ c \in Int /\ d \in Int
  BY TableEntry DEF Caps
<1>2. \A a, b \in 1 .. 12 : Described[a].name = Described[b].name => a = b
  BY DEF Described, NeedsExt, NeedsMsr, NeedsBoth, capdesc
<1> QED  BY <1>1, <1>2

-----------------------------------------------------------------------------
(* The inductive invariant.  Besides the properties themselves it says how *)
(* far the two loops have come: which slots the first i indices announce,  *)
(* and that the buffer lists what is wanted of the first ix capabilities.  *)

Arguments == pc \notin {"main", "killed"} => dev = DevOf(argv) /\ mode = ModeOf(argv)

Descriptor == /\ pc \in {"main", "open"} => fds = {}
              /\ DescriptorUse
              /\ LeakOnlyWithoutMsrs

MsrList == /\ pc \in {"fetch", "fill", "scan", "close"} => Device.kind = "kvm"
           /\ pc \in {"fetch", "fill"} => /\ list.nmsrs = Device.nmsrs
                                          /\ list.room = Capacity(Device.nmsrs)
           /\ pc = "fill" => list.indices = Device.msrs /\ i <= Device.nmsrs
           /\ FetchWithinBuffer

SlotsUpTo(n) ==
  \A slot \in Slots :
    s.msrs[slot] <=> \E k \in 1 .. n : <<Device.msrs[k], slot>> \in SwitchArms

SlotsRead == /\ pc \in {"open", "size", "fetch"} => SlotsUpTo(0)
             /\ pc = "fill" => SlotsUpTo(i)
             /\ MsrsExact

Printed == /\ pc \in {"main", "open", "size", "fetch", "fill"} => buf = <<>> /\ err = 0
           /\ pc = "scan" => err = 0 /\ CL!Enumerates(buf, WantedBelow(ix))
           /\ ScanExact
           /\ pc # "exit" => out = <<>>

IInv == TypeOK /\ Arguments /\ Descriptor /\ MsrList /\ SlotsRead /\ Printed

-----------------------------------------------------------------------------
(* Proof of the invariant.                                                 *)

LEMMA DeviceIsNode ==
  ASSUME TypeOK
  PROVE  IsNode(Device)
BY HostsAssumption DEF TypeOK, Device

(* Appending a label behind all those of a set enumerates one label more.  *)
LEMMA EnumeratesAppend ==
  ASSUME NEW q \in Seq(Labels), NEW W, NEW label \in Labels,
         CL!Enumerates(q, W),
         \A w \in W : w.cap < label.cap
  PROVE  CL!Enumerates(Append(q, label), W \union {label})
<1> DEFINE r == Append(q, label)
<1>1. DOMAIN q = 1 .. Len(q) /\ DOMAIN r = 1 .. Len(q) + 1 /\ Len(q) \in Nat
  OBVIOUS
<1>2. \A k \in 1 .. Len(q) : r[k] = q[k] /\ q[k] \in Labels
  OBVIOUS
<1>3. r[Len(q) + 1] = label
  OBVIOUS
<1> HIDE DEF r
<1>4. \A k \in DOMAIN r : r[k] \in W \union {label}
  BY <1>1, <1>2, <1>3 DEF CL!Enumerates
<1>5. \A w \in W \union {label} : \E k \in DOMAIN r : r[k] = w
  BY <1>1, <1>2, <1>3 DEF CL!Enumerates
<1>6. \A j, k \in DOMAIN r : j < k => r[j].cap < r[k].cap
  <2> SUFFICES ASSUME NEW j \in DOMAIN r, NEW k \in DOMAIN r, j < k
               PROVE  r[j].cap < r[k].cap
    OBVIOUS
  <2>1. CASE k \in 1 .. Len(q)
    BY <2>1, <1>1, <1>2 DEF CL!Enumerates
  <2>2. CASE k = Len(q) + 1
    <3>1. j \in 1 .. Len(q)
      BY <2>2, <1>1
    <3>2. r[j] \in W
      BY <3>1, <1>1, <1>2 DEF CL!Enumerates
    <3> QED  BY <3>2, <2>2, <1>3
  <2> QED  BY <2>1, <2>2, <1>1
<1> QED  BY <1>4, <1>5, <1>6 DEF CL!Enumerates, r

(* The label the scan emits for a capability is the one wanted of it.      *)
LEMMA EmitsWanted ==
  ASSUME TypeOK, SlotsRead, pc = "scan", Device.kind = "kvm",
         mode = ModeOf(argv), dev = DevOf(argv), ix \in Caps
  PROVE  LET cap == allcaps[ix]
             ext == kvm_has_extension(host[dev], cap.extension) # 0
             msr_ok == cap.need_msr => KVMStateHasEnabledMSR(cap.msr)
             ext_ok == cap.need_extension => ext
         IN must_emit_label(msr_ok /\ ext_ok, mode) <=> Wants(Device, mode, ix)
<1> DEFINE cap == allcaps[ix]
           ext == kvm_has_extension(host[dev], cap.extension) # 0
           msr_ok == cap.need_msr => KVMStateHasEnabledMSR(cap.msr)
           ext_ok == cap.need_extension => ext
<1>1. cap.msr \in Slots /\ cap.msr <= KVMINFO_MSR_HV.NUM
  BY TableSlotsInRange
<1>2. cap.need_extension => Device.check[cap.extension] \in Int
  BY TableSlotsInRange, DeviceIsNode DEF IsNode
<1>3. msr_ok <=> (cap.need_msr => Lists(Device, cap.msr))
  BY <1>1 DEF SlotsRead, MsrsExact, KVMStateHasEnabledMSR
<1>4. ext_ok <=> (cap.need_extension => Device.check[cap.extension] > 0)
  BY <1>2 DEF kvm_has_extension, Device
<1>5. msr_ok /\ ext_ok <=> Supports(Device, ix)
  BY <1>3, <1>4 DEF Supports
<1>6. mode \in {KVM_INFO_SHOW_FEATURES, KVM_INFO_SHOW_MISSING}
  BY DEF TypeOK
<1> QED
  BY <1>5, <1>6 DEF must_emit_label, Wants, KVM_INFO_SHOW_FEATURES, KVM_INFO_SHOW_MISSING

(* The labels wanted of one capability more.                               *)
LEMMA WantedOneMore ==
  ASSUME NEW n \in Nat
  PROVE  /\ \A w \in WantedBelow(n) : w.cap \in Nat /\ w.cap < n
         /\ WantedBelow(n + 1) = WantedBelow(n) \union
              (IF Device.kind = "kvm" /\ Wants(Device, ModeOf(argv), n)
               THEN {Label(n, ModeOf(argv))} ELSE {})
<1>1. \A w \in WantedBelow(n) : w.cap \in Nat /\ w.cap < n
  BY DEF WantedBelow, Label
<1>2. \A w : w \in WantedBelow(n + 1) <=>
               \/ w \in WantedBelow(n)
               \/ /\ Device.kind = "kvm" /\ Wants(Device, ModeOf(argv), n)
                  /\ w = Label(n, ModeOf(argv))
  BY DEF WantedBelow
<1> QED  BY <1>1, <1>2

LEMMA InitIInv == Init => IInv
<1> SUFFICES ASSUME Init PROVE IInv
  OBVIOUS
<1> USE DEF Init, LibInit
<1>1. TypeOK
  BY DEF TypeOK, Points, NULL, KVM_INFO_SHOW_FEATURES, Described
<1>2. Arguments /\ Descriptor
  BY DEF Arguments, Descriptor, DescriptorUse, LeakOnlyWithoutMsrs
<1>3. MsrList
  BY DEF MsrList, FetchWithinBuffer, NULL
<1>4. SlotsRead
  BY DEF SlotsRead, MsrsExact
<1>5. Printed
  BY DEF Printed, ScanExact
<1> QED  BY <1>1, <1>2, <1>3, <1>4, <1>5 DEF IInv

(* What the run tells about is the same before and after a step.           *)
LEMMA SameDevice ==
  ASSUME argv' = argv, host' = host
  PROVE  /\ Device' = Device
         /\ \A n : WantedBelow(n)' = WantedBelow(n)
         /\ WantedLabels' = WantedLabels
<1>1. Device' = Device
  BY DEF Device
<1>2. \A n : WantedBelow(n)' = WantedBelow(n)
  BY <1>1 DEF WantedBelow
<1> QED  BY <1>1, <1>2 DEF WantedLabels

LEMMA MainKeeps == ASSUME IInv, MainStep PROVE IInv'
<1> USE DEF MainStep, Main
<1>1. Device' = Device
  BY SameDevice
<1>2. TypeOK'
  BY DEF IInv, TypeOK, Points, ModeOf, KVM_INFO_SHOW_FEATURES, KVM_INFO_SHOW_MISSING
<1>3. Arguments' /\ Descriptor'
  BY DEF IInv, Arguments, Descriptor, DescriptorUse, LeakOnlyWithoutMsrs
<1>4. MsrList'
  BY <1>1 DEF IInv, MsrList, FetchWithinBuffer
<1>5. SlotsRead'
  BY <1>1 DEF SlotsRead, SlotsUpTo, MsrsExact
<1>6. Printed'
  BY DEF IInv, Printed, ScanExact
<1> QED  BY <1>2, <1>3, <1>4, <1>5, <1>6 DEF IInv

LEMMA OpenKeeps == ASSUME IInv, Open PROVE IInv'
<1> USE DEF KVMStateOpen
<1>0. PICK fd \in Fds \union {-1} : /\ KVMStateOpen(fd)
                                    /\ fds' = IF fd = -1 THEN fds ELSE fds \union {fd}
                                    /\ host' = host
  <2>1. CASE KVMStateOpen(-1) /\ UNCHANGED <<host, fds>>
    BY <2>1
  <2>2. CASE \E fd \in Fds : /\ host[dev].kind # "absent"
                             /\ KVMStateOpen(fd)
                             /\ fds' = fds \union {fd}
                             /\ UNCHANGED host
    BY <2>2, FdsAssumption
  <2> QED  BY <2>1, <2>2 DEF Open
<1>1. Device' = Device
  BY <1>0, SameDevice
<1>2. fd \in Int /\ (fd < 0 <=> fd = -1)
  BY FdsAssumption
<1>3. s' = [s EXCEPT !.fd = fd] /\ s'.fd = fd /\ s'.msrs = s.msrs
  BY <1>0 DEF IInv, TypeOK
<1>4. TypeOK'
  BY <1>0, <1>2, <1>3 DEF IInv, TypeOK, Points
<1>5. Arguments' /\ Descriptor'
  BY <1>0, <1>2, <1>3 DEF IInv, Arguments, Descriptor, DescriptorUse, LeakOnlyWithoutMsrs, Printed
<1>6. MsrList'
  BY <1>0, <1>1 DEF IInv, MsrList, FetchWithinBuffer
<1>7. SlotsRead'
  BY <1>0, <1>1, <1>3 DEF IInv, SlotsRead, SlotsUpTo, MsrsExact
<1>8. Printed'
  BY <1>0 DEF IInv, Printed, ScanExact
<1> QED  BY <1>4, <1>5, <1>6, <1>7, <1>8 DEF IInv

(* A failed kvm_get_msr_list keeps the invariant: the scan ends with the   *)
(* buffer empty.                                                           *)
LEMMA NoMsrListKeeps ==
  ASSUME IInv, pc \in {"size", "fetch"}, NoMsrList, UNCHANGED <<host, fds>>
  PROVE  IInv'
<1> USE DEF NoMsrList
<1>1. Device' = Device
  BY SameDevice
<1>2. TypeOK'
  BY DEF IInv, TypeOK, Points, NULL
<1>3. Arguments' /\ Descriptor'
  BY DEF IInv, Arguments, Descriptor, DescriptorUse, LeakOnlyWithoutMsrs, Printed
<1>4. MsrList'
  BY DEF MsrList, FetchWithinBuffer, NULL
<1>5. SlotsRead'
  BY DEF SlotsRead, MsrsExact
<1>6. Printed'
  BY DEF IInv, Printed, ScanExact
<1> QED  BY <1>2, <1>3, <1>4, <1>5, <1>6 DEF IInv

LEMMA SizeKeeps == ASSUME IInv, SizeMsrList PROVE IInv'
<1>1. CASE NoMsrList
  BY <1>1, NoMsrListKeeps DEF SizeMsrList
<1>2. CASE ~NoMsrList
  <2> USE <1>2 DEF SizeMsrList
  <2>1. PICK answer \in MsrIndexLists(host[dev], 0) :
          /\ answer.ret >= 0 \/ answer.ret = -E2BIG
          /\ list' = kvm_alloc_msr_list(answer.nmsrs)
          /\ pc' = "fetch"
          /\ UNCHANGED <<argv, dev, mode, s, i, ix, err, buf, out>>
    OBVIOUS
  <2>2. pc = "size" /\ UNCHANGED <<host, fds>>
    OBVIOUS
  <2> HIDE <1>2 DEF SizeMsrList
  <2>3. Device' = Device /\ host[dev] = Device
    BY <2>1, <2>2, SameDevice DEF IInv, Arguments, Device
  <2>4. Device.nmsrs \in Nat
    BY DeviceIsNode DEF IInv, IsNode
  <2>5. Device.kind = "kvm" /\ answer.nmsrs = Device.nmsrs
    BY <2>1, <2>3, <2>4 DEF MsrIndexLists, kvm_ioctl, E2BIG, EFAULT, ENOTTY
  <2>6. list' = [nmsrs |-> Device.nmsrs, room |-> Capacity(Device.nmsrs), indices |-> <<>>]
    BY <2>1, <2>5 DEF kvm_alloc_msr_list
  <2>7. Capacity(Device.nmsrs) \in Nat
    BY <2>4, CapacityCovers
  <2>8. TypeOK'
    BY <2>1, <2>2, <2>4, <2>6, <2>7 DEF IInv, TypeOK, Points
  <2>9. Arguments' /\ Descriptor'
    BY <2>1, <2>2 DEF IInv, Arguments, Descriptor, DescriptorUse, LeakOnlyWithoutMsrs
  <2>10. MsrList'
    BY <2>1, <2>3, <2>5, <2>6, <2>7 DEF MsrList, FetchWithinBuffer
  <2>11. SlotsRead'
    BY <2>1, <2>2, <2>3 DEF IInv, SlotsRead, SlotsUpTo, MsrsExact
  <2>12. Printed'
    BY <2>1, <2>2 DEF IInv, Printed, ScanExact
  <2> QED  BY <2>8, <2>9, <2>10, <2>11, <2>12 DEF IInv
<1> QED  BY <1>1, <1>2

LEMMA FetchKeeps == ASSUME IInv, FetchMsrList PROVE IInv'
<1>1. CASE NoMsrList
  BY <1>1, NoMsrListKeeps DEF FetchMsrList
<1>2. CASE ~NoMsrList
  <2> USE <1>2 DEF FetchMsrList
  <2>1. PICK answer \in MsrIndexLists(host[dev], list.nmsrs) :
          /\ answer.ret >= 0
          /\ list' = [list EXCEPT !.nmsrs = answer.nmsrs, !.indices = answer.indices]
          /\ i' = 0
          /\ pc' = "fill"
          /\ UNCHANGED <<argv, dev, mode, s, ix, err, buf, out>>
    OBVIOUS
  <2>2. pc = "fetch" /\ UNCHANGED <<host, fds>>
    OBVIOUS
  <2> HIDE <1>2 DEF FetchMsrList
  <2>3. Device' = Device /\ host[dev] = Device
    BY <2>1, <2>2, SameDevice DEF IInv, Arguments, Device
  <2>4. IsNode(Device)
    BY DeviceIsNode DEF IInv
  <2>5. answer.nmsrs = Device.nmsrs /\ answer.indices = Device.msrs
    BY <2>1, <2>3, <2>4 DEF MsrIndexLists, kvm_ioctl, E2BIG, EFAULT, ENOTTY, IsNode
  <2>6. list' = [nmsrs |-> Device.nmsrs, room |-> list.room, indices |-> Device.msrs]
    BY <2>1, <2>5 DEF IInv, TypeOK
  <2>7. Len(Device.msrs) <= Capacity(Device.nmsrs)
    <3> DEFINE n == Len(Device.msrs)
    <3>1. /\ n \in Nat /\ Device.nmsrs \in Nat
          /\ n = Device.nmsrs \/ 4 + 4 * n <= 1024
      BY <2>4 DEF IsNode
    <3>2. /\ Capacity(Device.nmsrs) \in Nat
          /\ Capacity(Device.nmsrs) >= Device.nmsrs
          /\ Capacity(Device.nmsrs) >= 255
      BY <3>1, CapacityCovers
    <3> HIDE DEF n
    <3>3. n <= Capacity(Device.nmsrs)
      BY <3>1, <3>2
    <3> QED  BY <3>3 DEF n
  <2>8. TypeOK'
    BY <2>1, <2>2, <2>4, <2>6 DEF IInv, TypeOK, Points, IsNode
  <2>9. Arguments' /\ Descriptor'
    BY <2>1, <2>2 DEF IInv, Arguments, Descriptor, DescriptorUse, LeakOnlyWithoutMsrs
  <2>10. MsrList'
    <3>1. list.room = Capacity(Device.nmsrs) /\ Device.kind = "kvm"
      BY <2>2 DEF IInv, MsrList
    <3>2. Device.nmsrs \in Nat
      BY <2>4 DEF IsNode
    <3>3. list'.nmsrs = Device.nmsrs /\ list'.room = list.room /\ list'.indices = Device.msrs
      BY <2>6
    <3>4. FetchWithinBuffer'
      BY <2>7, <3>1, <3>3 DEF FetchWithinBuffer
    <3>5. i' <= Device.nmsrs
      BY <2>1, <3>2
    <3> QED  BY <2>1, <2>3, <3>1, <3>3, <3>4, <3>5 DEF MsrList
  <2>11. SlotsRead'
    BY <2>1, <2>2, <2>3 DEF IInv, SlotsRead, SlotsUpTo, MsrsExact
  <2>12. Printed'
    BY <2>1, <2>2 DEF IInv, Printed, ScanExact
  <2> QED  BY <2>8, <2>9, <2>10, <2>11, <2>12 DEF IInv
<1> QED  BY <1>1, <1>2

(* One more index read: a slot is set when an earlier index or this one    *)
(* announces it.                                                           *)
LEMMA SetSlotKeeps == ASSUME IInv, SetSlot, UNCHANGED <<host, fds>> PROVE IInv'
<1> USE DEF SetSlot
<1>1. Device' = Device
  BY SameDevice
<1>2. IsNode(Device) /\ list.nmsrs = Device.nmsrs /\ list.indices = Device.msrs
  BY DeviceIsNode DEF IInv, MsrList
<1>3. i \in Nat /\ i < Device.nmsrs
  BY <1>2 DEF IInv, TypeOK
<1> DEFINE msrs == [slot \in Slots |-> \/ s.msrs[slot]
                                       \/ <<list.indices[i + 1], slot>> \in SwitchArms]
<1>4. msrs \in [Slots -> BOOLEAN]
  BY DEF IInv, TypeOK
<1>5. s' = [s EXCEPT !.msrs = msrs]
  OBVIOUS
<1>6. s'.fd = s.fd /\ s'.msrs = msrs /\ s' \in [fd : Fds \union {-1}, msrs : [Slots -> BOOLEAN]]
  BY <1>4, <1>5 DEF IInv, TypeOK
<1>7. TypeOK'
  <2>1. i' \in Nat /\ UNCHANGED <<pc, argv, dev, mode, list, ix, err, buf, out, host, fds>>
    BY <1>3
  <2> HIDE DEF SetSlot, msrs
  <2> QED  BY <1>6, <2>1 DEF IInv, TypeOK
<1>8. Arguments' /\ Descriptor'
  BY <1>6 DEF IInv, Arguments, Descriptor, DescriptorUse, LeakOnlyWithoutMsrs
<1>9. MsrList'
  <2>1. IsNode(Device) /\ i + 1 <= Device.nmsrs
    BY <1>2, <1>3 DEF IsNode
  <2> QED  BY <1>1, <2>1 DEF IInv, MsrList, FetchWithinBuffer
<1>10. SlotsUpTo(i)' 
  <2> DEFINE Announces(k, slot) == <<Device.msrs[k], slot>> \in SwitchArms
  <2> SUFFICES ASSUME NEW slot \in Slots
               PROVE  s'.msrs[slot] <=> \E k \in 1 .. i + 1 : Announces(k, slot)
    BY <1>1 DEF SlotsUpTo
  <2>1. s.msrs[slot] <=> \E k \in 1 .. i : Announces(k, slot)
    BY DEF IInv, SlotsRead, SlotsUpTo
  <2>2. s'.msrs[slot] <=> s.msrs[slot] \/ Announces(i + 1, slot)
    BY <1>2, <1>6
  <2>3. \A k : k \in 1 .. i + 1 <=> k \in 1 .. i \/ k = i + 1
    BY <1>3
  <2> HIDE DEF Announces
  <2> QED  BY <2>1, <2>2, <2>3
<1>11. SlotsRead'
  BY <1>10 DEF SlotsRead, MsrsExact
<1>12. Printed'
  BY DEF IInv, Printed, ScanExact
<1> QED  BY <1>7, <1>8, <1>9, <1>11, <1>12 DEF IInv

(* The loop ends when it has read all the device's indices, and the scan   *)
(* starts with nothing printed.                                            *)
LEMMA SlotsDoneKeeps == ASSUME IInv, SlotsDone, UNCHANGED <<host, fds>> PROVE IInv'
<1> USE DEF SlotsDone
<1>1. Device' = Device /\ \A n : WantedBelow(n)' = WantedBelow(n)
  BY SameDevice
<1>2. IsNode(Device) /\ list.nmsrs = Device.nmsrs /\ i <= Device.nmsrs
  BY DeviceIsNode DEF IInv, MsrList
<1>3. i = Device.nmsrs
  BY <1>2 DEF IInv, TypeOK, IsNode
<1>4. TypeOK'
  BY DescribedLength DEF IInv, TypeOK, Points, NULL
<1>5. Arguments' /\ Descriptor'
  BY DEF IInv, Arguments, Descriptor, DescriptorUse, LeakOnlyWithoutMsrs
<1>6. MsrList'
  BY <1>1 DEF IInv, MsrList, FetchWithinBuffer, NULL
<1>7. SlotsRead'
  BY <1>1, <1>3 DEF IInv, SlotsRead, SlotsUpTo, MsrsExact, Lists
<1>8. Printed'
  <2>1. WantedBelow(0) = {}
    BY DEF WantedBelow
  <2>2. CL!Enumerates(buf', WantedBelow(ix)')
    BY <1>1, <2>1 DEF IInv, Printed, CL!Enumerates, WantedBelow
  <2> QED  BY <2>2 DEF IInv, Printed, ScanExact
<1> QED  BY <1>4, <1>5, <1>6, <1>7, <1>8 DEF IInv

(* One more capability asked: its label is appended exactly when wanted.   *)
LEMMA ScanCapKeeps ==
  ASSUME IInv, UNCHANGED <<host, fds>>,
         ScanCap(kvm_has_extension(host[dev], allcaps[ix].extension) # 0)
  PROVE  IInv'
<1> DEFINE cap == allcaps[ix]
           ext == kvm_has_extension(host[dev], cap.extension) # 0
           msr_ok == cap.need_msr => KVMStateHasEnabledMSR(cap.msr)
           ext_ok == cap.need_extension => ext
           m == ModeOf(argv)
<1>1. /\ pc = "scan" /\ Continues(ix) /\ ix' = ix + 1
      /\ buf' = IF must_emit_label(msr_ok /\ ext_ok, mode)
                THEN Append(buf, Label(ix, mode)) ELSE buf
      /\ UNCHANGED <<pc, argv, dev, mode, s, list, i, err, out>>
  BY DEF ScanCap
<1>2. ix \in Caps
  BY <1>1, ScanStopsBehindTable DEF IInv, TypeOK
<1>3. /\ Device.kind = "kvm" /\ err = 0 /\ mode = m /\ dev = DevOf(argv)
      /\ CL!Enumerates(buf, WantedBelow(ix))
      /\ buf \in Seq(Labels)
  BY <1>1 DEF IInv, MsrList, Arguments, Printed, TypeOK
<1>4. must_emit_label(msr_ok /\ ext_ok, mode) <=> Wants(Device, m, ix)
  BY <1>1, <1>2, <1>3, EmitsWanted DEF IInv
<1>5. buf' = IF Wants(Device, m, ix) THEN Append(buf, Label(ix, m)) ELSE buf
  BY <1>1, <1>3, <1>4
<1> HIDE DEF cap, ext, msr_ok, ext_ok, m
<1>6. ix \in Nat /\ ix + 1 \in 0 .. Len(Described)
  BY <1>2, DescribedLength DEF Caps
<1>7. Label(ix, m) \in Labels /\ Label(ix, m).cap = ix
  <2>1. Suffix(m) \in {"", "=false"}
    BY DEF Suffix
  <2> QED  BY <1>2, <2>1 DEF Label, Labels
<1>8. buf' \in Seq(Labels) /\ CL!Enumerates(buf', WantedBelow(ix + 1))
  <2>1. \A w \in WantedBelow(ix) : w.cap < Label(ix, m).cap
    BY <1>6, <1>7, WantedOneMore
  <2>2. CASE Wants(Device, m, ix)
    <3>1. buf' = Append(buf, Label(ix, m))
      BY <1>5, <2>2
    <3>2. WantedBelow(ix + 1) = WantedBelow(ix) \union {Label(ix, m)}
      BY <1>3, <1>6, <2>2, WantedOneMore DEF m
    <3> QED  BY <3>1, <3>2, <2>1, <1>3, <1>7, EnumeratesAppend
  <2>3. CASE ~Wants(Device, m, ix)
    <3>1. WantedBelow(ix + 1) = WantedBelow(ix)
      BY <1>6, <2>3, WantedOneMore DEF m
    <3> QED  BY <3>1, <2>3, <1>3, <1>5
  <2> QED  BY <2>2, <2>3
<1>9. Device' = Device /\ WantedBelow(ix)' = WantedBelow(ix + 1)
  <2>1. Device' = Device
    BY <1>1, SameDevice
  <2> QED  BY <1>1, <2>1 DEF WantedBelow
<1>10. TypeOK'
  BY <1>1, <1>6, <1>8 DEF IInv, TypeOK
<1>11. Arguments' /\ Descriptor'
  BY <1>1 DEF IInv, Arguments, Descriptor, DescriptorUse, LeakOnlyWithoutMsrs
<1>12. MsrList' /\ SlotsRead'
  BY <1>1, <1>9 DEF IInv, MsrList, FetchWithinBuffer, SlotsRead, MsrsExact
<1>13. Printed'
  BY <1>1, <1>3, <1>8, <1>9 DEF IInv, Printed, ScanExact
<1> QED  BY <1>10, <1>11, <1>12, <1>13 DEF IInv

(* Behind the table everything wanted has been printed.                    *)
LEMMA ScanDoneKeeps == ASSUME IInv, ScanDone, UNCHANGED <<host, fds>> PROVE IInv'
<1> USE DEF ScanDone
<1>1. Device' = Device /\ WantedLabels' = WantedLabels
  BY SameDevice
<1>2. ix = Len(Described)
  <2>1. ix \in 0 .. Len(Described)
    BY DEF IInv, TypeOK
  <2>2. ix \notin Caps
    BY <2>1, ScanStopsBehindTable
  <2> QED  BY <2>1, <2>2, DescribedLength DEF Caps
<1>3. TypeOK'
  BY DEF IInv, TypeOK, Points
<1>4. Arguments' /\ Descriptor'
  BY DEF IInv, Arguments, Descriptor, DescriptorUse, LeakOnlyWithoutMsrs
<1>5. MsrList' /\ SlotsRead'
  BY <1>1 DEF IInv, MsrList, FetchWithinBuffer, SlotsRead, MsrsExact
<1>6. Printed'
  BY <1>1, <1>2 DEF IInv, MsrList, Printed, ScanExact, WantedLabels, CL!Enumerates
<1> QED  BY <1>3, <1>4, <1>5, <1>6 DEF IInv

LEMMA CloseKeeps == ASSUME IInv, Close PROVE IInv'
<1>1. PICK ok \in BOOLEAN : KVMStateClose(ok)
  BY DEF Close
<1>2. /\ pc = "close" /\ pc' = "flush"
      /\ s' = [s EXCEPT !.fd = IF ok THEN -1 ELSE s.fd]
      /\ UNCHANGED <<argv, dev, mode, list, i, ix, err, buf, out>>
      /\ fds' = fds \ {s.fd} /\ host' = host
  BY <1>1 DEF KVMStateClose, Close
<1>3. Device' = Device /\ WantedLabels' = WantedLabels
  BY <1>2, SameDevice
<1>4. fds' = {}
  BY <1>2 DEF IInv, Descriptor, DescriptorUse
<1>5. TypeOK'
  BY <1>2 DEF IInv, TypeOK, Points
<1>6. Arguments' /\ Descriptor'
  BY <1>2, <1>4 DEF IInv, Arguments, Descriptor, DescriptorUse, LeakOnlyWithoutMsrs
<1>7. MsrList' /\ SlotsRead'
  BY <1>2, <1>3 DEF IInv, MsrList, FetchWithinBuffer, SlotsRead, MsrsExact
<1>8. Printed'
  BY <1>2, <1>3 DEF IInv, Printed, ScanExact, CL!Enumerates
<1> QED  BY <1>5, <1>6, <1>7, <1>8 DEF IInv

LEMMA ExitKeeps == ASSUME IInv, Exit \/ Killed PROVE IInv'
<1>1. /\ pc' \in {"exit", "killed"} /\ (pc' = "killed" => out' = out /\ pc # "exit")
      /\ out' \in {buf, <<>>, out}
      /\ UNCHANGED <<argv, dev, mode, s, list, i, ix, err, buf, host>>
      /\ fds' = {}
      /\ pc' = "exit" => pc = "flush"
  BY DEF Exit, Killed, Flush, Kill, Ended
<1>2. TypeOK'
  <2>1. buf \in Seq(Labels) /\ out \in Seq(Labels) /\ <<>> \in Seq(Labels)
    BY DEF IInv, TypeOK
  <2>2. out' \in Seq(Labels)
    BY <1>1, <2>1
  <2>3. pc' \in Points /\ fds' \subseteq Fds
    BY <1>1 DEF Points
  <2> QED  BY <1>1, <2>2, <2>3 DEF IInv, TypeOK
<1>3. Arguments' /\ Descriptor'
  BY <1>1 DEF IInv, Arguments, Descriptor, DescriptorUse, LeakOnlyWithoutMsrs
<1>4. MsrList' /\ SlotsRead'
  BY <1>1 DEF IInv, MsrList, FetchWithinBuffer, SlotsRead, MsrsExact
<1>5. Printed'
  BY <1>1 DEF IInv, Printed, ScanExact
<1> QED  BY <1>2, <1>3, <1>4, <1>5 DEF IInv

(* Every step of the plugin keeps the invariant.                           *)
LEMMA StepKeeps == ASSUME IInv, [Next]_vars PROVE IInv'
<1>1. CASE MainStep
  BY <1>1, MainKeeps
<1>2. CASE Open
  BY <1>2, OpenKeeps
<1>3. CASE SizeMsrList
  BY <1>3, SizeKeeps
<1>4. CASE FetchMsrList
  BY <1>4, FetchKeeps
<1>5. CASE Fill
  BY <1>5, SetSlotKeeps, SlotsDoneKeeps DEF Fill
<1>6. CASE Scan
  BY <1>6, ScanCapKeeps, ScanDoneKeeps DEF Scan
<1>7. CASE Close
  BY <1>7, CloseKeeps
<1>8. CASE Exit \/ Killed
  BY <1>8, ExitKeeps
<1>9. CASE UNCHANGED vars
  <2> USE <1>9 DEF vars, libvars
  <2>1. Device' = Device /\ WantedLabels' = WantedLabels /\ WantedBelow(ix)' = WantedBelow(ix)
    BY SameDevice DEF WantedBelow, WantedLabels
  <2>2. TypeOK'
    BY DEF IInv, TypeOK
  <2>3. Arguments' /\ Descriptor'
    BY DEF IInv, Arguments, Descriptor, DescriptorUse, LeakOnlyWithoutMsrs
  <2>4. MsrList' /\ SlotsRead'
    BY <2>1 DEF IInv, MsrList, FetchWithinBuffer, SlotsRead, SlotsUpTo, MsrsExact
  <2>5. Printed'
    BY <2>1 DEF IInv, Printed, ScanExact
  <2> QED  BY <2>2, <2>3, <2>4, <2>5 DEF IInv
<1> QED
  BY <1>1, <1>2, <1>3, <1>4, <1>5, <1>6, <1>7, <1>8, <1>9 DEF Next, Progress

-----------------------------------------------------------------------------
(* The theorems.  The fairness of FairSpec plays no part in them.          *)

(* The invariant is inductive, and so holds in every reachable state.      *)
THEOREM Invariance == Spec => []IInv
<1>1. Init => IInv
  BY InitIInv
<1>2. IInv /\ [Next]_vars => IInv'
  BY StepKeeps
<1> QED  BY <1>1, <1>2, PTL DEF Spec

(* Every variable keeps its type.                                          *)
THEOREM TypeCorrect == Spec => []TypeOK
<1>1. IInv => TypeOK
  BY DEF IInv
<1> QED  BY <1>1, Invariance, PTL

(* Every system call on the device is made on its one open descriptor,     *)
(* which no other file of the process has.                                 *)
THEOREM DescriptorsSafe == Spec => []DescriptorUse
<1>1. IInv => DescriptorUse
  BY DEF IInv, Descriptor
<1> QED  BY <1>1, Invariance, PTL

(* The descriptor is left open only when the MSR list could not be had.    *)
THEOREM LeaksNothingElse == Spec => []LeakOnlyWithoutMsrs
<1>1. IInv => LeakOnlyWithoutMsrs
  BY DEF IInv, Descriptor
<1> QED  BY <1>1, Invariance, PTL

(* Whatever the size of the device's MSR list, the kernel's writes stay    *)
(* within the allocation.                                                  *)
THEOREM BufferSafe == Spec => []FetchWithinBuffer
<1>1. IInv => FetchWithinBuffer
  BY DEF IInv, MsrList
<1> QED  BY <1>1, Invariance, PTL

(* The slots are exactly those the device's list announces.                *)
THEOREM SlotsCorrect == Spec => []MsrsExact
<1>1. IInv => MsrsExact
  BY DEF IInv, SlotsRead
<1> QED  BY <1>1, Invariance, PTL

(* What the plugin prints is exactly what is wanted of the host, or        *)
(* nothing when the device could not be read.                              *)
THEOREM ScanCorrect == Spec => []ScanExact
<1>1. IInv => ScanExact
  BY DEF IInv, Printed
<1> QED  BY <1>1, Invariance, PTL

(* The plugin implements CapsLabels: its last step publishes the complete  *)
(* list or nothing, and every other step is invisible to its reader.       *)
THEOREM Implements == Spec => PublishesAllOrNothing
<1>1. Init => CL!Init
  BY DEF Init, LibInit, CL!Init, Ended
<1>2. IInv /\ [Next]_vars => [CL!Publish]_(CL!avars)
  <2> SUFFICES ASSUME IInv, [Next]_vars, ~UNCHANGED <<WantedLabels, out, Ended>>
               PROVE  CL!Publish
    BY DEF CL!avars
  <2>1. argv' = argv /\ host' = host
    BY DEF Next, Progress, vars, libvars, MainStep, Main, Open, KVMStateOpen, SizeMsrList,
           FetchMsrList, NoMsrList, Fill, SetSlot, SlotsDone, Scan, ScanCap, ScanDone,
           Close, KVMStateClose, Exit, Flush, Killed, Kill
  <2>2. WantedLabels' = WantedLabels
    BY <2>1, SameDevice
  <2>3. Exit \/ Killed
    <3> SUFFICES ASSUME ~Exit, ~Killed PROVE out' = out /\ Ended' = Ended
      BY <2>2
    <3>1. CASE UNCHANGED vars
      BY <3>1 DEF vars, libvars, Ended
    <3>2. CASE MainStep
      BY <3>2 DEF MainStep, Main, Ended
    <3>3. CASE Open
      <4>1. pc = "open" /\ pc' \in {"flush", "size"} /\ out' = out
        BY <3>3 DEF Open, KVMStateOpen
      <4> QED  BY <4>1 DEF Ended
    <3>4. CASE SizeMsrList \/ FetchMsrList
      <4>1. /\ pc \in {"size", "fetch"} /\ pc' \in {"fetch", "fill", "flush"}
            /\ out' = out
        BY <3>4 DEF SizeMsrList, FetchMsrList, NoMsrList
      <4> QED  BY <4>1 DEF Ended
    <3>5. CASE Fill
      BY <3>5 DEF Fill, SetSlot, SlotsDone, Ended
    <3>6. CASE Scan \/ Close
      BY <3>6 DEF Scan, ScanCap, ScanDone, Close, KVMStateClose, Ended
    <3> QED  BY <3>1, <3>2, <3>3, <3>4, <3>5, <3>6 DEF Next, Progress
  <2>4. CASE Exit
    <3>1. ~Ended /\ Ended' /\ out' \in {buf, <<>>} /\ pc = "flush"
      BY <2>4 DEF Exit, Flush, Ended
    <3>2. buf = <<>> \/ CL!Enumerates(buf, WantedLabels)
      BY <3>1 DEF IInv, Printed, ScanExact
    <3> QED  BY <3>1, <3>2, <2>2 DEF CL!Publish, CL!Enumerates
  <2>5. CASE Killed
    <3>1. ~Ended /\ Ended' /\ out' = out /\ pc # "exit"
      BY <2>5 DEF Killed, Kill, Ended
    <3>2. out' = <<>>
      BY <3>1 DEF IInv, Printed
    <3> QED  BY <3>1, <3>2, <2>2 DEF CL!Publish
  <2> QED  BY <2>3, <2>4, <2>5
<1> QED  BY <1>1, <1>2, Invariance, PTL DEF Spec, CL!Spec, PublishesAllOrNothing
=============================================================================
