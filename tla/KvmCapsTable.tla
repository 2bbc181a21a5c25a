---------------------------- MODULE KvmCapsTable ----------------------------
(***************************************************************************)
(* The constant data of the capability library lib/kvminfocaps.c: which    *)
(* MSR index announces which internal slot (the switch of                  *)
(* KVMGetSupportedMSRs), which slot and which KVM extension every label    *)
(* needs (allcaps), and the size of the buffer the MSR list is read into.  *)
(* C ints used as truth values are BOOLEANs here.                          *)
(***************************************************************************)
EXTENDS Integers, Sequences

-----------------------------------------------------------------------------
(* The numbers of the kernel interface: lib/hyperv-proto.h, linux/kvm.h.   *)

HV_X64_MSR_VP_INDEX                == \h40000002
HV_X64_MSR_RESET                   == \h40000003
HV_X64_MSR_VP_RUNTIME              == \h40000010
HV_X64_MSR_TSC_FREQUENCY           == \h40000022
HV_X64_MSR_SCONTROL                == \h40000080
HV_X64_MSR_STIMER0_CONFIG          == \h400000B0
HV_X64_MSR_CRASH_CTL               == \h40000105
HV_X64_MSR_REENLIGHTENMENT_CONTROL == \h40000106

(* The other MSRs of the header, which stand beside and between these: KVM *)
(* lists many of them.                                                     *)
OtherHypervMsrs ==
  {\h40000000, \h40000001, \h40000020, \h40000021, \h40000023}
  \union \h40000070 .. \h40000073 \union \h40000081 .. \h40000084
  \union \h40000090 .. \h4000009F \union \h400000B1 .. \h400000B7
  \union \h40000100 .. \h40000104 \union \h40000107 .. \h40000108

KVM_CAP_HYPERV          == 44
KVM_CAP_HYPERV_TIME     == 96
KVM_CAP_HYPERV_SYNIC    == 123
KVM_CAP_HYPERV_SYNIC2   == 148
KVM_CAP_HYPERV_VP_INDEX == 149
KVM_CAP_HYPERV_TLBFLUSH == 155
KVM_CAP_HYPERV_SEND_IPI == 161

Extensions == {KVM_CAP_HYPERV, KVM_CAP_HYPERV_TIME, KVM_CAP_HYPERV_SYNIC,
               KVM_CAP_HYPERV_SYNIC2, KVM_CAP_HYPERV_VP_INDEX,
               KVM_CAP_HYPERV_TLBFLUSH, KVM_CAP_HYPERV_SEND_IPI}

(* The other extensions of the header, of any architecture: a device       *)
(* answers for each number that it is asked for.                           *)
OtherExtensions == (0 .. 167) \ (Extensions \union {5, 17, 19, 20, 27, 28})

(* The slots of KVMState.msrs; NUM is the length of the array.             *)
KVMINFO_MSR_HV == [DUMMY |-> 0, CRASH |-> 1, RESET |-> 2, VPINDEX |-> 3,
                   RUNTIME |-> 4, SYNIC |-> 5, STIMER |-> 6,
                   FREQUENCIES |-> 7, REENLIGHTENMENT |-> 8, NUM |-> 9]

Slots == 0 .. KVMINFO_MSR_HV.NUM - 1

(* The arms of the switch: <<MSR index, slot it sets>>.  An index that is  *)
(* in no arm is ignored.                                                   *)
SwitchArms ==
  { <<HV_X64_MSR_CRASH_CTL,               KVMINFO_MSR_HV.CRASH>>,
    <<HV_X64_MSR_RESET,                   KVMINFO_MSR_HV.RESET>>,
    <<HV_X64_MSR_VP_INDEX,                KVMINFO_MSR_HV.VPINDEX>>,
    <<HV_X64_MSR_VP_RUNTIME,              KVMINFO_MSR_HV.RUNTIME>>,
    <<HV_X64_MSR_SCONTROL,                KVMINFO_MSR_HV.SYNIC>>,
    <<HV_X64_MSR_STIMER0_CONFIG,          KVMINFO_MSR_HV.STIMER>>,
    <<HV_X64_MSR_TSC_FREQUENCY,           KVMINFO_MSR_HV.FREQUENCIES>>,
    <<HV_X64_MSR_REENLIGHTENMENT_CONTROL, KVMINFO_MSR_HV.REENLIGHTENMENT>> }

-----------------------------------------------------------------------------
(* struct capdesc and its designated initializers; a field that is not     *)
(* named is zero.                                                          *)

capdesc(need_extension, extension, need_msr, msr, name) ==
  [need_extension |-> need_extension, extension |-> extension,
   need_msr |-> need_msr, msr |-> msr, name |-> name]

NeedsExt(extension, name) == capdesc(TRUE, extension, FALSE, 0, name)
NeedsMsr(msr, name) == capdesc(FALSE, 0, TRUE, msr, name)
NeedsBoth(extension, msr, name) == capdesc(TRUE, extension, TRUE, msr, name)

KVMINFO_CAPS_MAX == 16

Described ==
  << NeedsExt(KVM_CAP_HYPERV, "base"),
     NeedsExt(KVM_CAP_HYPERV_TIME, "time"),
     NeedsBoth(KVM_CAP_HYPERV_VP_INDEX, KVMINFO_MSR_HV.VPINDEX, "vpindex"),
     NeedsExt(KVM_CAP_HYPERV_TLBFLUSH, "tlbflush"),
     NeedsExt(KVM_CAP_HYPERV_SEND_IPI, "ipi"),
     NeedsBoth(KVM_CAP_HYPERV_SYNIC, KVMINFO_MSR_HV.SYNIC, "synic"),
     NeedsBoth(KVM_CAP_HYPERV_SYNIC2, KVMINFO_MSR_HV.SYNIC, "synic2"),
     NeedsMsr(KVMINFO_MSR_HV.FREQUENCIES, "frequencies"),
     NeedsMsr(KVMINFO_MSR_HV.RESET, "reset"),
     NeedsMsr(KVMINFO_MSR_HV.RUNTIME, "runtime"),
     NeedsMsr(KVMINFO_MSR_HV.STIMER, "synictimer"),
     NeedsMsr(KVMINFO_MSR_HV.REENLIGHTENMENT, "reenlightenment") >>

(* The array has KVMINFO_CAPS_MAX entries, numbered from 0; those without  *)
(* an initializer are zero.                                                *)
Zero == capdesc(FALSE, 0, FALSE, 0, "")

allcaps == [c \in 0 .. KVMINFO_CAPS_MAX - 1 |->
              IF c < Len(Described) THEN Described[c + 1] ELSE Zero]

(* Mutated: the scan does not look for the first empty entry.              *)
MutantContinuesToMax(c) == c < KVMINFO_CAPS_MAX

Caps == 0 .. Len(Described) - 1

(* An entry that needs something, and is not past the end of the array:    *)
(* the scan goes on while it stands at one.                                *)
Continues(c) == /\ c < KVMINFO_CAPS_MAX
                /\ allcaps[c].need_msr \/ allcaps[c].need_extension

-----------------------------------------------------------------------------
KVM_INFO_SHOW_FEATURES == 0
KVM_INFO_SHOW_MISSING == 1

(* Mutated: the mode is forgotten.                                         *)
MutantEmitEnabled(enabled, mode) == enabled

must_emit_label(enabled, mode) ==
  \/ mode = KVM_INFO_SHOW_FEATURES /\ enabled
  \/ mode = KVM_INFO_SHOW_MISSING /\ ~enabled

Suffix(mode) == IF mode = KVM_INFO_SHOW_MISSING THEN "=false" ELSE ""

-----------------------------------------------------------------------------
(* kvm_alloc_msr_list: the bytes asked of calloc, and the number of 4-byte *)
(* indices that fit behind the 4-byte nmsrs field.                         *)

MAX(a, b) == IF a > b THEN a ELSE b

(* Mutated: the nmsrs field itself is forgotten.                           *)
MutantAllocNoHeader(nmsrs) == MAX(1024, nmsrs * 4)

AllocBytes(nmsrs) == MAX(1024, 4 + nmsrs * 4)

Capacity(nmsrs) == (AllocBytes(nmsrs) - 4) \div 4
=============================================================================
