--------------------------- MODULE MCKvmCapsTest ----------------------------
(***************************************************************************)
(* The fixtures of tests/caps-info with the output test-runner.sh compares *)
(* to, and documents at the edges of the mock.                             *)
(***************************************************************************)
EXTENDS KvmCapsTest

Item(v) == [int |-> TRUE, val |-> v, wide |-> FALSE]
Word == [int |-> FALSE, val |-> 0, wide |-> FALSE]
Wide(v) == [int |-> TRUE, val |-> v, wide |-> TRUE]

Array(items) == [kind |-> IF items = <<>> THEN "empty" ELSE "v", items |-> items]
Ints(vals) == Array([k \in DOMAIN vals |-> Item(vals[k])])

(* The lists of the fixtures, in their order.                              *)
AllExts == << KVM_CAP_HYPERV, KVM_CAP_HYPERV_TIME, KVM_CAP_HYPERV_VP_INDEX,
              KVM_CAP_HYPERV_TLBFLUSH, KVM_CAP_HYPERV_SEND_IPI >>
AllMsrs == << HV_X64_MSR_CRASH_CTL, HV_X64_MSR_RESET, HV_X64_MSR_VP_INDEX,
              HV_X64_MSR_VP_RUNTIME, HV_X64_MSR_SCONTROL, HV_X64_MSR_STIMER0_CONFIG,
              HV_X64_MSR_TSC_FREQUENCY, HV_X64_MSR_REENLIGHTENMENT_CONTROL >>
Both == AllExts \o << KVM_CAP_HYPERV_SYNIC, KVM_CAP_HYPERV_SYNIC2 >>

Fixtures ==
  [ all_disabled  |-> Document(Ints(<<>>), Ints(<<>>)),
    all_enabled   |-> Document(Ints(Both), Ints(AllMsrs)),
    no_extensions |-> Document(Ints(<<>>), Ints(AllMsrs)),
    no_msrs       |-> Document(Ints(Both), Ints(<<>>)),
    only_synic    |-> Document(Ints(AllExts \o <<KVM_CAP_HYPERV_SYNIC>>), Ints(AllMsrs)),
    only_synic2   |-> Document(Ints(AllExts \o <<KVM_CAP_HYPERV_SYNIC2>>), Ints(AllMsrs)) ]

FromMsrs == <<"frequencies", "reset", "runtime", "synictimer", "reenlightenment">>
FromExts == <<"base", "time", "vpindex", "tlbflush", "ipi">>

(* The files _stdout.                                                      *)
Expected ==
  [ all_disabled  |-> <<>>,
    all_enabled   |-> FromExts \o <<"synic", "synic2">> \o FromMsrs,
    no_extensions |-> FromMsrs,
    no_msrs       |-> <<"base", "time", "tlbflush", "ipi">>,
    only_synic    |-> FromExts \o <<"synic">> \o FromMsrs,
    only_synic2   |-> FromExts \o <<"synic2">> \o FromMsrs ]

(* Beside the fixtures: no file, no TOML, arrays missing or of the wrong   *)
(* kind, items that are no integers, values wider than 32 bits, and every  *)
(* number of the kernel's headers that the library does not look for.      *)
Listed(numbers, first) ==
  Ints(SelectSeq([k \in 1 .. \h109 |-> first + k - 1], LAMBDA n : n \in numbers))
Edges ==
  [ no_file    |-> Absent,
    no_toml    |-> Garbled,
    no_end     |-> Unended,
    no_arrays  |-> Document(NoArray, NoArray),
    tables     |-> Document([kind |-> "t", items |-> <<>>], [kind |-> "t", items |-> <<>>]),
    word_ext   |-> Document(Array(<<Item(KVM_CAP_HYPERV), Word, Item(KVM_CAP_HYPERV_TIME)>>),
                            Ints(<<>>)),
    word_msr   |-> Document(Ints(Both), Array(<<Item(HV_X64_MSR_RESET), Word>>)),
    wide       |-> Document(Array(<<Wide(KVM_CAP_HYPERV)>>), Array(<<Wide(HV_X64_MSR_RESET)>>)),
    half_wide  |-> Document(Array(<<Wide(KVM_CAP_HYPERV_VP_INDEX), Item(KVM_CAP_HYPERV_SYNIC2),
                                    Wide(KVM_CAP_HYPERV_SYNIC), Item(KVM_CAP_HYPERV_TIME)>>),
                            Array(<<Wide(HV_X64_MSR_SCONTROL), Item(HV_X64_MSR_VP_INDEX),
                                    Wide(1)>>)),
    others     |-> Document(Listed(OtherExtensions, 0), Listed(OtherHypervMsrs, \h40000000)),
    repeated   |-> Document(Ints(<<KVM_CAP_HYPERV, KVM_CAP_HYPERV>>),
                            Ints(<<HV_X64_MSR_RESET, 1, HV_X64_MSR_RESET>>)) ]

Paths == DOMAIN Fixtures \union DOMAIN Edges \union {DEFAULT_DEV}

MCTrees == {[p \in Paths |-> IF p \in DOMAIN Fixtures THEN Fixtures[p]
                             ELSE IF p \in DOMAIN Edges THEN Edges[p] ELSE Absent]}

Exes == {"kvm-caps-info-test", MISSING_EXE}
MCArgvs == [exe : Exes, args : {<<p>> : p \in Paths} \union {<<>>}]

(* Every fixture prints what its _stdout says, unless memory runs out.     *)
FixturesPass ==
  LET p == DevOf(argv)
  IN pc = "flush" /\ argv.exe = "kvm-caps-info-test" /\ p \in DOMAIN Fixtures /\ alloc =>
       /\ Names(buf) = Expected[p]
       /\ \A k \in DOMAIN buf : buf[k].suffix = ""
=============================================================================
