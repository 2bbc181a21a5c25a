-------------------------- MODULE MCKvmCapsPlugin ---------------------------
(***************************************************************************)
(* Small hosts for KvmCapsPlugin.  Extensions: none, one, all but one, all.*)
(* MSR indices: none, one, all but one, all, and lists with unknown,       *)
(* repeated, unreported and reversed entries.                              *)
(***************************************************************************)
EXTENDS KvmCapsPlugin, FiniteSetsExt, SequencesExt

KnownMsrs == {arm[1] : arm \in SwitchArms}
UnknownMsr == 1

AlmostNone(S) == {T \in SUBSET S : Cardinality(T) <= 1}
AlmostAll(S) == {S \ T : T \in AlmostNone(S)}

(* An extension that is not supported answers 0 or, when check fails, -1.  *)
Checks(error) ==
  { [e \in Extensions |-> IF e \in yes THEN 1 + (e % 2)
                          ELSE IF e \in error THEN -1 ELSE 0]
    : yes \in AlmostNone(Extensions) \union AlmostAll(Extensions) }

(* The Hyper-V MSRs are numbered within one page.                          *)
Ascending(S) == SelectSeq([k \in 1 .. \h109 |-> \h3FFFFFFF + k], LAMBDA m : m \in S)

MsrLists == { Ascending(S) : S \in AlmostNone(KnownMsrs) \union AlmostAll(KnownMsrs) }
            \union { Ascending(OtherHypervMsrs), Ascending(OtherHypervMsrs \union KnownMsrs),
                     <<UnknownMsr>> \o Reverse(Ascending(KnownMsrs)) \o <<UnknownMsr>>,
                     <<HV_X64_MSR_SCONTROL, HV_X64_MSR_SCONTROL>> }

Node(kind, nmsrs, msrs, check) ==
  [kind |-> kind, nmsrs |-> nmsrs, msrs |-> msrs, check |-> check]

AllYes == [e \in Extensions |-> 1]
NotThere == Node("absent", 0, <<>>, AllYes)
NotKvm == Node("other", 0, <<>>, AllYes)

(* One side of the product is full while the other keeps its corners.      *)
MCNodes ==
  { Node("kvm", Len(l), l, c) : l \in {Ascending(KnownMsrs), <<>>}, c \in Checks({44, 148}) }
  \union { Node("kvm", Len(l), l, AllYes) : l \in MsrLists }
  \union { Node("kvm", 2, Ascending(KnownMsrs), AllYes), NotKvm, NotThere }

OTHER_DEV == "/dev/other"

OnDefault(node) == [path \in {DEFAULT_DEV, OTHER_DEV} |->
                      IF path = DEFAULT_DEV THEN node ELSE NotThere]

(* MSR lists that end at the size of the smallest allocation, and an old   *)
(* kernel that writes up to it.  One index, the last, is known.            *)
Padded(n) == Append([k \in 1 .. n - 1 |-> UnknownMsr], HV_X64_MSR_RESET)
LargeNodes == { Node("kvm", n, Padded(n), AllYes) : n \in 254 .. 258 }
              \union { Node("kvm", 3, Padded(255), AllYes) }

MCHosts == { OnDefault(node) : node \in MCNodes \union LargeNodes }
           \union { [path \in {DEFAULT_DEV, OTHER_DEV} |->
                        IF path = OTHER_DEV THEN Node("kvm", 1, <<HV_X64_MSR_RESET>>, AllYes)
                        ELSE NotKvm] }

Exes == {"kvm-caps-info-nfd-plugin", MISSING_EXE}
MCArgvs == [exe : Exes, args : {<<>>, <<OTHER_DEV>>, <<OTHER_DEV, DEFAULT_DEV>>}]

=============================================================================
