----------------------------- MODULE MCNfdNode ------------------------------
(***************************************************************************)
(* A node with the three hooks: devices that have all, some and none of    *)
(* the capabilities, one that is not there, and kernels for which the      *)
(* version plugin prints none, one or two lines.                           *)
(***************************************************************************)
EXTENDS NfdNode, TLC

Device0(kind, msrs, yes) ==
  [kind |-> kind, nmsrs |-> Len(msrs), msrs |-> msrs,
   check |-> [e \in Extensions |-> IF e \in yes THEN 1 ELSE 0]]

AllMsrs == <<HV_X64_MSR_RESET, HV_X64_MSR_VP_RUNTIME, HV_X64_MSR_TSC_FREQUENCY,
             HV_X64_MSR_SCONTROL, HV_X64_MSR_STIMER0_CONFIG, HV_X64_MSR_VP_INDEX,
             HV_X64_MSR_REENLIGHTENMENT_CONTROL>>

MCHosts == { DEFAULT_DEV :> node : node \in
               { Device0("kvm", AllMsrs, Extensions),
                 Device0("kvm", <<HV_X64_MSR_SCONTROL, HV_X64_MSR_RESET>>,
                         Extensions \ {KVM_CAP_HYPERV_SYNIC2}),
                 Device0("kvm", <<>>, {}),
                 Device0("absent", <<>>, {}) } }

MCArgvs == [exe : {"kvm-caps-info-nfd-plugin", MISSING_EXE}, args : {<<>>}]

Lines == << [check |-> 1, feature |-> "hyperv"], [check |-> 2, feature |-> "hyperv-lev2"] >>
MCKernels == { {}, {Lines[1]}, {Lines[1], Lines[2]} }
=============================================================================
