---------------------------- MODULE KvmInfoCaps -----------------------------
(***************************************************************************)
(* The capability library lib/kvminfocaps.c and the main program around    *)
(* it, cmd/kvm-caps-info-nfd-plugin/main.c: one process, one call of       *)
(* KVMStateScan.  The functions of the I/O layer (kvm_open, kvm_close,     *)
(* kvm_has_extension, kvm_get_msr_list) are declared by the library and    *)
(* defined elsewhere, by kvm_io.c or by the mock of the tests: their       *)
(* answers are parameters of the actions here, and a module that links a   *)
(* layer in conjoins what the layer does.                                  *)
(*                                                                         *)
(* pc names the statement the process stands at:                           *)
(*   main    main's first lines       open   kvm_open                      *)
(*   size    kvm_get_msr_list         fetch  its second half               *)
(*   fill    the loop over indices    scan   the loop over allcaps         *)
(*   close   KVMStateClose            flush  fflush(stdout)                *)
(*   exit    main has returned        killed a signal ended the process    *)
(***************************************************************************)
EXTENDS KvmCapsTable

VARIABLES pc,
          argv,       \* [exe |-> basename(argv[0]), args |-> argv[1 ..]]
          dev, mode,  \* the arguments of KVMStateScan
          s,          \* the KVMState on its stack: [fd, msrs]
          list,       \* struct kvm_msr_list: [nmsrs, room, indices], or NULL
          i, ix,      \* the two loop counters
          err,        \* what KVMStateOpen has returned
          buf,        \* the lines emit has left in stdout's buffer
          out         \* the lines that have left the process

libvars == <<pc, argv, dev, mode, s, list, i, ix, err, buf, out>>

Points == {"main", "open", "size", "fetch", "fill", "scan", "close", "flush",
           "exit", "killed"}
Ended == pc \in {"exit", "killed"}

(* room is the number of indices the allocation has place for.             *)
NULL == [nmsrs |-> 0, room |-> 0, indices |-> <<>>]

Label(c, m) == [cap |-> c, suffix |-> Suffix(m)]
Labels == [cap : Caps, suffix : {"", "=false"}]

-----------------------------------------------------------------------------
(* Mutated forms of actions below, each with a bug a programmer could make *)
(* there: they show that the properties tell the code from its mutants.    *)

(* The result of kvm_open is not looked at.                                *)
MutantOpenUnchecked(fd) ==
  /\ pc = "open"
  /\ s' = [s EXCEPT !.fd = fd]
  /\ pc' = "size"
  /\ UNCHANGED <<argv, dev, mode, list, i, ix, err, buf, out>>

(* The loop over the indices does not count.                               *)
MutantSetSlotStuck ==
  /\ pc = "fill"
  /\ i < list.nmsrs
  /\ s' = [s EXCEPT !.msrs =
             [slot \in Slots |-> \/ s.msrs[slot]
                                 \/ <<list.indices[i + 1], slot>> \in SwitchArms]]
  /\ UNCHANGED <<pc, argv, dev, mode, list, i, ix, err, buf, out>>

(* The loop over the indices misses the last one.                          *)
MutantSlotsDoneEarly == /\ pc = "fill"
                        /\ i + 1 >= list.nmsrs
                        /\ list' = NULL
                        /\ err' = 0
                        /\ ix' = 0
                        /\ pc' = "scan"
                        /\ UNCHANGED <<argv, dev, mode, s, i, buf, out>>

(* KVMStateScan returns without KVMStateClose.                             *)
MutantScanUnclosed == /\ pc = "scan"
                      /\ ~Continues(ix)
                      /\ pc' = "flush"
                      /\ UNCHANGED <<argv, dev, mode, s, list, i, ix, err, buf, out>>

(* The lines are not buffered: each leaves the process as it is printed.   *)
MutantScanUnbuffered(ext) ==
  /\ pc = "scan"
  /\ Continues(ix)
  /\ LET cap == allcaps[ix]
         msr_ok == cap.need_msr => s.msrs[cap.msr]
         ext_ok == cap.need_extension => ext
     IN buf' = IF must_emit_label(msr_ok /\ ext_ok, mode)
               THEN Append(buf, Label(ix, mode)) ELSE buf
  /\ out' = buf'
  /\ ix' = ix + 1
  /\ UNCHANGED <<pc, argv, dev, mode, s, list, i, err>>

-----------------------------------------------------------------------------
(* main: the executable's name selects the mode, and exactly one argument  *)
(* names the device.                                                       *)

DEFAULT_DEV == "/dev/kvm"
MISSING_EXE == "kvm-caps-missing-nfd-plugin"

DevOf(a) == IF Len(a.args) = 1 THEN a.args[1] ELSE DEFAULT_DEV
ModeOf(a) == IF a.exe = MISSING_EXE THEN KVM_INFO_SHOW_MISSING
             ELSE KVM_INFO_SHOW_FEATURES

(* The process before main: nothing is printed, every variable is zero.    *)
LibInit(Argvs) ==
  /\ pc = "main"
  /\ argv \in Argvs
  /\ dev = DEFAULT_DEV /\ mode = KVM_INFO_SHOW_FEATURES
  /\ s = [fd |-> -1, msrs |-> [slot \in Slots |-> FALSE]]
  /\ list = NULL
  /\ i = 0 /\ ix = 0 /\ err = 0
  /\ buf = <<>> /\ out = <<>>

Main == /\ pc = "main"
        /\ dev' = DevOf(argv)
        /\ mode' = ModeOf(argv)
        /\ s' = [fd |-> -1, msrs |-> [slot \in Slots |-> FALSE]]
        /\ pc' = "open"
        /\ UNCHANGED <<argv, list, i, ix, err, buf, out>>

-----------------------------------------------------------------------------
(* KVMStateOpen, up to its call of KVMGetSupportedMSRs: fd is what         *)
(* kvm_open returned.  KVMStateScan returns at once when it fails.         *)
KVMStateOpen(fd) ==
  /\ pc = "open"
  /\ s' = [s EXCEPT !.fd = fd]
  /\ IF fd < 0 THEN err' = -1 /\ pc' = "flush"
               ELSE pc' = "size" /\ UNCHANGED err
  /\ UNCHANGED <<argv, dev, mode, list, i, ix, buf, out>>

(* kvm_get_msr_list returned NULL: KVMGetSupportedMSRs, KVMStateOpen and   *)
(* KVMStateScan all return, and s.fd is left as it is.                     *)
NoMsrList == /\ err' = -1
             /\ list' = NULL
             /\ pc' = "flush"
             /\ UNCHANGED <<argv, dev, mode, s, i, ix, buf, out>>

(* kvm_alloc_msr_list(nmsrs), where calloc does not fail.                  *)
kvm_alloc_msr_list(nmsrs) ==
  [nmsrs |-> nmsrs, room |-> Capacity(nmsrs), indices |-> <<>>]

(* One turn of the loop of KVMGetSupportedMSRs.                            *)
SetSlot ==
  /\ pc = "fill"
  /\ i < list.nmsrs
  /\ s' = [s EXCEPT !.msrs =
             [slot \in Slots |-> \/ s.msrs[slot]
                                 \/ <<list.indices[i + 1], slot>> \in SwitchArms]]
  /\ i' = i + 1
  /\ UNCHANGED <<pc, argv, dev, mode, list, ix, err, buf, out>>

(* The loop ends: the list is freed and KVMStateOpen returns 0.            *)
SlotsDone == /\ pc = "fill"
             /\ i >= list.nmsrs
             /\ list' = NULL
             /\ err' = 0
             /\ ix' = 0
             /\ pc' = "scan"
             /\ UNCHANGED <<argv, dev, mode, s, i, buf, out>>

-----------------------------------------------------------------------------
(* The guard of the code lets msr = NUM through, one past the array.       *)
KVMStateHasEnabledMSR(msr) == msr <= KVMINFO_MSR_HV.NUM /\ s.msrs[msr]

(* One turn of the loop of KVMStateScan.  ext is what kvm_has_extension    *)
(* answered; the code asks only when the capability needs an extension.    *)
ScanCap(ext) ==
  /\ pc = "scan"
  /\ Continues(ix)
  /\ LET cap == allcaps[ix]
         msr_ok == cap.need_msr => KVMStateHasEnabledMSR(cap.msr)
         ext_ok == cap.need_extension => ext
     IN buf' = IF must_emit_label(msr_ok /\ ext_ok, mode)
               THEN Append(buf, Label(ix, mode)) ELSE buf
  /\ ix' = ix + 1
  /\ UNCHANGED <<pc, argv, dev, mode, s, list, i, err, out>>

ScanDone == /\ pc = "scan"
            /\ ~Continues(ix)
            /\ pc' = "close"
            /\ UNCHANGED <<argv, dev, mode, s, list, i, ix, err, buf, out>>

(* KVMStateClose, whose result KVMStateScan ignores: ok says that kvm_close *)
(* returned 0.                                                             *)
KVMStateClose(ok) ==
  /\ pc = "close"
  /\ s' = [s EXCEPT !.fd = IF ok THEN -1 ELSE s.fd]
  /\ pc' = "flush"
  /\ UNCHANGED <<argv, dev, mode, list, i, ix, err, buf, out>>

(* fflush(stdout) and the return of main.  Standard output is a pipe, so   *)
(* fully buffered, and all the labels together (under 600 bytes) fit the   *)
(* buffer: they leave in one write, or it fails, which main ignores.       *)
Flush == /\ pc = "flush"
         /\ out' \in {buf, <<>>}
         /\ pc' = "exit"
         /\ UNCHANGED <<argv, dev, mode, s, list, i, ix, err, buf>>

(* A signal ends the process, and the buffer is lost with it.              *)
Kill == /\ ~Ended
        /\ pc' = "killed"
        /\ UNCHANGED <<argv, dev, mode, s, list, i, ix, err, buf, out>>
=============================================================================
