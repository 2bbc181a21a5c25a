--------------------------- MODULE KvmCapsPlugin ----------------------------
(***************************************************************************)
(* The capability plugin as it is shipped: the library and main of         *)
(* KvmInfoCaps linked with cmd/kvm-caps-info-nfd-plugin/kvm_io.c, on a     *)
(* kernel that answers its system calls.  The same program, under its two  *)
(* names, prints the capabilities the host has or those it misses.         *)
(*                                                                         *)
(* The kernel is external: it is modelled by the answers that kvm_io.c     *)
(* tells apart.  Every call may fail; KVM_CHECK_EXTENSION fails where      *)
(* check is negative.                                                      *)
(***************************************************************************)
EXTENDS KvmInfoCaps

CONSTANTS Argvs,   \* the command lines a run may start with
          Hosts,   \* the hosts it may run on: functions from path to node
          Fds      \* the descriptors open may return

VARIABLES host,    \* the device nodes of this host
          fds      \* the descriptors the process has open on its device

vars == <<libvars, host, fds>>

E2BIG == 7
EFAULT == 14
ENOTTY == 25

(* What a path leads to.  A KVM device reports nmsrs indices and writes    *)
(* msrs, which is longer on the old kernels whose lists were known to      *)
(* overrun the memory provided: the code trusts them to stay within 1K.    *)
IsNode(node) ==
  /\ node.kind \in {"absent", "other", "kvm"}
  /\ node.nmsrs \in Nat
  /\ node.msrs \in Seq(Nat)
  /\ node.check \in [Extensions -> Int]
  /\ node.nmsrs <= Len(node.msrs)
  /\ Len(node.msrs) = node.nmsrs \/ 4 + 4 * Len(node.msrs) <= 1024

ASSUME HostsAssumption ==
  \A h \in Hosts, a \in Argvs : IsNode(h[DevOf(a)])

ASSUME FdsAssumption == Fds \subseteq Nat

-----------------------------------------------------------------------------
(* The result of an ioctl, or the error it left in errno with its sign     *)
(* changed.                                                                *)
kvm_ioctl(ret, errno) == IF ret = -1 THEN -errno ELSE ret

(* ioctl(KVM_GET_MSR_INDEX_LIST) on a struct with place for room indices:  *)
(* the possible answers.  The count is written even when room is short.    *)
MsrIndexLists(node, room) ==
  LET failed(errno) == [ret |-> kvm_ioctl(-1, errno), nmsrs |-> room, indices |-> <<>>]
  IN IF node.kind # "kvm" THEN {failed(ENOTTY)}
     ELSE {failed(EFAULT)} \union
          { IF room < node.nmsrs
            THEN [ret |-> kvm_ioctl(-1, E2BIG), nmsrs |-> node.nmsrs, indices |-> <<>>]
            ELSE [ret |-> kvm_ioctl(0, 0), nmsrs |-> node.nmsrs, indices |-> node.msrs] }

(* ioctl(KVM_CHECK_EXTENSION) through kvm_ioctl: an error counts as no.    *)
kvm_has_extension(node, extension) ==
  IF node.check[extension] < 0 THEN 0 ELSE node.check[extension]

-----------------------------------------------------------------------------
Init == /\ LibInit(Argvs)
        /\ host \in Hosts
        /\ fds = {}

MainStep == Main /\ UNCHANGED <<host, fds>>

(* open fails where nothing is, and may fail anywhere (EACCES, EMFILE).    *)
Open == \/ /\ KVMStateOpen(-1)
           /\ UNCHANGED <<host, fds>>
        \/ \E fd \in Fds : /\ host[dev].kind # "absent"
                           /\ KVMStateOpen(fd)
                           /\ fds' = fds \union {fd}
                           /\ UNCHANGED host

(* kvm_get_msr_list: a first call with no room learns the size.  calloc    *)
(* may fail.                                                               *)
SizeMsrList ==
  /\ pc = "size"
  /\ \E answer \in MsrIndexLists(host[dev], 0) :
       \/ NoMsrList
       \/ /\ answer.ret >= 0 \/ answer.ret = -E2BIG
          /\ list' = kvm_alloc_msr_list(answer.nmsrs)
          /\ pc' = "fetch"
          /\ UNCHANGED <<argv, dev, mode, s, i, ix, err, buf, out>>
  /\ UNCHANGED <<host, fds>>

(* The second call fills the allocation, and the list is returned.         *)
FetchMsrList ==
  /\ pc = "fetch"
  /\ \E answer \in MsrIndexLists(host[dev], list.nmsrs) :
       \/ answer.ret < 0 /\ NoMsrList
       \/ /\ answer.ret >= 0
          /\ list' = [list EXCEPT !.nmsrs = answer.nmsrs,
                                  !.indices = answer.indices]
          /\ i' = 0
          /\ pc' = "fill"
          /\ UNCHANGED <<argv, dev, mode, s, ix, err, buf, out>>
  /\ UNCHANGED <<host, fds>>

Fill == (SetSlot \/ SlotsDone) /\ UNCHANGED <<host, fds>>

Scan == /\ \/ ScanCap(kvm_has_extension(host[dev], allcaps[ix].extension) # 0)
           \/ ScanDone
        /\ UNCHANGED <<host, fds>>

(* Linux releases the descriptor even when close reports an error.         *)
Close == /\ \E ok \in BOOLEAN : KVMStateClose(ok)
         /\ fds' = fds \ {s.fd}
         /\ UNCHANGED host

(* The end of the process closes what it has left open.                    *)
Exit == Flush /\ fds' = {} /\ UNCHANGED host
Killed == Kill /\ fds' = {} /\ UNCHANGED host

Progress == \/ MainStep \/ Open \/ SizeMsrList \/ FetchMsrList
            \/ Fill \/ Scan \/ Close \/ Exit

Next == Progress \/ Killed

(* The process is scheduled and its system calls return; nothing obliges   *)
(* anyone to kill it.                                                      *)
Spec == Init /\ [][Next]_vars
FairSpec == Spec /\ WF_vars(Progress)

-----------------------------------------------------------------------------
(* Type correctness.                                                       *)
TypeOK ==
  /\ pc \in Points
  /\ argv \in Argvs /\ host \in Hosts
  /\ dev \in {DevOf(a) : a \in Argvs} \union {DEFAULT_DEV}
  /\ mode \in {KVM_INFO_SHOW_FEATURES, KVM_INFO_SHOW_MISSING}
  /\ s \in [fd : Fds \union {-1}, msrs : [Slots -> BOOLEAN]]
  /\ list \in [nmsrs : Nat, room : Nat, indices : Seq(Nat)]
  /\ i \in Nat /\ ix \in 0 .. Len(Described) /\ err \in {-1, 0}
  /\ buf \in Seq(Labels) /\ out \in Seq(Labels)
  /\ fds \subseteq Fds

(* Every ioctl and every close of the plugin is made on a descriptor that  *)
(* is open on the device: never on -1, never after a failed open, never    *)
(* twice.                                                                  *)
DescriptorUse ==
  pc \in {"size", "fetch", "fill", "scan", "close"} => fds = {s.fd}

(* The device is left open only when it was opened and its MSR list could  *)
(* not be had: KVMStateScan then returns without KVMStateClose.            *)
LeakOnlyWithoutMsrs ==
  pc = "flush" => fds = {} \/ (err = -1 /\ fds = {s.fd} /\ buf = <<>>)

(* The kernel never writes past the allocation the MSR list is read into,  *)
(* at the sizes around 1K as elsewhere.                                    *)
FetchWithinBuffer == Len(list.indices) <= list.room

-----------------------------------------------------------------------------
(* The node the run's arguments name, and what it should tell of it.       *)
Device == host[DevOf(argv)]

Lists(node, slot) ==
  \E k \in 1 .. node.nmsrs : <<node.msrs[k], slot>> \in SwitchArms

(* The node has the MSR and the extension that capability c needs.         *)
Supports(node, c) ==
  /\ allcaps[c].need_msr => Lists(node, allcaps[c].msr)
  /\ allcaps[c].need_extension => node.check[allcaps[c].extension] > 0

Wants(node, m, c) == Supports(node, c) <=> m = KVM_INFO_SHOW_FEATURES

(* Those of the first n capabilities; WantedLabels, of all of them.        *)
WantedBelow(n) ==
  LET m == ModeOf(argv)
  IN { Label(c, m) : c \in {c \in 0 .. n - 1 : /\ Device.kind = "kvm"
                                               /\ Wants(Device, m, c)} }
WantedLabels == WantedBelow(Len(Described))

(* Once the MSR list is read, a slot is set exactly when the device lists  *)
(* an index that announces it, whatever the order of the list, its         *)
(* duplicates and the indices nobody knows.                                *)
MsrsExact ==
  pc \in {"scan", "close"} =>
    \A slot \in Slots : s.msrs[slot] <=> Lists(Device, slot)

CL == INSTANCE CapsLabels WITH wanted <- WantedLabels,
                               published <- out,
                               finished <- Ended

(* When the scan is over the buffer holds exactly the labels wanted on     *)
(* this host, in table order; when the device could not be read, nothing.  *)
ScanExact ==
  pc \in {"close", "flush"} =>
    IF err = 0 THEN Device.kind = "kvm" /\ CL!Enumerates(buf, WantedLabels)
               ELSE buf = <<>>

(* The plugin implements CapsLabels: what a reader of its output sees is   *)
(* one step that publishes all the labels or none, even when the plugin is *)
(* killed or its output cannot be written.                                 *)
PublishesAllOrNothing == CL!Spec

(* A plugin that is not killed comes to its end.                           *)
Terminates == <>Ended
=============================================================================
