--------------------------- MODULE NfdNodeProofs ----------------------------
(***************************************************************************)
(* Proofs about NfdNode for every set of hooks, devices and kernels, and   *)
(* for every number of passes and changes of the device.  What is proved   *)
(* of one run of the capability plugin, the invariant IInv, is carried     *)
(* from run to run and through the worker's steps.                         *)
(***************************************************************************)
EXTENDS NfdNode, KvmCapsPluginProofs

-----------------------------------------------------------------------------
(* The lines that tell the truth of the node's device, by their value: a   *)
(* capability plugin under one of its names prints the one set or the      *)
(* other.                                                                  *)
Node == host[DEFAULT_DEV]
NamesOf(c) == <<"cap", "hyperv", allcaps[c].name>>
Yes == {[name |-> NamesOf(c), value |-> TRUE] : c \in {c \in Caps : Supports(Node, c)}}
No == {[name |-> NamesOf(c), value |-> FALSE] : c \in {c \in Caps : ~Supports(Node, c)}}

(* Where the capability plugin stands while the worker does something      *)
(* else: it has not begun or has ended, and its descriptors are closed.    *)
Resting == /\ hook # "caps" => pc = "main" \/ Ended
           /\ hook # "caps" \/ Ended => fds = {}

(* What a run leaves to the worker are all the lines that are wanted of    *)
(* the device it was started on, which is still the node's, or none.       *)
LeavesAll == hook = "caps" /\ pc = "exit" => out = <<>> \/ CL!Enumerates(out, WantedLabels)

(* What has been heard in a pass during which the device stays the same:   *)
(* of each of the two sets all lines or none, and lines of the kernel.     *)
Heard ==
  ~changed => /\ \A l \in labels : l \in Yes \/ l \in No \/ l = VersionLine([feature |-> l.name[2]])
              /\ Yes \subseteq labels \/ Yes \intersect labels = {}
              /\ No \subseteq labels \/ No \intersect labels = {}

(* The lines of the run that has ended last.                               *)
Told == {CapLine(out[k]) : k \in DOMAIN out}

NodeInv == IInv /\ Resting /\ LeavesAll /\ Heard

-----------------------------------------------------------------------------
(* Lemmas about the lines.                                                 *)

(* A line of the one set has another name than any line of the other, and  *)
(* none has the name of a line of the kernel.                              *)
LEMMA OneValueEach ==
  ASSUME NEW l, NEW m, l.name = m.name,
         l \in Yes \/ l \in No \/ l = VersionLine([feature |-> l.name[2]]),
         m \in Yes \/ m \in No \/ m = VersionLine([feature |-> m.name[2]])
  PROVE  l.value = m.value
<1>1. \A x \in Yes \union No : \E c \in Caps :
        /\ x.name = NamesOf(c)
        /\ (Supports(Node, c) /\ x.value = TRUE) \/ (~Supports(Node, c) /\ x.value = FALSE)
  BY DEF Yes, No
<1>2. \A c, d \in Caps : NamesOf(c) = NamesOf(d) => c = d
  BY NamesDiffer DEF NamesOf
<1>3. \A c \in Caps : \A f : NamesOf(c) # <<"version", f>>
  BY DEF NamesOf
<1>4. CASE l \in Yes \union No /\ m \in Yes \union No
  BY <1>1, <1>2, <1>4
<1>5. \A x, f : x = VersionLine([feature |-> f]) => x.name = <<"version", f>> /\ x.value = TRUE
  BY DEF VersionLine
<1>6. CASE l \notin Yes \union No /\ m \notin Yes \union No
  BY <1>5, <1>6
<1>7. CASE l \in Yes \union No /\ m \notin Yes \union No
  <2>1. \E c \in Caps : l.name = NamesOf(c)
    BY <1>1, <1>7
  <2>2. m.name = <<"version", m.name[2]>>
    BY <1>5, <1>7
  <2> QED  BY <2>1, <2>2, <1>3
<1>8. CASE l \notin Yes \union No /\ m \in Yes \union No
  <2>1. \E c \in Caps : m.name = NamesOf(c)
    BY <1>1, <1>8
  <2>2. l.name = <<"version", l.name[2]>>
    BY <1>5, <1>8
  <2> QED  BY <2>1, <2>2, <1>3
<1> QED  BY <1>4, <1>6, <1>7, <1>8

(* The worker starts the capability plugin without a path: its device is   *)
(* the node's.                                                             *)
LEMMA DeviceIsNodes ==
  ASSUME TypeOK
  PROVE  Device = Node
BY HooksAssumption DEF TypeOK, Device, Node, DevOf

(* The lines the worker reads from a run that has printed.                 *)
LEMMA CompleteRun ==
  ASSUME TypeOK, CL!Enumerates(out, WantedLabels)
  PROVE  Told \in {{}, Yes, No}
<1> DEFINE m == ModeOf(argv)
           W == {c \in Caps : Device.kind = "kvm" /\ Wants(Node, m, c)}
<1>1. \A x : x \in WantedLabels <=> \E c \in W : x = Label(c, m)
  BY DeviceIsNodes DEF WantedLabels, WantedBelow, Caps
<1>2. \A c \in W : CapLine(Label(c, m)) \in Told
  <2> SUFFICES ASSUME NEW c \in W PROVE CapLine(Label(c, m)) \in Told
    OBVIOUS
  <2>1. PICK k \in DOMAIN out : out[k] = Label(c, m)
    BY <1>1 DEF CL!Enumerates
  <2> QED  BY <2>1 DEF Told
<1>3. \A x \in Told : \E c \in W : x = CapLine(Label(c, m))
  <2> SUFFICES ASSUME NEW x \in Told PROVE \E c \in W : x = CapLine(Label(c, m))
    OBVIOUS
  <2>1. PICK k \in DOMAIN out : x = CapLine(out[k])
    BY DEF Told
  <2>2. out[k] \in WantedLabels
    BY DEF CL!Enumerates
  <2> QED  BY <2>1, <2>2, <1>1
<1>4. CASE Device.kind # "kvm"
  BY <1>3, <1>4
<1>5. CASE Device.kind = "kvm" /\ m = KVM_INFO_SHOW_FEATURES
  <2>1. W = {c \in Caps : Supports(Node, c)}
    BY <1>5 DEF Wants
  <2>2. \A c : CapLine(Label(c, m)) = [name |-> NamesOf(c), value |-> TRUE]
    <3>1. \A c : Label(c, m) = [cap |-> c, suffix |-> ""]
      BY <1>5 DEF Label, Suffix, KVM_INFO_SHOW_FEATURES, KVM_INFO_SHOW_MISSING
    <3>2. ("" # "=false") = TRUE
      OBVIOUS
    <3>3. \A c : CapLine([cap |-> c, suffix |-> ""]) = [name |-> NamesOf(c), value |-> ("" # "=false")]
      BY Zenon DEF CapLine, NamesOf
    <3> QED  BY <3>1, <3>2, <3>3, Zenon
  <2> HIDE DEF W, m
  <2>3. Told \subseteq Yes
    BY <2>1, <2>2, <1>3, Zenon DEF Yes
  <2>4. Yes \subseteq Told
    BY <2>1, <2>2, <1>2, Zenon DEF Yes
  <2> QED  BY <2>3, <2>4
<1>6. CASE Device.kind = "kvm" /\ m = KVM_INFO_SHOW_MISSING
  <2>1. W = {c \in Caps : ~Supports(Node, c)}
    BY <1>6 DEF Wants, KVM_INFO_SHOW_FEATURES, KVM_INFO_SHOW_MISSING
  <2>2. \A c : CapLine(Label(c, m)) = [name |-> NamesOf(c), value |-> FALSE]
    <3>1. \A c : Label(c, m) = [cap |-> c, suffix |-> "=false"]
      BY <1>6 DEF Label, Suffix
    <3>2. ("=false" # "=false") = FALSE
      OBVIOUS
    <3>3. \A c : CapLine([cap |-> c, suffix |-> "=false"]) = [name |-> NamesOf(c), value |-> ("=false" # "=false")]
      BY Zenon DEF CapLine, NamesOf
    <3> QED  BY <3>1, <3>2, <3>3, Zenon
  <2> HIDE DEF W, m
  <2>3. Told \subseteq No
    BY <2>1, <2>2, <1>3, Zenon DEF No
  <2>4. No \subseteq Told
    BY <2>1, <2>2, <1>2, Zenon DEF No
  <2> QED  BY <2>3, <2>4
<1>7. m \in {KVM_INFO_SHOW_FEATURES, KVM_INFO_SHOW_MISSING}
  BY DEF ModeOf
<1> QED  BY <1>4, <1>5, <1>6, <1>7

(* A capability is told of in one of the two ways only.                    *)
LEMMA Disjoint == Yes \intersect No = {}
<1> SUFFICES ASSUME NEW c \in Caps, NEW d \in Caps
             PROVE  [name |-> NamesOf(c), value |-> TRUE] # [name |-> NamesOf(d), value |-> FALSE]
  BY DEF Yes, No
<1> QED  OBVIOUS

(* Adding the lines of one run of the capability plugin, or lines of the   *)
(* kernel, to those of the pass.                                           *)
LEMMA HearsMore ==
  ASSUME Heard, NEW T, labels' = labels \union T, UNCHANGED <<host, changed>>,
         \/ T \in {{}, Yes, No}
         \/ \A l \in T : l = VersionLine([feature |-> l.name[2]])
  PROVE  Heard'
<1>1. Yes' = Yes /\ No' = No
  BY DEF Yes, No, Node
<1> SUFFICES ASSUME ~changed
             PROVE  /\ \A l \in labels' : l \in Yes \/ l \in No \/ l = VersionLine([feature |-> l.name[2]])
                    /\ Yes \subseteq labels' \/ Yes \intersect labels' = {}
                    /\ No \subseteq labels' \/ No \intersect labels' = {}
  BY <1>1 DEF Heard
<1>2. /\ \A l \in labels : l \in Yes \/ l \in No \/ l = VersionLine([feature |-> l.name[2]])
      /\ Yes \subseteq labels \/ Yes \intersect labels = {}
      /\ No \subseteq labels \/ No \intersect labels = {}
  BY DEF Heard
<1>3. CASE T \in {{}, Yes, No}
  <2>1. \A l \in labels' : l \in Yes \/ l \in No \/ l = VersionLine([feature |-> l.name[2]])
    BY <1>2, <1>3
  <2>2. /\ Yes \subseteq labels' \/ Yes \intersect labels' = {}
        /\ No \subseteq labels' \/ No \intersect labels' = {}
    BY <1>2, <1>3, Disjoint
  <2> QED  BY <2>1, <2>2
<1>4. CASE \A l \in T : l = VersionLine([feature |-> l.name[2]])
  <2>1. \A l \in Yes \union No : l.name[1] = "cap"
    BY DEF Yes, No, NamesOf
  <2>2. \A l \in T : l.name[1] = "version"
    BY <1>4 DEF VersionLine
  <2>3. T \intersect Yes = {} /\ T \intersect No = {}
    BY <2>1, <2>2
  <2>4. \A l \in labels' : l \in Yes \/ l \in No \/ l = VersionLine([feature |-> l.name[2]])
    BY <1>2, <1>4
  <2> QED  BY <1>2, <2>3, <2>4
<1> QED  BY <1>3, <1>4

-----------------------------------------------------------------------------
(* Proof of the invariant.                                                 *)

LEMMA NodeInitInv == NodeInit => NodeInv
<1> SUFFICES ASSUME NodeInit PROVE NodeInv
  OBVIOUS
<1>1. IInv
  BY InitIInv DEF NodeInit
<1>2. pc = "main" /\ fds = {} /\ hook = "none" /\ labels = {}
  BY DEF NodeInit, Init, LibInit
<1> QED  BY <1>1, <1>2 DEF NodeInv, Resting, LeavesAll, Heard

(* A run begins with everything as the first one found it, but for the     *)
(* device, which may have changed.                                         *)
LEMMA StartCapsKeeps ==
  ASSUME NodeInv, NEW a \in Argvs, StartCaps(a)
  PROVE  NodeInv'
<1>1. /\ pc' = "main" /\ argv' = a /\ host' = host /\ fds' = fds /\ fds = {}
      /\ dev' = DEFAULT_DEV /\ mode' = KVM_INFO_SHOW_FEATURES
      /\ s' = [fd |-> -1, msrs |-> [slot \in Slots |-> FALSE]]
      /\ list' = NULL /\ i' = 0 /\ ix' = 0 /\ err' = 0 /\ buf' = <<>> /\ out' = <<>>
  BY DEF StartCaps, NodeInv, Resting
<1>2. TypeOK'
  <2>1. host \in Hosts
    BY DEF NodeInv, IInv, TypeOK
  <2> QED  BY <1>1, <2>1 DEF TypeOK, Points, NULL, KVM_INFO_SHOW_FEATURES, Described
<1>3. Arguments' /\ Descriptor'
  BY <1>1 DEF Arguments, Descriptor, DescriptorUse, LeakOnlyWithoutMsrs
<1>4. MsrList' /\ SlotsRead'
  BY <1>1 DEF MsrList, FetchWithinBuffer, NULL, SlotsRead, MsrsExact
<1>5. Printed'
  BY <1>1 DEF Printed, ScanExact
<1>6. Resting' /\ LeavesAll'
  BY <1>1 DEF Resting, LeavesAll
<1>7. Heard'
  BY <1>1 DEF StartCaps, NodeInv, Heard, Yes, No, Node
<1> QED  BY <1>2, <1>3, <1>4, <1>5, <1>6, <1>7 DEF NodeInv, IInv

(* A step of the plugin: what it publishes is complete (Implements).       *)
LEMMA StepCapsKeeps == ASSUME NodeInv, StepCaps PROVE NodeInv'
<1>1. Next /\ hook' = "caps" /\ hook = "caps" /\ UNCHANGED <<labels, changed>>
  BY DEF StepCaps
<1>2. IInv'
  BY <1>1, StepKeeps DEF NodeInv
<1>3. host' = host /\ argv' = argv
  BY <1>1 DEF Next, Progress, MainStep, Main, Open, KVMStateOpen, SizeMsrList, FetchMsrList,
       NoMsrList, Fill, SetSlot, SlotsDone, Scan, ScanCap, ScanDone, Close, KVMStateClose,
       Exit, Flush, Killed, Kill
<1>4. Ended' => (Exit \/ Killed)
  <2>1. CASE MainStep \/ Open
    BY <2>1 DEF MainStep, Main, Open, KVMStateOpen, Ended
  <2>2. CASE SizeMsrList \/ FetchMsrList
    BY <2>2 DEF SizeMsrList, FetchMsrList, NoMsrList, Ended
  <2>3. CASE Fill \/ Scan \/ Close
    BY <2>3 DEF Fill, SetSlot, SlotsDone, Scan, ScanCap, ScanDone, Close, KVMStateClose, Ended
  <2> QED  BY <1>1, <2>1, <2>2, <2>3 DEF Next, Progress
<1>5. Resting'
  BY <1>1, <1>4 DEF Resting, Exit, Killed
<1>6. LeavesAll'
  <2> SUFFICES ASSUME pc' = "exit"
               PROVE  out' = <<>> \/ CL!Enumerates(out', WantedLabels')
    BY DEF LeavesAll, CL!Enumerates
  <2>1. pc = "flush" /\ out' \in {buf, <<>>}
    BY <1>4 DEF Ended, Exit, Flush, Killed, Kill
  <2>2. buf = <<>> \/ CL!Enumerates(buf, WantedLabels)
    BY <2>1 DEF NodeInv, IInv, Printed, ScanExact
  <2>3. WantedLabels' = WantedLabels
    BY <1>3, SameDevice
  <2> QED  BY <2>1, <2>2, <2>3
<1>7. Heard'
  BY <1>1, <1>3 DEF NodeInv, Heard, Yes, No, Node
<1> QED  BY <1>2, <1>5, <1>6, <1>7 DEF NodeInv

LEMMA ReadCapsKeeps == ASSUME NodeInv, ReadCaps PROVE NodeInv'
<1>1. /\ hook = "caps" /\ hook' = "none" /\ Ended /\ labels' = labels \union Told
      /\ UNCHANGED vars /\ UNCHANGED changed
  BY DEF ReadCaps, Told
<1>2. IInv'
  BY <1>1, StepKeeps DEF NodeInv
<1>3. Resting' /\ LeavesAll'
  BY <1>1 DEF NodeInv, Resting, LeavesAll, Ended, vars, libvars
<1>4. Told \in {{}, Yes, No}
  <2>1. out = <<>> \/ CL!Enumerates(out, WantedLabels)
    BY <1>1 DEF NodeInv, LeavesAll, IInv, Printed, Ended
  <2>2. CASE out = <<>>
    BY <2>2 DEF Told
  <2> QED  BY <2>1, <2>2, CompleteRun DEF NodeInv, IInv
<1>5. Heard'
  BY <1>1, <1>4, HearsMore DEF NodeInv, vars
<1> QED  BY <1>2, <1>3, <1>5 DEF NodeInv

LEMMA ReadVersionKeeps == ASSUME NodeInv, ReadVersion PROVE NodeInv'
<1> DEFINE T == {VersionLine(printed[k]) : k \in DOMAIN printed}
<1>1. /\ hook = "version" /\ hook' = "none" /\ labels' = labels \union T
      /\ UNCHANGED vars /\ UNCHANGED changed
  BY DEF ReadVersion
<1>2. IInv'
  BY <1>1, StepKeeps DEF NodeInv
<1>3. Resting' /\ LeavesAll'
  BY <1>1 DEF NodeInv, Resting, LeavesAll, Ended, vars, libvars
<1>4. \A l \in T : l = VersionLine([feature |-> l.name[2]])
  BY DEF VersionLine
<1> HIDE DEF T
<1>5. Heard'
  BY <1>1, <1>4, HearsMore DEF NodeInv, vars
<1> QED  BY <1>2, <1>3, <1>5 DEF NodeInv

(* The invariant says nothing of the device while the plugin rests.        *)
LEMMA ChangeKeeps == ASSUME NodeInv, ChangeDevice PROVE NodeInv'
<1>1. /\ hook = "none" /\ hook' = "none" /\ host' \in Hosts /\ changed' = TRUE
      /\ UNCHANGED libvars /\ UNCHANGED fds
  BY DEF ChangeDevice
<1>2. pc \in {"main", "exit", "killed"} /\ fds = {}
  BY <1>1 DEF NodeInv, Resting, Ended
<1> USE <1>1, <1>2 DEF libvars, NodeInv, IInv
<1>3. TypeOK'
  BY DEF TypeOK
<1>4. Arguments' /\ Descriptor'
  BY DEF Arguments, Descriptor, DescriptorUse, LeakOnlyWithoutMsrs
<1>5. MsrList' /\ SlotsRead' /\ Printed'
  BY DEF MsrList, FetchWithinBuffer, SlotsRead, MsrsExact, Printed, ScanExact
<1>6. Resting' /\ LeavesAll' /\ Heard'
  BY DEF Resting, LeavesAll, Heard, Ended
<1> QED  BY <1>3, <1>4, <1>5, <1>6

LEMMA OthersKeep ==
  ASSUME NodeInv, StartVersion \/ StepVersion \/ NextPass \/ UNCHANGED nodevars
  PROVE  NodeInv'
<1>1. UNCHANGED vars /\ UNCHANGED host /\ UNCHANGED fds
  BY DEF StartVersion, StepVersion, NextPass, nodevars, vars
<1>2. IInv'
  BY <1>1, StepKeeps DEF NodeInv
<1>3. (hook' = hook \/ (hook # "caps" /\ hook' # "caps")) /\ UNCHANGED <<pc, out, argv>>
  BY <1>1 DEF StartVersion, StepVersion, NextPass, nodevars, vars, libvars
<1>4. Resting'
  BY <1>1, <1>3 DEF NodeInv, Resting, Ended
<1>5. LeavesAll'
  BY <1>1, <1>3, SameDevice DEF NodeInv, LeavesAll, CL!Enumerates
<1>6. Heard'
  <2>1. CASE NextPass
    BY <2>1 DEF NextPass, Heard
  <2>2. CASE ~NextPass
    <3>1. labels' = labels /\ changed' = changed
      BY <2>2 DEF StartVersion, StepVersion, nodevars
    <3> QED  BY <1>1, <3>1 DEF NodeInv, Heard, Yes, No, Node
  <2> QED  BY <2>1, <2>2
<1> QED  BY <1>2, <1>4, <1>5, <1>6 DEF NodeInv

-----------------------------------------------------------------------------
(* The theorems.                                                           *)

(* The invariant is inductive, and so holds in every reachable state.      *)
THEOREM NodeInvariance == NodeSpec => []NodeInv
<1>1. NodeInit => NodeInv
  BY NodeInitInv
<1>2. NodeInv /\ [NodeNext]_nodevars => NodeInv'
  BY StartCapsKeeps, StepCapsKeeps, ReadCapsKeeps, ReadVersionKeeps, ChangeKeeps, OthersKeep
     DEF NodeNext
<1> QED  BY <1>1, <1>2, PTL DEF NodeSpec

(* Every run of the capability plugin on the node, on whatever is left of  *)
(* the runs before it and behind every change of the device, keeps what is *)
(* proved of a single run.                                                 *)
THEOREM RunsSound ==
  NodeSpec => [](TypeOK /\ DescriptorUse /\ LeakOnlyWithoutMsrs /\ FetchWithinBuffer /\ MsrsExact /\ ScanExact)
<1>1. NodeInv => TypeOK /\ DescriptorUse /\ LeakOnlyWithoutMsrs /\ FetchWithinBuffer /\ MsrsExact /\ ScanExact
  BY DEF NodeInv, IInv, Descriptor, MsrList, SlotsRead, Printed
<1> QED  BY <1>1, NodeInvariance, PTL

(* Whatever the hooks, the order they run in, the lines the kernel's       *)
(* plugin prints and the runs that are killed or cannot write: while the   *)
(* device stays the same no two lines of a pass disagree, and as soon as   *)
(* both runs have been heard every capability has its one true value.      *)
THEOREM Coexistence == NodeSpec => []PluginsCoexist
<1>1. NodeInv => PluginsCoexist
  <2> SUFFICES ASSUME NodeInv, ~changed
               PROVE  /\ \A l \in labels : Values(l.name) = {l.value}
                      /\ {TRUE, FALSE} \subseteq {l.value : l \in Capabilities} =>
                           \A c \in Caps : Values(NamesOf(c)) = {Supports(Node, c)}
    BY DEF PluginsCoexist, NamesOf, Node
  <2>1. /\ \A l \in labels : l \in Yes \/ l \in No \/ l = VersionLine([feature |-> l.name[2]])
        /\ Yes \subseteq labels \/ Yes \intersect labels = {}
        /\ No \subseteq labels \/ No \intersect labels = {}
    BY DEF NodeInv, Heard
  <2>2. \A l \in labels : Values(l.name) = {l.value}
    <3> SUFFICES ASSUME NEW l \in labels PROVE Values(l.name) = {l.value}
      OBVIOUS
    <3>1. \A m \in labels : m.name = l.name => m.value = l.value
      BY <2>1, OneValueEach
    <3> QED  BY <3>1 DEF Values
  <2>3. ASSUME {TRUE, FALSE} \subseteq {l.value : l \in Capabilities}, NEW c \in Caps
        PROVE  Values(NamesOf(c)) = {Supports(Node, c)}
    <3>1. \A l \in Capabilities : (l \in Yes /\ l.value = TRUE) \/ (l \in No /\ l.value = FALSE)
      BY <2>1 DEF Capabilities, VersionLine, Yes, No
    <3>2. Yes \subseteq labels /\ No \subseteq labels
      BY <2>1, <2>3, <3>1 DEF Capabilities
    <3>3. \A v : [name |-> NamesOf(c), value |-> v] \in labels => Values(NamesOf(c)) = {v}
      BY <2>2
    <3>4. CASE Supports(Node, c)
      <4>1. [name |-> NamesOf(c), value |-> TRUE] \in Yes
        BY <3>4 DEF Yes
      <4>2. Values(NamesOf(c)) = {TRUE}
        BY <3>2, <3>3, <4>1
      <4> QED  BY <4>2, <3>4
    <3>5. CASE ~Supports(Node, c)
      <4>1. [name |-> NamesOf(c), value |-> FALSE] \in No
        BY <3>5 DEF No
      <4>2. Values(NamesOf(c)) = {FALSE}
        BY <3>2, <3>3, <4>1
      <4>3. Supports(Node, c) = FALSE
        BY <3>5, Zenon DEF Supports
      <4> QED  BY <4>2, <4>3, Zenon
    <3> QED  BY <3>4, <3>5
  <2> QED  BY <2>2, <2>3
<1> QED  BY <1>1, NodeInvariance, PTL
=============================================================================
