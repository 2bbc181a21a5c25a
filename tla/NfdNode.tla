------------------------------ MODULE NfdNode -------------------------------
(***************************************************************************)
(* A node on which all the plugins are installed: the capability plugin    *)
(* under its two names and the version plugin, run one after the other, in *)
(* any order, by the worker of the node feature discovery.  The worker     *)
(* gathers the lines of one pass over its hooks and forgets them when the  *)
(* next pass begins.                                                       *)
(*                                                                         *)
(* The capability plugin takes every step of KvmCapsPlugin.  The version   *)
(* plugin takes those of FeatureLines, which VersionPlugin implements.     *)
(* The worker is external: nothing is assumed of it but that it starts a   *)
(* hook when the last one has ended and reads its lines.                   *)
(***************************************************************************)
EXTENDS KvmCapsPlugin

CONSTANTS Kernels   \* for each host it may run on, the version plugin's lines

(* The worker runs its hooks without arguments.                            *)
ASSUME HooksAssumption == \A a \in Argvs : a.args = <<>>

VARIABLES hook,     \* what runs: "none", "caps" or "version"
          due,      \* the hooks of this pass that have not been started
          changed,  \* the device has changed during this pass
          wanted, printed, outcome,  \* of FeatureLines
          labels    \* the lines the worker has read in this pass

nodevars == <<vars, hook, due, changed, wanted, printed, outcome, labels>>

VERSION == [exe |-> "kvm-version-info-nfd-plugin", args |-> <<>>]
Hooks == Argvs \union {VERSION}

FL == INSTANCE FeatureLines

-----------------------------------------------------------------------------
(* The lines as the worker reads them: a name behind the slash, in parts,  *)
(* and a value, which is true where none is written.                       *)
CapLine(label) == [name |-> <<"cap", "hyperv", allcaps[label.cap].name>>,
                   value |-> label.suffix # "=false"]

VersionLine(line) == [name |-> <<"version", line.feature>>, value |-> TRUE]

NodeInit == /\ Init
            /\ hook = "none" /\ due = Hooks /\ changed = FALSE
            /\ wanted \in Kernels /\ printed = <<>> /\ outcome = "none"
            /\ labels = {}

-----------------------------------------------------------------------------
(* The process a hook starts is a new one: nothing is left of the last.    *)
StartCaps(a) ==
  /\ hook = "none" /\ a \in due
  /\ hook' = "caps" /\ due' = due \ {a}
  /\ pc' = "main" /\ argv' = a
  /\ dev' = DEFAULT_DEV /\ mode' = KVM_INFO_SHOW_FEATURES
  /\ s' = [fd |-> -1, msrs |-> [slot \in Slots |-> FALSE]]
  /\ list' = NULL /\ i' = 0 /\ ix' = 0 /\ err' = 0
  /\ buf' = <<>> /\ out' = <<>>
  /\ UNCHANGED <<host, fds, changed, wanted, printed, outcome, labels>>

StepCaps ==
  /\ hook = "caps"
  /\ Next
  /\ UNCHANGED <<hook, due, changed, wanted, printed, outcome, labels>>

ReadCaps ==
  /\ hook = "caps" /\ Ended
  /\ labels' = labels \union {CapLine(out[k]) : k \in DOMAIN out}
  /\ hook' = "none"
  /\ UNCHANGED <<vars, due, changed, wanted, printed, outcome>>

StartVersion ==
  /\ hook = "none" /\ VERSION \in due
  /\ hook' = "version" /\ due' = due \ {VERSION}
  /\ printed' = <<>> /\ outcome' = "none"
  /\ UNCHANGED <<vars, changed, wanted, labels>>

StepVersion ==
  /\ hook = "version"
  /\ FL!PrintLine \/ FL!End
  /\ UNCHANGED <<vars, hook, due, changed, labels>>

ReadVersion ==
  /\ hook = "version" /\ outcome # "none"
  /\ labels' = labels \union {VersionLine(printed[k]) : k \in DOMAIN printed}
  /\ hook' = "none"
  /\ UNCHANGED <<vars, due, changed, wanted, printed, outcome>>

(* Between two hooks the KVM module is loaded, removed or loaded with      *)
(* other options: bounded to one such change in a pass.                    *)
ChangeDevice ==
  /\ hook = "none" /\ ~changed
  /\ host' \in Hosts /\ changed' = TRUE
  /\ UNCHANGED <<libvars, fds, hook, due, wanted, printed, outcome, labels>>

(* All hooks have had their turn, and the worker goes round again.         *)
NextPass ==
  /\ hook = "none" /\ due = {}
  /\ due' = Hooks /\ labels' = {} /\ changed' = FALSE
  /\ UNCHANGED <<vars, hook, wanted, printed, outcome>>

NodeNext == \/ \E a \in Argvs : StartCaps(a)
            \/ StepCaps \/ ReadCaps
            \/ StartVersion \/ StepVersion \/ ReadVersion
            \/ ChangeDevice \/ NextPass

NodeSpec == NodeInit /\ [][NodeNext]_nodevars

-----------------------------------------------------------------------------
Capabilities == {l \in labels : l.name[1] = "cap"}
Values(name) == {l.value : l \in {l \in labels : l.name = name}}

(* The plugins coexist (README.md:23): while the device stays as it is, no *)
(* two lines of a pass give one name two values, and as soon as both runs  *)
(* of the capability plugin have been heard, every capability has a value  *)
(* and it is the device's; whichever run came first, was killed or could   *)
(* not write, and whatever the version plugin printed in between.          *)
PluginsCoexist ==
  ~changed =>
    /\ \A l \in labels : Values(l.name) = {l.value}
    /\ {TRUE, FALSE} \subseteq {l.value : l \in Capabilities} =>
         \A c \in Caps :
           LET node == host[DEFAULT_DEV]
           IN Values(<<"cap", "hyperv", allcaps[c].name>>) = {Supports(node, c)}
=============================================================================
