--------------------------- MODULE VersionPlugin ----------------------------
(***************************************************************************)
(* The version plugin: cmd/kvm-version-info-nfd-plugin/main.go and Run of  *)
(* pkg/kvminfo/versioninfo.  It reads a configuration, the host's          *)
(* os-release and /proc/version, decides every check of the configuration, *)
(* and prints a line for each that is satisfied.  Standard output is not   *)
(* buffered: every line leaves on its own.                                 *)
(*                                                                         *)
(* pc names the statement the process stands at:                           *)
(*   args    parseArgs                config     ReadConfig                *)
(*   os      OSRelease                kernel     KernelVersion             *)
(*   checks  the loop over checks     print      the loop over features    *)
(*   exit    the process has ended    killed     a signal ended it         *)
(***************************************************************************)
EXTENDS VersionCheck

CONSTANTS Argvs,    \* the arguments a run may be given
          Hosts     \* the file systems it may find

VARIABLES pc,
          argv,     \* os.Args[1:]
          host,     \* the files: [configs, osreleases, kernels], from paths
          path,     \* the configuration's path
          conf,     \* the configuration that was read
          os,       \* the value of ID
          kernelver,
          j,        \* the number of checks decided
          detected, \* the lines to print: [check, feature]
          log,      \* the verdicts written to standard error
          out,      \* the lines that have left the process
          status    \* the exit status, -1 while there is none

vars == <<pc, argv, host, path, conf, os, kernelver, j, detected, log, out, status>>

Points == {"args", "config", "os", "kernel", "checks", "print", "exit", "killed"}
Ended == pc \in {"exit", "killed"}

ConfigFilePath ==
  "/etc/kubernetes/node-feature-discovery/source.d/conf/kvm-version-info.json"
DefaultKernelVersion == "/proc/version"
EtcOsRelease == "/etc/os-release"
UsrLibOsRelease == "/usr/lib/os-release"
HELP == {"-h", "--help", "help"}

EmptyConfig == [osrelease |-> "", kernversion |-> "", checks |-> <<>>]

IsList(q) == q \in Seq(Range(q))

(* A path that a host does not list leads to no file.  A configuration is  *)
(* [decodes, conf], and one that decodes has a list of checks; a kernel    *)
(* file is the fields of its text between spaces, each represented by what *)
(* Read makes of it.                                                       *)
IsHost(h) ==
  /\ \A p \in DOMAIN h.configs :
       /\ h.configs[p].decodes \in BOOLEAN
       /\ h.configs[p].decodes => IsList(h.configs[p].conf.checks)
  /\ \A p \in DOMAIN h.osreleases :
       h.osreleases[p].opens \in BOOLEAN /\ h.osreleases[p].scans \in BOOLEAN

ASSUME HostsAssumption == \A h \in Hosts : IsHost(h)

-----------------------------------------------------------------------------
Init == /\ pc = "args"
        /\ argv \in Argvs /\ host \in Hosts
        /\ path = "" /\ conf = EmptyConfig /\ os = NoValue /\ kernelver = Malformed
        /\ j = 0 /\ detected = <<>> /\ log = <<>> /\ out = <<>>
        /\ status = -1

(* os.Exit and the end of main.                                            *)
ExitWith(code) == pc' = "exit" /\ status' = code

parseArgs ==
  /\ pc = "args"
  /\ IF Len(argv) = 1 /\ argv[1] \in HELP THEN ExitWith(0) /\ UNCHANGED path
     ELSE /\ path' = IF Len(argv) = 1 THEN argv[1] ELSE ConfigFilePath
          /\ pc' = "config"
          /\ UNCHANGED status
  /\ UNCHANGED <<argv, host, conf, os, kernelver, j, detected, log, out>>

(* An error that Run returns: main reports it and exits with status 1.     *)
Fail == /\ ExitWith(1)
        /\ UNCHANGED <<argv, host, path, conf, os, kernelver, j, detected, log, out>>

ReadConfig ==
  /\ pc = "config"
  /\ IF path \in DOMAIN host.configs /\ host.configs[path].decodes
     THEN /\ conf' = host.configs[path].conf
          /\ pc' = "os"
          /\ UNCHANGED <<argv, host, path, os, kernelver, j, detected, log, out, status>>
     ELSE Fail

(* Without a configured path the second place is tried when the first one  *)
(* gives an error.                                                         *)
OsReleaseFile(h, c) ==
  LET good == {p \in DOMAIN h.osreleases : Readable(h.osreleases[p])}
  IN IF c.osrelease # "" THEN {c.osrelease} \intersect good
     ELSE IF EtcOsRelease \in good THEN {EtcOsRelease}
     ELSE {UsrLibOsRelease} \intersect good

OSRelease ==
  /\ pc = "os"
  /\ \/ \E p \in OsReleaseFile(host, conf) :
          /\ os' = ValueOf(host.osreleases[p], "ID")
          /\ pc' = "kernel"
          /\ UNCHANGED <<argv, host, path, conf, kernelver, j, detected, log, out, status>>
     \/ OsReleaseFile(host, conf) = {} /\ Fail

KernelFile(c) == IF c.kernversion # "" THEN c.kernversion ELSE DefaultKernelVersion

(* Mutated: the error of NewVersion is not looked at.                      *)
MutantKernelUnchecked ==
  /\ pc = "kernel"
  /\ LET file == KernelFile(conf)
         items == host.kernels[file]
     IN \/ file \notin DOMAIN host.kernels /\ Fail
        \/ /\ file \in DOMAIN host.kernels /\ Len(items) < 3
           /\ ExitWith(2)
           /\ UNCHANGED <<argv, host, path, conf, os, kernelver, j, detected, log, out>>
        \/ /\ file \in DOMAIN host.kernels /\ Len(items) >= 3
           /\ kernelver' = items[3]
           /\ pc' = "checks"
           /\ UNCHANGED <<argv, host, path, conf, os, j, detected, log, out, status>>

(* The third field is the release.  A file with fewer makes the program    *)
(* panic: the Go runtime exits with status 2.                              *)
KernelVersion ==
  /\ pc = "kernel"
  /\ LET file == KernelFile(conf)
         items == host.kernels[file]
     IN \/ file \notin DOMAIN host.kernels /\ Fail
        \/ /\ file \in DOMAIN host.kernels /\ Len(items) < 3
           /\ ExitWith(2)
           /\ UNCHANGED <<argv, host, path, conf, os, kernelver, j, detected, log, out>>
        \/ /\ file \in DOMAIN host.kernels /\ Len(items) >= 3
           /\ ~items[3].ok
           /\ Fail
        \/ /\ file \in DOMAIN host.kernels /\ Len(items) >= 3
           /\ items[3].ok
           /\ kernelver' = items[3]
           /\ pc' = "checks"
           /\ UNCHANGED <<argv, host, path, conf, os, j, detected, log, out, status>>

-----------------------------------------------------------------------------
Verdict(check, o, ver) ==
  IF ~IsValid(check) THEN "invalid" ELSE IsSatisfied(check, o, ver)

Line(k, check) == [check |-> k, feature |-> check.feature]

(* Mutated: the first check that is not satisfied ends the loop.           *)
MutantCheckStops ==
  /\ pc = "checks"
  /\ j < Len(conf.checks)
  /\ LET verdict == Verdict(conf.checks[j + 1], os, kernelver)
     IN IF verdict = "satisfied"
        THEN /\ detected' = Append(detected, Line(j + 1, conf.checks[j + 1]))
             /\ j' = j + 1
             /\ UNCHANGED <<log, pc>>
        ELSE /\ log' = Append(log, [check |-> j + 1, verdict |-> verdict])
             /\ j' = Len(conf.checks)
             /\ UNCHANGED <<detected, pc>>
  /\ UNCHANGED <<argv, host, path, conf, os, kernelver, out, status>>

(* One turn of the loop of Run: every check is decided on its own, and one *)
(* that is invalid, fails or is unfulfilled is reported and skipped.       *)
DecideCheck ==
  /\ pc = "checks"
  /\ j < Len(conf.checks)
  /\ j' = j + 1
  /\ LET verdict == Verdict(conf.checks[j + 1], os, kernelver)
     IN IF verdict = "satisfied"
        THEN /\ detected' = Append(detected, Line(j + 1, conf.checks[j + 1]))
             /\ UNCHANGED log
        ELSE /\ log' = Append(log, [check |-> j + 1, verdict |-> verdict])
             /\ UNCHANGED detected
  /\ UNCHANGED <<pc, argv, host, path, conf, os, kernelver, out, status>>

(* Mutated: the loop expects one more check.                               *)
MutantChecksDoneLate ==
  /\ pc = "checks"
  /\ j > Len(conf.checks)
  /\ pc' = "print"
  /\ UNCHANGED <<argv, host, path, conf, os, kernelver, j, detected, log, out, status>>

ChecksDone ==
  /\ pc = "checks"
  /\ j >= Len(conf.checks)
  /\ pc' = "print"
  /\ UNCHANGED <<argv, host, path, conf, os, kernelver, j, detected, log, out, status>>

(* Mutated: the last line is never printed.                                *)
MutantPrintShort ==
  /\ pc = "print"
  /\ IF Len(out) + 1 < Len(detected)
     THEN out' = Append(out, detected[Len(out) + 1]) /\ UNCHANGED <<pc, status>>
     ELSE ExitWith(0) /\ UNCHANGED out
  /\ UNCHANGED <<argv, host, path, conf, os, kernelver, j, detected, log>>

(* One turn of the loop of main, or its end.  A write to the worker's pipe *)
(* fails only when the worker no longer reads, and then the Go runtime     *)
(* does not return the error to fmt.Printf but ends the process by         *)
(* SIGPIPE, as it does for any broken standard output: that is Kill.       *)
PrintFeature ==
  /\ pc = "print"
  /\ IF Len(out) < Len(detected)
     THEN out' = Append(out, detected[Len(out) + 1]) /\ UNCHANGED <<pc, status>>
     ELSE ExitWith(0) /\ UNCHANGED out
  /\ UNCHANGED <<argv, host, path, conf, os, kernelver, j, detected, log>>

(* A signal: the worker's, or SIGPIPE when it no longer reads.             *)
Kill == /\ ~Ended
        /\ pc' = "killed"
        /\ UNCHANGED <<argv, host, path, conf, os, kernelver, j, detected, log, out, status>>

Progress == \/ parseArgs \/ ReadConfig \/ OSRelease \/ KernelVersion
            \/ DecideCheck \/ ChecksDone \/ PrintFeature

Next == Progress \/ Kill

Spec == Init /\ [][Next]_vars
FairSpec == Spec /\ WF_vars(Progress)

-----------------------------------------------------------------------------
(* Every variable has its type, and belongs to the point the process has   *)
(* reached: there is a kernel version exactly from the checks on, and a    *)
(* status exactly once the process has exited.                             *)
TypeOK ==
  /\ pc \in Points
  /\ argv \in Argvs /\ host \in Hosts
  /\ pc \in {"os", "kernel", "checks", "print"} =>
       path \in DOMAIN host.configs /\ conf = host.configs[path].conf
  /\ pc \in {"checks", "print"} => kernelver.ok
  /\ j \in 0 .. Len(conf.checks)
  /\ status \in {-1, 0, 1, 2}
  /\ pc = "exit" <=> status # -1

(* Every check of the configuration is either among the lines to print or  *)
(* reported on standard error, never both and never neither: a check that  *)
(* is invalid or fails does not stop the ones behind it.                   *)
EveryCheckDecided ==
  pc = "print" => \A k \in DOMAIN conf.checks :
                    (\E d \in DOMAIN detected : detected[d].check = k)
                      # (\E l \in DOMAIN log : log[l].check = k)

-----------------------------------------------------------------------------
(* What a run promises, told from the command line and the host alone.     *)
ConfigPath(a) == IF Len(a) = 1 THEN a[1] ELSE ConfigFilePath

HasConfig(h, a) ==
  /\ ~(Len(a) = 1 /\ a[1] \in HELP)
  /\ ConfigPath(a) \in DOMAIN h.configs /\ h.configs[ConfigPath(a)].decodes

HasKernel(h, c) == /\ KernelFile(c) \in DOMAIN h.kernels
                   /\ Len(h.kernels[KernelFile(c)]) >= 3
                   /\ h.kernels[KernelFile(c)][3].ok

(* The lines of the checks of configuration c that hold on host h.         *)
Satisfied(h, c) ==
  LET id == ValueOf(h.osreleases[CHOOSE p \in OsReleaseFile(h, c) : TRUE], "ID")
      ver == h.kernels[KernelFile(c)][3]
  IN {Line(k, c.checks[k]) :
        k \in {n \in DOMAIN c.checks : Verdict(c.checks[n], id, ver) = "satisfied"}}

(* The lines of a run on host h with arguments a.  One that cannot read    *)
(* one of its files has none.                                              *)
Wanted(h, a) ==
  IF ~HasConfig(h, a) THEN {}
  ELSE LET c == h.configs[ConfigPath(a)].conf
       IN IF OsReleaseFile(h, c) = {} \/ ~HasKernel(h, c) THEN {} ELSE Satisfied(h, c)

Outcome == CASE pc = "killed" -> "killed"
             [] pc = "exit" -> (IF status = 0 THEN "done" ELSE "error")
             [] OTHER -> "none"

FL == INSTANCE FeatureLines WITH wanted <- Wanted(host, argv),
                                 printed <- out, outcome <- Outcome

(* The plugin prints the lines of the satisfied checks in the order of the *)
(* configuration, each once; all of them unless it is killed, none when it *)
(* reports an error.                                                       *)
PrintsWanted == FL!Spec

(* Every run ends.                                                         *)
RunEnds == <>Ended
=============================================================================
