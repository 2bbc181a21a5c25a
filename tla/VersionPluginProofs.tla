------------------------ MODULE VersionPluginProofs -------------------------
(***************************************************************************)
(* Proofs about VersionPlugin for every set of command lines and hosts.    *)
(* Verdict is opaque here: they hold whatever makes a check satisfied.     *)
(***************************************************************************)
EXTENDS VersionPlugin, TLAPS

-----------------------------------------------------------------------------
(* The inductive invariant.  It says what is known of the files that have  *)
(* been read, and which of the checks the first j lines and reports stand  *)
(* for.                                                                    *)

Deciding == pc \in {"checks", "print"}

Lines(c) == {Line(k, c.checks[k]) : k \in DOMAIN c.checks}
Holds(k) == Verdict(conf.checks[k], os, kernelver) = "satisfied"

Nothing ==
  pc \in {"args", "config", "os", "kernel"} => j = 0 /\ detected = <<>> /\ log = <<>>

Configured ==
  /\ pc = "config" => path = ConfigPath(argv) /\ ~(Len(argv) = 1 /\ argv[1] \in HELP)
  /\ pc \in {"os", "kernel", "checks", "print"} =>
       HasConfig(host, argv) /\ conf = host.configs[ConfigPath(argv)].conf

OsRead ==
  pc \in {"kernel", "checks", "print"} =>
    /\ OsReleaseFile(host, conf) # {}
    /\ os = ValueOf(host.osreleases[CHOOSE p \in OsReleaseFile(host, conf) : TRUE], "ID")

KernelRead ==
  Deciding => HasKernel(host, conf) /\ kernelver = host.kernels[KernelFile(conf)][3]

(* The lines are those of the satisfied checks among the first j, in order.*)
Detected ==
  Deciding =>
    /\ detected \in Seq(Lines(conf))
    /\ \A d \in DOMAIN detected :
         \E k \in 1 .. j : Holds(k) /\ detected[d] = Line(k, conf.checks[k])
    /\ \A k \in 1 .. j :
         Holds(k) => \E d \in DOMAIN detected : detected[d] = Line(k, conf.checks[k])
    /\ \A d, e \in DOMAIN detected : d < e => detected[d].check < detected[e].check

(* The reports are those of the others.                                    *)
Reports == [check : Nat, verdict : {Verdict(c, os, kernelver) : c \in Range(conf.checks)}]

Reported ==
  Deciding =>
    /\ log \in Seq(Reports)
    /\ \A l \in DOMAIN log : log[l].check \in 1 .. j /\ ~Holds(log[l].check)
    /\ \A k \in 1 .. j : ~Holds(k) => \E l \in DOMAIN log : log[l].check = k

(* What has left the process is the beginning of the lines, and only the   *)
(* loop of main prints.                                                    *)
Printed ==
  /\ pc \notin {"print", "exit", "killed"} => out = <<>>
  /\ pc = "print" => /\ j = Len(conf.checks)
                     /\ out \in Seq(Lines(conf)) /\ Len(out) <= Len(detected)
                     /\ \A k \in 1 .. Len(out) : out[k] = detected[k]

IInv == /\ TypeOK /\ Nothing /\ Configured /\ OsRead /\ KernelRead
        /\ Detected /\ Reported /\ Printed

-----------------------------------------------------------------------------
(* Lemmas about sequences.                                                 *)

LEMMA SeqDomain ==
  ASSUME NEW S, NEW s \in Seq(S)
  PROVE  DOMAIN s = 1 .. Len(s) /\ Len(s) \in Nat /\ \A k \in DOMAIN s : s[k] \in S
OBVIOUS

LEMMA AppendOne ==
  ASSUME NEW S, NEW s \in Seq(S), NEW e \in S
  PROVE  /\ Append(s, e) \in Seq(S)
         /\ DOMAIN Append(s, e) = 1 .. Len(s) + 1
         /\ \A k \in 1 .. Len(s) : Append(s, e)[k] = s[k]
         /\ Append(s, e)[Len(s) + 1] = e
OBVIOUS

-----------------------------------------------------------------------------
(* Lemmas about the files.                                                 *)

(* The checks of every configuration that is read are a list.              *)
LEMMA ChecksAreList ==
  ASSUME TypeOK, HasConfig(host, argv), conf = host.configs[ConfigPath(argv)].conf
  PROVE  conf.checks \in Seq(Range(conf.checks))
BY HostsAssumption DEF TypeOK, IsHost, HasConfig, IsList

(* Whatever the configuration says, one os-release file is read at most.   *)
LEMMA OneOsRelease ==
  ASSUME NEW h, NEW c, NEW p \in OsReleaseFile(h, c)
  PROVE  p = CHOOSE q \in OsReleaseFile(h, c) : TRUE
<1>1. \E x : OsReleaseFile(h, c) \subseteq {x}
  BY DEF OsReleaseFile
<1>2. (CHOOSE q \in OsReleaseFile(h, c) : TRUE) \in OsReleaseFile(h, c)
  OBVIOUS
<1> QED  BY <1>1, <1>2

(* Once the checks are decided, what a run is to print is what its         *)
(* variables say: the lines of the checks that hold.                       *)
LEMMA WantedHere ==
  ASSUME Configured, OsRead, KernelRead, Deciding
  PROVE  Wanted(host, argv) = {Line(k, conf.checks[k]) : k \in {n \in DOMAIN conf.checks : Holds(n)}}
<1>1. /\ HasConfig(host, argv) /\ conf = host.configs[ConfigPath(argv)].conf
      /\ OsReleaseFile(host, conf) # {} /\ HasKernel(host, conf)
  BY DEF Configured, OsRead, KernelRead, Deciding
<1>2. Wanted(host, argv) = Satisfied(host, conf)
  BY <1>1 DEF Wanted
<1>3. /\ os = ValueOf(host.osreleases[CHOOSE p \in OsReleaseFile(host, conf) : TRUE], "ID")
      /\ kernelver = host.kernels[KernelFile(conf)][3]
  BY DEF OsRead, KernelRead, Deciding
<1> QED  BY <1>2, <1>3 DEF Satisfied, Holds

-----------------------------------------------------------------------------
(* Proof of the invariant.                                                 *)

LEMMA InitIInv == Init => IInv
<1> SUFFICES ASSUME Init PROVE IInv
  OBVIOUS
<1> USE DEF Init, Deciding
<1>1. TypeOK
  <2>1. conf.checks = <<>> /\ j = 0
    BY DEF EmptyConfig
  <2>2. pc = "args" /\ status = -1 /\ argv \in Argvs /\ host \in Hosts
    OBVIOUS
  <2> HIDE DEF Init
  <2>3. j \in 0 .. Len(conf.checks)
    BY <2>1
  <2> QED  BY <2>2, <2>3 DEF TypeOK, Points
<1>2. Nothing /\ Configured /\ OsRead /\ KernelRead /\ Detected /\ Reported /\ Printed
  BY DEF Nothing, Configured, OsRead, KernelRead, Detected, Reported, Printed
<1> QED  BY <1>1, <1>2 DEF IInv

(* An end of the run, whatever its status, keeps the invariant: most of it *)
(* speaks of runs that go on.                                              *)
LEMMA EndKeeps ==
  ASSUME IInv, pc' \in {"exit", "killed"}, status' \in {-1, 0, 1, 2},
         pc' = "exit" <=> status' # -1,
         UNCHANGED <<argv, host, path, conf, os, kernelver, j, detected, log, out>>
  PROVE  IInv'
<1> USE DEF Deciding
<1>1. TypeOK'
  BY DEF IInv, TypeOK, Points
<1>2. Nothing' /\ Configured' /\ OsRead' /\ KernelRead' /\ Detected' /\ Reported' /\ Printed'
  BY DEF Nothing, Configured, OsRead, KernelRead, Detected, Reported, Printed
<1> QED  BY <1>1, <1>2 DEF IInv

LEMMA ArgsKeeps == ASSUME IInv, parseArgs PROVE IInv'
<1>1. CASE Len(argv) = 1 /\ argv[1] \in HELP
  BY <1>1, EndKeeps DEF parseArgs, ExitWith
<1>2. CASE ~(Len(argv) = 1 /\ argv[1] \in HELP)
  <2>1. /\ pc = "args" /\ pc' = "config" /\ path' = ConfigPath(argv)
        /\ UNCHANGED <<argv, host, conf, os, kernelver, j, detected, log, out, status>>
    BY <1>2 DEF parseArgs, ConfigPath
  <2>2. TypeOK'
    BY <2>1 DEF IInv, TypeOK, Points
  <2>3. Configured'
    BY <1>2, <2>1 DEF Configured
  <2>4. Nothing' /\ OsRead' /\ KernelRead' /\ Detected' /\ Reported' /\ Printed'
    BY <2>1 DEF IInv, Nothing, OsRead, KernelRead, Detected, Reported, Printed, Deciding
  <2> QED  BY <2>2, <2>3, <2>4 DEF IInv
<1> QED  BY <1>1, <1>2

LEMMA FailKeeps == ASSUME IInv, Fail PROVE IInv'
BY EndKeeps DEF Fail, ExitWith

LEMMA ConfigKeeps == ASSUME IInv, ReadConfig PROVE IInv'
<1>1. CASE Fail
  BY <1>1, FailKeeps
<1>2. CASE ~Fail
  <2>1. /\ pc = "config" /\ pc' = "os"
        /\ path \in DOMAIN host.configs /\ host.configs[path].decodes
        /\ conf' = host.configs[path].conf
        /\ UNCHANGED <<argv, host, path, os, kernelver, j, detected, log, out, status>>
    BY <1>2 DEF ReadConfig
  <2>2. HasConfig(host, argv) /\ conf' = host.configs[ConfigPath(argv)].conf
    BY <2>1 DEF IInv, Configured, HasConfig
  <2>3. j = 0 /\ detected = <<>> /\ log = <<>>
    BY <2>1 DEF IInv, Nothing
  <2>4. TypeOK'
    <3>1. conf'.checks \in Seq(Range(conf'.checks))
      BY <2>1, HostsAssumption DEF IInv, TypeOK, IsHost, IsList
    <3>2. j' \in 0 .. Len(conf'.checks)
      BY <2>1, <2>3, <3>1
    <3> QED  BY <2>1, <3>2 DEF IInv, TypeOK, Points
  <2>5. Configured'
    BY <2>1, <2>2 DEF Configured
  <2>6. Nothing' /\ OsRead' /\ KernelRead' /\ Detected' /\ Reported' /\ Printed'
    BY <2>1, <2>3 DEF IInv, Nothing, OsRead, KernelRead, Detected, Reported, Printed, Deciding
  <2> QED  BY <2>4, <2>5, <2>6 DEF IInv
<1> QED  BY <1>1, <1>2

LEMMA OsKeeps == ASSUME IInv, OSRelease PROVE IInv'
<1>1. CASE Fail
  BY <1>1, FailKeeps
<1>2. CASE ~Fail
  <2>1. PICK p \in OsReleaseFile(host, conf) :
          /\ os' = ValueOf(host.osreleases[p], "ID")
          /\ pc' = "kernel"
          /\ UNCHANGED <<argv, host, path, conf, kernelver, j, detected, log, out, status>>
    BY <1>2 DEF OSRelease
  <2>2. pc = "os"
    BY DEF OSRelease
  <2>3. p = CHOOSE q \in OsReleaseFile(host, conf) : TRUE
    BY OneOsRelease
  <2>4. TypeOK'
    BY <2>1, <2>2 DEF IInv, TypeOK, Points
  <2>5. Configured' /\ OsRead'
    BY <2>1, <2>2, <2>3 DEF IInv, Configured, OsRead
  <2>6. Nothing' /\ KernelRead' /\ Detected' /\ Reported' /\ Printed'
    BY <2>1, <2>2 DEF IInv, Nothing, KernelRead, Detected, Reported, Printed, Deciding
  <2> QED  BY <2>4, <2>5, <2>6 DEF IInv
<1> QED  BY <1>1, <1>2

LEMMA KernelKeeps == ASSUME IInv, KernelVersion PROVE IInv'
<1> DEFINE items == host.kernels[KernelFile(conf)]
<1>1. CASE Fail
  BY <1>1, FailKeeps
<1>2. CASE ExitWith(2) /\ UNCHANGED <<argv, host, path, conf, os, kernelver, j, detected, log, out>>
  BY <1>2, EndKeeps DEF ExitWith
<1>3. CASE /\ KernelFile(conf) \in DOMAIN host.kernels /\ Len(items) >= 3 /\ items[3].ok
           /\ kernelver' = items[3] /\ pc' = "checks"
           /\ UNCHANGED <<argv, host, path, conf, os, j, detected, log, out, status>>
  <2>1. pc = "kernel"
    BY DEF KernelVersion
  <2>2. j = 0 /\ detected = <<>> /\ log = <<>>
    BY <2>1 DEF IInv, Nothing
  <2>3. TypeOK'
    BY <1>3, <2>1 DEF IInv, TypeOK, Points
  <2>4. Nothing' /\ Configured' /\ OsRead' /\ Printed'
    BY <1>3, <2>1 DEF IInv, Nothing, Configured, OsRead, Printed
  <2>5. KernelRead'
    BY <1>3 DEF KernelRead, HasKernel
  <2>6. Detected' /\ Reported'
    BY <1>3, <2>2 DEF Detected, Reported
  <2> QED  BY <2>3, <2>4, <2>5, <2>6 DEF IInv
<1> QED  BY <1>1, <1>2, <1>3 DEF KernelVersion

(* What the checks are decided from is not changed by deciding them.       *)
LEMMA SameFiles ==
  ASSUME UNCHANGED <<argv, host, conf, os, kernelver>>
  PROVE  /\ \A k : Holds(k)' <=> Holds(k)
         /\ Lines(conf)' = Lines(conf) /\ Reports' = Reports
         /\ Wanted(host, argv)' = Wanted(host, argv)
BY DEF Holds, Lines, Reports

(* A line more, behind those of the checks before.                         *)
LEMMA SatisfiedKeeps ==
  ASSUME IInv, pc = "checks", j + 1 \in DOMAIN conf.checks, Holds(j + 1), j' = j + 1,
         detected' = Append(detected, Line(j + 1, conf.checks[j + 1])),
         UNCHANGED <<pc, argv, host, path, conf, os, kernelver, log, out, status>>
  PROVE  Detected' /\ Reported'
<1> DEFINE new == Line(j + 1, conf.checks[j + 1])
<1>1. /\ j \in Nat /\ detected \in Seq(Lines(conf)) /\ new \in Lines(conf)
      /\ new.check = j + 1
  <2>1. detected \in Seq(Lines(conf)) /\ new \in Lines(conf)
    BY DEF IInv, Detected, Deciding, Lines
  <2>2. j \in Nat
    BY ChecksAreList DEF IInv, TypeOK, Configured
  <2> QED  BY <2>1, <2>2 DEF Line
<1>2. /\ \A k : Holds(k)' <=> Holds(k)
      /\ Lines(conf)' = Lines(conf) /\ Reports' = Reports
  BY SameFiles
<1>3. /\ DOMAIN detected = 1 .. Len(detected) /\ Len(detected) \in Nat
      /\ DOMAIN detected' = 1 .. Len(detected) + 1 /\ detected' \in Seq(Lines(conf))
      /\ \A d \in DOMAIN detected : detected'[d] = detected[d]
      /\ detected'[Len(detected) + 1] = new
  <2> HIDE DEF new
  <2>1. detected' = Append(detected, new)
    BY DEF new
  <2> QED  BY <1>1, <2>1
<1>4. \A k : k \in 1 .. j + 1 <=> k \in 1 .. j \/ k = j + 1
  BY <1>1
<1>5. /\ \A d \in DOMAIN detected :
           \E k \in 1 .. j : Holds(k) /\ detected[d] = Line(k, conf.checks[k])
      /\ \A k \in 1 .. j :
           Holds(k) => \E d \in DOMAIN detected : detected[d] = Line(k, conf.checks[k])
      /\ \A d, e \in DOMAIN detected : d < e => detected[d].check < detected[e].check
      /\ log \in Seq(Reports)
      /\ \A l \in DOMAIN log : log[l].check \in 1 .. j /\ ~Holds(log[l].check)
      /\ \A k \in 1 .. j : ~Holds(k) => \E l \in DOMAIN log : log[l].check = k
  BY DEF IInv, Detected, Reported, Deciding
<1>6. ASSUME NEW d \in DOMAIN detected'
      PROVE  \E k \in 1 .. j + 1 : Holds(k) /\ detected'[d] = Line(k, conf.checks[k])
  <2>1. CASE d \in DOMAIN detected
    <3>1. PICK k \in 1 .. j : Holds(k) /\ detected[d] = Line(k, conf.checks[k])
      BY <2>1, <1>5
    <3> QED  BY <3>1, <2>1, <1>3, <1>4
  <2>2. CASE d = Len(detected) + 1
    BY <2>2, <1>3, <1>4
  <2> QED  BY <2>1, <2>2, <1>3
<1>7. ASSUME NEW k \in 1 .. j + 1, Holds(k)
      PROVE  \E d \in DOMAIN detected' : detected'[d] = Line(k, conf.checks[k])
  <2>1. CASE k \in 1 .. j
    <3>1. PICK d \in DOMAIN detected : detected[d] = Line(k, conf.checks[k])
      BY <2>1, <1>5, <1>7
    <3>2. d \in DOMAIN detected' /\ detected'[d] = detected[d]
      BY <1>3
    <3> QED  BY <3>1, <3>2
  <2>2. CASE k = j + 1
    <3>1. Len(detected) + 1 \in DOMAIN detected'
      BY <1>3
    <3> QED  BY <2>2, <3>1, <1>3
  <2> QED  BY <2>1, <2>2, <1>4
<1>8. \A d \in DOMAIN detected : detected[d].check \in 1 .. j
  BY <1>5 DEF Line
<1>9. \A d, e \in DOMAIN detected' : d < e => detected'[d].check < detected'[e].check
  <2> SUFFICES ASSUME NEW d \in DOMAIN detected', NEW e \in DOMAIN detected', d < e
               PROVE  detected'[d].check < detected'[e].check
    OBVIOUS
  <2>1. d \in DOMAIN detected /\ detected'[d] = detected[d]
    BY <1>3
  <2>2. CASE e \in DOMAIN detected
    BY <2>1, <2>2, <1>3, <1>5
  <2>3. CASE e = Len(detected) + 1
    <3>1. detected'[e].check = j + 1 /\ detected'[d].check \in 1 .. j
      BY <2>1, <2>3, <1>1, <1>3, <1>8
    <3> QED  BY <3>1, <1>1
  <2> QED  BY <2>2, <2>3, <1>3
<1>10. Detected'
  BY <1>2, <1>3, <1>6, <1>7, <1>9 DEF Detected
<1>11. Reported'
  BY <1>2, <1>4, <1>5 DEF Reported
<1> QED  BY <1>10, <1>11

(* A report more, and no line: what is to be printed stays in order.       *)
LEMMA ReportKeeps ==
  ASSUME IInv, pc = "checks", j + 1 \in DOMAIN conf.checks, ~Holds(j + 1), j' = j + 1,
         log' = Append(log, [check |-> j + 1,
                             verdict |-> Verdict(conf.checks[j + 1], os, kernelver)]),
         UNCHANGED <<pc, argv, host, path, conf, os, kernelver, detected, out, status>>
  PROVE  Detected' /\ Reported'
<1> DEFINE new == [check |-> j + 1, verdict |-> Verdict(conf.checks[j + 1], os, kernelver)]
<1>1. j \in Nat /\ log \in Seq(Reports) /\ new \in Reports /\ new.check = j + 1
  <2>1. conf.checks \in Seq(Range(conf.checks))
    BY ChecksAreList DEF IInv, Configured
  <2>2. j \in Nat /\ conf.checks[j + 1] \in Range(conf.checks)
    BY <2>1 DEF IInv, TypeOK
  <2>3. log \in Seq(Reports)
    BY DEF IInv, Reported, Deciding
  <2> QED  BY <2>2, <2>3 DEF Reports
<1>2. /\ \A k : Holds(k)' <=> Holds(k)
      /\ Lines(conf)' = Lines(conf) /\ Reports' = Reports
  BY SameFiles
<1>3. /\ DOMAIN log = 1 .. Len(log) /\ Len(log) \in Nat
      /\ DOMAIN log' = 1 .. Len(log) + 1 /\ log' \in Seq(Reports)
      /\ \A l \in DOMAIN log : log'[l] = log[l]
      /\ log'[Len(log) + 1] = new
  <2>1. log' = Append(log, new)
    OBVIOUS
  <2> HIDE DEF new
  <2> QED  BY <1>1, <2>1
<1>4. \A k : k \in 1 .. j + 1 <=> k \in 1 .. j \/ k = j + 1
  BY <1>1
<1>5. /\ \A l \in DOMAIN log : log[l].check \in 1 .. j /\ ~Holds(log[l].check)
      /\ \A k \in 1 .. j : ~Holds(k) => \E l \in DOMAIN log : log[l].check = k
  BY DEF IInv, Reported, Deciding
<1> HIDE DEF new
<1>6. \A l \in DOMAIN log' : log'[l].check \in 1 .. j + 1 /\ ~Holds(log'[l].check)
  BY <1>1, <1>3, <1>4, <1>5
<1>7. ASSUME NEW k \in 1 .. j + 1, ~Holds(k)
      PROVE  \E l \in DOMAIN log' : log'[l].check = k
  <2>1. CASE k \in 1 .. j
    <3>1. PICK l \in DOMAIN log : log[l].check = k
      BY <2>1, <1>5, <1>7
    <3>2. l \in DOMAIN log' /\ log'[l] = log[l]
      BY <1>3
    <3> QED  BY <3>1, <3>2
  <2>2. CASE k = j + 1
    <3>1. Len(log) + 1 \in DOMAIN log'
      BY <1>3
    <3> QED  BY <2>2, <3>1, <1>1, <1>3
  <2> QED  BY <2>1, <2>2, <1>4
<1>8. Detected'
  BY <1>2, <1>4 DEF IInv, Detected, Deciding
<1>9. Reported'
  BY <1>2, <1>3, <1>6, <1>7 DEF Reported
<1> QED  BY <1>8, <1>9

LEMMA DecideKeeps == ASSUME IInv, DecideCheck PROVE IInv'
<1>1. /\ pc = "checks" /\ j < Len(conf.checks) /\ j' = j + 1
      /\ UNCHANGED <<pc, argv, host, path, conf, os, kernelver, out, status>>
  BY DEF DecideCheck
<1>2. conf.checks \in Seq(Range(conf.checks))
  BY <1>1, ChecksAreList DEF IInv, Configured
<1>3. /\ j \in Nat /\ j + 1 \in DOMAIN conf.checks
      /\ j' \in 0 .. Len(conf'.checks)
  BY <1>1, <1>2 DEF IInv, TypeOK
<1>4. TypeOK'
  BY <1>1, <1>3 DEF IInv, TypeOK
<1>5. Nothing' /\ Configured' /\ OsRead' /\ KernelRead' /\ Printed'
  BY <1>1 DEF IInv, Nothing, Configured, OsRead, KernelRead, Printed, Deciding
<1>6. CASE Holds(j + 1)
  <2>1. /\ detected' = Append(detected, Line(j + 1, conf.checks[j + 1]))
        /\ UNCHANGED log
    BY <1>6 DEF DecideCheck, Holds
  <2>2. Detected' /\ Reported'
    BY <1>1, <1>3, <1>6, <2>1, SatisfiedKeeps
  <2> QED  BY <1>4, <1>5, <2>2 DEF IInv
<1>7. CASE ~Holds(j + 1)
  <2>1. /\ log' = Append(log, [check |-> j + 1,
                                verdict |-> Verdict(conf.checks[j + 1], os, kernelver)])
        /\ UNCHANGED detected
    BY <1>7 DEF DecideCheck, Holds
  <2>2. Detected' /\ Reported'
    BY <1>1, <1>3, <1>7, <2>1, ReportKeeps
  <2> QED  BY <1>4, <1>5, <2>2 DEF IInv
<1> QED  BY <1>6, <1>7

LEMMA DoneKeeps == ASSUME IInv, ChecksDone PROVE IInv'
<1>1. /\ pc = "checks" /\ pc' = "print" /\ j >= Len(conf.checks)
      /\ UNCHANGED <<argv, host, path, conf, os, kernelver, j, detected, log, out, status>>
  BY DEF ChecksDone
<1>2. conf.checks \in Seq(Range(conf.checks))
  BY <1>1, ChecksAreList DEF IInv, Configured
<1>3. j = Len(conf.checks) /\ out = <<>> /\ detected \in Seq(Lines(conf))
  BY <1>1, <1>2 DEF IInv, TypeOK, Printed, Detected, Deciding
<1>4. TypeOK'
  BY <1>1 DEF IInv, TypeOK, Points
<1>5. Nothing' /\ Configured' /\ OsRead' /\ KernelRead'
  BY <1>1 DEF IInv, Nothing, Configured, OsRead, KernelRead, Deciding
<1>6. Detected' /\ Reported'
  BY <1>1, SameFiles DEF IInv, Detected, Reported, Deciding
<1>7. Printed'
  <2>1. out' = <<>> /\ out' \in Seq(Lines(conf)') /\ Len(out') = 0 /\ Len(detected') \in Nat
    BY <1>1, <1>3
  <2> QED  BY <1>1, <1>3, <2>1 DEF Printed
<1> QED  BY <1>4, <1>5, <1>6, <1>7 DEF IInv

LEMMA PrintKeeps == ASSUME IInv, PrintFeature PROVE IInv'
<1>1. CASE ExitWith(0) /\ UNCHANGED out
  BY <1>1, EndKeeps DEF PrintFeature, ExitWith
<1>2. CASE ~(ExitWith(0) /\ UNCHANGED out)
  <2>1. /\ pc = "print" /\ Len(out) < Len(detected)
        /\ out' = Append(out, detected[Len(out) + 1])
        /\ UNCHANGED <<pc, argv, host, path, conf, os, kernelver, j, detected, log, status>>
    BY <1>2 DEF PrintFeature
  <2>2. TypeOK'
    BY <2>1 DEF IInv, TypeOK
  <2>3. Nothing' /\ Configured' /\ OsRead' /\ KernelRead'
    BY <2>1 DEF IInv, Nothing, Configured, OsRead, KernelRead, Deciding
  <2>4. Detected' /\ Reported'
    BY <2>1, SameFiles DEF IInv, Detected, Reported, Deciding
  <2>5. Printed'
    <3>1. /\ detected \in Seq(Lines(conf)) /\ out \in Seq(Lines(conf))
          /\ j = Len(conf.checks) /\ \A k \in 1 .. Len(out) : out[k] = detected[k]
      BY <2>1 DEF IInv, Detected, Printed, Deciding
    <3> DEFINE L == Lines(conf)
    <3>2. L' = L
      BY <2>1, SameFiles
    <3>3. out' \in Seq(L) /\ Len(out') <= Len(detected)
      <4> HIDE DEF L
      <4> QED  BY <2>1, <3>1 DEF L
    <3>4. \A k \in 1 .. Len(out') : out'[k] = detected[k]
      BY <2>1, <3>1
    <3> QED  BY <2>1, <3>1, <3>2, <3>3, <3>4 DEF Printed
  <2> QED  BY <2>2, <2>3, <2>4, <2>5 DEF IInv
<1> QED  BY <1>1, <1>2

LEMMA KillKeeps == ASSUME IInv, Kill PROVE IInv'
<1>1. pc # "exit" /\ status = -1
  BY DEF IInv, TypeOK, Kill, Ended
<1> QED  BY <1>1, EndKeeps DEF Kill

(* The invariant is inductive, and so holds in every reachable state.      *)
THEOREM Invariance == Spec => []IInv
<1>1. Init => IInv
  BY InitIInv
<1>2. IInv /\ [Next]_vars => IInv'
  <2> SUFFICES ASSUME IInv, [Next]_vars PROVE IInv'
    OBVIOUS
  <2>1. CASE parseArgs \/ ReadConfig
    BY <2>1, ArgsKeeps, ConfigKeeps
  <2>2. CASE OSRelease \/ KernelVersion
    BY <2>2, OsKeeps, KernelKeeps
  <2>3. CASE DecideCheck \/ ChecksDone
    BY <2>3, DecideKeeps, DoneKeeps
  <2>4. CASE PrintFeature \/ Kill
    BY <2>4, PrintKeeps, KillKeeps
  <2>5. CASE UNCHANGED vars
    <3> USE <2>5 DEF vars
    <3>1. TypeOK' /\ Nothing' /\ Configured' /\ OsRead' /\ KernelRead'
      BY DEF IInv, TypeOK, Nothing, Configured, OsRead, KernelRead, Deciding
    <3>2. Detected' /\ Reported' /\ Printed'
      BY SameFiles DEF IInv, Detected, Reported, Printed, Deciding
    <3> QED  BY <3>1, <3>2 DEF IInv
  <2> QED  BY <2>1, <2>2, <2>3, <2>4, <2>5 DEF Next, Progress
<1> QED  BY <1>1, <1>2, PTL DEF Spec

-----------------------------------------------------------------------------
(* The theorems.                                                           *)

(* Every variable keeps its type and belongs to the point that the process *)
(* has reached.                                                            *)
THEOREM TypeCorrect == Spec => []TypeOK
<1>1. IInv => TypeOK
  BY DEF IInv
<1> QED  BY <1>1, Invariance, PTL

(* Every check is either printed or reported, whatever the others are.     *)
THEOREM ChecksDecided == Spec => []EveryCheckDecided
<1>1. IInv => EveryCheckDecided
  <2> SUFFICES ASSUME IInv, pc = "print", NEW k \in DOMAIN conf.checks
               PROVE  (\E d \in DOMAIN detected : detected[d].check = k)
                        # (\E l \in DOMAIN log : log[l].check = k)
    BY DEF EveryCheckDecided
  <2>1. k \in 1 .. j
    BY ChecksAreList DEF IInv, Printed, Configured
  <2>2. ASSUME NEW d \in DOMAIN detected, detected[d].check = k
        PROVE  Holds(k)
    BY <2>2 DEF IInv, Detected, Deciding, Line
  <2>3. ASSUME NEW l \in DOMAIN log, log[l].check = k
        PROVE  ~Holds(k)
    BY <2>3 DEF IInv, Reported, Deciding
  <2>4. CASE Holds(k)
    <3>1. \E d \in DOMAIN detected : detected[d].check = k
      BY <2>1, <2>4 DEF IInv, Detected, Deciding, Line
    <3> QED  BY <3>1, <2>3, <2>4
  <2>5. CASE ~Holds(k)
    <3>1. \E l \in DOMAIN log : log[l].check = k
      BY <2>1, <2>5 DEF IInv, Reported, Deciding
    <3> QED  BY <3>1, <2>2, <2>5
  <2> QED  BY <2>4, <2>5
<1> QED  BY <1>1, Invariance, PTL

(* In the loop of main, the lines that are wanted are those detected, each *)
(* once and in order.                                                      *)
LEMMA DetectedIsWanted ==
  ASSUME IInv, pc = "print"
  PROVE  /\ \A line : line \in Wanted(host, argv) <=> \E d \in DOMAIN detected : detected[d] = line
         /\ \A d, e \in DOMAIN detected : d < e => detected[d].check < detected[e].check
         /\ \A d \in DOMAIN detected : detected[d].check \in Nat
         /\ DOMAIN detected = 1 .. Len(detected) /\ Len(detected) \in Nat
         /\ DOMAIN out = 1 .. Len(out) /\ Len(out) \in Nat /\ Len(out) <= Len(detected)
         /\ \A k \in DOMAIN out : out[k] = detected[k]
<1>1. Wanted(host, argv) = {Line(k, conf.checks[k]) : k \in {n \in DOMAIN conf.checks : Holds(n)}}
  BY WantedHere DEF IInv, Deciding
<1>2. DOMAIN conf.checks = 1 .. j /\ j \in Nat
  BY ChecksAreList DEF IInv, Printed, Configured
<1>3. /\ detected \in Seq(Lines(conf)) /\ out \in Seq(Lines(conf))
      /\ Len(out) <= Len(detected) /\ \A k \in 1 .. Len(out) : out[k] = detected[k]
      /\ \A d \in DOMAIN detected :
           \E k \in 1 .. j : Holds(k) /\ detected[d] = Line(k, conf.checks[k])
      /\ \A k \in 1 .. j :
           Holds(k) => \E d \in DOMAIN detected : detected[d] = Line(k, conf.checks[k])
      /\ \A d, e \in DOMAIN detected : d < e => detected[d].check < detected[e].check
  BY DEF IInv, Detected, Printed, Deciding
<1>4. \A line : line \in Wanted(host, argv) <=> \E d \in DOMAIN detected : detected[d] = line
  <2>1. ASSUME NEW line \in Wanted(host, argv)
        PROVE  \E d \in DOMAIN detected : detected[d] = line
    BY <1>1, <1>2, <1>3
  <2>2. ASSUME NEW d \in DOMAIN detected
        PROVE  detected[d] \in Wanted(host, argv)
    BY <1>1, <1>2, <1>3
  <2> QED  BY <2>1, <2>2
<1>5. \A d \in DOMAIN detected : detected[d].check \in Nat
  BY <1>2, <1>3 DEF Line
<1>6. /\ DOMAIN detected = 1 .. Len(detected) /\ Len(detected) \in Nat
      /\ DOMAIN out = 1 .. Len(out) /\ Len(out) \in Nat
  BY <1>3, SeqDomain
<1>7. Len(out) <= Len(detected) /\ \A k \in DOMAIN out : out[k] = detected[k]
  BY <1>3, <1>6
<1>8. \A d, e \in DOMAIN detected : d < e => detected[d].check < detected[e].check
  BY <1>3
<1> QED  BY <1>4, <1>5, <1>6, <1>7, <1>8

(* One more line is printed: what the reader has are the first lines.      *)
LEMMA PrintStep ==
  ASSUME IInv, PrintFeature, ~UNCHANGED out
  PROVE  FL!PrintLine
<1>1. /\ pc = "print" /\ Len(out) < Len(detected)
      /\ out' = Append(out, detected[Len(out) + 1])
      /\ UNCHANGED <<pc, argv, host, status>>
  BY DEF PrintFeature
<1> DEFINE W == Wanted(host, argv)
           n == Len(out) + 1
<1>2. /\ \A line : line \in W <=> \E d \in DOMAIN detected : detected[d] = line
      /\ \A d, e \in DOMAIN detected : d < e => detected[d].check < detected[e].check
      /\ \A d \in DOMAIN detected : detected[d].check \in Nat
      /\ DOMAIN detected = 1 .. Len(detected) /\ Len(detected) \in Nat
      /\ DOMAIN out = 1 .. Len(out) /\ Len(out) \in Nat
      /\ \A k \in DOMAIN out : out[k] = detected[k]
  BY <1>1, DetectedIsWanted
<1>3. out \in Seq(Lines(conf)) /\ detected[n] \in Lines(conf)
  <2>1. out \in Seq(Lines(conf)) /\ detected \in Seq(Lines(conf))
    BY <1>1 DEF IInv, Printed, Detected, Deciding
  <2>2. Len(out) \in Nat /\ Len(detected) \in Nat /\ DOMAIN detected = 1 .. Len(detected)
    BY <2>1, SeqDomain
  <2>3. n \in DOMAIN detected
    BY <1>1, <2>2
  <2> QED  BY <2>1, <2>3, SeqDomain
<1>4. /\ DOMAIN out' = 1 .. n /\ n \in DOMAIN detected
      /\ \A k \in 1 .. n : k \in DOMAIN detected /\ out'[k] = detected[k]
  <2>1. /\ DOMAIN out' = 1 .. n /\ out'[n] = detected[n]
        /\ \A k \in 1 .. Len(out) : out'[k] = out[k]
    BY <1>1, <1>3, AppendOne
  <2>2. n \in DOMAIN detected /\ \A k \in 1 .. n : k \in DOMAIN detected
    <3>1. Len(out) \in Nat /\ Len(detected) \in Nat /\ DOMAIN detected = 1 .. Len(detected)
      BY <1>2
    <3> QED  BY <1>1, <3>1
  <2>3. \A k \in 1 .. n : k = n \/ k \in 1 .. Len(out)
    BY <1>2
  <2> QED  BY <2>1, <2>2, <2>3, <1>2
<1>5. W' = W
  BY <1>1
<1> HIDE DEF W, n
<1>6. FL!Begins(out', W)
  <2>1. \A k \in DOMAIN out' : out'[k] \in W
    BY <1>2, <1>4
  <2>2. \A d, e \in DOMAIN out' : d < e => out'[d].check < out'[e].check
    BY <1>2, <1>4
  <2>3. ASSUME NEW line \in W, NEW k \in DOMAIN out', line.check < out'[k].check
        PROVE  \E d \in DOMAIN out' : out'[d] = line
    <3>1. PICK d \in DOMAIN detected : detected[d] = line
      BY <1>2
    <3>2. ~(k < d)
      <4>1. detected[d].check < detected[k].check
        BY <2>3, <3>1, <1>4
      <4> QED  BY <4>1, <1>2, <1>4
    <3>3. d \in 1 .. n
      BY <3>2, <1>2, <1>4
    <3> QED  BY <3>1, <3>3, <1>4
  <2> QED  BY <2>1, <2>2, <2>3 DEF FL!Begins
<1>7. detected[n] \in W
  BY <1>2, <1>4
<1>8. Outcome = "none" /\ Outcome' = Outcome
  BY <1>1 DEF Outcome
<1> QED  BY <1>1, <1>5, <1>6, <1>7, <1>8 DEF FL!PrintLine, W, n

(* The run ends: without an error only when all has been printed, with an  *)
(* error only when nothing has.                                            *)
LEMMA EndStep ==
  ASSUME IInv, Next, UNCHANGED out, Outcome' # Outcome
  PROVE  FL!End
<1>1. UNCHANGED <<argv, host>>
  BY DEF Next, Progress, parseArgs, ReadConfig, OSRelease, KernelVersion, Fail, DecideCheck,
         ChecksDone, PrintFeature, Kill
<1>2. Wanted(host, argv)' = Wanted(host, argv)
  BY <1>1
<1>3. CASE Kill
  <2>1. Outcome = "none" /\ Outcome' = "killed"
    BY <1>3 DEF Kill, Ended, Outcome
  <2> QED  BY <2>1, <1>2 DEF FL!End
<1>4. CASE parseArgs
  <2>1. pc = "args" /\ Len(argv) = 1 /\ argv[1] \in HELP /\ pc' = "exit" /\ status' = 0
    BY <1>4 DEF parseArgs, ExitWith, Outcome
  <2>2. Wanted(host, argv) = {}
    BY <2>1 DEF Wanted, HasConfig
  <2>3. Outcome = "none" /\ Outcome' = "done" /\ FL!Complete(out, Wanted(host, argv))
    BY <2>1, <2>2 DEF Outcome, FL!Complete
  <2> QED  BY <2>3, <1>2 DEF FL!End
<1>5. CASE ReadConfig \/ OSRelease \/ KernelVersion
  <2>1. /\ pc \in {"config", "os", "kernel"}
        /\ pc' \in {"os", "kernel", "checks"} \/ (pc' = "exit" /\ status' \in {1, 2})
    <3>1. CASE ReadConfig
      BY <3>1 DEF ReadConfig, Fail, ExitWith
    <3>2. CASE OSRelease
      BY <3>2 DEF OSRelease, Fail, ExitWith
    <3>3. CASE KernelVersion
      BY <3>3 DEF KernelVersion, Fail, ExitWith
    <3> QED  BY <1>5, <3>1, <3>2, <3>3
  <2>2. Outcome = "none" /\ Outcome' = "error" /\ out = <<>>
    BY <2>1 DEF Outcome, IInv, Printed
  <2> QED  BY <2>2, <1>2 DEF FL!End
<1>6. CASE DecideCheck \/ ChecksDone
  BY <1>6 DEF DecideCheck, ChecksDone, Outcome
<1>7. CASE PrintFeature
  <2>1. /\ pc = "print" /\ pc' = "exit" /\ status' = 0 /\ ~(Len(out) < Len(detected))
    BY <1>7 DEF PrintFeature, ExitWith, Outcome
  <2>2. FL!Complete(out, Wanted(host, argv))
    BY <2>1, DetectedIsWanted DEF FL!Complete
  <2>3. Outcome = "none" /\ Outcome' = "done"
    BY <2>1 DEF Outcome
  <2> QED  BY <2>2, <2>3, <1>2 DEF FL!End
<1> QED  BY <1>3, <1>4, <1>5, <1>6, <1>7 DEF Next, Progress

(* The plugin implements FeatureLines: it prints the lines of the checks   *)
(* that hold one by one and in order, ends well only behind the last of    *)
(* them, and reports an error only if it has printed none.                 *)
THEOREM Implements == Spec => PrintsWanted
<1>1. Init => FL!Init
  BY DEF Init, FL!Init, Outcome
<1>2. IInv /\ [Next]_vars => [FL!PrintLine \/ FL!End]_(FL!fvars)
  <2> SUFFICES ASSUME IInv, [Next]_vars, ~UNCHANGED <<Wanted(host, argv), out, Outcome>>
               PROVE  FL!PrintLine \/ FL!End
    BY DEF FL!fvars
  <2>1. Next
    BY DEF vars, Outcome
  <2>2. CASE UNCHANGED out
    <3>1. UNCHANGED <<argv, host>>
      BY <2>1 DEF Next, Progress, parseArgs, ReadConfig, OSRelease, KernelVersion, Fail,
                  DecideCheck, ChecksDone, PrintFeature, Kill
    <3> QED  BY <2>1, <2>2, <3>1, EndStep
  <2>3. CASE ~UNCHANGED out
    <3>1. PrintFeature
      BY <2>1, <2>3 DEF Next, Progress, parseArgs, ReadConfig, OSRelease, KernelVersion, Fail,
                        DecideCheck, ChecksDone, Kill
    <3> QED  BY <2>3, <3>1, PrintStep
  <2> QED  BY <2>2, <2>3
<1> QED  BY <1>1, <1>2, Invariance, PTL DEF Spec, FL!Spec, PrintsWanted
=============================================================================
