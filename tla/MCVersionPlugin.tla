-------------------------- MODULE MCVersionPlugin ---------------------------
(***************************************************************************)
(* The fixtures of tests/version-info, the shipped configuration of conf/, *)
(* and configurations and hosts at the edges of the plugin.                *)
(***************************************************************************)
EXTENDS VersionPlugin, ReleaseText

Plain(text) == [quote |-> "none", text |-> text]
Double(text) == [quote |-> "double", text |-> text]
Single(text) == [quote |-> "single", text |-> text]

Pair(key, value) == [kind |-> "pair", key |-> key, value |-> value]
Comment == [kind |-> "other"]
OsFile(lines) == [opens |-> TRUE, scans |-> TRUE, lines |-> lines]

Conf(osrelease, kernversion, checks) ==
  [decodes |-> TRUE,
   conf |-> [osrelease |-> osrelease, kernversion |-> kernversion, checks |-> checks]]

Bound(text) == IF text = <<>> THEN {} ELSE {Read(text)}
For(id, feature, min, max) == Check(Plain(id), feature, Bound(min), Bound(max))

(* /proc/version: the word Linux, the word version, the release, a rest.   *)
Words(text) == <<Malformed, Malformed, Read(text), Malformed>>

CentosRelease == OsFile(<<Pair("NAME", Double("CentOS Linux")), Pair("ID", Double("centos")),
                          Pair("ID_LIKE", Double("rhel fedora"))>>)
FedoraRelease == OsFile(<<Pair("NAME", Plain("Fedora")), Pair("ID", Plain("fedora")), Comment>>)
TooLong == [CentosRelease EXCEPT !.scans = FALSE]
NotThere == [CentosRelease EXCEPT !.opens = FALSE]

-----------------------------------------------------------------------------
(* The fixtures, with the texts of their files.                            *)
Centos(build) == Text(Release(<<3, 10, 0>>, build, El7))
Fedora == Text(Release(<<4, 20, 13>>, <<200>>, <<DOT, LETTER, LETTER, ZERO + 2>>))

FixtureChecks(lev1, lev2) == << For("centos", "hyperv", Centos(lev1), <<>>),
                                For("centos", "hyperv-lev2", Centos(lev2), <<>>) >>

FixtureHost ==
  [ configs |->
      [ c001 |-> Conf("fedora", "k4_20_13", FixtureChecks(<<957, 5, 1>>, <<957, 5, 1>>)),
        c002 |-> Conf("centos", "k957_5_1", FixtureChecks(<<957, 5, 1>>, <<957, 5, 1>>)),
        c003 |-> Conf("centos", "k955_2_1", FixtureChecks(<<957, 5, 1>>, <<957, 5, 1>>)),
        c004 |-> Conf("centos", "k957_6", FixtureChecks(<<957, 5, 1>>, <<960, 1>>)) ],
    osreleases |-> [ centos |-> CentosRelease, fedora |-> FedoraRelease ],
    kernels |-> [ k4_20_13 |-> Words(Fedora),
                  k957_5_1 |-> Words(Centos(<<957, 5, 1>>)),
                  k955_2_1 |-> Words(Centos(<<955, 2, 1>>)),
                  k957_6   |-> Words(Centos(<<957, 6>>)) ] ]

(* The files _stdout.  Fixture 000 has no configuration.                   *)
Expected == [ c000 |-> <<>>, c001 |-> <<>>, c002 |-> <<"hyperv", "hyperv-lev2">>,
              c003 |-> <<>>, c004 |-> <<"hyperv">> ]

(* The shipped configuration of conf/, on nodes that boot other kernels.   *)
ShippedHosts ==
  { [ configs |-> ConfigFilePath :> Conf("/host-etc/os-release", "",
                                         FixtureChecks(<<957, 5, 1>>, <<957, 5, 1>>)),
      osreleases |-> "/host-etc/os-release" :> release,
      kernels |-> DefaultKernelVersion :> Words(Centos(build)) ] :
    release \in {CentosRelease, FedoraRelease, NotThere},
    build \in {<<957>>, <<957, 5, 1>>, <<957, 10>>, <<>>} }

FixtureHosts == {FixtureHost} \union ShippedHosts
FixtureArgvs == {<<p>> : p \in DOMAIN Expected} \union {<<>>}

(* Every fixture prints what its _stdout says.                             *)
FixturesPass ==
  pc = "exit" /\ host = FixtureHost /\ argv \in {<<p>> : p \in DOMAIN Expected} =>
    [k \in DOMAIN out |-> out[k].feature] = Expected[argv[1]]

-----------------------------------------------------------------------------
(* Configurations and hosts at the edges of the plugin, with short texts.  *)
Nine == <<ZERO + 9>>
Ten == <<ZERO + 1, ZERO>>
NoNumber == <<LETTER>>
TooBig == [k \in 1 .. 5 |-> ZERO + 9]

(* Checks that are invalid, fail or are unfulfilled between others that    *)
(* hold; one feature twice; bounds that hold only when they are inclusive. *)
MixedChecks ==
  << For("centos", "", Nine, <<>>),
     For("centos", "hyperv", Nine, Nine),
     For("centos", "sve", Nine, <<>>),
     For("centos", "hyperv", <<>>, <<>>),
     For("centos", "hyperv", NoNumber, <<>>),
     For("centos", "hyperv-lev2", Ten, NoNumber),
     For("centos", "hyperv-lev2", Nine, TooBig),
     For("centos", "hyperv", <<>>, Ten) >>

TwoChecks == << For("centos", "hyperv", Nine, <<>>), For("centos", "hyperv-lev2", Ten, <<>>) >>

EdgeConfigs ==
  [ mixed    |-> Conf("", "", MixedChecks),
    empty    |-> Conf("", "", <<>>),
    garbled  |-> [decodes |-> FALSE],
    noid     |-> Conf("noid", "", TwoChecks),
    twice    |-> Conf("twice", "", TwoChecks),
    single   |-> Conf("single", "", TwoChecks),
    nofile   |-> Conf("nofile", "", TwoChecks),
    nokernel |-> Conf("twice", "nofile", TwoChecks),
    short    |-> Conf("twice", "short", TwoChecks),
    word     |-> Conf("twice", "word", TwoChecks) ]

EdgeReleases ==
  [ noid   |-> OsFile(<<Pair("NAME", Plain("none"))>>),
    twice  |-> OsFile(<<Pair("ID", Plain("fedora")), Pair("ID", Double("centos"))>>),
    single |-> OsFile(<<Pair("ID", Single("centos"))>>) ]

Kernels == [ word |-> Words(NoNumber), short |-> <<Malformed, Malformed>> ]

EdgeHosts ==
  { [ configs |-> EdgeConfigs @@ ConfigFilePath :> Conf("", "", TwoChecks),
      osreleases |-> EdgeReleases @@ EtcOsRelease :> etc @@ UsrLibOsRelease :> usr,
      kernels |-> Kernels @@ DefaultKernelVersion :> Words(text) ] :
    etc \in {CentosRelease, TooLong, NotThere}, usr \in {FedoraRelease, CentosRelease, NotThere},
    text \in {Nine, Ten} }

EdgeArgvs == {<<p>> : p \in DOMAIN EdgeConfigs \union {"-h", "nowhere"}}
             \union {<<>>, <<"mixed", "empty">>}

MCHosts == EdgeHosts \union FixtureHosts
MCArgvs == EdgeArgvs \union FixtureArgvs

(* The system the host seems to be, from the comments of osrelease.go: the *)
(* second file stands in for the first, the last ID line counts, and only  *)
(* double quotes are taken off.                                            *)
SeemsCentos ==
  IF Len(argv) = 1 /\ argv[1] \in DOMAIN EdgeReleases THEN argv[1] = "twice"
  ELSE \/ host.osreleases[EtcOsRelease] = CentosRelease
       \/ /\ host.osreleases[EtcOsRelease] \in {TooLong, NotThere}
          /\ host.osreleases[UsrLibOsRelease] = CentosRelease

(* With the two checks for centos, a run prints a line for each bound the  *)
(* running kernel reaches when the host seems to be centos, else nothing.  *)
OsReleaseRules ==
  pc = "exit" /\ status = 0 /\ conf.checks = TwoChecks =>
    {out[k].feature : k \in DOMAIN out} =
       IF ~SeemsCentos THEN {}
       ELSE IF host.kernels[DefaultKernelVersion] = Words(Ten) THEN {"hyperv", "hyperv-lev2"}
       ELSE {"hyperv"}
=============================================================================
