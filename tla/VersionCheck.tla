---------------------------- MODULE VersionCheck ----------------------------
(***************************************************************************)
(* One check of the version plugin's configuration, pkg/kvminfo/           *)
(* versioninfo/check.go: an operating system, a feature to announce, and   *)
(* the oldest and the newest kernel it may be announced for.               *)
(*                                                                         *)
(* A kernel's text is represented by what Read makes of it, a version or   *)
(* Malformed, which is all the program does with it.  kernelminver and     *)
(* kernelmaxver hold that value, or are empty when none is configured.     *)
(***************************************************************************)
EXTENDS GoVersion, OsRelease

Features == {"hyperv", "hyperv-lev2"}

(* id is the value of ID in an os-release file.                            *)
Check(id, feature, kernelminver, kernelmaxver) ==
  [os |-> id, feature |-> feature,
   kernelminver |-> kernelminver, kernelmaxver |-> kernelmaxver]

IsValid(check) ==
  /\ check.feature # "" /\ check.os # NoValue
  /\ check.kernelminver # {} \/ check.kernelmaxver # {}
  /\ check.feature \in Features

(* Mutated: the oldest kernel itself is refused.                           *)
MutantMinExclusive(check, os, ver) ==
  IF check.os # os THEN "unfulfilled"
  ELSE IF \E min \in check.kernelminver : ~min.ok THEN "failed"
  ELSE IF \E min \in check.kernelminver : Compare(ver, min) <= 0 THEN "unfulfilled"
  ELSE IF \E max \in check.kernelmaxver : ~max.ok THEN "failed"
  ELSE IF \E max \in check.kernelmaxver : Compare(ver, max) > 0 THEN "unfulfilled"
  ELSE "satisfied"

(* The tests in their order: a newest version that does not parse is not   *)
(* looked at when the kernel is too old already.                           *)
IsSatisfied(check, os, ver) ==
  IF check.os # os THEN "unfulfilled"
  ELSE IF \E min \in check.kernelminver : ~min.ok THEN "failed"
  ELSE IF \E min \in check.kernelminver : Compare(ver, min) < 0 THEN "unfulfilled"
  ELSE IF \E max \in check.kernelmaxver : ~max.ok THEN "failed"
  ELSE IF \E max \in check.kernelmaxver : Compare(ver, max) > 0 THEN "unfulfilled"
  ELSE "satisfied"
=============================================================================
