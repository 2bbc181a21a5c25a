--------------------------- MODULE KernelUpgrade ----------------------------
(***************************************************************************)
(* A node whose kernel is upgraded again and again while the configuration *)
(* of the version plugin stays as it is.  After every boot the plugin      *)
(* decides the same check for the new kernel.                              *)
(***************************************************************************)
EXTENDS VersionCheck, ReleaseText

CONSTANTS Releases,   \* the kernels the node may boot
          Bounds      \* the releases a check may name

VARIABLES check,      \* the configured check: min and max, each in {} or a singleton
          running,    \* the kernel that is running
          announced,  \* whether the plugin announces the feature since it booted
          lost        \* whether an upgrade has taken the feature away

vars == <<check, running, announced, lost>>

Centos == [quote |-> "none", text |-> "centos"]

(* What the plugin decides when it runs on kernel r.                       *)
Announces(r) ==
  IsSatisfied(Check(Centos, "hyperv", {Read(Text(min)) : min \in check.min},
                                      {Read(Text(max)) : max \in check.max}),
              Centos, Read(Text(r))) = "satisfied"

-----------------------------------------------------------------------------
(* The order in which kernels are released: the segments, padded with      *)
(* zeros; among the same segments the builds in order, a build before the  *)
(* ones that refine it; and last the one that has no build number.         *)
Width == 4
At(numbers, k, default) == IF k <= Len(numbers) THEN numbers[k] ELSE default

Key(r) == [k \in 1 .. 2 * Width + 1 |->
             IF k <= Width THEN At(r.segments, k, 0)
             ELSE IF k = Width + 1 THEN (IF r.build = <<>> THEN 1 ELSE 0)
             ELSE At(r.build, k - Width - 1, -1)]

Older(a, b) == \E k \in DOMAIN Key(a) :
                 /\ Key(a)[k] < Key(b)[k]
                 /\ \A j \in 1 .. k - 1 : Key(a)[j] = Key(b)[j]

-----------------------------------------------------------------------------
AtMostOne(S) == {{}} \union {{x} : x \in S}

Init == /\ check \in [min : AtMostOne(Bounds), max : AtMostOne(Bounds)]
        /\ check.min \union check.max # {}
        /\ running \in Releases
        /\ announced = Announces(running)
        /\ lost = FALSE

(* A newer kernel is installed and booted, and the plugin runs on it.      *)
Upgrade == /\ \E r \in {newer \in Releases : Older(running, newer)} :
                running' = r /\ announced' = Announces(r)
           /\ lost' = (lost \/ (announced /\ ~announced'))
           /\ UNCHANGED check

Spec == Init /\ [][Upgrade]_vars

-----------------------------------------------------------------------------
(* The feature is announced exactly for the kernels from the configured    *)
(* oldest to the configured newest one, both included (IsSatisfied).       *)
WindowExact ==
  announced <=> /\ \A r \in check.min : ~Older(running, r)
                /\ \A r \in check.max : ~Older(r, running)

(* With only an oldest kernel configured, as in conf/, an upgrade never    *)
(* takes the feature away from a node.                                     *)
UpgradeKeepsFeature == [][check.max = {} /\ announced => announced']_vars

(* A feature that an upgrade took away does not come back with a later     *)
(* one: the kernels that have it are neighbours.                           *)
GoneForGood == lost => ~announced

(* What all three rest on.  The versions' builds are rows of numbers and   *)
(* written in one way only, and rows of segments that count as equal are   *)
(* the same; the numbers that are read are those of the release.           *)
Parts(v) == IF v.pre = <<>> THEN {} ELSE Range(Split(v.pre))

Canonical(V) ==
  /\ \A v \in V : /\ v.ok /\ v.segments \in Seq(Int) /\ v.pre \in Seq(Nat)
                  /\ \A p \in Parts(v) : ParseInt(p).ok /\ ParseInt(p).val \in Nat
  /\ \A v, w \in V :
       /\ compareSegments(v.segments, w.segments) = 0 => v.segments = w.segments
       /\ \A p \in Parts(v), q \in Parts(w) : ParseInt(p).val = ParseInt(q).val => p = q

PartNumbers(parts) == [k \in DOMAIN parts |-> ParseInt(parts[k]).val]

ReadAsWritten(kernels) ==
  /\ Canonical({Read(Text(r)) : r \in kernels})
  /\ \A r \in kernels :
       LET v == Read(Text(r))
       IN /\ Len(v.segments) <= Width
          /\ \A k \in 1 .. Width : At(v.segments, k, 0) = At(r.segments, k, 0)
          /\ v.pre = <<>> <=> r.build = <<>>
          /\ v.pre # <<>> =>
               /\ Len(Split(v.pre)) <= Width
               /\ \A k \in 1 .. Width : At(PartNumbers(Split(v.pre)), k, -1) = At(r.build, k, -1)

(* A release as distributions name them: up to four segments, a fourth one *)
(* that is not zero, up to four builds, all below 1000 and written with    *)
(* the same least number of digits, and tags as sanitizeVersion cuts them. *)
Digits == ZERO .. ZERO + 9
NumberBytes == Digits \union {DASH, DOT}
Small == 0 .. 999

Tagged(tags) ==
  /\ tags \in Seq(Nat)
  /\ \/ tags = <<>>
     \/ tags # <<>> /\ tags[1] \notin NumberBytes
     \/ Len(tags) >= 2 /\ tags[1] \in {DASH, DOT} /\ tags[2] \notin NumberBytes

Ordinary(r, width) ==
  /\ r.segments \in Seq(Small) /\ Len(r.segments) \in 1 .. Width
  /\ Len(r.segments) > 3 => r.segments[Len(r.segments)] # 0
  /\ r.build \in Seq(Small) /\ Len(r.build) <= Width /\ r.width = width
  /\ Tagged(r.tags)

(* The comment of Compare: it returns -1, 0 or 1 if this version is        *)
(* smaller, equal or larger than the other one, respectively.  Whichever   *)
(* way round they are given, two versions must then compare as opposites.  *)
CompareOpposite ==
  \A r \in check.min \union check.max :
    Compare(Read(Text(running)), Read(Text(r))) = -Compare(Read(Text(r)), Read(Text(running)))
=============================================================================
