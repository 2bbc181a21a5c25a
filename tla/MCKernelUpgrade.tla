-------------------------- MODULE MCKernelUpgrade ---------------------------
(***************************************************************************)
(* Releases as distributions name them.                                    *)
(***************************************************************************)
EXTENDS KernelUpgrade

Generic == <<DASH, LETTER>>      \* -generic

(* Vanilla, centos (as in conf/), ubuntu and stable kernels.               *)
MCReleases ==
  { Release(<<2, 6, 32>>, <<>>, <<>>), Release(<<2, 6, 32, 5>>, <<>>, <<>>),
    Release(<<3, 10, 0>>, <<957>>, El7),
    Release(<<3, 10, 0>>, <<957, 5, 1>>, El7),
    Release(<<3, 10, 0>>, <<957, 6>>, El7),
    Release(<<3, 10, 0>>, <<960, 1>>, El7),
    Release(<<3, 10, 0>>, <<>>, <<>>),
    Release(<<4, 9>>, <<>>, Generic),
    Release(<<4, 15, 0>>, <<9>>, Generic),
    Release(<<4, 15, 0>>, <<10>>, Generic),
    Release(<<4, 15, 0>>, <<10, 9>>, Generic),
    Release(<<4, 15, 10>>, <<9>>, <<>>) }

MCBounds == { r \in MCReleases : r.segments[1] > 2 /\ r.segments # <<4, 9>> }

ASSUME DistributionsOrdinary == \A r \in MCReleases \union MCBounds : Ordinary(r, 1)
ASSUME DistributionsRead == ReadAsWritten(MCReleases \union MCBounds)

-----------------------------------------------------------------------------
(* The build of an ubuntu mainline kernel has a leading zero, as in        *)
(* 5.4.0-050400; in the configuration it is written without.               *)
Mainline == { Release(<<5, n, 0>>, <<5, b>>, Generic) : n \in 3 .. 5, b \in 0 .. 3 }
MainlineReleases == {[r EXCEPT !.width = 2] : r \in Mainline}
=============================================================================
