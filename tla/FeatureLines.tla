---------------------------- MODULE FeatureLines ----------------------------
(***************************************************************************)
(* What one run of the version plugin promises to the reader of its        *)
(* standard output: the lines wanted on this host, one at a time and in    *)
(* order.  A run that ends well has printed them all, one that reports an  *)
(* error none; one that is killed may have stopped at any line.            *)
(* A line is a record whose field check is its position.                   *)
(***************************************************************************)
EXTENDS Integers, Sequences

VARIABLES wanted,    \* the lines that describe this host: never changes
          printed,   \* the lines the reader has received
          outcome    \* "none" while the run goes on, "done", "error", "killed"

fvars == <<wanted, printed, outcome>>

-----------------------------------------------------------------------------
(* q lists the first lines of W: in order, each once, none left out.       *)
Begins(q, W) ==
  /\ \A k \in DOMAIN q : q[k] \in W
  /\ \A j, k \in DOMAIN q : j < k => q[j].check < q[k].check
  /\ \A line \in W, k \in DOMAIN q :
       line.check < q[k].check => \E j \in DOMAIN q : q[j] = line

Complete(q, W) == \A line \in W : \E k \in DOMAIN q : q[k] = line

Init == printed = <<>> /\ outcome = "none"

PrintLine ==
  /\ outcome = "none"
  /\ \E line \in wanted : printed' = Append(printed, line)
  /\ Begins(printed', wanted)
  /\ UNCHANGED <<wanted, outcome>>

End == /\ outcome = "none"
       /\ \/ outcome' = "done" /\ Complete(printed, wanted)
          \/ outcome' = "error" /\ printed = <<>>
          \/ outcome' = "killed"
       /\ UNCHANGED <<wanted, printed>>

Spec == Init /\ [][PrintLine \/ End]_fvars
=============================================================================
