----------------------------- MODULE CapsLabels -----------------------------
(***************************************************************************)
(* What one run of a capability plugin promises to the node feature        *)
(* discovery worker that reads its standard output: one atomic step, in    *)
(* which the run ends and publishes either nothing at all or the complete  *)
(* list of the labels wanted on this host, each once, in table order.      *)
(* A label is a record whose field cap is its position in the table.       *)
(***************************************************************************)
EXTENDS Integers, Sequences

VARIABLES wanted,      \* the labels that describe this host: never changes
          published,   \* the lines the worker has received
          finished     \* the run has ended

avars == <<wanted, published, finished>>

-----------------------------------------------------------------------------
(* The sequence q lists the labels of W, each once and in table order.     *)
Enumerates(q, W) ==
  /\ \A k \in DOMAIN q : q[k] \in W
  /\ \A label \in W : \E k \in DOMAIN q : q[k] = label
  /\ \A j, k \in DOMAIN q : j < k => q[j].cap < q[k].cap

Init == published = <<>> /\ ~finished

Publish == /\ ~finished
           /\ finished'
           /\ published' = <<>> \/ Enumerates(published', wanted)
           /\ UNCHANGED wanted

Spec == Init /\ [][Publish]_avars
=============================================================================
