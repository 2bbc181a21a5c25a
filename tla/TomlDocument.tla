---------------------------- MODULE TomlDocument ----------------------------
(***************************************************************************)
(* What toml_parse promises its caller, whatever the text: a document that *)
(* grows by entries at places that were free, and that is handed over as a *)
(* whole or not at all.                                                    *)
(***************************************************************************)
EXTENDS Naturals, Sequences, SequencesExt

VARIABLES doc,        \* the entries: where each is, of what sort, its value
          outcome     \* reading, document or error

(* A place is a way from the root: keys through tables, numbers through    *)
(* arrays.                                                                 *)
ByKey(k) == [key |-> k, at |-> 0]
ByNumber(n) == [key |-> <<>>, at |-> n]

Siblings(d, e) == {o \in d : Len(o.path) = Len(e.path) /\ Front(o.path) = Front(e.path)}

(* One entry at each place, under a table or an array; an array has its    *)
(* elements in a row, all of one sort.                                     *)
Placed(d, e) ==
  LET step == Last(e.path)
      above == {o \in d : o.path = Front(e.path)}
  IN /\ {o \in d : o.path = e.path} = {e}
     /\ \/ Len(e.path) = 1 /\ step.at = 0
        \/ \E o \in above : o.sort = IF step.at = 0 THEN "t" ELSE "a"
     /\ step.at > 0 =>
          \A n \in 1 .. step.at - 1 :
            \E o \in Siblings(d, e) : Last(o.path).at = n /\ o.sort = e.sort

Init == doc = {} /\ outcome = "reading"

Extend == /\ outcome = "reading" /\ UNCHANGED outcome
          /\ doc \subseteq doc'
          /\ \A e \in doc' \ doc : Placed(doc', e)

HandOver == /\ outcome = "reading" /\ outcome' = "document"
            /\ UNCHANGED doc

Reject == /\ outcome = "reading" /\ outcome' = "error"
          /\ doc' = {}

Spec == Init /\ [][Extend \/ HandOver \/ Reject]_<<doc, outcome>>
=============================================================================
