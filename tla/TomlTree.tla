------------------------------ MODULE TomlTree ------------------------------
(***************************************************************************)
(* What the memory of the parser says as a document: each table, array and *)
(* value and the way that leads to it; and that the parser, step by step,  *)
(* builds a document as TomlDocument promises it.                          *)
(***************************************************************************)
EXTENDS TomlAccess

Item(way, sort, word) == [path |-> way, sort |-> sort, word |-> word]

(* The places in memory are those in its tables and arrays: what is held   *)
(* at one, of what sort it is, and what leads there from the node.         *)
Members(node) == IF node.sort = "t" THEN node.entries ELSE node.elems
PlacesIn(h) == UNION {{<<n, k>> : k \in DOMAIN Members(h[n])} : n \in DOMAIN h}
Held(h, p) == Members(h[p[1]])[p[2]]
SortHeld(h, p) == IF h[p[1]].sort = "t" THEN Held(h, p).sort ELSE h[p[1]].kind
Onto(h, p) == IF h[p[1]].sort = "t" THEN ByKey(Held(h, p).key) ELSE ByNumber(p[2])

(* The way from the root to a node, through the nodes that hold it.        *)
PlaceOf(h, n) == CHOOSE p \in PlacesIn(h) : Held(h, p).id = n
Ways(h) ==
  LET way[n \in DOMAIN h] ==
        IF n = ROOT THEN <<>> ELSE Append(way[PlaceOf(h, n)[1]], Onto(h, PlaceOf(h, n)))
  IN way

ItemAt(h, way, p) == Item(Append(way[p[1]], Onto(h, p)), SortHeld(h, p), Held(h, p).word)
Contents(h) == {ItemAt(h, Ways(h), p) : p \in PlacesIn(h)}

Document ==
  INSTANCE TomlDocument WITH
    doc <- IF Building \/ result = "document" THEN Contents(heap) ELSE {},
    outcome <- CASE pc = "done" \/ result = "document" -> "document"
                 [] Building /\ pc # "done" -> "reading"
                 [] OTHER -> "error"

(* Every step of the parser is one of the document that it promises: an    *)
(* entry comes to a place that is free, an element behind the others of    *)
(* its sort, and an error leaves nothing.                                  *)
Implements == Document!Spec
=============================================================================
