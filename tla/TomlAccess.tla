----------------------------- MODULE TomlAccess -----------------------------
(***************************************************************************)
(* How a program that holds a document looks into it: the accessors of     *)
(* contrib/tomlc99/toml.c.  A set of at most one member stands for a       *)
(* pointer that may be 0.                                                  *)
(***************************************************************************)
EXTENDS TomlParse

Nodes(sort) == {n \in DOMAIN heap : heap[n].sort = sort}

(* toml_key_in for 0, 1, 2 and so on until it returns 0.                   *)
toml_key_in(tab) ==
  LET all == EntriesOf(heap[tab], "v") \o EntriesOf(heap[tab], "a") \o EntriesOf(heap[tab], "t")
  IN [i \in DOMAIN all |-> all[i].key]

FirstWith(tab, sort, k) ==
  IF Hits(tab, k, sort) = {} THEN {} ELSE {AtFirst(tab, Hits(tab, k, sort))}

toml_raw_in(tab, k) == {e.word : e \in FirstWith(tab, "v", k)}
toml_array_in(tab, k) == {e.id : e \in FirstWith(tab, "a", k)}
toml_table_in(tab, k) == {e.id : e \in FirstWith(tab, "t", k)}

(* What the nodes tell about themselves: how much is in them, the key that *)
(* they were created with, the type of an array's values.                  *)
toml_table_nkval(tab) == Len(EntriesOf(heap[tab], "v"))
toml_table_narr(tab) == Len(EntriesOf(heap[tab], "a"))
toml_table_ntab(tab) == Len(EntriesOf(heap[tab], "t"))
toml_array_nelem(arr) == Len(heap[arr].elems)

KeyOf(n) == {e.key : e \in {e \in UNION {Range(heap[m].entries) : m \in Nodes("t")} : e.id = n}}
toml_table_key(tab) == KeyOf(tab)
toml_array_key(arr) == KeyOf(arr)

toml_array_kind(arr) == heap[arr].kind
toml_array_type(arr) ==
  IF toml_array_kind(arr) # "v" \/ heap[arr].elems = <<>> THEN {} ELSE {heap[arr].type}

(* The elements that toml_raw_at, toml_array_at and toml_table_at return   *)
(* for 0, 1, 2 and so on until they return 0.                              *)
ElementsAt(arr, kind) == IF toml_array_kind(arr) = kind THEN heap[arr].elems ELSE <<>>
toml_raw_at(arr) == [i \in DOMAIN ElementsAt(arr, "v") |-> ElementsAt(arr, "v")[i].word]
toml_array_at(arr) == [i \in DOMAIN ElementsAt(arr, "a") |-> ElementsAt(arr, "a")[i].id]
toml_table_at(arr) == [i \in DOMAIN ElementsAt(arr, "t") |-> ElementsAt(arr, "t")[i].id]

-----------------------------------------------------------------------------
(* A way through a document: keys through tables, numbers through arrays.  *)
ByKey(k) == [key |-> k, at |-> 0]
ByNumber(n) == [key |-> <<>>, at |-> n]

(* What is printed of a node, as seen from the node above it.              *)
Below(step, items) == [i \in DOMAIN items |-> [items[i] EXCEPT !.path = <<step>> \o @]]
=============================================================================
