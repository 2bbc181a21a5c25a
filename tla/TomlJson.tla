------------------------------ MODULE TomlJson ------------------------------
(***************************************************************************)
(* contrib/tomlc99/toml_json.c: a document printed as JSON.  The output is *)
(* the sequence of the values that are printed, each with the way to it    *)
(* and its type; brackets, commas and quotes are left out.                 *)
(***************************************************************************)
EXTENDS TomlAccess, TomlPrint

Printed(raw) == [path |-> <<>>, raw |-> {raw}]
AbortJson == [path |-> <<>>, raw |-> {}]

(* Mutated: arrays of tables are looked through as arrays of arrays.       *)
MutantNodesOf(curarr) == toml_array_at(curarr)

(* The arrays of an array, or its tables: print_table_array.               *)
NodesOf(curarr) == IF toml_array_kind(curarr) = "t" THEN toml_table_at(curarr) ELSE toml_array_at(curarr)

(* What is printed for a key of a table, which is looked up among the      *)
(* values, the arrays and the tables in turn: print_table.                 *)
JsonEntry(print, table, k) ==
  LET raw == toml_raw_in(table, k)
      arr == toml_array_in(table, k)
      tab == toml_table_in(table, k)
  IN IF raw # {} THEN <<Printed(CHOOSE r \in raw : TRUE)>>
     ELSE IF arr # {} THEN print[CHOOSE a \in arr : TRUE]
     ELSE IF tab # {} THEN print[CHOOSE t \in tab : TRUE]
     ELSE <<AbortJson>>

JsonTable(print, table) ==
  LET keys == toml_key_in(table)
  IN FlattenSeq([i \in DOMAIN keys |-> Below(ByKey(keys[i]), JsonEntry(print, table, keys[i]))])

(* print_array goes by the kind of the array.                              *)
JsonArray(print, curarr) ==
  LET raws == toml_raw_at(curarr)
      nodes == NodesOf(curarr)
  IN IF toml_array_kind(curarr) = "v"
     THEN FlattenSeq([i \in DOMAIN raws |-> Below(ByNumber(i), <<Printed(raws[i])>>)])
     ELSE FlattenSeq([i \in DOMAIN nodes |-> Below(ByNumber(i), print[nodes[i]])])

print_json[n \in DOMAIN heap] ==
  IF heap[n].sort = "t" THEN JsonTable(print_json, n) ELSE JsonArray(print_json, n)

(* print_raw gives each value its type, and exits at one of no type.       *)
WithTypes(items) ==
  [i \in DOMAIN items |->
     [path |-> items[i].path,
      type |-> IF items[i].raw = {} THEN "abort" ELSE print_raw(CHOOSE r \in items[i].raw : TRUE)]]
UntilExit(items) ==
  SubSeq(items, 1, FirstOf(items, {i \in DOMAIN items : items[i].type = "exit"}) - 1)

toml_json == UntilExit(WithTypes(print_json[ROOT]))
=============================================================================
