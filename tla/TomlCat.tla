------------------------------ MODULE TomlCat -------------------------------
(***************************************************************************)
(* contrib/tomlc99/toml_cat.c: a document printed as TOML again.  The      *)
(* output is a sequence of titles, [x.y] or [[x.y]], and of values with    *)
(* the way to them.  The keys of the tables around a line are on a global  *)
(* stack, which is not checked: behind its end nothing is defined.         *)
(***************************************************************************)
EXTENDS TomlAccess

CONSTANT STACK_MAX          \* the places of the stack

ASSUME StackAssumption == STACK_MAX \in Nat \ {0}

(* print_table_title with an empty stack above the table.                  *)
Title(arrname) == [line |-> "title", path |-> <<>>, keys |-> <<>>, arrname |-> arrname]
ValueLine == [line |-> "value", path |-> <<>>]
AbortCat == [line |-> "abort", path |-> <<>>]
Overrun == [line |-> "overrun", path |-> <<>>]

(* Mutated: the key is off the stack before what is in the table is        *)
(* printed.                                                                *)
MutantPushed(k, lines) ==
  [i \in DOMAIN lines |-> IF i = 1 THEN [lines[i] EXCEPT !.keys = <<k>> \o @] ELSE lines[i]]

(* The lines of a table, with its key on the stack.                        *)
Pushed(k, lines) ==
  [i \in DOMAIN lines |->
     IF lines[i].line = "title" THEN [lines[i] EXCEPT !.keys = <<k>> \o @] ELSE lines[i]]

(* The tables of an array that has the key k: print_array_of_tables.       *)
CatTables(print, arr, k) ==
  LET tabs == toml_table_at(arr)
  IN FlattenSeq([i \in DOMAIN tabs |-> Below(ByNumber(i), <<Title({k})>> \o print[tabs[i]])])

(* print_table, for one key and for all of them, and print_array.          *)
CatEntry(print, table, k) ==
  LET arr == toml_array_in(table, k)
      tab == toml_table_in(table, k)
      a == CHOOSE x \in arr : TRUE
  IN IF toml_raw_in(table, k) # {} THEN <<ValueLine>>
     ELSE IF arr # {} THEN IF toml_array_kind(a) = "t" THEN CatTables(print, a, k) ELSE print[a]
     ELSE IF tab # {} THEN Pushed(k, <<Title({})>> \o print[CHOOSE t \in tab : TRUE])
     ELSE <<AbortCat>>

CatTable(print, table) ==
  LET keys == toml_key_in(table)
  IN FlattenSeq([i \in DOMAIN keys |-> Below(ByKey(keys[i]), CatEntry(print, table, keys[i]))])

CatArray(print, arr) ==
  LET values == toml_raw_at(arr)
      nodes == IF toml_array_kind(arr) = "t" THEN toml_table_at(arr) ELSE toml_array_at(arr)
  IN IF toml_array_kind(arr) = "v"
     THEN FlattenSeq([i \in DOMAIN values |-> Below(ByNumber(i), <<ValueLine>>)])
     ELSE FlattenSeq([i \in DOMAIN nodes |-> Below(ByNumber(i), print[nodes[i]])])

print_toml[n \in DOMAIN heap] ==
  IF heap[n].sort = "t" THEN CatTable(print_toml, n) ELSE CatArray(print_toml, n)

(* The root has place 0 of the stack, and a table below n - 1 others that  *)
(* keys lead to has place n, which is written before the table's title is. *)
Overruns(lines) ==
  {i \in DOMAIN lines : /\ lines[i].line = "title" /\ lines[i].arrname = {}
                        /\ Len(lines[i].keys) >= STACK_MAX}

(* What main prints, as far as that is defined.                            *)
toml_cat ==
  LET lines == print_toml[ROOT]
  IN IF Overruns(lines) = {} THEN lines
     ELSE Append(SubSeq(lines, 1, FirstOf(lines, Overruns(lines)) - 1), Overrun)
=============================================================================
