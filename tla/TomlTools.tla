----------------------------- MODULE TomlTools ------------------------------
(***************************************************************************)
(* What toml_json and toml_cat print of a document: all that it says, once *)
(* each.  DocumentExact relates the document to the text.                  *)
(***************************************************************************)
EXTENDS TomlTree, TomlJson, TomlCat

Values == {x \in Contents(heap) : x.sort = "v"}

(* The type of a value as the parser has it, in the words of toml_json.    *)
TypeWord(word) ==
  CASE valtype(word) = "s" -> "string"
    [] valtype(word) = "i" -> "integer"
    [] valtype(word) = "b" -> "bool"
    [] valtype(word) = "d" -> "float"
    [] valtype(word) = "T" -> "datetime"
    [] valtype(word) = "D" -> "date"
    [] valtype(word) = "t" -> "time"

(* toml_json prints every value once, with the type that the parser        *)
(* compared in arrays, though it tries the types in another order; and all *)
(* of them unless there is one that it exits at, which has no type or is a *)
(* string that cannot be read.                                             *)
JsonPrintsAll ==
  pc = "done" =>
    LET typed == {x \in Values : print_raw(x.word) # "exit"}
        wanted == {[path |-> x.path, type |-> TypeWord(x.word)] : x \in typed}
    IN /\ Range(toml_json) \subseteq wanted
       /\ Len(toml_json) = Cardinality(Range(toml_json))
       /\ typed = Values => Range(toml_json) = wanted
       /\ \A x \in Values \ typed : valtype(x.word) \in {"s", "u"}

(* The titles above a line, and whether the last of them is that of the    *)
(* table which a pair is in.                                               *)
Titles(lines, i) == {t \in 1 .. i : lines[t].line = "title"}
Keys(way) == [k \in DOMAIN way |-> way[k].key]
Plain(way) == \A k \in DOMAIN way : way[k].at = 0
UnderTitle(lines, i) ==
  Keys(Front(lines[i].path)) =
    IF Titles(lines, i) = {} THEN <<>> ELSE lines[Max(Titles(lines, i))].keys

(* How many tables there are from the root to the end of a way that a key  *)
(* leads to: those on the stack of toml_cat.                               *)
ByTables(way) ==
  {k \in DOMAIN way : way[k].at = 0 /\ (k + 1 \in DOMAIN way => way[k + 1].at = 0)}
Deep ==
  \E x \in Contents(heap) : /\ x.sort = "t" /\ Last(x.path).at = 0
                           /\ Cardinality(ByTables(x.path)) >= STACK_MAX

(* toml_cat does not come to its abort(), and writes behind the end of its *)
(* stack exactly where the document nests STACK_MAX tables or more; it     *)
(* prints no value twice, every one of them if its stack is long enough,   *)
(* and a pair of a table that no array leads to below the title of that    *)
(* table.                                                                  *)
CatPrintsAll ==
  pc = "done" =>
    LET lines == toml_cat
        values == {i \in DOMAIN lines : lines[i].line = "value"}
        printed == {lines[i].path : i \in values}
        wanted == {x.path : x \in Values}
    IN /\ \A i \in DOMAIN lines : lines[i].line # "abort"
       /\ Deep <=> \E i \in DOMAIN lines : lines[i].line = "overrun"
       /\ printed \subseteq wanted
       /\ Cardinality(values) = Cardinality(printed)
       /\ ~ Deep => printed = wanted
       /\ \A i \in values : Plain(lines[i].path) => UnderTitle(lines, i)
=============================================================================
