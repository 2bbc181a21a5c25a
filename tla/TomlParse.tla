----------------------------- MODULE TomlParse ------------------------------
(***************************************************************************)
(* toml_parse of contrib/tomlc99/toml.c: the recursive descent over the    *)
(* tokens of a document, which builds a tree of tables and arrays and      *)
(* leaves by longjmp at the first error.  The document is chosen token by  *)
(* token, as next_token comes to it.                                       *)
(***************************************************************************)
EXTENDS TomlValues, FiniteSets

CONSTANTS Follows(_, _),    \* the tokens that may come after those read; the
                            \* second argument says whether a dot is one
          PATH_MAX          \* the most keys in a header, 10 in the code

ASSUME PathAssumption == PATH_MAX \in Nat \ {0}

VARIABLES text,     \* the tokens read so far
          tok,      \* the current token, or the wish for the next one
          pc,       \* the place in the parser's functions
          stack,    \* the tables and arrays that are open, outermost first
          heap,     \* every table and array, in the order of their creation
          curtab,   \* the table that the last header names
          key,      \* the key of the pair that is being read
          path,     \* the keys of the header that is being read
          lb,       \* the number of brackets that it began with
          result,   \* what the caller gets: a document, or an error
          freed     \* the nodes that xfree_tab and xfree_arr went through

vars == <<text, tok, pc, stack, heap, curtab, key, path, lb, result, freed>>
parsing == <<stack, heap, curtab, key, path, lb>>

Token(kind, word, eof) == [tok |-> kind, word |-> word, eof |-> eof]
Eof == Token("NEWLINE", <<>>, TRUE)
Read == Token("READ", <<>>, FALSE)
ReadDot == Token("READDOT", <<>>, FALSE)
Wishes == {Read, ReadDot}

ROOT == 1
NewTable(implicit) == [sort |-> "t", implicit |-> implicit, entries |-> <<>>]
NewArray(kind) == [sort |-> "a", kind |-> kind, type |-> "none", elems |-> <<>>]
Elem(word, id) == [word |-> word, id |-> id]
Entry(k, sort, word, id) == [key |-> k, sort |-> sort, word |-> word, id |-> id]
NoEntry == Entry(<<>>, "none", <<>>, 0)

(* The entries of a table under a key, by their sort.                      *)
Hits(tab, k, sort) ==
  LET entries == heap[tab].entries
  IN {n \in DOMAIN entries : entries[n].key = k /\ entries[n].sort = sort}
AtFirst(tab, found) == IF found = {} THEN NoEntry ELSE heap[tab].entries[Min(found)]

(* Mutated: the values are not looked through.                             *)
MutantCheckKey(tab, k) ==
  AtFirst(tab, IF Hits(tab, k, "a") # {} THEN Hits(tab, k, "a") ELSE Hits(tab, k, "t"))

(* The entry of a key: values are looked through first, then arrays, then  *)
(* tables.                                                                 *)
check_key(tab, k) ==
  AtFirst(tab, IF Hits(tab, k, "v") # {} THEN Hits(tab, k, "v")
               ELSE IF Hits(tab, k, "a") # {} THEN Hits(tab, k, "a") ELSE Hits(tab, k, "t"))

(* The heap with an entry more, and with the node it stands for.           *)
WithValue(h, tab, k, word) == [h EXCEPT ![tab].entries = Append(@, Entry(k, "v", word, 0))]
WithNode(h, tab, k, node) ==
  Append([h EXCEPT ![tab].entries = Append(@, Entry(k, node.sort, <<>>, Len(h) + 1))], node)
WithElem(h, arr, node) ==
  Append([h EXCEPT ![arr].elems = Append(@, Elem(<<>>, Len(h) + 1)), ![arr].kind = node.sort],
         node)

-----------------------------------------------------------------------------
Init == /\ text = <<>> /\ tok = Token("NEWLINE", <<>>, FALSE)
        /\ pc = "line" /\ stack = <<>>
        /\ heap = <<NewTable(FALSE)>> /\ curtab = ROOT
        /\ key = <<>> /\ path = <<>> /\ lb = 0
        /\ result = "none" /\ freed = <<>>

At(places, toks) == pc \in places /\ tok.tok \in toks
Goto(place, wish) == pc' = place /\ tok' = wish /\ UNCHANGED <<text, result, freed>>

(* longjmp: the tree stays as it is.                                       *)
Fail == Goto("error", tok)

(* The scanner does not come past a token of length 0: the end, or a       *)
(* string that begins with a character that nothing begins with.           *)
Stuck == text # <<>> /\ Last(text) \in {Eof, Token("STRING", <<>>, FALSE)}

NextToken ==
  /\ tok \in Wishes
  /\ \E t \in IF Stuck THEN {Last(text)} ELSE Follows(text, tok = ReadDot) :
       /\ tok' = t
       /\ text' = IF Stuck THEN text ELSE Append(text, t)
       /\ pc' = IF t.tok = "INVALID" THEN "error" ELSE pc
  /\ UNCHANGED <<parsing, result, freed>>

-----------------------------------------------------------------------------
(* The tokens that are no syntax error at a place.                         *)
Expected ==
  [line    |-> {"NEWLINE", "STRING", "LBRACKET"},
   equal   |-> {"EQUAL"},
   value   |-> {"STRING", "LBRACKET", "LBRACE"},
   endline |-> {"NEWLINE"},
   pair    |-> {"NEWLINE", "RBRACE", "STRING"},
   pairend |-> {"NEWLINE", "RBRACE", "COMMA"},
   elem    |-> {"NEWLINE", "RBRACKET", "STRING", "LBRACKET", "LBRACE"},
   elemend |-> {"NEWLINE", "RBRACKET", "COMMA"},
   path    |-> {"STRING"},
   pathsep |-> {"RBRACKET", "DOT"},
   close2  |-> {"RBRACKET"},
   closed  |-> {"NEWLINE"}]

SyntaxError ==
  /\ pc \in DOMAIN Expected /\ tok \notin Wishes
  /\ tok.tok \notin Expected[pc]
  /\ Fail /\ UNCHANGED parsing

(* The loop of toml_parse: the end of the document, an empty line, a pair  *)
(* or a header.  The token behind an empty line is read with its dots.     *)
Finish ==
  /\ At({"line"}, {"NEWLINE"}) /\ tok.eof
  /\ pc' = "done" /\ result' = "document"
  /\ UNCHANGED <<text, tok, parsing, freed>>

EmptyLine ==
  /\ At({"line"}, {"NEWLINE"}) /\ ~ tok.eof
  /\ Goto("line", ReadDot) /\ UNCHANGED parsing

(* SKIP_NEWLINES of parse_table and parse_array.                           *)
SkipNewline ==
  /\ At({"pair", "pairend", "elem", "elemend"}, {"NEWLINE"})
  /\ Goto(pc, Read) /\ UNCHANGED parsing

(* parse_keyval: the key, the equals sign and the value, in the innermost  *)
(* open table or in the one of the last header.                            *)
Pair ==
  /\ At({"line", "pair"}, {"STRING"})
  /\ key' = tok.word
  /\ Goto("equal", Read) /\ UNCHANGED <<stack, heap, curtab, path, lb>>

Equal ==
  /\ At({"equal"}, {"EQUAL"})
  /\ Goto("value", Read) /\ UNCHANGED parsing


Target == IF stack = <<>> THEN curtab ELSE Last(stack)

(* Where the parser goes on behind a value.                                *)
Behind(open) == IF open = <<>> THEN "endline"
                ELSE IF heap[Last(open)].sort = "t" THEN "pairend" ELSE "elemend"

(* A table that only a longer header made is made explicit, once.          *)
Implicit(e) == e.sort = "t" /\ heap[e.id].implicit

KeyRefused ==
  /\ At({"value"}, Expected.value)
  /\ \A k \in normalize_key(key) :
       LET e == check_key(Target, k)
       IN e # NoEntry /\ ~ (tok.tok = "LBRACE" /\ Implicit(e))
  /\ Fail /\ UNCHANGED parsing

Value ==
  /\ At({"value"}, {"STRING"})
  /\ \E k \in normalize_key(key) :
       /\ check_key(Target, k) = NoEntry
       /\ heap' = WithValue(heap, Target, k, tok.word)
  /\ Goto(Behind(stack), Read) /\ UNCHANGED <<stack, curtab, key, path, lb>>

ArrayValue ==
  /\ At({"value"}, {"LBRACKET"})
  /\ \E k \in normalize_key(key) :
       /\ check_key(Target, k) = NoEntry
       /\ heap' = WithNode(heap, Target, k, NewArray("none"))
  /\ stack' = Append(stack, Len(heap) + 1)
  /\ Goto("elem", Read) /\ UNCHANGED <<curtab, key, path, lb>>

TableValue ==
  /\ At({"value"}, {"LBRACE"})
  /\ \E k \in normalize_key(key) :
       LET e == check_key(Target, k)
       IN \/ /\ e = NoEntry
             /\ heap' = WithNode(heap, Target, k, NewTable(FALSE))
             /\ stack' = Append(stack, Len(heap) + 1)
          \/ /\ Implicit(e)
             /\ heap' = [heap EXCEPT ![e.id].implicit = FALSE]
             /\ stack' = Append(stack, e.id)
  /\ Goto("pair", Read) /\ UNCHANGED <<curtab, key, path, lb>>

(* Mutated: the newlines behind a pair are skipped as they are in arrays.  *)
MutantEndOfLine ==
  /\ At({"endline"}, {"NEWLINE"})
  /\ Goto("endline", Read) /\ UNCHANGED parsing

EndOfLine ==
  /\ At({"endline"}, {"NEWLINE"})
  /\ Goto("line", Read) /\ UNCHANGED parsing

(* A comma between pairs or elements; one behind the last is no error.     *)
Comma ==
  /\ At({"pairend", "elemend"}, {"COMMA"})
  /\ Goto(IF pc = "pairend" THEN "pair" ELSE "elem", Read) /\ UNCHANGED parsing

(* The end of the innermost open table or array.                           *)
Close ==
  /\ \/ At({"pair", "pairend"}, {"RBRACE"})
     \/ At({"elem", "elemend"}, {"RBRACKET"})
  /\ stack' = Front(stack)
  /\ Goto(Behind(Front(stack)), Read) /\ UNCHANGED <<heap, curtab, key, path, lb>>

-----------------------------------------------------------------------------
(* parse_array: all elements are values of one type, or all are arrays, or *)
(* all are tables.                                                         *)
ElemKind == CASE tok.tok = "STRING" -> "v" [] tok.tok = "LBRACKET" -> "a" [] tok.tok = "LBRACE" -> "t"
Fits(kind) == heap[Last(stack)].kind \in {"none", kind}

KindMismatch ==
  /\ At({"elem"}, {"STRING", "LBRACKET", "LBRACE"})
  /\ ~ Fits(ElemKind)
  /\ Fail /\ UNCHANGED parsing

(* Mutated: the type of a value is compared with nothing.                  *)
MutantElemValue ==
  /\ At({"elem"}, {"STRING"}) /\ Fits("v")
  /\ heap' = [heap EXCEPT ![Last(stack)].elems = Append(@, Elem(tok.word, 0)),
                          ![Last(stack)].kind = "v",
                          ![Last(stack)].type = valtype(tok.word)]
  /\ Goto("elemend", Read)
  /\ UNCHANGED <<stack, curtab, key, path, lb>>

(* A value is in the array before its type is compared.                    *)
ElemValue ==
  /\ At({"elem"}, {"STRING"}) /\ Fits("v")
  /\ LET arr == Last(stack)
         type == valtype(tok.word)
         first == heap[arr].elems = <<>>
     IN /\ heap' = [heap EXCEPT ![arr].elems = Append(@, Elem(tok.word, 0)),
                                ![arr].kind = "v",
                                ![arr].type = IF first THEN type ELSE @]
        /\ IF first \/ heap[arr].type = type THEN Goto("elemend", Read) ELSE Fail
  /\ UNCHANGED <<stack, curtab, key, path, lb>>

ElemNode ==
  /\ At({"elem"}, {"LBRACKET", "LBRACE"}) /\ Fits(ElemKind)
  /\ heap' = WithElem(heap, Last(stack),
                      IF ElemKind = "a" THEN NewArray("none") ELSE NewTable(FALSE))
  /\ stack' = Append(stack, Len(heap) + 1)
  /\ Goto(IF ElemKind = "a" THEN "elem" ELSE "pair", Read)
  /\ UNCHANGED <<curtab, key, path, lb>>

-----------------------------------------------------------------------------
(* parse_select and fill_tabpath: one bracket or two, and the keys.        *)
Header ==
  /\ At({"line"}, {"LBRACKET"})
  /\ lb' = 1 /\ path' = <<>>
  /\ Goto("select", ReadDot) /\ UNCHANGED <<stack, heap, curtab, key>>

SecondBracket ==
  /\ pc = "select" /\ tok \notin Wishes
  /\ IF tok.tok = "LBRACKET" THEN lb' = 2 /\ Goto("path", ReadDot)
     ELSE lb' = 1 /\ Goto("path", tok)
  /\ UNCHANGED <<stack, heap, curtab, key, path>>

PathKey ==
  /\ At({"path"}, {"STRING"})
  /\ IF Len(path) >= PATH_MAX \/ normalize_key(tok.word) = {}
     THEN Fail /\ UNCHANGED path
     ELSE /\ \E k \in normalize_key(tok.word) : path' = Append(path, k)
          /\ Goto("pathsep", ReadDot)
  /\ UNCHANGED <<stack, heap, curtab, key, lb>>

PathSep ==
  /\ At({"pathsep"}, {"RBRACKET", "DOT"})
  /\ IF tok.tok = "DOT" THEN Goto("path", ReadDot) /\ UNCHANGED curtab
     ELSE Goto("walk", tok) /\ curtab' = ROOT
  /\ UNCHANGED <<stack, heap, key, path, lb>>

(* walk_tabpath: all keys but the last lead from table to table.  An array *)
(* leads to its last table; a table that is missing is made implicitly.    *)
WalkStep ==
  /\ pc = "walk" /\ Len(path) > 1
  /\ LET e == check_key(curtab, Head(path))
     IN CASE e = NoEntry ->
               /\ heap' = WithNode(heap, curtab, Head(path), NewTable(TRUE))
               /\ curtab' = Len(heap) + 1
               /\ path' = Tail(path) /\ Goto("walk", tok)
          [] e.sort = "t" ->
               /\ curtab' = e.id
               /\ path' = Tail(path) /\ Goto("walk", tok) /\ UNCHANGED heap
          [] e.sort = "a" /\ heap[e.id].kind = "t" /\ heap[e.id].elems # <<>> ->
               /\ curtab' = Last(heap[e.id].elems).id
               /\ path' = Tail(path) /\ Goto("walk", tok) /\ UNCHANGED heap
          [] OTHER -> Fail /\ UNCHANGED <<heap, curtab, path>>
  /\ UNCHANGED <<stack, key, lb>>

(* [x.y.z] makes the table z, or makes it explicit.                        *)
SelectTable ==
  /\ pc = "walk" /\ Len(path) = 1 /\ lb = 1
  /\ LET e == check_key(curtab, path[1])
     IN CASE e = NoEntry ->
               /\ heap' = WithNode(heap, curtab, path[1], NewTable(FALSE))
               /\ curtab' = Len(heap) + 1 /\ Goto("closed", Read)
          [] Implicit(e) ->
               /\ heap' = [heap EXCEPT ![e.id].implicit = FALSE]
               /\ curtab' = e.id /\ Goto("closed", Read)
          [] OTHER -> Fail /\ UNCHANGED <<heap, curtab>>
  /\ UNCHANGED <<stack, key, path, lb>>

(* [[x.y.z]] adds a table to the array z, which it makes if need be.       *)
SelectArray ==
  /\ pc = "walk" /\ Len(path) = 1 /\ lb = 2
  /\ LET e == check_key(curtab, path[1])
     IN CASE e = NoEntry ->
               /\ heap' = WithElem(WithNode(heap, curtab, path[1], NewArray("t")),
                                   Len(heap) + 1, NewTable(FALSE))
               /\ curtab' = Len(heap) + 2 /\ Goto("close2", Read)
          [] e.sort = "a" /\ heap[e.id].kind \in {"none", "t"} ->
               /\ heap' = WithElem(heap, e.id, NewTable(FALSE))
               /\ curtab' = Len(heap) + 1 /\ Goto("close2", Read)
          [] OTHER -> Fail /\ UNCHANGED <<heap, curtab>>
  /\ UNCHANGED <<stack, key, path, lb>>

CloseHeader ==
  /\ \/ At({"close2"}, {"RBRACKET"}) /\ Goto("closed", Read)
     \/ At({"closed"}, {"NEWLINE"}) /\ Goto("line", tok)
  /\ UNCHANGED parsing

-----------------------------------------------------------------------------
(* The trees that walk_tabpath and parse_select leave when strdup finds no *)
(* room: a table that was allocated is in none, and the array that it was  *)
(* for may be new.                                                         *)
Lost ==
  LET e == check_key(curtab, path[1])
  IN IF Len(path) > 1 THEN {Append(heap, NewTable(TRUE)) : x \in {e} \intersect {NoEntry}}
     ELSE LET with == IF e = NoEntry THEN {WithNode(heap, curtab, path[1], NewArray("t"))}
                      ELSE {heap : x \in {"a"} \intersect {e.sort}}
          IN {h \in with \union {Append(w, NewTable(FALSE)) : w \in with} : lb = 2}

(* An allocation fails.  Otherwise the tree is as it was, but for a pair   *)
(* that has no value yet.                                                  *)
OutOfMemory ==
  /\ \/ pc \in {"value", "elem", "path"} /\ tok.tok \in Expected[pc] \ {"NEWLINE", "RBRACKET"}
     \/ pc = "walk"
  /\ pc' = "nomemory"
  /\ \/ UNCHANGED heap
     \/ pc = "walk" /\ heap' \in Lost
  /\ UNCHANGED <<text, tok, stack, curtab, key, path, lb, result, freed>>

(* The entries of one sort that a table has, and the nodes they stand for. *)
EntriesOf(node, sort) ==
  FlattenSeq([k \in DOMAIN node.entries |->
                IF node.entries[k].sort = sort THEN <<node.entries[k]>> ELSE <<>>])
EntryNodes(node, sort) ==
  [i \in DOMAIN EntriesOf(node, sort) |-> EntriesOf(node, sort)[i].id]

(* Mutated: xfree_arr has no case for the arrays of an array.              *)
MutantChildren(node) ==
  IF node.sort = "t" THEN EntryNodes(node, "a") \o EntryNodes(node, "t")
  ELSE IF node.kind = "t" THEN [k \in DOMAIN node.elems |-> node.elems[k].id]
  ELSE <<>>

(* The nodes below one, in the order in which xfree_tab and xfree_arr come *)
(* to them.                                                                *)
Children(node) ==
  IF node.sort = "t" THEN EntryNodes(node, "a") \o EntryNodes(node, "t")
  ELSE IF node.kind \in {"a", "t"} THEN [k \in DOMAIN node.elems |-> node.elems[k].id]
  ELSE <<>>

(* The nodes in the order in which toml_free comes to their end.           *)
toml_free(h) ==
  LET free[n \in DOMAIN h] ==
        LET below == Children(h[n])
        IN FlattenSeq([k \in DOMAIN below |-> free[below[k]]]) \o <<n>>
  IN free[ROOT]

(* An error gives the tree back at once, a document when the caller does.  *)
Free ==
  /\ pc \in {"error", "nomemory", "done"}
  /\ freed' = toml_free(heap)
  /\ result' = CASE pc = "error" -> "error" [] pc = "nomemory" -> "nomemory" [] OTHER -> result
  /\ pc' = "freed"
  /\ UNCHANGED <<text, tok, parsing>>

Next == \/ NextToken \/ SyntaxError \/ Finish \/ EmptyLine \/ SkipNewline
        \/ Pair \/ Equal \/ KeyRefused \/ Value \/ ArrayValue \/ TableValue
        \/ EndOfLine \/ Comma \/ Close \/ KindMismatch \/ ElemValue \/ ElemNode
        \/ Header \/ SecondBracket \/ PathKey \/ PathSep
        \/ WalkStep \/ SelectTable \/ SelectArray \/ CloseHeader
        \/ OutOfMemory \/ Free

Spec == Init /\ [][Next]_vars

-----------------------------------------------------------------------------
Building == pc \notin {"error", "nomemory", "freed"}

(* All elements of an array are of one kind, and its values of the type it *)
(* is said to have: toml_array_kind and toml_array_type tell it for all.   *)
Uniform(arr) ==
  /\ arr.kind = "none" => arr.elems = <<>>
  /\ \A k \in DOMAIN arr.elems :
       LET e == arr.elems[k]
       IN IF arr.kind = "v" THEN e.id = 0 /\ valtype(e.word) = arr.type
          ELSE e.id \in DOMAIN heap /\ heap[e.id].sort = arr.kind

(* The types of the variables.  While a document is read, its arrays are   *)
(* uniform and what is open is in the tree: the nodes of an entry and of   *)
(* an element are of the sort that they are taken for.                     *)
TypeOK ==
  /\ curtab \in DOMAIN heap /\ Range(stack) \subseteq DOMAIN heap
  /\ heap[curtab].sort = "t" /\ lb \in 0 .. 2 /\ Len(path) <= PATH_MAX
  /\ result \in {"none", "document", "error", "nomemory"}
  /\ Building => \A n \in DOMAIN heap :
       IF heap[n].sort = "a" THEN Uniform(heap[n])
       ELSE \A k \in DOMAIN heap[n].entries :
              LET e == heap[n].entries[k]
              IN e.sort # "v" => heap[e.id].sort = e.sort

(* toml_free, and with it each way out by longjmp, gives every table and   *)
(* array back, and none twice.  One table is lost at most, and only where  *)
(* memory ran out between its allocation and that of its key.              *)
ReleasesAll ==
  pc = "freed" =>
    /\ Len(freed) = Cardinality(Range(freed))
    /\ Range(freed) \subseteq DOMAIN heap
    /\ Len(freed) >= IF result = "nomemory" THEN Len(heap) - 1 ELSE Len(heap)
FairSpec == Spec /\ WF_vars(Next)
=============================================================================
