----------------------------- MODULE TomlPrint ------------------------------
(***************************************************************************)
(* What contrib/tomlc99/toml_json.c prints for one value.                  *)
(***************************************************************************)
EXTENDS TomlValues

(* The escaped form of one character.                                      *)
EscapeOf(c) ==
  IF \E e \in ESCAPES : Unescaped[e] = c
  THEN <<BS, CHOOSE e \in ESCAPES : Unescaped[e] = c>>
  ELSE <<c>>

(* Mutated: a backslash is printed as it is.                               *)
MutantEscapeString(s) ==
  FlattenSeq([k \in DOMAIN s |-> IF s[k] = BS THEN <<BS>> ELSE EscapeOf(s[k])])

print_escape_string(s) == FlattenSeq([k \in DOMAIN s |-> EscapeOf(s[k])])

(* The type that is printed for a raw value: the readers are tried in      *)
(* turn.  A timestamp without any field prints nothing, and "exit" stands  *)
(* for an unknown type, at which the program ends.                         *)
print_raw(s) ==
  IF toml_rtos(s) # {} THEN "string"
  ELSE IF toml_rtoi(s) # {} THEN "integer"
  ELSE IF toml_rtob(s) # {} THEN "bool"
  ELSE IF toml_rtod(s) THEN "float"
  ELSE LET read == toml_rtots(s)
       IN IF read = {} THEN "exit"
          ELSE LET ts == CHOOSE r \in read : TRUE
               IN IF ts.date # <<>> /\ ts.time # <<>> THEN "datetime"
                  ELSE IF ts.date # <<>> THEN "date"
                  ELSE IF ts.time # <<>> THEN "time"
                  ELSE "nothing"
=============================================================================
