---------------------------- MODULE SymbolTable ----------------------------
(***************************************************************************)
(* The symbol table (src/tab.c).  Items of a bucket are chained in the     *)
(* order they were inserted and every search passes over the items of      *)
(* another name, so the table is modelled by the chain of each name.  A    *)
(* search returns the place of an item in the chain, 0 for NULL.           *)
(***************************************************************************)
EXTENDS Naturals, Sequences, SequencesExt

CONSTANTS
  Names,      \* identifiers a program may use
  Global,     \* the scope "global"
  Builtin     \* [name -> "INT" or "VOID"], the functions main.c inserts

ASSUME GlobalAssumption == Global \notin Names
ASSUME BuiltinAssumption ==
  /\ DOMAIN Builtin \subseteq Names
  /\ \A b \in DOMAIN Builtin : Builtin[b] \in {"INT", "VOID"}

Scopes == Names \cup {Global}

Scalars == {"VAR", "PARAM_VAR"}
Arrays == {"ARRAY", "PARAM_ARRAY"}
VariableTypes == Scalars \cup Arrays     \* is_variable_type
DeclTypes == VariableTypes \cup {"FUNC"}

\* A line is the number of the node of the program it was reported for.
create_new_item(id_type, data_type, scope, line) ==
  [id_type |-> id_type, data_type |-> data_type, scope |-> scope, lines |-> <<line>>]

add_line(table, name, i, line) ==
  [table EXCEPT ![name][i].lines = Append(@, line)]

InScope(item, scope) == item.scope \in {scope, Global}

\* The built-in functions are global and have line 0.
BuiltinTable ==
  [n \in Names |-> IF n \in DOMAIN Builtin
                   THEN <<create_new_item("FUNC", Builtin[n], Global, 0)>>
                   ELSE <<>>]

-----------------------------------------------------------------------------
search_symbol_id(table, name) == IF table[name] = <<>> THEN 0 ELSE 1

search_symbol_func(table, name) ==
  SelectInSeq(table[name], LAMBDA item : item.id_type = "FUNC")

\* Variant: the first item of the name.
search_symbol_any_First(table, name, scope) == search_symbol_id(table, name)

search_symbol_any(table, name, scope) ==
  SelectInSeq(table[name], LAMBDA item : InScope(item, scope))

\* Variant: any item of the name and kind.
search_symbol_expr_AnyScope(table, name, scope, expr_type) ==
  LET expected == IF expr_type = "ELEMENT" THEN Arrays ELSE Scalars
  IN  IF expr_type = "CALL"
      THEN search_symbol_func(table, name)
      ELSE SelectInSeq(table[name], LAMBDA item : item.id_type \in expected)

\* What a use of a name in an expression refers to.
search_symbol_expr(table, name, scope, expr_type) ==
  LET expected == IF expr_type = "ELEMENT" THEN Arrays ELSE Scalars
  IN  IF expr_type = "CALL"
      THEN search_symbol_func(table, name)
      ELSE SelectInSeq(table[name], LAMBDA item : item.id_type \in expected /\ InScope(item, scope))

\* Variant: local names hide functions.
search_symbol_ScopeOnly(table, name, scope, id_type) ==
  IF id_type = "FUNC"
  THEN search_symbol_id(table, name)
  ELSE SelectInSeq(table[name], LAMBDA item : InScope(item, scope))

\* What a declaration of a name would conflict with.
search_symbol(table, name, scope, id_type) ==
  IF id_type = "FUNC"
  THEN search_symbol_id(table, name)
  ELSE SelectInSeq(table[name], LAMBDA item : InScope(item, scope) \/ item.id_type = "FUNC")

\* Variant: the two types swapped.
insert_symbol_Swapped(table, id_type, data_type, name, scope, line) ==
  LET same == SelectInSeq(table[name], LAMBDA item : InScope(item, scope))
  IN  IF same # 0
      THEN add_line(table, name, same, line)
      ELSE [table EXCEPT ![name] = Append(@, create_new_item(data_type, id_type, scope, line))]

\* An item of the same scope, or a global one, only gets another line.
insert_symbol(table, id_type, data_type, name, scope, line) ==
  LET same == SelectInSeq(table[name], LAMBDA item : InScope(item, scope))
  IN  IF same # 0
      THEN add_line(table, name, same, line)
      ELSE [table EXCEPT ![name] = Append(@, create_new_item(id_type, data_type, scope, line))]

=============================================================================
