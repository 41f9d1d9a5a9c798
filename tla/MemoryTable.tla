----------------------------- MODULE MemoryTable -----------------------------
(***************************************************************************)
(* The table of frames src/memory.c keeps while code is generated: a list  *)
(* of functions, each a list of variables.  A variable's index is its      *)
(* place in the list, from 0; the insertion of an argument renumbers those *)
(* after it, so the index is not stored.                                   *)
(***************************************************************************)
EXTENDS Integers, Sequences, SequencesExt

Variable(name, type) == [name |-> name, type |-> type]
Frame(name) == [name |-> name, vars |-> <<>>]

\* The frame of the global variables and that of pending arguments.
initialize_memory == <<Frame("global"), Frame("parametros")>>

IsArgument(var) == var.type \in {"VAR_INT_ARG", "VAR_ARRAY_ARG"}

\* Variant: arguments are put at the head, the last one first.
insert_variable_AtHead(frame, name, type) ==
  LET var == Variable(name, type)
  IN  [frame EXCEPT !.vars = IF IsArgument(var) THEN <<var>> \o @ ELSE Append(@, var)]

\* An argument goes after those that are there, anything else to the end.
insert_variable(frame, name, type) ==
  LET var   == Variable(name, type)
      other == SelectInSeq(frame.vars, LAMBDA v : ~ IsArgument(v))
  IN  [frame EXCEPT !.vars =
         IF IsArgument(var) /\ other # 0 THEN InsertAt(@, other, var) ELSE Append(@, var)]

Linkage ==
  <<Variable("Vinculo Controle", "VAR_CONTROL"), Variable("Endereco Retorno", "VAR_RETURN"),
    Variable("Valor Retorno", "VAR_RETURN"), Variable("Registrador Temporario", "VAR_INT"),
    Variable("Registrador $fp", "VAR_INT"), Variable("Registrador $sp", "VAR_INT")>>

insert_function(memory, name) == Append(memory, [name |-> name, vars |-> Linkage])

\* A function is referred to by its place in the list; 0 stands for NULL.
search_function(memory, name) == SelectInSeq(memory, LAMBDA frame : frame.name = name)

Size(memory, name) == Len(memory[search_function(memory, name)].vars)

get_sp(frame) == IF frame.vars = <<>> THEN 0 ELSE Len(frame.vars) - 1

\* The index of the first variable of a name in a frame, -1 if there is none.
IndexIn(frame, name) == SelectInSeq(frame.vars, LAMBDA v : v.name = name) - 1

\* Variant: the frames are searched from the global one.
get_variable_FromGlobal(memory, f, name) ==
  LET holder == SelectInSeq(memory, LAMBDA frame : IndexIn(frame, name) >= 0)
  IN  [index |-> IndexIn(memory[holder], name), is_global |-> holder = 1,
       type |-> memory[holder].vars[IndexIn(memory[holder], name) + 1].type]

\* From the frame of function f to the end of the list, then from the global one.
get_variable(memory, f, name) ==
  LET order  == [k \in 1..(Len(memory) - f + 1) |-> f + k - 1] \o [k \in 1..Len(memory) |-> k]
      holder == order[SelectInSeq(order, LAMBDA g : IndexIn(memory[g], name) >= 0)]
      frame  == memory[holder]
  IN  [index |-> IndexIn(frame, name), is_global |-> frame.name = "global",
       type |-> frame.vars[IndexIn(frame, name) + 1].type]

\* The latest argument has been used.
delete_temp(frame) ==
  IF frame.vars # <<>> /\ Last(frame.vars).name = "Param"
  THEN [frame EXCEPT !.vars = Front(@)] ELSE frame

=============================================================================
