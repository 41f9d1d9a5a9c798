------------------------------ MODULE Semantic ------------------------------
(***************************************************************************)
(* Semantic analysis (src/semantic.c), driven by main.c, and the code      *)
(* generator's later searches of the same table (src/codeGen.c).  The      *)
(* program is chosen as it is traversed, one node a step; the nodes are    *)
(* kept, so that code generation meets the same program and the properties *)
(* can say what the program meant.                                         *)
(***************************************************************************)
EXTENDS FiniteSets, SymbolTable

CONSTANTS
  Main,       \* the name "main"
  MaxNodes,   \* bound on the nodes of a program
  MaxArgs,    \* bound on the arguments of a call
  MaxSize,    \* bound on the nodes and arguments of a program, together
  MaxErrors   \* bound on the errors after which the traversal goes on

ASSUME MainAssumption == Main \in Names
ASSUME BoundsAssumption == {MaxNodes, MaxArgs, MaxSize, MaxErrors} \subseteq Nat

VARIABLES
  hash_table,
  semantic_errors,
  program,     \* nodes traversed, in order
  scope,       \* aux_scope: the function being traversed, or Global
  header,      \* TRUE while parameters may follow
  phase,       \* "analysis", then "generation" or "rejected"
  generated,   \* nodes the code generator has passed
  func_name,   \* its current function
  code         \* what it emitted after a search of the table

vars == <<hash_table, semantic_errors, program, scope, header, phase,
          generated, func_name, code>>

\* Arguments: a name, an expression over a variable, an array element, or a
\* call without arguments.  The nodes of the second and third have a child.
Complex == {"EXPRESSION", "ELEMENT"}
Arguments == [op : {"IDENTIFIER", "CALL"} \cup Complex, name : Names]

Node(op, type, name, args) ==
  [op |-> op, type |-> type, name |-> name, scope |-> scope, args |-> args]
Line == Len(program) + 1

-----------------------------------------------------------------------------
\* A visit turns the table and the count of errors into new ones.
Current == [table |-> hash_table, errors |-> semantic_errors]

show_semantic_error(st) == [st EXCEPT !.errors = @ + 1]

RecordUse(st, name, i) ==
  IF i = 0 THEN show_semantic_error(st) ELSE [st EXCEPT !.table = add_line(@, name, i, Line)]

\* Of a call, its arguments left out.
traverse_expr(st, node) ==
  RecordUse(st, node.name, search_symbol_expr(st.table, node.name, scope, node.op))

\* Variant: an argument is any other operand.
func_call_Operand(st, arg) == traverse_expr(st, arg)

\* The first item that is a function, or in scope, decides: a function is an error.
func_call(st, arg) ==
  LET chain == st.table[arg.name]
      i == SelectInSeq(chain, LAMBDA item : item.id_type = "FUNC" \/ InScope(item, scope))
  IN  IF arg.op = "CALL"
      THEN traverse_expr(st, arg)
      ELSE RecordUse(st, arg.name, IF i # 0 /\ chain[i].id_type = "FUNC" THEN 0 ELSE i)

\* traverse_tree of a complex argument goes on to its siblings, the arguments after it.
VisitSiblings(st0, args, first) ==
  LET visited[k \in (first - 1)..Len(args)] ==
        IF k < first THEN st0 ELSE traverse_expr(visited[k - 1], args[k])
  IN  visited[Len(args)]

VisitArguments(st0, args) ==
  LET visited[k \in 0..Len(args)] ==
        IF k = 0 THEN st0
        ELSE IF args[k].op \in Complex THEN VisitSiblings(visited[k - 1], args, k)
        ELSE func_call(visited[k - 1], args[k])
  IN  visited[Len(args)]

validate_function_call(st, name, args) ==
  VisitArguments(traverse_expr(st, [op |-> "CALL", name |-> name]), args)

validate_assignment(st, name) ==
  LET i == search_symbol_func(st.table, name)
  IN  IF i # 0 /\ st.table[name][i].data_type = "VOID" THEN show_semantic_error(st) ELSE st

\* TRUE where the declaration conflicts with no other.
search_equal(st, name, where, id_type) ==
  LET i == search_symbol(st.table, name, where, id_type)
  IN  \/ i = 0
      \/ /\ {id_type, st.table[name][i].id_type} \subseteq VariableTypes
         /\ ~ InScope(st.table[name][i], where)

\* process_variable_decl and validate_parameter.
DeclareVariable(st, id_type, type, name, line) ==
  IF type = "INT" /\ search_equal(st, name, scope, id_type)
  THEN [st EXCEPT !.table = insert_symbol(@, id_type, "INT", name, scope, line)]
  ELSE show_semantic_error(st)

process_function_decl(st, type, name) ==
  IF search_equal(st, name, name, "FUNC")
  THEN [st EXCEPT !.table = insert_symbol(@, "FUNC", type, name, name, Line)]
  ELSE show_semantic_error(st)

-----------------------------------------------------------------------------
Init ==
  /\ hash_table = BuiltinTable
  /\ semantic_errors = 0
  /\ program = <<>>
  /\ scope = Global
  /\ header = FALSE
  /\ phase = "analysis"
  /\ generated = 0
  /\ func_name = Global
  /\ code = <<>>

\* The program may grow by a node with n arguments.
ArgumentsOf(nodes) == {p \in (DOMAIN nodes) \X (1..MaxArgs) : p[2] <= Len(nodes[p[1]].args)}
Room(n) == Len(program) + Cardinality(ArgumentsOf(program)) + n < MaxSize

Traverse(node, st) ==
  /\ phase = "analysis"
  /\ Len(program) < MaxNodes
  /\ Room(Len(node.args))
  /\ semantic_errors < MaxErrors
  /\ program' = Append(program, node)
  /\ hash_table' = st.table
  /\ semantic_errors' = st.errors
  /\ UNCHANGED <<phase, generated, func_name, code>>

DeclareFunction ==
  /\ scope = Global
  /\ \E name \in Names, type \in {"INT", "VOID"} :
       /\ Traverse(Node("FUNC", type, name, <<>>), process_function_decl(Current, type, name))
       /\ scope' = name
  /\ header' = TRUE

\* A parameter gets the line of its function.
DeclareParameter ==
  /\ header
  /\ \E name \in Names, type \in {"INT", "VOID"}, id_type \in {"PARAM_VAR", "PARAM_ARRAY"} :
       LET function == SelectLastInSeq(program, LAMBDA node : node.op = "FUNC")
       IN  Traverse(Node(id_type, type, name, <<>>),
                    DeclareVariable(Current, id_type, type, name, function))
  /\ UNCHANGED <<scope, header>>

DeclareLocalOrGlobal ==
  /\ \E name \in Names, type \in {"INT", "VOID"}, id_type \in {"VAR", "ARRAY"} :
       Traverse(Node(id_type, type, name, <<>>),
                DeclareVariable(Current, id_type, type, name, Line))
  /\ header' = FALSE
  /\ UNCHANGED scope

Use ==
  /\ scope # Global
  /\ \E name \in Names, op \in {"IDENTIFIER", "ELEMENT"} :
       LET node == Node(op, "INT", name, <<>>) IN Traverse(node, traverse_expr(Current, node))
  /\ header' = FALSE
  /\ UNCHANGED scope

\* A call that is a statement or an operand.
Call ==
  /\ scope # Global
  /\ \E name \in Names : \E n \in {k \in 0..MaxArgs : Room(k)} : \E args \in [1..n -> Arguments] :
       Traverse(Node("CALL", "INT", name, args), validate_function_call(Current, name, args))
  /\ header' = FALSE
  /\ UNCHANGED scope

\* target = name(): the node of the assignment first, then its children.
AssignCall ==
  /\ scope # Global
  /\ \E name, target \in Names :
       LET left == [op |-> "IDENTIFIER", name |-> target]
           st == traverse_expr(validate_assignment(Current, name), left)
       IN  Traverse(Node("ASSIGN", "INT", name, <<left>>), validate_function_call(st, name, <<>>))
  /\ header' = FALSE
  /\ UNCHANGED scope

\* The siblings of a function are traversed with the scope of the function's own.
EndFunction ==
  /\ phase = "analysis"
  /\ scope # Global
  /\ semantic_errors < MaxErrors
  /\ scope' = Global
  /\ header' = FALSE
  /\ UNCHANGED <<hash_table, semantic_errors, program, phase, generated, func_name, code>>

\* main.c: there must be a main, and no code is generated after an error.
FinishAnalysis ==
  LET no_main == search_symbol_expr(hash_table, Main, Global, "CALL") = 0
  IN  /\ phase = "analysis"
      /\ scope = Global
      /\ program # <<>>
      /\ semantic_errors' = IF no_main THEN semantic_errors + 1 ELSE semantic_errors
      /\ phase' = IF semantic_errors' = 0 THEN "generation" ELSE "rejected"
      /\ UNCHANGED <<hash_table, program, scope, header, generated, func_name, code>>

-----------------------------------------------------------------------------
Emit(op, as, arg) == [node |-> generated + 1, op |-> op, as |-> as, arg |-> arg]

\* Variant: the last item of the name.
AllocScope_Last(name) ==
  LET chain == hash_table[name]
  IN  IF chain[Len(chain)].scope = Global THEN Global ELSE func_name

\* The scope given to ALLOC.
AllocScope(name) ==
  LET i == search_symbol_id(hash_table, name)
  IN  IF hash_table[name][i].scope = Global THEN Global ELSE func_name

\* An array is passed by its address.
EmitParam(args, k) ==
  LET arg == args[k]
      i == search_symbol_any(hash_table, arg.name, func_name)
      array == arg.op \notin Complex /\ i # 0 /\ hash_table[arg.name][i].id_type \in Arrays
  IN  Emit("PARAM", IF array THEN "VET" ELSE "INT", k)

\* Only a function declared INT gives the call a register for its result.
EmitCall(name) ==
  Emit("CALL", hash_table[name][search_symbol_func(hash_table, name)].data_type, 0)

Generate(ops) ==
  /\ phase = "generation"
  /\ generated < Len(program)
  /\ program[generated + 1].op \in ops
  /\ generated' = generated + 1
  /\ UNCHANGED <<hash_table, semantic_errors, program, scope, header, phase>>

GenerateFunction ==
  /\ Generate({"FUNC"})
  /\ func_name' = program[generated + 1].name
  /\ UNCHANGED code

GenerateAlloc ==
  /\ Generate({"VAR", "ARRAY"})
  /\ code' = Append(code, Emit("ALLOC", AllocScope(program[generated + 1].name), 0))
  /\ UNCHANGED func_name

GenerateCall ==
  /\ Generate({"CALL", "ASSIGN"})
  /\ LET node == program[generated + 1]
         args == IF node.op = "CALL" THEN node.args ELSE <<>>
     IN  code' = code \o [k \in DOMAIN args |-> EmitParam(args, k)] \o <<EmitCall(node.name)>>
  /\ UNCHANGED func_name

\* Parameters and uses of a variable: ARG and LOAD by name.
GenerateOther ==
  /\ Generate({"PARAM_VAR", "PARAM_ARRAY", "IDENTIFIER", "ELEMENT"})
  /\ UNCHANGED <<func_name, code>>

Next ==
  \/ DeclareFunction
  \/ DeclareParameter
  \/ DeclareLocalOrGlobal
  \/ Use
  \/ Call
  \/ AssignCall
  \/ EndFunction
  \/ FinishAnalysis
  \/ GenerateFunction
  \/ GenerateAlloc
  \/ GenerateCall
  \/ GenerateOther

Spec == Init /\ [][Next]_vars

=============================================================================
