----------------------------- MODULE Statements -----------------------------
(***************************************************************************)
(* Statements: the tree the parser builds of them (src/parser.y,           *)
(* src/tree.c), the intermediate code generated from the tree              *)
(* (src/codeGen.c), its labels (src/label.c) and the code running.  Beside *)
(* the tree the parser keeps what was written, and beside the program      *)
(* counter a run keeps what is left of it to execute.                      *)
(*                                                                         *)
(* Expressions, one instruction each here, are in ExprCode.  A list is a   *)
(* chain of siblings, the empty one NULL.  A block adds nothing: its       *)
(* statements are siblings like any other.                                 *)
(***************************************************************************)
EXTENDS Integers, Sequences, SequencesExt

CONSTANTS
  MaxFunctions,    \* bound on the functions of a program
  MaxStatements,   \* bound on its statements
  EmptyThen        \* TRUE if an if with an else may have nothing before it

ASSUME MaxFunctionsAssumption == MaxFunctions \in Nat
ASSUME MaxStatementsAssumption == MaxStatements \in Nat
ASSUME EmptyThenAssumption == EmptyThen \in BOOLEAN

VARIABLES
  phase,              \* "parse", "generate", "run"
  open,               \* statements not yet complete, the innermost last
  functions,          \* complete functions: tree and source
  statements,         \* number of statements so far
  work,               \* what the open calls of create_intermediate_code have left
  intermediate_code,
  num_label,
  func_label,
  label_vector,
  pc,
  condition,          \* register the last condition was computed in
  rest                \* source left to execute

parsevars == <<open, functions, statements>>
codevars == <<work, intermediate_code, num_label, func_label, label_vector>>
runvars == <<pc, condition, rest>>
vars == <<phase, parsevars, codevars, runvars>>

Nothing == [tree |-> <<>>, source |-> <<>>]

-----------------------------------------------------------------------------
\* The parser.
add_sibling(list, node) ==
  [tree |-> Append(list.tree, node.tree), source |-> Append(list.source, node.source)]

\* The first free place; an empty list takes none.
add_child(children, list) == IF list = <<>> THEN children ELSE Append(children, list)

Leaf(op, id) ==
  [tree |-> [op |-> op, id |-> id, children |-> <<>>],
   source |-> [op |-> op, id |-> id, then |-> <<>>, otherwise |-> <<>>]]

Compound(op, id, first, second) ==
  [tree |-> [op |-> op, id |-> id,
             children |-> add_child(add_child(<<>>, first.tree), second.tree)],
   source |-> [op |-> op, id |-> id, then |-> first.source, otherwise |-> second.source]]

Frame(kind, id, first) == [kind |-> kind, id |-> id, first |-> first, list |-> Nothing]

Inner == open[Len(open)]
Outer == Front(open)

Parsing == phase = "parse" /\ UNCHANGED <<phase, codevars, runvars>>

\* fun_declaracao, up to its body.
OpenFunction ==
  /\ Parsing
  /\ open = <<>>
  /\ Len(functions) < MaxFunctions
  /\ open' = <<Frame("function", 0, Nothing)>>
  /\ UNCHANGED <<functions, statements>>

CloseFunction ==
  /\ Parsing
  /\ open # <<>>
  /\ Inner.kind = "function"
  /\ functions' = Append(functions, Inner.list)
  /\ open' = <<>>
  /\ UNCHANGED statements

NewStatement ==
  /\ Parsing
  /\ open # <<>>
  /\ statements < MaxStatements
  /\ statements' = statements + 1
  /\ UNCHANGED functions

AddTo(frames, node) ==
  [frames EXCEPT ![Len(frames)].list = add_sibling(@, node)]

\* expressao_decl and retorno_decl.
SimpleStatement ==
  /\ NewStatement
  /\ \E op \in {"OP", "RETURN"} : open' = AddTo(open, Leaf(op, statements'))

\* selecao_decl and iteracao_decl, up to the statement they govern.
OpenStatement ==
  /\ NewStatement
  /\ \E kind \in {"then", "while"} : open' = Append(open, Frame(kind, statements', Nothing))

Close(kind) ==
  /\ Parsing
  /\ open # <<>>
  /\ Inner.kind = kind
  /\ UNCHANGED <<functions, statements>>

Else ==
  /\ Close("then")
  /\ Inner.list # Nothing \/ EmptyThen
  /\ open' = Append(Outer, Frame("else", Inner.id, Inner.list))

CloseIf ==
  /\ Close("then")
  /\ open' = AddTo(Outer, Compound("IF", Inner.id, Inner.list, Nothing))

CloseElse ==
  /\ Close("else")
  /\ open' = AddTo(Outer, Compound("IF", Inner.id, Inner.first, Inner.list))

CloseWhile ==
  /\ Close("while")
  /\ open' = AddTo(Outer, Compound("WHILE", Inner.id, Inner.list, Nothing))

ParseDone ==
  /\ phase = "parse"
  /\ open = <<>>
  /\ functions # <<>>
  /\ phase' = "generate"
  /\ work' = [f \in DOMAIN functions |-> [do |-> "function", arg |-> f]]
  /\ UNCHANGED <<parsevars, intermediate_code, num_label, func_label, label_vector, runvars>>

-----------------------------------------------------------------------------
\* The code generator.
Instr(op, arg) == [op |-> op, arg |-> arg]
Emit(op, arg) == [do |-> "emit", arg |-> Instr(op, arg)]
Generate(list) == [do |-> "list", arg |-> list]

\* children[1] or children[2] of a statement, NULL if there is none.
Child(node, i) == IF i <= Len(node.children) THEN node.children[i] ELSE <<>>

add_instruction(instructions) == intermediate_code' = intermediate_code \o instructions

Generating(kind) ==
  /\ phase = "generate"
  /\ work # <<>>
  /\ Head(work).do = kind
  /\ UNCHANGED <<phase, parsevars, label_vector, runvars>>

intermediate_code_decl_func ==
  /\ Generating("function")
  /\ LET f == Head(work).arg
     IN  /\ add_instruction(<<Instr("FUN", f)>>)
         /\ work' = <<Generate(functions[f].tree), Emit("LABEL", num_label), Emit("END", f)>>
                      \o Tail(work)
  /\ func_label' = num_label
  /\ num_label' = num_label + 1

EmitLater ==
  /\ Generating("emit")
  /\ add_instruction(<<Head(work).arg>>)
  /\ work' = Tail(work)
  /\ UNCHANGED <<num_label, func_label>>

EndOfList ==
  /\ Generating("list")
  /\ Head(work).arg = <<>>
  /\ work' = Tail(work)
  /\ UNCHANGED <<intermediate_code, num_label, func_label>>

\* The next statement of a list; later is what its own lists and labels leave.
create_intermediate_code(op, later) ==
  /\ Generating("list")
  /\ Head(work).arg # <<>>
  /\ Head(Head(work).arg).op = op
  /\ work' = later \o <<Generate(Tail(Head(work).arg))>> \o Tail(work)
  /\ UNCHANGED func_label

Node == Head(Head(work).arg)

GenerateExpression ==
  /\ create_intermediate_code("OP", <<>>)
  /\ add_instruction(<<Instr("OP", Node.id)>>)
  /\ UNCHANGED num_label

intermediate_code_decl_return ==
  /\ create_intermediate_code("RETURN", <<>>)
  /\ add_instruction(<<Instr("RETURN", Node.id), Instr("GOTO", func_label)>>)
  /\ UNCHANGED num_label

\* Variant: nothing jumps over the else branch.
ElseCode_NoGoto(node) ==
  IF Child(node, 2) # <<>>
  THEN <<Emit("LABEL", num_label), Generate(Child(node, 2)), Emit("LABEL", num_label + 1)>>
  ELSE <<Emit("LABEL", num_label)>>

ElseCode(node) ==
  IF Child(node, 2) # <<>>
  THEN <<Emit("GOTO", num_label + 1), Emit("LABEL", num_label),
         Generate(Child(node, 2)), Emit("LABEL", num_label + 1)>>
  ELSE <<Emit("LABEL", num_label)>>

\* Variant: the second label is not counted.
intermediate_code_decl_if_OneLabel ==
  /\ create_intermediate_code("IF", <<Generate(Child(Node, 1))>> \o ElseCode(Node))
  /\ add_instruction(<<Instr("CONDITION", Node.id), Instr("IFF", num_label)>>)
  /\ num_label' = num_label + 1

intermediate_code_decl_if ==
  /\ create_intermediate_code("IF", <<Generate(Child(Node, 1))>> \o ElseCode(Node))
  /\ add_instruction(<<Instr("CONDITION", Node.id), Instr("IFF", num_label)>>)
  /\ num_label' = num_label + 2

\* Variant: the label of the loop is added with its jump, after the body.
intermediate_code_decl_while_LateLabel ==
  /\ create_intermediate_code("WHILE", <<Generate(Child(Node, 1)), Emit("LABEL", num_label),
                                         Emit("GOTO", num_label), Emit("LABEL", num_label + 1)>>)
  /\ add_instruction(<<Instr("CONDITION", Node.id), Instr("IFF", num_label + 1)>>)
  /\ num_label' = num_label + 2

intermediate_code_decl_while ==
  /\ create_intermediate_code("WHILE", <<Generate(Child(Node, 1)), Emit("GOTO", num_label),
                                         Emit("LABEL", num_label + 1)>>)
  /\ add_instruction(<<Instr("LABEL", num_label), Instr("CONDITION", Node.id),
                       Instr("IFF", num_label + 1)>>)
  /\ num_label' = num_label + 2

-----------------------------------------------------------------------------
\* The labels.  They are added in the order of the code, so that the first one
\* of a name is the one with the lowest address.  A function's is its name.
Label(instr) == <<IF instr.op = "FUN" THEN "function" ELSE "Label", instr.arg>>

\* Variant: FUN adds no label.
LabelsOf_NoFunctions(code) ==
  {[id |-> Label(code[i]), address |-> i] : i \in {i \in DOMAIN code : code[i].op = "LABEL"}}

LabelsOf(code) ==
  {[id |-> Label(code[i]), address |-> i] :
     i \in {i \in DOMAIN code : code[i].op \in {"FUN", "LABEL"}}}

get_label_address(id) ==
  LET named == {label \in label_vector : label.id = id}
  IN  IF named = {} THEN -1 ELSE Min({label.address : label \in named})

\* generate_assembly adds the labels; addresses are looked up when all are known.
Assemble ==
  /\ phase = "generate"
  /\ work = <<>>
  /\ label_vector' = LabelsOf(intermediate_code)
  /\ phase' = "run"
  /\ UNCHANGED <<parsevars, work, intermediate_code, num_label, func_label, runvars>>

-----------------------------------------------------------------------------
\* The code running.
Current == intermediate_code[pc]
Running(ops) ==
  /\ phase = "run"
  /\ pc \in DOMAIN intermediate_code
  /\ Current.op \in ops
  /\ UNCHANGED <<phase, parsevars, codevars>>

\* A function is called, from outside or after another has ended.
Enter ==
  /\ phase = "run"
  /\ pc = 0 \/ (pc \in DOMAIN intermediate_code /\ Current.op = "END")
  /\ \E f \in DOMAIN functions :
       /\ pc' = get_label_address(<<"function", f>>)
       /\ rest' = functions[f].source
  /\ UNCHANGED <<phase, parsevars, codevars, condition>>

\* A label is a no-op.
Pass ==
  /\ Running({"FUN", "LABEL"})
  /\ pc' = pc + 1
  /\ UNCHANGED <<condition, rest>>

Goto ==
  /\ Running({"GOTO"})
  /\ pc' = get_label_address(<<"Label", Current.arg>>)
  /\ UNCHANGED <<condition, rest>>

Branch ==
  /\ Running({"IFF"})
  /\ pc' = IF condition THEN pc + 1 ELSE get_label_address(<<"Label", Current.arg>>)
  /\ UNCHANGED <<condition, rest>>

\* What is left of the source after its first statement, or its condition.
After(source, outcome) ==
  LET first == Head(source)
  IN  IF first.op = "RETURN" THEN <<>>
      ELSE IF first.op = "WHILE" /\ outcome THEN first.then \o source
      ELSE IF first.op = "IF"
           THEN (IF outcome THEN first.then ELSE first.otherwise) \o Tail(source)
      ELSE Tail(source)

\* Statements and conditions: the program does something.
Execute ==
  /\ Running({"OP", "RETURN", "CONDITION"})
  /\ rest # <<>>
  /\ pc' = pc + 1
  /\ \E outcome \in BOOLEAN :
       /\ condition' = IF Current.op = "CONDITION" THEN outcome ELSE condition
       /\ rest' = After(rest, outcome)

Run == Enter \/ Pass \/ Goto \/ Branch \/ Execute

-----------------------------------------------------------------------------
Init ==
  /\ phase = "parse"
  /\ open = <<>>
  /\ functions = <<>>
  /\ statements = 0
  /\ work = <<>>
  /\ intermediate_code = <<>>
  /\ num_label = 0
  /\ func_label = 0
  /\ label_vector = {}
  /\ pc = 0
  /\ condition = FALSE
  /\ rest = <<>>

Next ==
  \/ OpenFunction
  \/ CloseFunction
  \/ SimpleStatement
  \/ OpenStatement
  \/ Else
  \/ CloseIf
  \/ CloseElse
  \/ CloseWhile
  \/ ParseDone
  \/ intermediate_code_decl_func
  \/ EmitLater
  \/ EndOfList
  \/ GenerateExpression
  \/ intermediate_code_decl_return
  \/ intermediate_code_decl_if
  \/ intermediate_code_decl_while
  \/ Assemble
  \/ Run

\* The processor does not stop.
Spec == Init /\ [][Next]_vars /\ WF_vars(Run)

-----------------------------------------------------------------------------
IsTree(node) ==
  /\ node.op \in {"OP", "RETURN", "IF", "WHILE"}
  /\ node.id \in 1..MaxStatements
  /\ Len(node.children) <= 2

StatementsTypeOK ==
  /\ phase \in {"parse", "generate", "run"}
  /\ statements \in 0..MaxStatements
  /\ \A f \in DOMAIN functions : \A node \in Range(functions[f].tree) : IsTree(node)
  /\ \A frame \in Range(open) : frame.kind \in {"function", "then", "else", "while"}
  /\ intermediate_code \in
       Seq([op : {"FUN", "LABEL", "END", "OP", "RETURN", "CONDITION", "IFF", "GOTO"}, arg : Nat])
  /\ num_label \in 0..(MaxFunctions + 2 * MaxStatements)
  /\ func_label \in 0..num_label
  /\ pc \in 0..Len(intermediate_code)
  /\ condition \in BOOLEAN

\* A run does what the source says next, and nothing else (codeGen.c:376 "Generate
\* code for IF body (true branch)", :384 "Generate code for ELSE body (false
\* branch)"): through every nesting of statements, jump and label, a loop left
\* and entered again, a return from within.
FollowsSource ==
  phase = "run" /\ pc # 0 =>
    /\ Current.op \in {"OP", "RETURN"} =>
         rest # <<>> /\ Current = Instr(Head(rest).op, Head(rest).id)
    /\ Current.op = "CONDITION" =>
         rest # <<>> /\ Head(rest).op \in {"IF", "WHILE"} /\ Head(rest).id = Current.arg
    /\ Current.op = "END" => rest = <<>>

\* Every label a jump names is there, once in the whole program (label.c
\* get_label_address takes the first): num_label goes on from one function to
\* the next, and func_label belongs to the function being generated.
LabelsResolved ==
  phase = "run" =>
    \A i \in DOMAIN intermediate_code :
      intermediate_code[i].op \in {"IFF", "GOTO"} =>
        \E label \in label_vector :
          /\ label.id = <<"Label", intermediate_code[i].arg>>
          /\ \A other \in label_vector : other.id = label.id => other = label

\* Jumps and labels alone never keep a run going round: it comes to a
\* statement, a condition or the end of the function.
JumpsLeadSomewhere ==
  []<>(phase # "run" \/ (pc # 0 /\ Current.op \in {"OP", "RETURN", "CONDITION", "END"}))

=============================================================================
