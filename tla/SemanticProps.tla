--------------------------- MODULE SemanticProps ---------------------------
(***************************************************************************)
(* What the analysis promises.  The meaning of the program is read off its *)
(* nodes alone, by the scope rules the error messages of semantic.c name,  *)
(* and never off the table.                                                *)
(***************************************************************************)
EXTENDS Semantic

IsVariable(i) == program[i].op \in VariableTypes
IsFunction(i) == program[i].op = "FUNC"
IsUse(i) == ~ IsVariable(i) /\ ~ IsFunction(i)

\* The declarations of a variable that a node can refer to: before it, in its
\* function or outside every function.
Visible(i, name, types) ==
  {j \in 1..(i - 1) : /\ program[j].op \in types
                      /\ program[j].name = name
                      /\ program[j].scope \in {program[i].scope, Global}}

FunctionTypes(i, name) ==
  {Builtin[b] : b \in {name} \cap DOMAIN Builtin}
    \cup {program[j].type : j \in {k \in 1..(i - 1) : IsFunction(k) /\ program[k].name = name}}

\* A function may call itself; its name is taken from its declaration on.
LegalFunction(i) ==
  /\ program[i].name \notin DOMAIN Builtin
  /\ \A j \in 1..(i - 1) : ~ IsUse(j) => program[j].name # program[i].name

LegalVariable(i) ==
  /\ program[i].type = "INT"
  /\ FunctionTypes(i, program[i].name) = {}
  /\ Visible(i, program[i].name, VariableTypes) = {}

LegalOperand(i, operand) ==
  \/ operand.op = "CALL" /\ FunctionTypes(i, operand.name) # {}
  \/ operand.op = "ELEMENT" /\ Visible(i, operand.name, Arrays) # {}
  \/ operand.op \in {"IDENTIFIER", "EXPRESSION"} /\ Visible(i, operand.name, Scalars) # {}

\* An array may be passed by its name.
LegalArgument(i, arg) ==
  \/ LegalOperand(i, arg)
  \/ arg.op = "IDENTIFIER" /\ Visible(i, arg.name, Arrays) # {}

LegalCall(i) ==
  LET node == program[i]
  IN  /\ FunctionTypes(i, node.name) # {}
      /\ \A k \in DOMAIN node.args : LegalArgument(i, node.args[k])

Legal(i) ==
  \/ IsFunction(i) /\ LegalFunction(i)
  \/ IsVariable(i) /\ LegalVariable(i)
  \/ program[i].op \in {"IDENTIFIER", "ELEMENT"} /\ LegalOperand(i, program[i])
  \/ program[i].op = "CALL" /\ LegalCall(i)
  \/ /\ program[i].op = "ASSIGN"
     /\ FunctionTypes(i, program[i].name) = {"INT"}
     /\ LegalOperand(i, program[i].args[1])

LegalProgram == \A i \in DOMAIN program : Legal(i)

\* An array named after a complex argument of the same call.
ArrayAfterExpression(i) ==
  LET args == program[i].args
  IN  \E k, l \in DOMAIN args :
        /\ k < l
        /\ args[k].op \in Complex
        /\ args[l].op = "IDENTIFIER"
        /\ Visible(i, args[l].name, Arrays) # {}

-----------------------------------------------------------------------------
Item == [id_type : DeclTypes, data_type : {"INT", "VOID"}, scope : Scopes,
         lines : Seq(0..MaxNodes)]

SemanticTypeOK ==
  /\ hash_table \in [Names -> Seq(Item)]
  /\ semantic_errors \in Nat
  /\ program \in Seq([op : DeclTypes \cup {"IDENTIFIER", "ELEMENT", "CALL", "ASSIGN"},
                      type : {"INT", "VOID"}, name : Names, scope : Scopes,
                      args : Seq(Arguments)])
  /\ scope \in Scopes
  /\ header \in BOOLEAN
  /\ phase \in {"analysis", "generation", "rejected"}
  /\ generated \in 0..Len(program)
  /\ func_name \in Scopes
  /\ code \in Seq([node : 1..MaxNodes, op : {"ALLOC", "PARAM", "CALL"},
                   as : Scopes \cup {"VET", "INT", "VOID"}, arg : 0..MaxArgs])

\* No illegal program gets past the analysis (semantic.c): the errors of a
\* table that grew in another order, or was searched in the wrong scope, are
\* not swallowed.
AcceptedIsLegal == semantic_errors = 0 => LegalProgram

\* A legal program is not refused (semantic.c), but for one with an array
\* argument after an expression.
LegalIsAccepted ==
  /\ phase = "analysis"
  /\ LegalProgram
  /\ \A i \in DOMAIN program : ~ ArrayAfterExpression(i)
  => semantic_errors = 0

\* The lines listed for a symbol (tab.c add_line, saida_analise.txt) are those
\* of the nodes that refer to it: not to another of the same name.
LinesAreUses ==
  semantic_errors = 0 =>
    \A i \in DOMAIN program : IsUse(i) =>
      LET node == program[i]
          names == {node.name} \cup {node.args[k].name : k \in DOMAIN node.args}
      IN  \A name \in Names : \A item \in Range(hash_table[name]) :
            Contains(item.lines, i) <=>
              /\ name \in names
              /\ \/ item.id_type = "FUNC"
                 \/ \E j \in Visible(i, name, VariableTypes) : program[j].scope = item.scope

\* The code generator searches the table when it is complete (codeGen.c
\* intermediate_code_expr_call): what a call passes by address is still what
\* was an array where the analysis met the call, and only a function declared
\* INT has a result.
CallsAsAnalysed ==
  \A n \in DOMAIN code :
    LET i == code[n].node
        node == program[i]
        arg == node.args[code[n].arg]
    IN  /\ code[n].op = "PARAM" =>
             (code[n].as = "VET" <=>
                arg.op = "IDENTIFIER" /\ Visible(i, arg.name, Arrays) # {})
        /\ code[n].op = "CALL" => FunctionTypes(i, node.name) = {code[n].as}

ScopeOfAlloc(i) == \A n \in DOMAIN code : code[n].node = i => code[n].as = program[i].scope

\* A variable gets its memory where it was declared (codeGen.c:482): a local
\* one always, a global one unless a function before it has a local of its name.
AllocatedWhereDeclared ==
  \A i \in DOMAIN program :
    IsVariable(i) /\ ~ (\E j \in 1..(i - 1) : IsVariable(j) /\ program[j].name = program[i].name
                                              /\ program[i].scope = Global)
      => ScopeOfAlloc(i)

=============================================================================
