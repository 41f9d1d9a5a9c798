------------------------------- MODULE Lexemes -------------------------------
(***************************************************************************)
(* How names and numbers get from the scanner to the tree.  The scanner    *)
(* (src/lexer.l) pushes the text of every ID and NUM on lexeme_stack; an   *)
(* action of the grammar (src/parser.y) pops the text when it reduces,     *)
(* which may be after the parser has read one token more.  bison reads it  *)
(* only in states that need it, and reduces by default before it finds an  *)
(* error.                                                                  *)
(*                                                                         *)
(* The parser's stack holds, for each rule that is open, the part of it    *)
(* that has been shifted, under a name that spells it.  Tokens have their  *)
(* names in parser.y: the brackets, commas, semicolons, an assignment and  *)
(* SOMA, which stands for all operators.  VOID, ELSE, WHILE and RETURN,    *)
(* which have no text, are left out.                                       *)
(***************************************************************************)
EXTENDS Integers, Sequences, SequencesExt, FiniteSets

CONSTANTS
  LEXEMES,      \* places of lexeme_stack
  MaxTokens,    \* bounds
  MaxErrors

ASSUME SizesAssumption == {LEXEMES, MaxTokens, MaxErrors} \subseteq Nat

VARIABLES
  symbols,       \* the parser's stack
  lookahead,     \* the token read and not shifted, or NoToken
  lexeme_stack,  \* tokens whose text is there; stack_index is its length less 1
  read,          \* tokens read
  wrong,         \* history: tokens of the tree that got the text of another one
  errors,        \* syntax errors
  status         \* "parsing", "failed" (no rule recovers), "overflow"

vars == <<symbols, lookahead, lexeme_stack, read, wrong, errors, status>>

Kinds ==
  {"INT", "IF", "ID", "NUM", "ABREPARENTESES", "FECHAPARENTESES", "ABRECOLCHETES",
   "FECHACOLCHETES", "ABRECHAVES", "FECHACHAVES", "ATRIB", "SOMA", "COMMA", "SEMICOLON"}

NoToken == [kind |-> "none", n |-> 0]

\* A rule that is open: what has been shifted, where it began, its tokens whose
\* text is still on lexeme_stack.
Open(what, at, held) == [what |-> what, at |-> at, held |-> held]

Top == Last(symbols)
Below == symbols[Len(symbols) - 1]
Replace(what, held) == Append(Front(symbols), Open(what, Top.at, held))

\* A program begins, or the body of a function.
Init ==
  /\ \E open \in {<<>>, <<"int_fun_id(params)", "block">>} :
       symbols = <<Open("program", 0, <<>>)>> \o [k \in DOMAIN open |-> Open(open[k], 0, <<>>)]
  /\ lookahead = NoToken
  /\ lexeme_stack = <<>> /\ read = 0 /\ wrong = {} /\ errors = 0
  /\ status = "parsing"

-----------------------------------------------------------------------------
(* yylex. *)

\* Rules that are complete, in states with nothing else to do: no token is read.
Complete == {"var_declaracao", "var_declaracao[]", "param_ID[]", "NUM", "ID[e]"}

yylex ==
  /\ status = "parsing"
  /\ lookahead = NoToken /\ Top.what \notin Complete
  /\ read < MaxTokens
  /\ read' = read + 1
  /\ \E kind \in Kinds :
       /\ lookahead' = [kind |-> kind, n |-> read']
       /\ IF kind \in {"ID", "NUM"}
          THEN /\ lexeme_stack' = Append(lexeme_stack, read')
               /\ status' = IF Len(lexeme_stack) = LEXEMES THEN "overflow" ELSE status
          ELSE UNCHANGED <<lexeme_stack, status>>
  /\ UNCHANGED <<symbols, wrong, errors>>

-----------------------------------------------------------------------------
(* Rules: what a token turns the innermost open rule into, and the rules it opens. *)

Continues ==
  {<<"int",                "ID",              "int_ID">>,
   <<"int_ID",             "SEMICOLON",       "var_declaracao">>,
   <<"int_ID",             "ABRECOLCHETES",   "int_ID[">>,
   <<"int_ID[",            "NUM",             "int_ID[NUM">>,
   <<"int_ID[NUM",         "FECHACOLCHETES",  "int_ID[NUM]">>,
   <<"int_ID[NUM]",        "SEMICOLON",       "var_declaracao[]">>,
   <<"int_error",          "FECHACOLCHETES",  "int_error]">>,
   <<"int_fun_id",         "ABREPARENTESES",  "int_fun_id(">>,
   <<"int_fun_id(params",  "COMMA",           "int_fun_id(">>,
   <<"int_fun_id(params",  "FECHAPARENTESES", "int_fun_id(params)">>,
   <<"param",              "ID",              "param_ID">>,
   <<"param_ID",           "ABRECOLCHETES",   "param_ID[">>,
   <<"param_ID[",          "FECHACOLCHETES",  "param_ID[]">>,
   <<"if",                 "ABREPARENTESES",  "if(">>,
   <<"ID",                 "ABRECOLCHETES",   "ID[">>,
   <<"fun_id",             "ABREPARENTESES",  "call(">>}

StatementPlace  == {"list", "if(e)"}
ExpressionPlace == StatementPlace \cup {"if(", "(", "call(", "call(args", "ID[", "+", "="}

Begins ==
  {<<"program", "INT", "int">>, <<"block", "INT", "int">>, <<"int_fun_id(", "INT", "param">>,
   <<"int_fun_id(params)", "ABRECHAVES", "block">>}
  \cup {<<place, "ABRECHAVES", "block">> : place \in StatementPlace}
  \cup {<<place, "IF", "if">> : place \in StatementPlace}
  \cup {<<place, "ID", "ID">> : place \in ExpressionPlace}
  \cup {<<place, "NUM", "NUM">> : place \in ExpressionPlace}
  \cup {<<place, "ABREPARENTESES", "(">> : place \in ExpressionPlace}

\* A statement is complete: it may be that of an if.
Statement(stack) ==
  IF Last(stack).what = "if(e)"
  THEN Append(Front(stack), [Last(stack) EXCEPT !.what = "if(e)s"]) ELSE stack

\* An operand is complete; only a var that is not in a sum may be assigned to.
Operand(stack, what, at) ==
  CASE Last(stack).what = "+" -> Append(Front(stack), Open("e", Last(stack).at, <<>>))
    [] Last(stack).what = "=" -> Append(Front(stack), Open(what, Last(stack).at, <<>>))
    [] OTHER -> Append(stack, Open(what, at, <<>>))

\* After an expression: what closes the rule it is in.
AfterExpression(kind) ==
  LET outer == Front(Front(symbols))
      Outer(what) == Append(outer, [Below EXCEPT !.what = what])
  IN  CASE kind = "SOMA" -> {Replace("+", <<>>)}
        [] kind = "ATRIB" /\ Top.what = "var" -> {Replace("=", <<>>)}
        [] kind = "FECHAPARENTESES" /\ Below.what = "if(" -> {Outer("if(e)")}
        [] kind = "FECHAPARENTESES" /\ Below.what \in {"(", "call(", "call(args"} ->
             {Operand(outer, "e", Below.at)}
        [] kind = "COMMA" /\ Below.what \in {"call(", "call(args"} -> {Outer("call(args")}
        [] kind = "FECHACOLCHETES" /\ Below.what = "ID[" -> {Outer("ID[e]")}
        [] kind = "SEMICOLON" /\ Below.what \in StatementPlace -> {Statement(Front(symbols))}
        [] OTHER -> {}

\* Closing a rule without an expression.
Closes(kind) ==
  CASE kind = "FECHAPARENTESES" /\ Top.what = "call(" -> {Operand(Front(symbols), "e", Top.at)}
    [] kind = "SEMICOLON" /\ Top.what \in StatementPlace -> {Statement(symbols)}
    [] kind = "FECHACHAVES" /\ Top.what = "list" ->
         {IF Below.what = "int_fun_id(params)" THEN Front(Front(symbols))
          ELSE Statement(Front(symbols))}
    [] kind = "SEMICOLON" /\ Top.what \in {"int_error", "int_error]"} -> {Front(symbols)}
    [] kind = "SEMICOLON" /\ Top.what = "error" -> {Statement(Front(symbols))}
    [] OTHER -> {}

Text(token) == IF token.kind \in {"ID", "NUM"} THEN <<token.n>> ELSE <<>>

\* The parser's stack after a token; none, if no rule takes it.
Shifted(token) ==
  {Replace(rule[3], Top.held \o Text(token)) :
     rule \in {r \in Continues : r[1] = Top.what /\ r[2] = token.kind}}
  \cup {Append(symbols, Open(rule[3], token.n, Text(token))) :
          rule \in {r \in Begins : r[1] = Top.what /\ r[2] = token.kind}}
  \cup IF Top.what \in {"var", "e"} THEN AfterExpression(token.kind) ELSE Closes(token.kind)

Shift ==
  /\ status = "parsing"
  /\ lookahead # NoToken
  /\ symbols' \in Shifted(lookahead)
  /\ lookahead' = NoToken
  /\ UNCHANGED <<lexeme_stack, read, wrong, errors, status>>

-----------------------------------------------------------------------------
(* Reductions that take texts. *)

\* The texts on the top of the stack go to the tokens of a rule, in their order.
Take(tokens) ==
  LET left == Len(lexeme_stack) - Len(tokens)
  IN  /\ lexeme_stack' = SubSeq(lexeme_stack, 1, left)
      /\ wrong' = wrong \cup {tokens[k] : k \in {k \in DOMAIN tokens :
                                                   lexeme_stack[left + k] # tokens[k]}}

Reduce(stack) ==
  /\ status = "parsing"
  /\ symbols' = stack
  /\ UNCHANGED <<lookahead, read, errors, status>>

var_declaracao ==
  /\ Top.what = "var_declaracao"
  /\ Take(Top.held)
  /\ Reduce(Front(symbols))

\* Variant: the name is popped before the size.
var_declaracao_Array_Swapped ==
  /\ Top.what = "var_declaracao[]"
  /\ Take(Reverse(Top.held))
  /\ Reduce(Front(symbols))

var_declaracao_Array ==
  /\ Top.what = "var_declaracao[]"
  /\ Take(Top.held)
  /\ Reduce(Front(symbols))

\* A parameter, array or not: of the latter, a [ might follow.
param ==
  /\ \/ Top.what = "param_ID[]"
     \/ Top.what = "param_ID" /\ lookahead.kind \notin {"none", "ABRECOLCHETES"}
  /\ Take(Top.held)
  /\ Reduce(Append(Front(Front(symbols)), [Below EXCEPT !.what = "int_fun_id(params"]))

\* Variant: the text is read and stays.
fun_id_Peek ==
  /\ \/ Top.what = "ID" /\ lookahead.kind = "ABREPARENTESES"
     \/ /\ Top.what = "int_ID" /\ Below.what = "program"
        /\ lookahead.kind \notin {"none", "SEMICOLON", "ABRECOLCHETES"}
  /\ wrong' = IF Last(lexeme_stack) = Top.held[1] THEN wrong ELSE wrong \cup {Top.held[1]}
  /\ UNCHANGED lexeme_stack
  /\ Reduce(Replace(IF Top.what = "ID" THEN "fun_id" ELSE "int_fun_id", <<>>))

\* A function's name; in a declaration of globals, whatever else follows.
fun_id ==
  /\ \/ Top.what = "ID" /\ lookahead.kind = "ABREPARENTESES"
     \/ /\ Top.what = "int_ID" /\ Below.what = "program"
        /\ lookahead.kind \notin {"none", "SEMICOLON", "ABRECOLCHETES"}
  /\ Take(Top.held)
  /\ Reduce(Replace(IF Top.what = "ID" THEN "fun_id" ELSE "int_fun_id", <<>>))

var ==
  /\ \/ Top.what = "ID[e]"
     \/ Top.what = "ID" /\ lookahead.kind \notin {"none", "ABREPARENTESES", "ABRECOLCHETES"}
  /\ Take(Top.held)
  /\ Reduce(Operand(Front(symbols), "var", Top.at))

fator ==
  /\ Top.what = "NUM"
  /\ Take(Top.held)
  /\ Reduce(Operand(Front(symbols), "e", Top.at))

\* Reductions without a text, when the token read belongs to what follows.
statement_lista ==
  /\ Top.what = "block" /\ lookahead.kind \notin {"none", "INT"}
  /\ Reduce(Replace("list", <<>>)) /\ UNCHANGED <<lexeme_stack, wrong>>

selecao_decl ==
  /\ Top.what = "if(e)s" /\ lookahead # NoToken
  /\ Reduce(Statement(Front(symbols))) /\ UNCHANGED <<lexeme_stack, wrong>>

\* A token that is no part of any rule is found when no reduction is left.
Refused ==
  /\ lookahead # NoToken
  /\ Shifted(lookahead) = {}
  /\ Top.what \notin {"ID", "param_ID", "block", "if(e)s"}
  /\ ~ (Top.what = "int_ID" /\ Below.what = "program")

-----------------------------------------------------------------------------
(* Recovery. *)

\* The states with a rule for error: after the type of a declaration, and where
\* a statement may begin.
Declaration ==
  {"int", "int_ID", "int_ID[", "int_ID[NUM", "int_ID[NUM]", "int_fun_id", "int_fun_id(",
   "int_fun_id(params", "int_fun_id(params)"}

\* The stack is cut back to such a state; texts held by what is cut remain.
yyerror ==
  /\ status = "parsing"
  /\ Refused /\ Top.what \notin {"int_error", "int_error]", "error"}
  /\ errors < MaxErrors
  /\ errors' = errors + 1
  /\ LET places == {k \in DOMAIN symbols : symbols[k].what \in Declaration \cup StatementPlace}
         k  == Max(places)
         in == symbols[k].what \in Declaration
         at == IF in THEN symbols[k].at
               ELSE IF k < Len(symbols) THEN symbols[k + 1].at ELSE lookahead.n
     IN  IF places = {} THEN status' = "failed" /\ UNCHANGED <<symbols, wrong>>
         ELSE /\ symbols' = IF in
                             THEN Append(SubSeq(symbols, 1, k - 1), Open("int_error", at, <<>>))
                             ELSE Append(SubSeq(symbols, 1, k), Open("error", at, <<>>))
              /\ wrong' = {token \in wrong : token < at}
              /\ UNCHANGED status
  /\ UNCHANGED <<lookahead, lexeme_stack, read>>

\* Tokens are skipped up to the one after error in the rule.
Skip ==
  /\ status = "parsing"
  /\ Refused /\ Top.what \in {"int_error", "int_error]", "error"}
  /\ symbols' = IF Top.what = "int_error]" THEN Replace("int_error", <<>>) ELSE symbols
  /\ lookahead' = NoToken
  /\ UNCHANGED <<lexeme_stack, read, wrong, errors, status>>

Next ==
  \/ yylex \/ Shift \/ var_declaracao \/ var_declaracao_Array \/ param \/ fun_id \/ var
  \/ fator \/ statement_lista \/ selecao_decl \/ yyerror \/ Skip

Spec == Init /\ [][Next]_vars

-----------------------------------------------------------------------------
(* Properties. *)

\* The tree has every name and number where it was written (parser.y:70, 91-92,
\* 137, 173, 319, 400), also after a syntax error, of which the parts of the
\* program given up are excepted.  A text may be taken before its error is found.
TextsAreOwn == lookahead = NoToken => wrong = {}

\* lexeme_stack ends with the texts of tokens not yet in the tree; it holds no
\* others before the first syntax error (after one, those of the tokens skipped
\* and cut: parser.y:76, 100, 234).
TextsAwaited ==
  lookahead = NoToken /\ status = "parsing" =>
    LET awaited == FlattenSeq([k \in DOMAIN symbols |-> symbols[k].held])
    IN  /\ IsSuffix(awaited, lexeme_stack)
        /\ errors = 0 => lexeme_stack = awaited

\* Without a syntax error only indices nested in indices fill lexeme_stack
\* (lexer.l:17): not calls in arguments, long expressions or long programs.
OverflowIsNesting ==
  status = "overflow" /\ errors = 0 =>
    Cardinality({k \in DOMAIN symbols : symbols[k].what \in {"ID[", "ID[e]"}}) >= LEXEMES - 1

=============================================================================
