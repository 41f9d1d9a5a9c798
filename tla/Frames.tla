-------------------------------- MODULE Frames --------------------------------
(***************************************************************************)
(* Activation frames: the layout memory.c keeps while src/assembler.c      *)
(* generates code (ALLOC, ARG, FUN, PARAM, CALL, RET, END, LOAD, STORE),   *)
(* and the execution of that code.  A program is its functions' frames and *)
(* who calls whom; what it computes, and where its jumps go, is arbitrary. *)
(*                                                                         *)
(* The layout is fixed at compile time: the code after a declaration sees  *)
(* a larger frame than the code before it.  Declarations at the head of a  *)
(* function precede all of its code; Nested[f] words are declared inside a *)
(* block, and block is how many of them precede the current instruction.   *)
(* Addresses are relative to $s0.  One register stands for the expression  *)
(* just computed (ExprCode models the others).                             *)
(***************************************************************************)
EXTENDS Integers, Sequences

CONSTANTS
  Programs,
  SEGMENTATION_SIZE_DM,   \* words of a program's data partition
  MaxParams,     \* bound on pending arguments
  Values,
  Garbage        \* a word never written

VARIABLES
  program,       \* the program: its functions and what they declare and call
  fn, block,     \* where it is: function, nested declarations passed
  parametros,    \* size of the frame "parametros" at this instruction
  fp, sp,        \* $fp and $sp
  memory,
  reg,           \* register of the expression just computed
  stack          \* history: function and $fp of the open activations, the last running

control == <<program, fn, block, parametros, fp, sp, stack>>
framevars == <<control, memory, reg>>

INIT_STACK_PARAMS   == SEGMENTATION_SIZE_DM - 1
INIT_CONTEXT_SWITCH == INIT_STACK_PARAMS - 32

\* 1..n in the order of their definitions; the last is main.
Functions == DOMAIN program.Params
Main      == Len(program.Params)

\* Words of parameters, of local declarations at the head, and of declarations
\* in nested blocks, of each function; of the global frame.
Params     == program.Params
Locals     == program.Locals
Nested     == program.Nested
GlobalSize == program.GlobalSize

\* Functions each function calls, functions of type void.
Callees == program.Callees
Void    == program.Void

\* A function calls itself or functions defined before it, never main, which has
\* no parameters and whose frame fits below the save area.
ASSUME ProgramsAssumption ==
  \A p \in Programs :
    LET n == Len(p.Params)
    IN  /\ p.Params \in Seq(Nat) /\ n > 0 /\ p.Params[n] = 0
        /\ p.Locals \in [1..n -> Nat] /\ p.Nested \in [1..n -> Nat]
        /\ p.GlobalSize \in Nat
        /\ p.GlobalSize + 6 + p.Locals[n] <= INIT_CONTEXT_SWITCH
        /\ \A f \in 1..n : p.Callees[f] \subseteq {g \in 1..n - 1 : g <= f}
        /\ p.Void \subseteq 1..n

ASSUME BoundsAssumption == MaxParams \in Nat /\ SEGMENTATION_SIZE_DM \in Nat

-----------------------------------------------------------------------------
(* The layout: parameters, six words of linkage, locals in order. *)

\* get_fp_relation of "Vinculo Controle", "Endereco Retorno", "Valor Retorno".
Vinculo_Controle(f) == Params[f]
Endereco_Retorno(f) == Params[f] + 1
Valor_Retorno(f)    == Params[f] + 2
FirstLocal(f)       == Params[f] + 6

\* Variant: the frame forgets the words of linkage that are not used.
Size_Short(f, b) == Params[f] + 5 + Locals[f] + b

\* Words of f's frame where b words of nested declarations have been seen.
Size(f, b) == Params[f] + 6 + Locals[f] + b

get_sp(f, b) == Size(f, b) - 1

\* Of the function called: complete, unless it is the one being compiled.
CalleeSize(g, f, b) == IF g = f THEN Size(f, b) ELSE Size(g, Nested[g])

Variables(f) == 0..(Params[f] - 1) \cup FirstLocal(f)..(FirstLocal(f) + Locals[f] - 1)
Globals      == 0..(GlobalSize - 1)

Addresses == 0..(INIT_CONTEXT_SWITCH - 1) \cup
             INIT_STACK_PARAMS..(INIT_STACK_PARAMS + MaxParams - 1)

\* Words besides Values: an address ($fp + k; len is the size of the array there),
\* and the return address of a call.
Address(a, n)  == [address |-> a, len |-> n]
Site(f, b, ps) == [fn |-> f, block |-> b, parametros |-> ps]

LocalArray(f, base) == Address(base + FirstLocal(f), Locals[f])
LiveArrays == {LocalArray(stack[d].fn, stack[d].fp) : d \in 1..Len(stack)}

-----------------------------------------------------------------------------
\* FUN of main and the declarations at its head.
InitFrames ==
  /\ program \in Programs
  /\ fn = Main /\ block = 0 /\ parametros = 0
  /\ fp = GlobalSize
  /\ sp = GlobalSize + 5 + Locals[Main]
  /\ memory = [a \in Addresses |-> Garbage]
  /\ reg \in Values
  /\ stack = <<[fn |-> Main, fp |-> GlobalSize]>>

Compute ==
  /\ reg' \in Values
  /\ UNCHANGED <<control, memory>>

\* Where a variable is: get_variable, then $fp or $s0.
Visible == {fp + v : v \in Variables(fn)} \cup Globals

LOAD ==
  /\ \E a \in Visible : reg' = memory[a]
  /\ UNCHANGED <<control, memory>>

STORE ==
  /\ \E a \in Visible : memory' = [memory EXCEPT ![a] = reg]
  /\ UNCHANGED <<control, reg>>

\* An element of a parameter of type array; programs keep to the array's bounds.
Elements ==
  UNION {LET array == memory[fp + p]
         IN  IF array \in LiveArrays
             THEN {array.address + e : e \in 0..(array.len - 1)} ELSE {}
         : p \in 0..(Params[fn] - 1)}

LOAD_Element ==
  /\ \E a \in Elements : reg' = memory[a]
  /\ UNCHANGED <<control, memory>>

STORE_Element ==
  /\ \E a \in Elements : memory' = [memory EXCEPT ![a] = reg]
  /\ UNCHANGED <<control, reg>>

\* IFF, GOTO, LABEL: to any point of the function's text.
Jump ==
  /\ parametros = 0
  /\ block' \in {0, Nested[fn]}
  /\ UNCHANGED <<program, fn, parametros, fp, sp, memory, reg, stack>>

\* ALLOC in a nested block; only in main is it an instruction.
ALLOC ==
  /\ parametros = 0
  /\ block = 0
  /\ block' = Nested[fn]
  /\ sp' = IF fn = Main THEN sp + Nested[fn] ELSE sp
  /\ sp' < INIT_CONTEXT_SWITCH
  /\ UNCHANGED <<program, fn, parametros, fp, memory, reg, stack>>

-----------------------------------------------------------------------------
Leaf(f) == Callees[f] = {}

\* Variant: the argument overwrites the one before it.
PARAM_InPlace(word) ==
  /\ ~ Leaf(fn)
  /\ parametros < MaxParams
  /\ memory' = [memory EXCEPT ![INIT_STACK_PARAMS] = word]
  /\ parametros' = parametros + 1
  /\ reg' = word
  /\ UNCHANGED <<program, fn, block, fp, sp, stack>>

PARAM(word) ==
  /\ ~ Leaf(fn)
  /\ parametros < MaxParams
  /\ memory' = [memory EXCEPT ![INIT_STACK_PARAMS + parametros] = word]
  /\ parametros' = parametros + 1
  /\ reg' = word
  /\ UNCHANGED <<program, fn, block, fp, sp, stack>>

\* Arguments move from the parameter stack to the new frame, with the control
\* link; $fp and $sp move; FUN of the callee saves $ra.  The parameter stack is
\* one for all activations: arguments pending for an outer call survive only in
\* a call of a function that makes none.
CALL(g) ==
  LET left  == parametros - Params[g]
      own   == Size(fn, block)
      moved == [i \in 1..Params[g] |-> memory[INIT_STACK_PARAMS + left + i - 1]]
      linked == [a \in Addresses |->
                   IF a - sp \in 1..Params[g] THEN moved[a - sp]
                   ELSE IF a = sp + Params[g] + 1 THEN Address(fp + Vinculo_Controle(fn), 0)
                   ELSE memory[a]]
  IN  /\ left = 0 \/ (left > 0 /\ Leaf(g))
      /\ fp' = fp + own
      /\ sp' = sp + CalleeSize(g, fn, block)
      /\ sp' < INIT_CONTEXT_SWITCH
      /\ memory' = [linked EXCEPT ![fp' + Endereco_Retorno(g)] = Site(fn, block, left)]
      /\ fn' = g /\ block' = 0 /\ parametros' = 0
      /\ stack' = Append(stack, [fn |-> g, fp |-> fp'])
      /\ UNCHANGED <<program, reg>>

\* Variant: the code after a call does not give $sp back.
EndTo_KeepSp(site) ==
  /\ fn' = site.fn /\ block' = site.block /\ parametros' = site.parametros
  /\ fp' = fp - Size(site.fn, site.block)
  /\ sp' = sp
  /\ stack' = SubSeq(stack, 1, Len(stack) - 1)
  /\ UNCHANGED program

\* Variant: $fp goes back by the size of the function called.
EndTo_CalleeSize(site) ==
  /\ fn' = site.fn /\ block' = site.block /\ parametros' = site.parametros
  /\ fp' = fp - CalleeSize(fn, site.fn, site.block)
  /\ sp' = sp - CalleeSize(fn, site.fn, site.block)
  /\ stack' = SubSeq(stack, 1, Len(stack) - 1)
  /\ UNCHANGED program

\* END jumps to the return address; the code there gives $fp and $sp back.
EndTo(site) ==
  /\ fn' = site.fn /\ block' = site.block /\ parametros' = site.parametros
  /\ fp' = fp - Size(site.fn, site.block)
  /\ sp' = sp - CalleeSize(fn, site.fn, site.block)
  /\ stack' = SubSeq(stack, 1, Len(stack) - 1)
  /\ UNCHANGED program

\* Variant: the value goes where the callee's own frame has it.
RET_OwnFrame ==
  /\ fn # Main
  /\ parametros = 0
  /\ memory' = [memory EXCEPT ![fp + Valor_Retorno(fn)] = reg]
  /\ EndTo(memory[fp + Endereco_Retorno(fn)])
  /\ reg' = IF fn \in Void THEN reg ELSE memory'[fp' + Valor_Retorno(fn')]

\* RET, through the control link; GOTO the end; END; the caller loads the value.
RET ==
  /\ fn # Main
  /\ parametros = 0
  /\ memory' = [memory EXCEPT ![memory[fp + Vinculo_Controle(fn)].address + 2] = reg]
  /\ EndTo(memory'[fp + Endereco_Retorno(fn)])
  /\ reg' = IF fn \in Void THEN reg ELSE memory'[fp' + Valor_Retorno(fn')]

\* A function of type void reaches its END.
END ==
  /\ fn \in Void \ {Main}
  /\ parametros = 0
  /\ EndTo(memory[fp + Endereco_Retorno(fn)])
  /\ UNCHANGED <<memory, reg>>

NextFrames ==
  \/ Compute
  \/ LOAD
  \/ STORE
  \/ LOAD_Element
  \/ STORE_Element
  \/ Jump
  \/ ALLOC
  \/ PARAM(reg)
  \/ Locals[fn] > 0 /\ PARAM(LocalArray(fn, fp))
  \/ \E g \in Callees[fn] : CALL(g)
  \/ RET
  \/ END

FramesSpec == InitFrames /\ [][NextFrames]_framevars

-----------------------------------------------------------------------------
Words ==
  Values \cup {Garbage}
  \cup {Address(a, n) : a \in Addresses, n \in {0} \cup {Locals[f] : f \in Functions}}
  \cup {Site(f, b, p) : f \in Functions, b \in {0} \cup {Nested[f] : f \in Functions},
                        p \in 0..MaxParams}

FramesTypeOK ==
  /\ program \in Programs
  /\ fn \in Functions /\ block \in {0, Nested[fn]}
  /\ parametros \in 0..MaxParams
  /\ fp \in Addresses /\ sp \in Addresses
  /\ memory \in [Addresses -> Words]
  /\ reg \in Words
  /\ stack \in Seq([fn : Functions, fp : Addresses])

\* Programs whose functions declare variables in blocks only if they call none.
NestedInLeaves ==
  \A p \in Programs : \A f \in DOMAIN p.Params : p.Callees[f] # {} => p.Nested[f] = 0

\* memory.c:339, "Stack pointer points to the last element": wherever a function
\* may call another one, the word after $sp is the first after the frame, which
\* is where CALL puts the new one.
StackPointerAtLast == ~ Leaf(fn) => sp = fp + get_sp(fn, block)

\* The linkage of every open activation is what RET, END and the code after the
\* call need: the control link is the caller's, and the return address leads to
\* a point of the caller whose frame size gives the caller's $fp back.
LinkageIntact ==
  \A d \in 2..Len(stack) :
    LET me     == stack[d]
        caller == stack[d - 1]
    IN  /\ memory[me.fp + Vinculo_Controle(me.fn)]
             = Address(caller.fp + Vinculo_Controle(caller.fn), 0)
        /\ \E b \in {0, Nested[caller.fn]}, ps \in 0..MaxParams :
             /\ memory[me.fp + Endereco_Retorno(me.fn)] = Site(caller.fn, b, ps)
             /\ caller.fp + Size(caller.fn, b) = me.fp

\* What a call means: Activations.  A caller's pending arguments are counted at
\* its return address.
PendingOf(d) ==
  IF d = Len(stack) THEN parametros
  ELSE memory[stack[d + 1].fp + Endereco_Retorno(stack[d + 1].fn)].parametros

ActivationAt(d, f, base) ==
  [fn |-> f, home |-> base + FirstLocal(f),
   vars |-> [v \in Variables(f) |-> memory[base + v]],
   pending |-> [p \in 1..PendingOf(d) |-> memory[INIT_STACK_PARAMS + p - 1]]]

activations ==
  [d \in 1..Len(stack) |-> IF d = Len(stack) THEN ActivationAt(d, fn, fp)
                           ELSE ActivationAt(d, stack[d].fn, stack[d].fp)]

VarsOf  == [f \in Functions |-> Variables(f)]
ArrayOf == [f \in Functions |-> [e \in 1..Locals[f] |-> FirstLocal(f) + e - 1]]
global_words == [g \in Globals |-> memory[g]]

Act == INSTANCE Activations WITH
         stack <- activations, globals <- global_words, result <- reg

\* The code emitted for calls, returns and variables implements Activations:
\* variables of all open activations, pending arguments and results are where
\* the code that uses them looks for them.
CallsAndReturns == Act!ASpec

\* memory_layout.h:33, "PCs simples (10 x 500) (500 cada)": a program's data
\* are in its own partition of SEGMENTATION_SIZE_DM words, and the words from
\* there on, the next program's, are not written.
InOwnPartition ==
  \A a \in Addresses : a >= SEGMENTATION_SIZE_DM => memory[a] = Garbage

=============================================================================
