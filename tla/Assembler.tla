------------------------------ MODULE Assembler ------------------------------
(***************************************************************************)
(* src/assembler.c: the processor's instructions for one instruction of    *)
(* the intermediate code, given the table of frames so far and the         *)
(* function being compiled; src/binario.c: the words they are written as.  *)
(*                                                                         *)
(* Instructions of the intermediate code are as in IntermediateCode.       *)
(***************************************************************************)
EXTENDS MemoryTable

SEGMENTATION_SIZE_DM == 500
INIT_STACK_PARAMS    == SEGMENTATION_SIZE_DM - 1
INIT_CONTEXT_SWITCH  == INIT_STACK_PARAMS - 32

\* Numbers of the registers with a purpose.
Reg == [zero |-> 31, ra |-> 30, fp |-> 29, sp |-> 28, temp |-> 27, pilha |-> 26,
        k0 |-> 25, s1 |-> 24, s0 |-> 23, temp2 |-> 22]

-----------------------------------------------------------------------------
(* create_assembly_node and the three helpers.  A field not set is -1. *)
R(name, rd, rs, rt) ==
  [type |-> "R", name |-> name, rd |-> rd, rs |-> rs, rt |-> rt, shamt |-> 0]
I(name, rt, rs, immediate) ==
  [type |-> "I", name |-> name, rt |-> rt, rs |-> rs, immediate |-> immediate, label |-> ""]
J(name, label) == [type |-> "J", name |-> name, label |-> label]
LabelHere(label) == [type |-> "LABEL", name |-> label]

-----------------------------------------------------------------------------
(* Selection of instructions. *)

Arithmetic == [ADD |-> "add", SUB |-> "sub", MULT |-> "mult", DIV |-> "div",
               AND |-> "and", OR |-> "or"]

opAritmeticos(i) == <<R(Arithmetic[i.op], i.arg3, i.arg1, i.arg2)>>

\* Variant: NEQ keeps its first comparison in the register of the result.
NotEqual_NoTemp(rd, rs, rt) ==
  <<R("slt", rd, rs, rt), R("slt", rd, rt, rs), R("or", rd, rd, rd)>>

NotEqual(rd, rs, rt) ==
  <<R("slt", Reg.temp, rs, rt), R("slt", rd, rt, rs), R("or", rd, Reg.temp, rd)>>

Relational == {"EQ", "NEQ", "LT", "GT", "GET", "LET"}

opRelacionais(i) ==
  LET rd == i.arg3
      rs == i.arg1
      rt == i.arg2
  IN  CASE i.op = "EQ"  -> <<R("xor", rd, rs, rt), I("slti", rd, rd, 1)>>
        [] i.op = "NEQ" -> NotEqual(rd, rs, rt)
        [] i.op = "LT"  -> <<R("slt", rd, rs, rt)>>
        [] i.op = "GT"  -> <<R("slt", rd, rt, rs)>>
        [] i.op = "GET" -> <<R("slt", rd, rs, rt), I("xori", rd, rd, 1)>>
        [] i.op = "LET" -> <<R("slt", rd, rt, rs), I("xori", rd, rd, 1)>>

ASSIGN(i) == <<R("add", i.arg1, Reg.zero, i.arg2)>>

\* More than 16 bits take two steps; the lower ones are left to the field's width.
LOADI(i) ==
  IF i.arg2 > 65535
  THEN <<I("ori", i.arg1, Reg.zero, (i.arg2 \div 65536) % 65536),
         [R("sll", i.arg1, i.arg1, Reg.zero) EXCEPT !.shamt = 16],
         I("ori", i.arg1, i.arg1, i.arg2)>>
  ELSE <<I("ori", i.arg1, Reg.zero, i.arg2)>>

IFF(i) == <<[I("beq", i.arg1, Reg.zero, 0) EXCEPT !.label = i.name]>>

\* Where a variable is.
Base(var) == IF var.is_global THEN Reg.s0 ELSE Reg.fp

\* The address of an element in $temp.  Of an array that is not a parameter the
\* address is known, a parameter holds it.
ElementAddress(var, index) ==
  <<I(IF var.type = "VAR_ARRAY" THEN "addi" ELSE "lw", Reg.temp, Base(var), var.index),
    R("add", Reg.temp, Reg.temp, index)>>

LOAD(i, memory, f) ==
  LET var == get_variable(memory, f, i.name)
  IN  IF i.arg3 # -1
      THEN ElementAddress(var, i.arg3) \o <<I("lw", i.arg1, Reg.temp, 0)>>
      ELSE <<I("lw", i.arg1, Base(var), var.index)>>

STORE(i, memory, f) ==
  LET var == get_variable(memory, f, i.name)
  IN  IF i.arg3 # -1
      THEN ElementAddress(var, i.arg3) \o <<I("sw", i.arg2, Reg.temp, 0)>>
      ELSE <<I("sw", i.arg2, Base(var), var.index)>>

Pending(memory) == Size(memory, "parametros")

\* An argument; of an array, its address.
PARAM(i, memory, f) ==
  LET var   == get_variable(memory, f, i.name)
      array == I(IF var.type = "VAR_ARRAY_ARG" THEN "lw" ELSE "addi", i.arg1, Base(var), var.index)
  IN  (IF i.name = "" THEN <<>> ELSE <<array>>)
        \o <<I("sw", i.arg1, Reg.pilha, Pending(memory))>>

-----------------------------------------------------------------------------
(* Functions. *)

\* $fp, $sp and the stack of arguments of main; the others save $ra.
FUN(i, memory) ==
  LET own == Last(memory)
  IN  <<LabelHere(i.name)>> \o
      IF i.name = "main"
      THEN <<I("ori", Reg.fp, Reg.zero, Size(memory, "global")),
             R("add", Reg.fp, Reg.fp, Reg.s0),
             I("ori", Reg.sp, Reg.zero, Size(memory, "global") + get_sp(own)),
             R("add", Reg.sp, Reg.sp, Reg.s0),
             I("addi", Reg.pilha, Reg.s0, INIT_STACK_PARAMS)>>
      ELSE <<I("sw", Reg.ra, Reg.fp, IndexIn(own, "Endereco Retorno") + i.arg3)>>

\* $sp follows the declarations of main only.
Declaration(size, memory, f) ==
  IF memory[f].name = "main" THEN <<I("addi", Reg.sp, Reg.sp, size)>> ELSE <<>>

RET(i, memory, f) ==
  IF memory[f].name = "main" THEN <<>>
  ELSE <<I("lw", Reg.temp, Reg.fp, IndexIn(memory[f], "Vinculo Controle")),
         I("sw", i.arg1, Reg.temp, 2)>>

END(memory, f) ==
  IF memory[f].name = "main" THEN <<>>
  ELSE <<I("lw", Reg.ra, Reg.fp, IndexIn(memory[f], "Endereco Retorno")),
         R("jr", Reg.zero, Reg.ra, Reg.zero)>>

\* The k-th argument from the end of those pending.
Argument(memory, k, reg) == <<I("lw", reg, Reg.pilha, Pending(memory) - k)>>

\* Variant: the arguments are copied to the new frame from its first word on.
Arguments_FromTop(memory, n) ==
  FlattenSeq([k \in 1..n |-> Argument(memory, k, Reg.temp)
                               \o <<I("sw", Reg.temp, Reg.sp, k)>>])

\* From the last one to the first.
Arguments(memory, n) ==
  FlattenSeq([k \in 1..n |-> Argument(memory, k, Reg.temp)
                               \o <<I("sw", Reg.temp, Reg.sp, n - k + 1)>>])

CallFunction(i, memory, f) ==
  LET own    == get_sp(memory[f]) + 1
      callee == get_sp(memory[search_function(memory, i.name)]) + 1
  IN  Arguments(memory, i.arg2)
        \o <<R("add", Reg.temp, Reg.fp, Reg.zero),
             I("addi", Reg.temp, Reg.temp, IndexIn(memory[f], "Vinculo Controle")),
             I("sw", Reg.temp, Reg.sp, i.arg2 + 1),
             I("addi", Reg.fp, Reg.fp, own),
             I("addi", Reg.sp, Reg.sp, callee),
             J("jal", i.name),
             I("subi", Reg.fp, Reg.fp, own),
             I("subi", Reg.sp, Reg.sp, callee)>>
        \o IF i.arg3 # -1
           THEN <<I("lw", i.arg3, Reg.fp, IndexIn(memory[f], "Valor Retorno"))>> ELSE <<>>

\* Built-in functions: those that give a value take no argument.
Sources == [input |-> "in", get_pc |-> "get_pc", get_interr_type |-> "get_interr_type",
            keyboard_input |-> "keyboard_input", uart_tx_ready |-> "uart_tx_ready",
            uart_rx_available |-> "uart_rx_available", uart_receive |-> "uart_receive"]
Sinks   == [output |-> "out", uart_send |-> "uart_send", draw_pixel |-> "draw_pixel"]
SinkArguments(name) == IF name = "draw_pixel" THEN 2 ELSE 1

CallSink(i, memory) ==
  IF i.name = "draw_pixel"
  THEN Argument(memory, 1, Reg.temp2) \o Argument(memory, 2, Reg.temp)
         \o <<I("draw_pixel", Reg.temp2, Reg.temp, 0)>>
  ELSE Argument(memory, 1, Reg.temp) \o <<I(Sinks[i.name], Reg.zero, Reg.temp, 0)>>

CALL(i, memory, f) ==
  IF i.name \in DOMAIN Sinks THEN CallSink(i, memory)
  ELSE IF i.name \in DOMAIN Sources THEN <<I(Sources[i.name], i.arg3, Reg.zero, 0)>>
  ELSE CallFunction(i, memory, f)

-----------------------------------------------------------------------------
(* The operating system's intrinsics. *)

\* Variant: $k0 is among the registers of a context.
Context_WithK0(name) ==
  [k \in 1..32 |-> I(name, k - 1, Reg.s0, INIT_CONTEXT_SWITCH + k - 1)]

\* Every register but $k0, in the order of their numbers.
Context(name) ==
  LET Transfer(r) == I(name, r, Reg.s0, INIT_CONTEXT_SWITCH + r)
  IN  [k \in 1..25 |-> Transfer(k - 1)] \o [k \in 1..6 |-> Transfer(k + 25)]

Moves == [OS_SET_DM_BASE |-> Reg.s0, OS_SET_IM_BASE |-> Reg.s1, OS_SET_PC |-> Reg.k0]
Moved(i) == <<R("add", Moves[i.op], i.arg1, Reg.zero)>>

-----------------------------------------------------------------------------
(* generate_assembly. *)

\* The table after an instruction of function f.
Declared(memory, i) ==
  LET scope == search_function(memory, i.scope)
      Insert(frame, type) == insert_variable(frame, i.name, type)
      type  == IF i.op = "ARG" THEN (IF i.arg3 = 0 THEN "VAR_INT_ARG" ELSE "VAR_ARRAY_ARG")
               ELSE IF i.arg3 = 0 THEN "VAR_INT" ELSE "VAR_ARRAY"
      words == IF i.op = "ALLOC" /\ i.arg3 # 0 THEN i.arg3 ELSE 1
  IN  [memory EXCEPT ![scope] =
         FoldLeft(LAMBDA frame, k : Insert(frame, type), @, [k \in 1..words |-> k])]

Taken(memory, n) ==
  [memory EXCEPT ![search_function(memory, "parametros")] =
     FoldLeft(LAMBDA frame, k : delete_temp(frame), @, [k \in 1..n |-> k])]

TableAfter(i, memory) ==
  CASE i.op = "FUN"              -> insert_function(memory, i.name)
    [] i.op \in {"ALLOC", "ARG"} -> Declared(memory, i)
    [] i.op = "PARAM" -> [memory EXCEPT ![search_function(memory, "parametros")] =
                            insert_variable(@, "Param", "VAR_INT")]
    [] i.op = "CALL"  -> Taken(memory, IF i.name \in DOMAIN Sinks THEN SinkArguments(i.name)
                                       ELSE IF i.name \in DOMAIN Sources THEN 0 ELSE i.arg2)
    [] OTHER -> memory

\* What is emitted; memory is the table before, but for FUN, which is inserted first.
generate_assembly(i, memory, f) ==
  CASE i.op \in DOMAIN Arithmetic -> opAritmeticos(i)
    [] i.op \in Relational -> opRelacionais(i)
    [] i.op = "ASSIGN" -> ASSIGN(i)
    [] i.op = "LOADI"  -> LOADI(i)
    [] i.op = "ALLOC"  -> Declaration(IF i.arg3 = 0 THEN 1 ELSE i.arg3, memory, f)
    [] i.op = "ARG"    -> Declaration(1, memory, f)
    [] i.op = "IFF"    -> IFF(i)
    [] i.op = "LABEL"  -> <<LabelHere(i.name)>>
    [] i.op = "GOTO"   -> <<J("j", i.name)>>
    [] i.op = "FUN"    -> FUN(i, insert_function(memory, i.name))
    [] i.op = "RET"    -> RET(i, memory, f)
    [] i.op = "END"    -> END(memory, f)
    [] i.op = "PARAM"  -> PARAM(i, memory, f)
    [] i.op = "LOAD"   -> LOAD(i, memory, f)
    [] i.op = "STORE"  -> STORE(i, memory, f)
    [] i.op = "CALL"   -> CALL(i, memory, f)
    [] i.op = "NO_OP"  -> <<R("no_op", Reg.zero, Reg.zero, Reg.zero)>>
    [] i.op = "HALT"   -> <<J("halt", "$zero")>>
    [] i.op = "DISP_VAR"   -> <<I("disp", Reg.zero, i.arg1, 0)>>
    [] i.op = "DISP_CONST" -> <<I("disp", Reg.zero, Reg.zero, i.arg1)>>
    [] i.op = "SET_INTERR_TIMER" -> <<I("set_interr_timer", Reg.zero, Reg.zero, i.arg1)>>
    [] i.op = "OS_SAVE_CONTEXT"    -> Context("sw")
    [] i.op = "OS_RESTORE_CONTEXT" -> Context("lw")
    [] i.op \in DOMAIN Moves -> Moved(i)
    [] i.op = "OS_SAVE_RETURN" -> <<I("os_save_return", Reg.zero, Reg.zero, 0)>>
    [] i.op = "OS_JUMP_TO" -> <<I("os_jump_to", Reg.zero, Reg.k0, 0)>>

=============================================================================
