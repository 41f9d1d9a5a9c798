-------------------------- MODULE IntermediateCode --------------------------
(***************************************************************************)
(* The instructions src/codeGen.c makes.  An instruction has the operands  *)
(* arg1, arg2 and arg3 that are numbers or registers (-1: none or empty)   *)
(* and at most one name, of a variable, a function or a label, and one     *)
(* scope.  Registers are parameters here; ExprCode says which they are.    *)
(***************************************************************************)
EXTENDS Integers, Sequences, SequencesExt

None == -1
NoName == ""

create_instruction(op, arg1, arg2, arg3, name, scope) ==
  [op |-> op, arg1 |-> arg1, arg2 |-> arg2, arg3 |-> arg3, name |-> name, scope |-> scope]

Plain(op)        == create_instruction(op, None, None, None, NoName, NoName)
Unary(op, arg)   == create_instruction(op, arg, None, None, NoName, NoName)
Named(op, name)  == create_instruction(op, None, None, None, name, NoName)

-----------------------------------------------------------------------------
(* Labels, operations, constants. *)

create_instruction_label(label) == Named("LABEL", label)
create_instruction_goto(label)  == Named("GOTO", label)
create_instruction_iff(reg, label) == [Unary("IFF", reg) EXCEPT !.name = label]

ArithmeticOp == ("+" :> "ADD") @@ ("-" :> "SUB") @@ ("*" :> "MULT") @@ ("/" :> "DIV")
RelationalOp == ("==" :> "EQ") @@ ("!=" :> "NEQ") @@ (">" :> "GT") @@ ("<" :> "LT")
                  @@ (">=" :> "GET") @@ ("<=" :> "LET")

create_instruction_arithmetic(opName, reg1, reg2, destReg) ==
  create_instruction(ArithmeticOp[opName], reg1, reg2, destReg, NoName, NoName)

create_instruction_relational(opName, reg1, reg2, destReg) ==
  create_instruction(RelationalOp[opName], reg1, reg2, destReg, NoName, NoName)

create_instruction_loadi(destReg, value) ==
  create_instruction("LOADI", destReg, value, None, NoName, NoName)

\* 0 is in register $zero: no code, and another register.
expr_const(destReg, value) ==
  IF value = 0 THEN <<>> ELSE <<create_instruction_loadi(destReg, value)>>
constReg(destReg, value) == IF value = 0 THEN 31 ELSE destReg

-----------------------------------------------------------------------------
(* Variables. *)

\* size is that of an array, 0 of anything else.
create_instruction_alloc(varName, scope, size) ==
  create_instruction("ALLOC", None, None, size, varName, scope)

\* The element of an array, whose index is in a register, or a variable.
expr_array(reg, name, index) ==
  create_instruction("LOAD", reg, None, index, name, NoName)
expr_id(reg, name) == expr_array(reg, name, None)

\* The left side is loaded before the code of the value, which goes to its
\* register and from there to memory.
expr_assign(name, left, index, value, right) ==
  <<expr_array(left, name, index)>> \o value
    \o <<create_instruction("ASSIGN", left, right, None, NoName, NoName),
         create_instruction("STORE", None, left, index, name, NoName)>>

-----------------------------------------------------------------------------
(* Functions. *)

\* A parameter of a function: whether it is an array.
Arg(name, scope, array) ==
  create_instruction("ARG", None, None, IF array THEN 1 ELSE 0, name, scope)

\* Parameters are loaded into registers, and their values not used from there.
decl_func(name, params, regs, body, end) ==
  <<[Named("FUN", name) EXCEPT !.arg3 = Len(params)]>>
    \o [k \in DOMAIN params |-> Arg(params[k].name, name, params[k].array)]
    \o [k \in DOMAIN params |-> expr_id(regs[k], params[k].name)]
    \o body
    \o <<create_instruction_label(end), Named("END", name)>>

\* The register of a void function's RET is read as 0.
decl_return(reg, end) == <<Unary("RET", reg), create_instruction_goto(end)>>

\* An argument, and an argument that is an array.
Param(reg)            == Unary("PARAM", reg)
ParamArray(reg, name) == [Unary("PARAM", reg) EXCEPT !.name = name]

\* A call with n arguments; no register if there is no value.
Call(name, n, reg) == [Named("CALL", name) EXCEPT !.arg2 = n, !.arg3 = reg]

-----------------------------------------------------------------------------
(* Intrinsics. *)

WithoutArgument ==
  [os_jump_to |-> "OS_JUMP_TO", no_op |-> "NO_OP", os_save_return |-> "OS_SAVE_RETURN",
   os_save_context |-> "OS_SAVE_CONTEXT", os_restore_context |-> "OS_RESTORE_CONTEXT"]

WithRegister ==
  [os_set_dm_base |-> "OS_SET_DM_BASE", os_set_im_base |-> "OS_SET_IM_BASE",
   os_set_pc |-> "OS_SET_PC", show_lcd |-> "DISP_VAR"]

WithConstant == [show_lcd |-> "DISP_CONST", set_interr_timer |-> "SET_INTERR_TIMER"]

intrinsic(name)            == Plain(WithoutArgument[name])
intrinsicOf(name, reg)     == Unary(WithRegister[name], reg)
intrinsicConst(name, value) == Unary(WithConstant[name], value)

\* HALT ends the code.
end_intermediate_code(code) == Append(code, Plain("HALT"))

=============================================================================
