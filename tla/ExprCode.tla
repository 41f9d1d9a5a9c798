------------------------------ MODULE ExprCode ------------------------------
(***************************************************************************)
(* Code generation for expressions (src/codeGen.c) and the execution of    *)
(* the code it generates.  An expression is straight-line code, so one     *)
(* step both emits an instruction and executes it.  What has been computed *)
(* and not yet used is a stack of pending operands: the variables reg1,    *)
(* vector_idx, instrucaoStore... of the recursive calls still open.  Each  *)
(* remembers the register it was given, and the value it must find there.  *)
(*                                                                         *)
(* A value is the time stamp of the allocation that produced it: what      *)
(* matters is whether the register still holds it.  Functions save no      *)
(* register: a call overwrites any of them.                                *)
(***************************************************************************)
EXTENDS RegAlloc, Sequences

CONSTANTS
  MaxPending,   \* bound on the operands pending at a time
  Zero          \* register $zero

ASSUME MaxPendingAssumption == MaxPending \in Nat
ASSUME ZeroAssumption == Zero \notin Registers

VARIABLES
  operands,   \* pending operands, the latest last
  contents    \* value each register holds, -1 for one a callee left

exprvars == <<regvars, operands, contents>>

Kinds == {"value", "index", "target"}

Pending(r, v, k) == [reg |-> r, stamp |-> v, kind |-> k, called |-> FALSE]

\* The n-th operand from the top.
Top(n) == operands[Len(operands) - n]
Holds(n, k) == Len(operands) > n /\ Top(n).kind = k
Below(n) == SubSeq(operands, 1, Len(operands) - n)

InitExpr ==
  /\ initialize_registers
  /\ operands = <<>>
  /\ contents = [r \in Registers \cup {Zero} |-> 0]

\* A register is allocated and written, and stands for the value on the stack.
Produce(rest, k) ==
  /\ total_reg < MaxUses
  /\ Len(rest) < MaxPending
  /\ \E r \in Registers :
       /\ check_registers(r)
       /\ operands' = Append(rest, Pending(r, total_reg, k))
       /\ contents' = [contents EXCEPT ![r] = total_reg]

-----------------------------------------------------------------------------
\* LOADI of a constant, LOAD of a variable.
Leaf == Produce(operands, "value")

\* The constant 0 takes no register.
ZeroConstant ==
  /\ Len(operands) < MaxPending
  /\ operands' = Append(operands, Pending(Zero, 0, "value"))
  /\ UNCHANGED <<regvars, contents>>

\* LOAD of an array element: the index is the operand on top.
Element ==
  /\ Holds(0, "value")
  /\ Produce(Below(1), "value")

\* Arithmetic and relational operations.
Operation ==
  /\ Holds(1, "value")
  /\ Holds(0, "value")
  /\ Produce(Below(2), "value")

\* The left side of an assignment is evaluated first, and loaded.
Target == Produce(operands, "target")

\* Of an array element the index (vector_idx) is kept as well.
TargetElement ==
  /\ Holds(0, "value")
  /\ Produce(Append(Below(1), [Top(0) EXCEPT !.kind = "index"]), "target")

\* ASSIGN and STORE.  The value of the assignment is the right side's register.
Assign ==
  LET left == IF Holds(2, "index") THEN 3 ELSE 2
  IN  /\ Holds(1, "target")
      /\ Holds(0, "value")
      /\ contents' = [contents EXCEPT ![Top(1).reg] = contents[Top(0).reg]]
      /\ operands' = Append(Below(left), Top(0))
      /\ UNCHANGED regvars

\* PARAM stores an argument as soon as it is computed.
Argument ==
  /\ Holds(0, "value")
  /\ operands' = Below(1)
  /\ UNCHANGED <<regvars, contents>>

\* PARAM of an array takes a register for its address.
ArrayArgument ==
  /\ total_reg < MaxUses
  /\ \E r \in Registers :
       /\ check_registers(r)
       /\ contents' = [contents EXCEPT ![r] = total_reg]
  /\ UNCHANGED operands

\* CALL of a function that returns a value; clobbered is what the callee writes.
Call(clobbered) ==
  /\ total_reg < MaxUses
  /\ Len(operands) < MaxPending
  /\ \E r \in Registers :
       /\ check_registers(r)
       /\ operands' = Append([n \in DOMAIN operands |-> [operands[n] EXCEPT !.called = TRUE]],
                             Pending(r, total_reg, "value"))
       /\ contents' = [q \in Registers \cup {Zero} |->
                         IF q = r THEN total_reg
                         ELSE IF q \in clobbered THEN -1 ELSE contents[q]]

\* A statement ends: IFF, RET, or a value nobody uses.
EndStatement ==
  /\ Len(operands) = 1
  /\ Holds(0, "value")
  /\ operands' = <<>>
  /\ UNCHANGED <<regvars, contents>>

NextExpr ==
  \/ Leaf
  \/ ZeroConstant
  \/ Element
  \/ Operation
  \/ Target
  \/ TargetElement
  \/ Assign
  \/ Argument
  \/ ArrayArgument
  \/ \E clobbered \in SUBSET Registers : Call(clobbered)
  \/ EndStatement

ExprSpec == InitExpr /\ [][NextExpr]_exprvars

-----------------------------------------------------------------------------
ExprTypeOK ==
  /\ register_list \in
       [Registers -> [var_name : {"NULL", "Temporario"}, last_use : 0..MaxUses]]
  /\ total_reg \in 1..(MaxUses + 1)
  /\ total_reg_in_use \in 0..MAX_REG
  /\ operands \in Seq([reg : Registers \cup {Zero}, stamp : 0..MaxUses,
                       kind : Kinds, called : BOOLEAN])
  /\ contents \in [Registers \cup {Zero} -> -1..MaxUses]

\* The count that decides between a free register and discarding one is the
\* number of registers taken (reg.c total_reg_in_use, check_registers): wrong,
\* add_temp_register would find nothing and the generator would go on with -1.
InUseCounted ==
  total_reg_in_use = Cardinality({r \in Registers : register_list[r].var_name # "NULL"})

\* A register is reused only after every other one has been handed out since
\* (discard_register evicts by age): the last MAX_REG - 1 results stay.
OldestReused ==
  [][\A r \in Registers :
       register_list'[r] # register_list[r] =>
         \/ register_list[r].var_name = "NULL"
         \/ register_list[r].last_use = total_reg - MAX_REG]_exprvars

\* Not older than the MAX_REG latest allocations.
Recent(o) == o.reg = Zero \/ total_reg - o.stamp <= MAX_REG

\* An operand waits in its register, unharmed by the code generated for the
\* rest of the expression (nested assignments and array accesses included), as
\* long as that code took fewer than MAX_REG registers and made no call.
OperandsIntact ==
  \A n \in DOMAIN operands :
    LET o == operands[n]
    IN  Recent(o) /\ ~ o.called => contents[o.reg] = o.stamp

\* tests/fpga/teste_11_recursao.cm:6, return n * fatorial(n - 1): the left
\* operand of an operation is there when the right one has been computed, a
\* call or not.
OperandsSurviveCalls ==
  \A n \in DOMAIN operands :
    Recent(operands[n]) => contents[operands[n].reg] = operands[n].stamp

=============================================================================
