---------------------------- MODULE MCMachineCode ----------------------------
(***************************************************************************)
(* Programs for MachineCode, as src/codeGen.c writes them: families of     *)
(* short ones, each for a part of the translation.                         *)
(***************************************************************************)
EXTENDS MachineCode, IntermediateCode

Alloc(x, f, size) == create_instruction_alloc(x, f, size)
Op(op, rs, rt, rd) == create_instruction(op, rs, rt, rd, NoName, NoName)
Constant(reg, value) == create_instruction_loadi(reg, value)

\* x = value, through registers left and right.
AssignConst(x, left, value, right) ==
  expr_assign(x, left, None, expr_const(right, value), constReg(right, value))
\* x = y
AssignVar(x, left, y, right) == expr_assign(x, left, None, <<expr_id(right, y)>>, right)

Scalar(x)  == [name |-> x, array |-> FALSE]
ArrayOf(x) == [name |-> x, array |-> TRUE]

Main(body) == decl_func("main", <<>>, <<>>, body, "Label 0")

Program(globals, functions, body, given) ==
  [code |-> end_intermediate_code(globals \o functions \o Main(body)), given |-> given,
   base |-> 500, areas |-> {}]

One(globals, functions, body) == Program(globals, functions, body, {<<>>})

-----------------------------------------------------------------------------
(* Operators on the edges of a word, in every choice of registers.  $zero is a *)
(* constant 0.                                                                *)
Edges == {0, 1, 2, 65536, 2^17 - 1, 2^17, 2^18 - 1}

OneOperator ==
  {Program(<<>>, <<>>, <<Op(op, rs, rt, rd)>>,
           {(0 :> a) @@ (1 :> b) : a \in IF 0 \in {rs, rt} THEN Edges ELSE {2},
                                   b \in IF rt = 1 THEN Edges ELSE {2}}) :
     op \in DOMAIN Arithmetic \cup Relational, rs \in {0, 31}, rt \in {0, 1}, rd \in 0..2}

Constants ==
  {One(<<Alloc("x", "global", 0)>>, <<>>, AssignConst("x", 1, value, 0)) :
     value \in {0, 1, 65535, 65536, 65537, 131071, 2^18 - 1}}

-----------------------------------------------------------------------------
(* Variables: a global scalar and array, a local array and a scalar declared  *)
(* late, possibly with the names of the globals' counterparts elsewhere.      *)
Globals == <<Alloc("x", "global", 0), Alloc("a", "global", 2)>>

\* x = 7; x; a[1] = 8; a[0] = 9; a[1];
Accesses(x, a) ==
  {AssignConst(x, 2, 7, 0), <<expr_id(0, x)>>,
   <<Constant(2, 1)>> \o expr_assign(a, 1, 2, <<Constant(0, 8)>>, 0),
   expr_assign(a, 2, 31, <<Constant(1, 9)>>, 1), <<Constant(2, 1), expr_array(0, a, 2)>>}

TwoAccesses ==
  {One(Globals,
       decl_func("f", <<>>, <<>>, <<Alloc("x", "f", 0), Alloc("y", "f", 0)>>, "Label 1"),
       <<Alloc("b", "main", 2)>> \o first
         \o <<Alloc("y", "main", 0)>> \o late) :
     first \in Accesses("x", "a") \cup Accesses("x", "b"),
     late \in Accesses("x", "a") \cup Accesses("y", "b")}

-----------------------------------------------------------------------------
(* Branches and loops. *)

\* if (r0 op r1) { int y; y = x; } else { x = 9; }  x;
IfElse ==
  {Program(<<Alloc("x", "global", 0)>>, <<>>,
           <<create_instruction_relational(op, 0, 1, 2), create_instruction_iff(2, "Label 1"),
             Alloc("y", "main", 0)>> \o AssignVar("y", 2, "x", 0)
           \o <<create_instruction_goto("Label 2"), create_instruction_label("Label 1")>>
           \o AssignConst("x", 2, 9, 1) \o <<create_instruction_label("Label 2"), expr_id(0, "x")>>,
           {(0 :> a) @@ (1 :> b) : a, b \in {0, 1, 2^18 - 1}}) : op \in DOMAIN RelationalOp}

\* x = n; while (x > 0) { int y; y = x - 1; x = y; }
While ==
  {One(<<Alloc("x", "global", 0)>>, <<>>,
       AssignConst("x", 1, n, 0)
       \o <<create_instruction_label("Label 2"), expr_id(0, "x"),
            create_instruction_relational(">", 0, 31, 2), create_instruction_iff(2, "Label 1"),
            Alloc("y", "main", 0)>>
       \o expr_assign("y", 2, None,
                      <<expr_id(0, "x"), Constant(1, 1), create_instruction_arithmetic("-", 0, 1, 0)>>, 0)
       \o AssignVar("x", 2, "y", 1)
       \o <<create_instruction_goto("Label 2"), create_instruction_label("Label 1")>>) : n \in 0..3}

-----------------------------------------------------------------------------
(* Devices. *)
Devices ==
  {One(<<Alloc("x", "global", 0)>>, <<>>, <<Constant(0, 5), Constant(1, 9)>> \o body) :
     body \in
       {<<Param(0), Call(sink, 1, None), Param(1), Call(sink, 1, None)>> :
          sink \in {"output", "uart_send"}}
       \cup {<<Param(0), Param(1), Call("draw_pixel", 2, None)>>,
             <<Param(0), Param(1), Param(0), Call("draw_pixel", 2, None), Call("output", 1, None)>>,
             <<intrinsicOf("show_lcd", 1), intrinsic("no_op"), intrinsicConst("show_lcd", 12),
               intrinsicConst("set_interr_timer", 300), intrinsic("os_save_return")>>}
       \cup {<<Param(1), Call(source, 0, 0), Param(0), Call("draw_pixel", 2, None)>> :
               source \in DOMAIN Sources}}

-----------------------------------------------------------------------------
(* Calls. *)

\* int add(int x, int v[]) { int t; t = v[1]; v[1] = x; return t - x; }
Add ==
  decl_func("add", <<Scalar("x"), ArrayOf("v")>>, <<0, 1>>,
            <<Alloc("t", "add", 0)>>
            \o expr_assign("t", 1, None, <<Constant(2, 1), expr_array(0, "v", 2)>>, 0)
            \o <<Constant(2, 1)>> \o expr_assign("v", 0, 2, <<expr_id(1, "x")>>, 1)
            \o <<expr_id(0, "t"), expr_id(1, "x"), create_instruction_arithmetic("-", 0, 1, 0)>>
            \o decl_return(0, "Label 9"), "Label 9")

\* int b[2]; x = n; y = add(x, array); draw_pixel(y, array[1]);
\* The array is a global one, or main's; main's y is declared before or after x is set.
CallAdd(array, n, early, late) ==
  <<Alloc("b", "main", 2)>> \o early \o AssignConst("x", 1, n, 0) \o late
    \o expr_assign("y", 0, None,
                   <<expr_id(1, "x"), Param(1), ParamArray(1, array), Call("add", 2, 2)>>, 2)
    \o <<expr_id(2, "y"), Param(2), Constant(2, 1), expr_array(0, array, 2), Param(0),
         Call("draw_pixel", 2, None)>>

Late == <<Alloc("y", "main", 0)>>

CallsWithArray ==
  {One(Globals, Add, CallAdd(array, n, y[1], y[2])) :
     array \in {"a", "b"}, n \in {0, 3}, y \in {<<Late, <<>>>>, <<<<>>, Late>>}}

\* void fill(int v[], int n) { if (n > 0) { v[n] = n; fill(v, n - 1); } return; }
Fill ==
  decl_func("fill", <<ArrayOf("v"), Scalar("n")>>, <<0, 1>>,
            <<expr_id(0, "n"), create_instruction_relational(">", 0, 31, 1),
              create_instruction_iff(1, "Label 8"), expr_id(0, "n")>>
            \o expr_assign("v", 1, 0, <<expr_id(2, "n")>>, 2)
            \o <<ParamArray(1, "v"), expr_id(0, "n"), Constant(2, 1),
                 create_instruction_arithmetic("-", 0, 2, 0), Param(0), Call("fill", 2, None),
                 create_instruction_label("Label 8")>>
            \o decl_return(0, "Label 7"), "Label 7")

\* int sum(int n) { int r; r = 0; if (n > 0) { r = sum(n - 1); } return r + n; }
Sum ==
  decl_func("sum", <<Scalar("n")>>, <<0>>,
            <<Alloc("r", "sum", 0)>> \o AssignConst("r", 0, 0, 0)
            \o <<expr_id(0, "n"), create_instruction_relational(">", 0, 31, 1),
                 create_instruction_iff(1, "Label 6")>>
            \o expr_assign("r", 2, None,
                           <<expr_id(0, "n"), Constant(1, 1), create_instruction_arithmetic("-", 0, 1, 0),
                             Param(0), Call("sum", 1, 0)>>, 0)
            \o <<create_instruction_label("Label 6"), expr_id(1, "r"), expr_id(2, "n"),
                 create_instruction_arithmetic("+", 1, 2, 1)>>
            \o decl_return(1, "Label 5"), "Label 5")

\* int k; k = n; fill(a, k); g = sum(k); draw_pixel(g, k);
Recursion ==
  {One(<<Alloc("g", "global", 0), Alloc("a", "global", 3)>>, Fill \o Sum,
       <<Alloc("k", "main", 0)>> \o AssignConst("k", 1, n, 0)
       \o <<ParamArray(1, "a"), expr_id(0, "k"), Param(0), Call("fill", 2, None)>>
       \o expr_assign("g", 2, None, <<expr_id(0, "k"), Param(0), Call("sum", 1, 1)>>, 1)
       \o <<expr_id(2, "g"), Param(2), expr_id(1, "k"), Param(1), Call("draw_pixel", 2, None)>>) :
     n \in 0..2}

\* int last(int p) { return p; }  A call of it while arguments are pending.
LastOf ==
  decl_func("last", <<Scalar("p")>>, <<1>>, <<expr_id(0, "p")>> \o decl_return(0, "Label 4"), "Label 4")

\* draw_pixel(4, last(6)); add(last(4), a);
PendingCall ==
  {One(Globals, LastOf \o Add,
       <<Constant(0, 4), Param(0), Constant(1, 6), Param(1), Call("last", 1, 2), Param(2),
         Call("draw_pixel", 2, None), Constant(0, 4), Param(0), Call("last", 1, 2), Param(2),
         ParamArray(0, "a"), Call("add", 2, 1)>>)}

-----------------------------------------------------------------------------
(* Slices of run_preemptive_mode (SO.cm:200-278): the first of two programs,  *)
(* one of them goes on, and the kernel's own variables are used after each.   *)

\* The kernel's bases, after them its context is saved.
LeaveKernel == <<intrinsicOf("os_set_im_base", 31), intrinsicOf("os_set_dm_base", 31),
                 intrinsic("os_save_context")>>

Enter(at, again) ==
  <<expr_id(0, at), intrinsicOf("os_set_pc", 0), expr_id(1, "offset_im"),
    intrinsicOf("os_set_im_base", 1), expr_id(2, "offset_dm"), intrinsicOf("os_set_dm_base", 2)>>
  \o (IF again THEN <<intrinsic("os_restore_context")>> ELSE <<>>)
  \o <<intrinsicConst("set_interr_timer", 50), intrinsic("os_jump_to")>>

Return == <<intrinsic("os_save_context"), intrinsicOf("os_set_im_base", 31),
            intrinsicOf("os_set_dm_base", 31), intrinsic("os_restore_context")>>

\* proc = p; jump_prog = PROC_PC_SALVO[proc]; offset_dm = dm; offset_im = im; ...
\* PROC_PC_SALVO[proc] = get_pc();
Slice(p, dm, im, again) ==
  AssignConst("proc", 1, p, 0)
  \o expr_assign("jump_prog", 1, None, <<expr_id(2, "proc"), expr_array(0, "PROC_PC_SALVO", 2)>>, 0)
  \o AssignConst("offset_dm", 1, dm, 0) \o AssignConst("offset_im", 1, im, 0)
  \o LeaveKernel \o Enter(IF again THEN "jump_prog" ELSE "offset_im", again) \o Return
  \o <<expr_id(2, "proc")>> \o expr_assign("PROC_PC_SALVO", 1, 2, <<Call("get_pc", 0, 0)>>, 0)

\* run_non_preemptive_mode (SO.cm:131-153); a variable of the kernel is read after it.
NonPreemptive(dm, im) ==
  AssignConst("offset_dm", 1, dm, 0) \o AssignConst("offset_im", 1, im, 0)
  \o <<intrinsic("os_save_context"), expr_id(0, "offset_im"), intrinsicOf("os_set_pc", 0),
       expr_id(0, "offset_im"), intrinsicOf("os_set_im_base", 0),
       expr_id(0, "offset_dm"), intrinsicOf("os_set_dm_base", 0), intrinsic("os_jump_to"),
       intrinsic("os_save_context"), intrinsicOf("os_set_dm_base", 31),
       intrinsicOf("os_set_im_base", 31), intrinsic("os_restore_context")>>
  \o AssignVar("proc", 1, "offset_im", 0)

Locals == [k \in 1..4 |-> Alloc(<<"proc", "jump_prog", "offset_im", "offset_dm">>[k], "run", 0)]

Kernel ==
  {[Program(<<Alloc("PROC_PC_SALVO", "global", 3)>>,
            decl_func("run", <<>>, <<>>, Locals \o body, "Label 1"),
            <<Alloc("running_shell", "main", 0), Call("run", 0, None)>>, {<<>>})
      EXCEPT !.base = 0, !.areas = {0, 500, 1000}] :
     body \in {Slice(1, 500, 2000, FALSE) \o Slice(2, 1000, 2300, FALSE) \o Slice(1, 500, 2000, TRUE),
               NonPreemptive(1000, 2300)}}

MCPrograms ==
  OneOperator \cup Constants \cup TwoAccesses \cup IfElse \cup While \cup Devices
    \cup CallsWithArray \cup Recursion \cup PendingCall \cup Kernel

=============================================================================
