---------------------------- MODULE ThreeAddress ----------------------------
(***************************************************************************)
(* What the intermediate code of src/codeGen.c means, independent of the   *)
(* processor, its registers with a purpose and where things are in memory: *)
(* each instruction is one step on temporaries, named variables, pending   *)
(* arguments and devices.  An array is passed as its home, a word that     *)
(* identifies it.  Temporaries are shared by all functions.                *)
(***************************************************************************)
EXTENDS Words, Sequences, SequencesExt, FiniteSets

CONSTANTS
  Registers,   \* what code computes in, and one that is 0
  Received     \* words a device may give

VARIABLES
  code,
  pc,
  regs,     \* a word for each register
  calls,    \* open activations: function, place of the call, value returned to it
  vars,     \* words of each variable: <<depth, name>>, depth 0 for globals
            \* (of those whose declaration has been passed)
  home,     \* where each variable is
  args,     \* pending arguments
  events    \* what devices were given

tvars == <<code, pc, regs, calls, vars, home, args, events>>

-----------------------------------------------------------------------------
(* Operators. *)
Result(op, a, b) ==
  CASE op = "ADD"  -> (a + b) % Modulus
    [] op = "SUB"  -> (a - b) % Modulus
    [] op = "MULT" -> Product(a, b)
    [] op = "DIV"  -> Quotient(a, b)
    [] op = "AND"  -> a & b
    [] op = "OR"   -> a | b
    [] op = "EQ"   -> Truth(a = b)
    [] op = "NEQ"  -> Truth(a # b)
    [] op = "LT"   -> Truth(Signed(a) < Signed(b))
    [] op = "GT"   -> Truth(Signed(a) > Signed(b))
    [] op = "LET"  -> Truth(Signed(a) <= Signed(b))
    [] op = "GET"  -> Truth(Signed(a) >= Signed(b))

Operators == {"ADD", "SUB", "MULT", "DIV", "AND", "OR", "EQ", "NEQ", "LT", "GT", "LET", "GET"}

\* EQ of operands of different sign is left open: its code compares their
\* exclusive or, which is negative then, with 1 (assembler.c:68-74).
Results(op, a, b) ==
  IF op = "EQ" /\ (Signed(a) < 0) # (Signed(b) < 0) THEN {0, 1} ELSE {Result(op, a, b)}

-----------------------------------------------------------------------------
(* Functions and variables. *)
Depth == Len(calls)
Running == Last(calls).fn

StartOf(f) == SelectInSeq(code, LAMBDA i : i.op = "FUN" /\ i.name = f)
PlaceOf(l) == SelectInSeq(code, LAMBDA i : i.op = "LABEL" /\ i.name = l)
FunctionOf(k) == code[SelectLastInSubSeq(code, 1, k, LAMBDA i : i.op = "FUN")].name

\* Declarations do nothing, and main neither returns nor ends: HALT follows.
Silent(k) ==
  \/ code[k].op \in {"ALLOC", "ARG"}
  \/ code[k].op \in {"RET", "END"} /\ FunctionOf(k) = "main"

Settle(k) == CHOOSE j \in k..Len(code) :
               ~ Silent(j) /\ \A other \in k..(j - 1) : Silent(other)

Declarations(f) == {k \in DOMAIN code : code[k].op \in {"ALLOC", "ARG"} /\ code[k].scope = f}
Parameters(f) == SelectSeq(code, LAMBDA i : i.op = "ARG" /\ i.scope = f)

\* What a name means here: the function's variable, once declared, or the global.
Here(name) ==
  IF \E k \in Declarations(Running) : k < pc /\ code[k].name = name
  THEN <<Depth, name>> ELSE <<0, name>>

\* The array a name means: a parameter's is the one passed.
Array(name) ==
  IF \E k \in DOMAIN Parameters(Running) : Parameters(Running)[k].name = name
  THEN CHOOSE v \in DOMAIN vars : home[v] = vars[<<Depth, name>>][1]
  ELSE Here(name)

-----------------------------------------------------------------------------
Current == code[pc]
At(op) == Current.op = op
Keep(kept) == UNCHANGED <<code, kept>>
Set(reg, word) == regs' = [regs EXCEPT ![reg] = word]

Distinct(homes) ==
  \A v \in DOMAIN homes, other \in DOMAIN homes : homes[v] = homes[other] => v = other

\* The variables are values, and those of the activation at depth d whose
\* declarations have been passed; new ones share no home with another.
Variables(values, d, f) ==
  LET declared == {<<d, code[k].name>> : k \in {k \in Declarations(f) : k < pc'}}
  IN  /\ DOMAIN vars' = DOMAIN values \cup declared
      /\ DOMAIN home' = DOMAIN vars'
      /\ \A v \in DOMAIN values : vars'[v] = values[v]
      /\ \A v \in DOMAIN values \cap DOMAIN home : home'[v] = home[v]
      /\ Distinct(home')

JumpsTo(k) == pc' = k /\ Variables(vars, Depth, Running)
Continues(values) == pc' = Settle(pc + 1) /\ Variables(values, Depth, Running)

Operate ==
  /\ Current.op \in Operators
  /\ \E word \in Results(Current.op, regs[Current.arg1], regs[Current.arg2]) :
       Set(Current.arg3, word)
  /\ Continues(vars) /\ Keep(<<calls, args, events>>)

Assign ==
  /\ At("ASSIGN")
  /\ Set(Current.arg1, regs[Current.arg2])
  /\ Continues(vars) /\ Keep(<<calls, args, events>>)

Constant ==
  /\ At("LOADI")
  /\ Set(Current.arg1, Current.arg2)
  /\ Continues(vars) /\ Keep(<<calls, args, events>>)

Element == 1 + regs[Current.arg3]

Load ==
  /\ At("LOAD")
  /\ Set(Current.arg1, IF Current.arg3 = -1 THEN vars[Here(Current.name)][1]
                       ELSE vars[Array(Current.name)][Element])
  /\ Continues(vars) /\ Keep(<<calls, args, events>>)

Store ==
  /\ At("STORE")
  /\ Continues(IF Current.arg3 = -1
               THEN [vars EXCEPT ![Here(Current.name)][1] = regs[Current.arg2]]
               ELSE [vars EXCEPT ![Array(Current.name)][Element] = regs[Current.arg2]])
  /\ Keep(<<regs, calls, args, events>>)

\* Nothing but going on.
Pass ==
  /\ Current.op \in {"FUN", "LABEL", "NO_OP"}
  /\ Continues(vars) /\ Keep(<<regs, calls, args, events>>)

\* Of a context switch: what becomes of the registers is said elsewhere.
Switch ==
  /\ \/ Current.op \in {"OS_SAVE_CONTEXT", "OS_SET_DM_BASE", "OS_SET_IM_BASE", "OS_SET_PC"}
        /\ UNCHANGED regs
     \/ Current.op \in {"OS_RESTORE_CONTEXT", "OS_JUMP_TO"} /\ DOMAIN regs' = Registers
  /\ Continues(vars) /\ Keep(<<calls, args, events>>)

Goto == At("GOTO") /\ JumpsTo(PlaceOf(Current.name)) /\ Keep(<<regs, calls, args, events>>)

Branch ==
  /\ At("IFF")
  /\ JumpsTo(IF regs[Current.arg1] = 0 THEN PlaceOf(Current.name) ELSE Settle(pc + 1))
  /\ Keep(<<regs, calls, args, events>>)

\* The register of an array argument receives its home.
Param ==
  /\ At("PARAM")
  /\ Set(Current.arg1, IF Current.name = "" THEN regs[Current.arg1]
                       ELSE home[Array(Current.name)])
  /\ args' = Append(args, regs'[Current.arg1])
  /\ Continues(vars) /\ Keep(<<calls, events>>)

Sinks == [output |-> 1, uart_send |-> 1, draw_pixel |-> 2]
Latest(n) == SubSeq(args, Len(args) - n + 1, Len(args))
Left(n) == SubSeq(args, 1, Len(args) - n)

Sink ==
  /\ At("CALL") /\ Current.name \in DOMAIN Sinks
  /\ events' = Append(events, <<Current.name>> \o Latest(Sinks[Current.name]))
  /\ args' = Left(Sinks[Current.name])
  /\ Continues(vars) /\ Keep(<<regs, calls>>)

Display ==
  /\ \/ At("DISP_VAR") /\ events' = Append(events, <<"DISP_VAR", regs[Current.arg1]>>)
     \/ /\ Current.op \in {"DISP_CONST", "SET_INTERR_TIMER"}
        /\ events' = Append(events, <<Current.op, Current.arg1>>)
     \/ At("OS_SAVE_RETURN") /\ events' = Append(events, <<"OS_SAVE_RETURN">>)
  /\ Continues(vars) /\ Keep(<<regs, calls, args>>)

Sources == {"input", "get_pc", "get_interr_type", "keyboard_input",
            "uart_tx_ready", "uart_rx_available", "uart_receive"}

Source ==
  /\ At("CALL") /\ Current.name \in Sources
  /\ \E word \in Received : Set(Current.arg3, word)
  /\ Continues(vars) /\ Keep(<<calls, args, events>>)

\* The parameters are new variables with the latest arguments.
Invoke ==
  LET g == Current.name
      n == Current.arg2
      given == [v \in {<<Depth + 1, Parameters(g)[k].name>> : k \in 1..n} |->
                  Latest(n)[CHOOSE k \in 1..n : Parameters(g)[k].name = v[2]]]
  IN  /\ At("CALL") /\ StartOf(g) # 0
      /\ Front(calls') = calls
      /\ Last(calls').fn = g /\ Last(calls').back = pc
      /\ args' = Left(n)
      /\ pc' = StartOf(g)
      /\ Variables([v \in DOMAIN vars \cup DOMAIN given |->
                     IF v \in DOMAIN given THEN <<given[v]>> ELSE vars[v]], Depth + 1, g)
      /\ Keep(<<regs, events>>)

\* The value waits where the caller will look for it.
Return ==
  /\ At("RET")
  /\ calls' = [calls EXCEPT ![Depth - 1].result = regs[Current.arg1]]
  /\ Continues(vars) /\ Keep(<<regs, args, events>>)

End ==
  LET call == code[Last(calls).back]
  IN  /\ At("END")
      /\ calls' = Front(calls)
      /\ regs' = IF call.arg3 = -1 THEN regs
                 ELSE [regs EXCEPT ![call.arg3] = Last(calls').result]
      /\ pc' = Settle(Last(calls).back + 1)
      /\ Variables([v \in {v \in DOMAIN vars : v[1] < Depth} |-> vars[v]],
                   Depth - 1, Last(calls').fn)
      /\ Keep(<<args, events>>)

TInit ==
  /\ pc = StartOf("main")
  /\ DOMAIN regs = Registers
  /\ Distinct(home)
  /\ Len(calls) = 1 /\ Running = "main"
  /\ args = <<>> /\ events = <<>>

TNext ==
  \/ Operate \/ Assign \/ Constant \/ Load \/ Store \/ Pass \/ Switch \/ Goto \/ Branch
  \/ Param \/ Sink \/ Display \/ Source \/ Invoke \/ Return \/ End

\* An implementation does what its three-address code says.
TSpec == TInit /\ [][TNext]_tvars

=============================================================================
