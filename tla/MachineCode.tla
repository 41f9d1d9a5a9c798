----------------------------- MODULE MachineCode -----------------------------
(***************************************************************************)
(* A compiled program: the words src/binario.c writes for the assembly     *)
(* code of src/assembler.c, with the labels of src/label.c, and the        *)
(* processor running them.  The processor is external: what it does is     *)
(* taken from how the code uses it.  Numbers of registers, opcodes, fields *)
(* and addresses are the real ones; a word has WORD bits instead of 32.    *)
(***************************************************************************)
EXTENDS Assembler, FiniteSets, Words

CONSTANTS
  Programs,      \* intermediate code, the registers it may start with, its $s0
                 \* and the bases whose save areas it uses
  MaxAddress,    \* bound on the frames, in words from $s0
  MaxArguments,  \* bound on pending arguments
  Received,      \* words a device may give
  LeftBehind     \* what a program that is jumped to leaves in registers

ASSUME MaxAddress \in 0..466 /\ MaxArguments \in 1..32

VARIABLES
  code,       \* the intermediate code
  image,      \* its words, and how they came about
  pc, registers, memory,
  events,     \* what devices were given
  before,     \* history: the machine when the running instruction of code began
  calls       \* history: open calls, with the $fp of their frames and how far
              \* into their code they have got

machine == <<pc, registers, memory, events>>
vars == <<code, image, machine, before, calls>>

-----------------------------------------------------------------------------
(* assembly: generate_assembly for every instruction in turn. *)

\* What has been generated: pending are the arguments known when each instruction
\* of code was reached, origin the instruction of code each one was made for.
Nothing == [table |-> initialize_memory, f |-> 1, pending |-> <<>>,
            out |-> <<J("j", "main")>>, origin |-> <<0>>]

Generate(done, k, i) ==
  LET emitted == generate_assembly(i, done.table, done.f)
      after   == TableAfter(i, done.table)
  IN  [done EXCEPT !.table = after,
                   !.f = IF i.op = "FUN" THEN Len(after) ELSE @,
                   !.pending = Append(@, Pending(done.table)),
                   !.out = @ \o emitted,
                   !.origin = @ \o [e \in DOMAIN emitted |-> k]]

Assembly(program) ==
  LET done[k \in 0..Len(program)] ==
        IF k = 0 THEN Nothing ELSE Generate(done[k - 1], k, program[k])
  IN  done[Len(program)]

-----------------------------------------------------------------------------
(* binary: one word for each.  Addresses count from 0. *)

get_opcode ==
  [lw |-> 35, sw |-> 43, addi |-> 8, subi |-> 9, andi |-> 12, ori |-> 13, xori |-> 14,
   slti |-> 10, beq |-> 4, bne |-> 5, j |-> 2, jal |-> 3, in |-> 31, out |-> 30, disp |-> 29,
   os_jump_to |-> 18, os_save_return |-> 19, get_pc |-> 20, set_interr_timer |-> 21,
   get_interr_type |-> 22, keyboard_input |-> 23, draw_pixel |-> 15, uart_send |-> 24,
   uart_tx_ready |-> 27, uart_receive |-> 25, uart_rx_available |-> 26, halt |-> 63]

get_funct ==
  [add |-> 32, sub |-> 34, mult |-> 24, div |-> 26, and |-> 36, or |-> 37, xor |-> 45,
   nor |-> 39, sll |-> 0, srl |-> 2, jr |-> 8, jalr |-> 9, slt |-> 42]

get_label_address(out, label) ==
  SelectInSeq(out, LAMBDA a : a.type = "LABEL" /\ a.name = label) - 1

\* Variant: the immediate is not a bit field.
Field_Wide(value, bits) == IF bits = 16 THEN value ELSE value % 2^bits

\* A bit field keeps the low bits of what is put into it.
Field(value, bits) == value % 2^bits

\* A word: opcode, rs and rt, and its lower half.
Word(opcode, rs, rt, low) ==
  <<Field(opcode, 6) * 2^10 + Field(rs, 5) * 2^5 + Field(rt, 5), low>>

Low(rd, shamt, funct) == Field(rd, 5) * 2^11 + Field(shamt, 5) * 2^6 + Field(funct, 6)

binarioNop == Word(0, Reg.zero, Reg.zero, Low(Reg.zero, 0, get_funct["add"]))

binarioR(a) ==
  IF a.name = "no_op" THEN binarioNop
  ELSE Word(0, a.rs, a.rt, Low(a.rd, a.shamt, get_funct[a.name]))

binarioI(a, out) ==
  Word(get_opcode[a.name], a.rs, a.rt,
       Field(IF a.label # "" THEN get_label_address(out, a.label) ELSE a.immediate, 16))

binarioJ(a, out) ==
  LET address == Field(get_label_address(out, a.label), 26)
  IN  Word(get_opcode[a.name], address \div 2^21, address \div 2^16, address % 2^16)

binary(out) ==
  [n \in DOMAIN out |-> CASE out[n].type = "R" -> binarioR(out[n])
                          [] out[n].type = "I" -> binarioI(out[n], out)
                          [] out[n].type = "J" -> binarioJ(out[n], out)
                          [] out[n].type = "LABEL" -> binarioNop]

Image(program) ==
  LET done == Assembly(program.code)
  IN  [words |-> binary(done.out), origin |-> done.origin,
       table |-> done.table, pending |-> done.pending,
       base |-> program.base, areas |-> program.areas]

-----------------------------------------------------------------------------
(* The processor. *)

\* Of frames and arguments, and of save areas.
Addresses ==
  {image.base + k : k \in 0..MaxAddress
                          \cup INIT_STACK_PARAMS..(INIT_STACK_PARAMS + MaxArguments - 1)}
  \cup {b + INIT_CONTEXT_SWITCH + r : b \in image.areas, r \in 0..31}

Snapshot == [pc |-> pc, registers |-> registers, memory |-> memory, events |-> events,
             calls |-> calls]

\* main's variables are where its frame is, whatever $fp says.
MainCall == [fn |-> "main", back |-> 0, reached |-> 0,
             base |-> image.base + Size(image.table, "global")]

Init ==
  \E program \in Programs :
    /\ code = program.code
    /\ image = Image(program)
    /\ pc = 0
    /\ \E given \in program.given :
         registers = [r \in 0..31 |-> IF r \in DOMAIN given THEN given[r]
                                      ELSE IF r = Reg.s0 THEN image.base ELSE 0]
    /\ memory = [a \in Addresses |-> a]
    /\ events = <<>>
    /\ calls = <<MainCall>>
    /\ before = Snapshot

Fetched == image.words[pc + 1]
High    == Fetched[1]
Opcode  == High \div 2^10
Rs      == registers[(High \div 2^5) % 2^5]
RtField == High % 2^5
Rt      == registers[RtField]
Lower   == Fetched[2]
RdField == Lower \div 2^11
Shift   == (Lower \div 2^6) % 2^5
Target  == (High % 2^10) * 2^16 + Lower

Is(name)  == Opcode = get_opcode[name]
IsR(name) == Opcode = 0 /\ Lower % 2^6 = get_funct[name]

Set(reg, word) == registers' = [registers EXCEPT ![reg] = word]
Advance == pc' = pc + 1
Address == (Rs + Extended(Lower)) % Modulus

\* Register with register; shifts are by a constant.
OpR(name, word) == IsR(name) /\ Set(RdField, word) /\ Advance /\ UNCHANGED <<memory, events>>

ExecuteR ==
  \/ OpR("add", (Rs + Rt) % Modulus)
  \/ OpR("sub", (Rs - Rt) % Modulus)
  \/ OpR("mult", Product(Rs, Rt))
  \/ OpR("div", Quotient(Rs, Rt))
  \/ OpR("and", Rs & Rt)
  \/ OpR("or", Rs | Rt)
  \/ OpR("xor", Rs ^^ Rt)
  \/ OpR("slt", Truth(Signed(Rs) < Signed(Rt)))
  \/ OpR("sll", (Rs * 2^Min({Shift, WORD})) % Modulus)

\* Register with immediate: extended by its sign in arithmetic, by zeros in logic.
OpI(name, word) == Is(name) /\ Set(RtField, word) /\ Advance /\ UNCHANGED <<memory, events>>

ExecuteI ==
  \/ OpI("addi", (Rs + Extended(Lower)) % Modulus)
  \/ OpI("subi", (Rs - Extended(Lower)) % Modulus)
  \/ OpI("ori", Rs | Lower)
  \/ OpI("xori", Rs ^^ Lower)
  \/ OpI("slti", Truth(Signed(Rs) < Extended(Lower)))
  \/ OpI("lw", memory[Address])

StoreWord ==
  /\ Is("sw")
  /\ memory' = [memory EXCEPT ![Address] = Rt]
  /\ Advance /\ UNCHANGED <<registers, events>>

\* Addresses of instructions are absolute, of branches as well.
BranchIfEqual ==
  /\ Is("beq")
  /\ pc' = IF Rs = Rt THEN Lower ELSE pc + 1
  /\ UNCHANGED <<registers, memory, events>>

Jump == Is("j") /\ pc' = Target /\ UNCHANGED <<registers, memory, events>>

JumpAndLink == Is("jal") /\ pc' = Target /\ Set(Reg.ra, pc + 1) /\ UNCHANGED <<memory, events>>

JumpRegister == IsR("jr") /\ pc' = Rs /\ UNCHANGED <<registers, memory, events>>

Input ==
  /\ \E name \in DOMAIN Sources : Is(Sources[name])
  /\ \E word \in Received : Set(RtField, word)
  /\ Advance /\ UNCHANGED <<memory, events>>

Give(event) == events' = Append(events, event) /\ Advance /\ UNCHANGED <<registers, memory>>

\* disp shows the message of its immediate, or the register if that is 0.
Output ==
  \/ \E name \in {"output", "uart_send"} : Is(Sinks[name]) /\ Give(<<name, Rs>>)
  \/ Is("draw_pixel") /\ Give(<<"draw_pixel", Rs, Rt>>)
  \/ Is("disp") /\ Lower = 0 /\ Give(<<"DISP_VAR", Rs>>)
  \/ Is("disp") /\ Lower # 0 /\ Give(<<"DISP_CONST", Lower>>)
  \/ Is("set_interr_timer") /\ Give(<<"SET_INTERR_TIMER", Lower>>)
  \/ Is("os_save_return") /\ Give(<<"OS_SAVE_RETURN">>)

\* The program at $k0, up to the interrupt that leads back here: it keeps the
\* bases and $k0, and everything in the words modelled.
RunProgram ==
  /\ Is("os_jump_to")
  /\ \E word \in LeftBehind :
       registers' = [r \in 0..31 |-> IF r \in {Reg.s0, Reg.s1, Reg.k0, Reg.zero} THEN registers[r]
                                    ELSE word + r]
  /\ Advance /\ UNCHANGED <<memory, events>>

Halt == Is("halt") /\ UNCHANGED machine

-----------------------------------------------------------------------------
(* What the machine is in the terms of the intermediate code. *)

\* A word where the code of an instruction begins.
Begins(p) == p = 0 \/ image.origin[p + 1] # image.origin[p]

\* The next instruction of the intermediate code that is not a declaration and
\* for which there are words; the very first word is a jump to main.
Place(p) ==
  IF p = 0 THEN SelectInSeq(code, LAMBDA i : i.op = "FUN" /\ i.name = "main")
  ELSE Min({k \in Range(image.origin) : k >= image.origin[p + 1] /\ k # 0
                                          /\ code[k].op \notin {"ALLOC", "ARG"}})

Calls ==
  IF Is("jal")
  THEN Append(calls, [fn |-> code[image.origin[pc + 1]].name, back |-> image.origin[pc + 1],
                      reached |-> 0, base |-> registers[Reg.fp]])
  ELSE IF IsR("jr") THEN Front(calls) ELSE calls

Remember ==
  /\ calls' = IF Begins(pc')
              THEN [Calls EXCEPT ![Len(Calls)].reached = Max({@, Place(pc')})] ELSE Calls
  /\ before' = IF Begins(pc') THEN Snapshot' ELSE before
  /\ UNCHANGED <<code, image>>

Next ==
  \/ ExecuteR /\ Remember
  \/ ExecuteI /\ Remember
  \/ StoreWord /\ Remember
  \/ BranchIfEqual /\ Remember
  \/ Jump /\ Remember
  \/ JumpAndLink /\ Remember
  \/ JumpRegister /\ Remember
  \/ Input /\ Remember
  \/ Output /\ Remember
  \/ RunProgram /\ Remember
  \/ Halt /\ Remember

Spec == Init /\ [][Next]_vars

\* The variables of a call whose declarations have been passed, and the globals.
Known(c) ==
  {code[k].name : k \in {k \in DOMAIN code :
     code[k].scope = c.fn /\ (code[k].op = "ARG" \/ (code[k].op = "ALLOC" /\ k < c.reached))}}

FrameOf(f)     == image.table[search_function(image.table, f)]
CallAt(v)      == IF v[1] = 0 THEN [fn |-> "global", base |-> image.base] ELSE before.calls[v[1]]
PlaceIn(c, name) == c.base + IndexIn(FrameOf(c.fn), name)

Seen ==
  {<<0, var.name>> : var \in Range(FrameOf("global").vars)}
    \cup UNION {{<<d, name>> : name \in Known(before.calls[d])} : d \in DOMAIN before.calls}
HomeOf == [v \in Seen |-> PlaceIn(CallAt(v), v[2])]

WordsOf(v) ==
  LET frame == FrameOf(CallAt(v).fn).vars
      length == Cardinality({k \in DOMAIN frame : frame[k].name = v[2]})
  IN  [k \in 1..length |-> before.memory[HomeOf[v] + k - 1]]

\* Arguments pending in the functions called and not used by the calls.
PendingWords ==
  LET n == FoldLeft(LAMBDA sum, c : sum + image.pending[c.back] - code[c.back].arg2,
                    image.pending[Place(before.pc)], Tail(before.calls))
  IN  [k \in 1..n |-> before.memory[image.base + INIT_STACK_PARAMS + k - 1]]

Temporaries == {0, 1, 2, Reg.zero}

Three == INSTANCE ThreeAddress WITH
  Registers <- Temporaries,
  pc <- Place(before.pc),
  regs <- [r \in Temporaries |-> before.registers[r]],
  calls <- [d \in DOMAIN before.calls |->
              [fn |-> before.calls[d].fn, back |-> before.calls[d].back,
               result |-> before.memory[PlaceIn(before.calls[d], "Valor Retorno")]]],
  vars <- [v \in Seen |-> WordsOf(v)],
  home <- HomeOf,
  args <- PendingWords,
  events <- before.events

-----------------------------------------------------------------------------
(* What the machine is in the terms of Kernel. *)

RegisterFile(r) ==
  [t |-> [n \in 0..22 |-> r[n]], s0 |-> r[Reg.s0], s1 |-> r[Reg.s1], k0 |-> r[Reg.k0],
   hi |-> [n \in 26..31 |-> r[n]]]

SaveArea(b) ==
  LET word == [n \in 0..31 |-> before.memory[b + INIT_CONTEXT_SWITCH + n]]
  IN  [t |-> [n \in 0..22 |-> word[n]], s0 |-> word[Reg.s0], s1 |-> word[Reg.s1],
       hi |-> [n \in 26..31 |-> word[n]]]

RegisterState == RegisterFile(before.registers)
SaveAreas == [b \in image.areas |-> SaveArea(b)]

Kern == INSTANCE Contexts WITH area <- SaveAreas

-----------------------------------------------------------------------------
MachineTypeOK ==
  /\ code \in {program.code : program \in Programs}
  /\ \A n \in DOMAIN image.words : image.words[n] \in (0..2^16 - 1) \X (0..2^16 - 1)
  /\ pc + 1 \in DOMAIN image.words
  /\ registers \in [0..31 -> 0..Modulus - 1]
  /\ memory \in [Addresses -> 0..Modulus - 1]
  /\ registers[Reg.zero] = 0

\* Seen where the code of an instruction begins, the machine does what the
\* intermediate code says: selection of instructions, places of variables in
\* frames, passing of arguments, results and arrays, labels and bit fields
\* (assembler.c, memory.c, label.c, binario.c).
DoesWhatCodeSays == Three!TSpec

\* The code of an intrinsic does to registers and save areas what Kernel takes
\* it to do in one step (assembler.c:598-658), and no other code touches save
\* areas, bases or $k0.
SwitchesAsKernel ==
  [][LET i == code[Place(before.pc)]
         argument == before.registers[i.arg1]
     IN  CASE i.op = "OS_SAVE_CONTEXT"    -> RegisterState' = RegisterState /\ SaveAreas' = Kern!SaveContext(RegisterState)
           [] i.op = "OS_RESTORE_CONTEXT" -> RegisterState' = Kern!RestoreContext(RegisterState) /\ SaveAreas' = SaveAreas
           [] i.op = "OS_SET_PC"      -> RegisterState' = [RegisterState EXCEPT !.k0 = argument] /\ SaveAreas' = SaveAreas
           [] i.op = "OS_SET_IM_BASE" -> RegisterState' = [RegisterState EXCEPT !.s1 = argument] /\ SaveAreas' = SaveAreas
           [] i.op = "OS_SET_DM_BASE" -> RegisterState' = [RegisterState EXCEPT !.s0 = argument] /\ SaveAreas' = SaveAreas
           [] OTHER -> /\ RegisterState' = [RegisterState EXCEPT !.t = RegisterState'.t, !.hi = RegisterState'.hi]
                       /\ SaveAreas' = SaveAreas]_before

=============================================================================
