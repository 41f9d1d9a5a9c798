------------------------------- MODULE Kernel -------------------------------
(***************************************************************************)
(* The operating system of tests/SO/PC4/SO.cm, together with the machine   *)
(* code src/assembler.c emits for its context-switch intrinsics and the    *)
(* part of the processor both rely on.                                     *)
(*                                                                         *)
(* The shell reads a mode.  Preemptive mode loads up to NSimple distinct   *)
(* programs and runs them round-robin until all of them have halted; non-  *)
(* preemptive mode runs one program to its HALT.  A step of the kernel is  *)
(* the code between two points where the registers or the save areas       *)
(* change; the processor takes interrupts in user mode only, so a kernel   *)
(* step is never interrupted.                                              *)
(*                                                                         *)
(* Registers and save areas are grouped as in Contexts.                    *)
(***************************************************************************)
EXTENDS Integers, FiniteSets, Contexts

CONSTANTS
  NSimple,   \* simple program slots; 10 in the source
  Values,    \* what a program may leave in a register
  Offsets,   \* code addresses of a program, relative to its code base
  OSWord,    \* what the kernel leaves in a register it computes with
  Unset      \* a save-area word never written

ASSUME NSimpleAssumption == NSimple \in 1..10
ASSUME OffsetsAssumption == Offsets \subseteq 0..299 /\ 0 \in Offsets
ASSUME WordsAssumption == OSWord \notin Values /\ Unset \notin Values \cup {OSWord}

VARIABLES
  pc,                    \* where the kernel, or the processor, stands
  STATE_PROCESS, PROCESS_QUEUE, PROC_PC_SALVO, FIRST_EXECUTION_PROC,
  NUMBER_OF_PROCS, ACTIVE_PROCESSES, CURRENT_PROCESS,
  i,                     \* local of preemp_choice
  idx, proc, first_execution,   \* locals of run_preemptive_mode
  reg,                   \* the register file
  upc,                   \* program counter of user mode, what get_pc returns
  itype                  \* interrupt type, what get_interr_type returns

tables  == <<STATE_PROCESS, PROCESS_QUEUE, PROC_PC_SALVO, FIRST_EXECUTION_PROC,
             NUMBER_OF_PROCS, ACTIVE_PROCESSES>>
machine == <<reg, area, upc, itype>>
vars    == <<pc, tables, CURRENT_PROCESS, i, idx, proc, first_execution, machine>>

-----------------------------------------------------------------------------
(* The tables init_constants fills. *)

COMPLEX_PROG_ID == NSimple + 1
Simple   == 1..NSimple
Programs == 1..COMPLEX_PROG_ID
Slots    == 0..COMPLEX_PROG_ID

data_memory_procs ==
  [p \in Slots |-> IF p = 0 THEN 0
                   ELSE IF p = COMPLEX_PROG_ID THEN 5500 ELSE (p - 1) * 500 + 500]
instruction_memory_procs ==
  [p \in Slots |-> IF p = 0 THEN 0
                   ELSE IF p = COMPLEX_PROG_ID THEN 5000 ELSE (p - 1) * 300 + 2000]

Bases     == {data_memory_procs[p] : p \in Slots}
CodeBases == {instruction_memory_procs[p] : p \in Slots}
Addresses == {b + o : b \in CodeBases, o \in Offsets}
Words     == Values \cup {OSWord, Unset}

\* Variant: the upper bound is not applied.
clamp_LowerOnly(v) == IF v < 1 THEN 1 ELSE v

clamp_simple_prog_num(v) == IF v < 1 THEN 1 ELSE IF v > NSimple THEN NSimple ELSE v

\* What the switches can be set to: every case of every clamp and choice.
Inputs == 0..(NSimple + 1)

-----------------------------------------------------------------------------
(* The intrinsics that set bases, as functions of a register file. *)

\* os_set_pc(at), os_set_im_base(im), os_set_dm_base(dm); the arguments pass
\* through temporaries.
SwitchTo(at, im, dm) == [reg EXCEPT !.t = OSWord, !.k0 = at, !.s1 = im, !.s0 = dm]

\* Variant: only the code base goes back to the kernel's.
KernelBases_CodeOnly(r) == [r EXCEPT !.s1 = 0]

\* os_set_im_base(0); os_set_dm_base(0).  The constant comes from $zero.
KernelBases(r) == [r EXCEPT !.s0 = 0, !.s1 = 0]

-----------------------------------------------------------------------------
Init ==
  /\ pc = "shell"
  /\ STATE_PROCESS = [p \in Slots |-> 0]
  /\ PROCESS_QUEUE = [p \in Slots |-> 0]
  /\ PROC_PC_SALVO = [p \in Slots |-> 0]
  /\ FIRST_EXECUTION_PROC = [p \in Slots |-> 1]
  /\ NUMBER_OF_PROCS = 0 /\ ACTIVE_PROCESSES = 0 /\ CURRENT_PROCESS = 0
  /\ i = 0 /\ idx = 0 /\ proc = 0 /\ first_execution = 0
  /\ reg = [t |-> OSWord, s0 |-> 0, s1 |-> 0, k0 |-> 0, hi |-> OSWord]
  /\ area = [b \in Bases |-> [t |-> Unset, s0 |-> 0, s1 |-> 0, hi |-> Unset]]
  /\ upc = 0 /\ itype = 0

reset_process_flags ==
  /\ STATE_PROCESS' = [p \in Slots |-> 0]
  /\ PROC_PC_SALVO' = [p \in Slots |-> 0]
  /\ PROCESS_QUEUE' = [p \in Slots |-> 0]
  /\ FIRST_EXECUTION_PROC' = [p \in Slots |-> 1]
  /\ ACTIVE_PROCESSES' = 0
  /\ NUMBER_OF_PROCS' = 0

-----------------------------------------------------------------------------
(* The shell and the choice of programs: main, how_many_processes,         *)
(* preemp_choice, the choices of non-preemptive mode.  A definition marked *)
(* Variant is a faulty form of the one after it, no part of the system: it *)
(* shows that a property can fail.                                         *)

\* main: 1 is preemptive mode, 2 non-preemptive mode, the rest is refused.
ShellMode ==
  /\ pc = "shell"
  /\ \E mode_choice \in Inputs :
       pc' = IF mode_choice = 1 THEN "how_many"
             ELSE IF mode_choice = 2 THEN "tier" ELSE "shell"
  /\ UNCHANGED <<tables, CURRENT_PROCESS, i, idx, proc, first_execution, machine>>

\* Variant: the number of programs is not clamped.
how_many_processes_Unclamped ==
  /\ pc = "how_many"
  /\ NUMBER_OF_PROCS' \in Inputs
  /\ i' = 0
  /\ pc' = "choice"
  /\ UNCHANGED <<STATE_PROCESS, PROCESS_QUEUE, PROC_PC_SALVO, FIRST_EXECUTION_PROC,
                 ACTIVE_PROCESSES, CURRENT_PROCESS, idx, proc, first_execution, machine>>

how_many_processes ==
  /\ pc = "how_many"
  /\ \E choice \in Inputs : NUMBER_OF_PROCS' = clamp_simple_prog_num(choice)
  /\ i' = 0
  /\ pc' = "choice"
  /\ UNCHANGED <<STATE_PROCESS, PROCESS_QUEUE, PROC_PC_SALVO, FIRST_EXECUTION_PROC,
                 ACTIVE_PROCESSES, CURRENT_PROCESS, idx, proc, first_execution, machine>>

carregar_processo(prog_num) ==
  /\ STATE_PROCESS[prog_num] = 0
  /\ STATE_PROCESS' = [STATE_PROCESS EXCEPT ![prog_num] = 1]
  /\ PROC_PC_SALVO' =
       [PROC_PC_SALVO EXCEPT ![prog_num] = instruction_memory_procs[prog_num]]
  /\ ACTIVE_PROCESSES' = ACTIVE_PROCESSES + 1

\* Variant: a program chosen twice is queued twice and counted twice.
ChooseProgram_NoRepeatTest(choice) ==
  LET num_process == clamp_simple_prog_num(choice) IN
  /\ pc = "choice"
  /\ i < NUMBER_OF_PROCS
  /\ PROCESS_QUEUE' = [PROCESS_QUEUE EXCEPT ![i] = num_process]
  /\ STATE_PROCESS' = [STATE_PROCESS EXCEPT ![num_process] = 1]
  /\ PROC_PC_SALVO' =
       [PROC_PC_SALVO EXCEPT ![num_process] = instruction_memory_procs[num_process]]
  /\ ACTIVE_PROCESSES' = ACTIVE_PROCESSES + 1
  /\ i' = i + 1
  /\ UNCHANGED <<pc, FIRST_EXECUTION_PROC, NUMBER_OF_PROCS, CURRENT_PROCESS,
                 idx, proc, first_execution, machine>>

\* One turn of preemp_choice's loop that accepts the identifier read.
ChooseProgram(choice) ==
  LET num_process == clamp_simple_prog_num(choice) IN
  /\ pc = "choice"
  /\ i < NUMBER_OF_PROCS
  /\ PROCESS_QUEUE' = [PROCESS_QUEUE EXCEPT ![i] = num_process]
  /\ carregar_processo(num_process)
  /\ i' = i + 1
  /\ UNCHANGED <<pc, FIRST_EXECUTION_PROC, NUMBER_OF_PROCS, CURRENT_PROCESS,
                 idx, proc, first_execution, machine>>

\* A turn that reads a program loaded already: the loop asks again.
RefuseRepeated(choice) ==
  /\ pc = "choice"
  /\ i < NUMBER_OF_PROCS
  /\ STATE_PROCESS[clamp_simple_prog_num(choice)] # 0
  /\ UNCHANGED vars

ChoiceDone ==
  /\ pc = "choice"
  /\ i >= NUMBER_OF_PROCS
  /\ idx' = 0
  /\ pc' = "sched"
  /\ UNCHANGED <<tables, CURRENT_PROCESS, i, proc, first_execution, machine>>

ChooseTier ==
  /\ pc = "tier"
  /\ \E sc_choice \in Inputs :
       \/ /\ sc_choice = 1
          /\ pc' = "simple"
          /\ UNCHANGED CURRENT_PROCESS
       \/ /\ sc_choice = 2
          /\ CURRENT_PROCESS' = COMPLEX_PROG_ID
          /\ pc' = "npm"
       \/ /\ sc_choice \notin {1, 2}
          /\ pc' = "shell"
          /\ UNCHANGED CURRENT_PROCESS
  /\ UNCHANGED <<tables, i, idx, proc, first_execution, machine>>

non_preemp_choice_simples ==
  /\ pc = "simple"
  /\ \E chosen_program \in Inputs :
       CURRENT_PROCESS' = clamp_simple_prog_num(chosen_program)
  /\ pc' = "npm"
  /\ UNCHANGED <<tables, i, idx, proc, first_execution, machine>>

-----------------------------------------------------------------------------
(* run_preemptive_mode *)

\* The loop's test fails: leave preemptive mode.
AllFinished ==
  /\ pc = "sched"
  /\ ACTIVE_PROCESSES <= 0
  /\ reset_process_flags
  /\ pc' = "shell"
  /\ UNCHANGED <<CURRENT_PROCESS, i, idx, proc, first_execution, machine>>

SkipFinished ==
  /\ pc = "sched"
  /\ ACTIVE_PROCESSES > 0
  /\ proc' = PROCESS_QUEUE[idx]
  /\ STATE_PROCESS[proc'] = 4
  /\ pc' = "advance"
  /\ UNCHANGED <<tables, CURRENT_PROCESS, i, idx, first_execution, machine>>

\* The code also copies jump_prog, offset_dm and offset_im here, from entries
\* that do not change before their use; the later steps read the entries.
PickProcess ==
  /\ pc = "sched"
  /\ ACTIVE_PROCESSES > 0
  /\ proc' = PROCESS_QUEUE[idx]
  /\ STATE_PROCESS[proc'] # 4
  /\ STATE_PROCESS' = [STATE_PROCESS EXCEPT ![proc'] = 2]
  /\ first_execution' = FIRST_EXECUTION_PROC[proc']
  /\ pc' = "enter"
  /\ UNCHANGED <<PROCESS_QUEUE, PROC_PC_SALVO, FIRST_EXECUTION_PROC, NUMBER_OF_PROCS,
                 ACTIVE_PROCESSES, CURRENT_PROCESS, i, idx, machine>>

\* Zero the bases and save the kernel's own context, on either branch.
SaveKernel ==
  /\ pc = "enter"
  /\ reg' = KernelBases(reg)
  /\ area' = SaveContext(reg')
  /\ FIRST_EXECUTION_PROC' =
       IF first_execution = 1 THEN [FIRST_EXECUTION_PROC EXCEPT ![proc] = 0]
       ELSE FIRST_EXECUTION_PROC
  /\ pc' = "switch"
  /\ UNCHANGED <<STATE_PROCESS, PROCESS_QUEUE, PROC_PC_SALVO, NUMBER_OF_PROCS,
                 ACTIVE_PROCESSES, CURRENT_PROCESS, i, idx, proc, first_execution, upc, itype>>

\* First slice: start at the program's first instruction.
SwitchFirst ==
  /\ pc = "switch"
  /\ first_execution = 1
  /\ reg' = SwitchTo(instruction_memory_procs[proc],
                     instruction_memory_procs[proc], data_memory_procs[proc])
  /\ pc' = "jump"
  /\ UNCHANGED <<tables, CURRENT_PROCESS, i, idx, proc, first_execution, area, upc, itype>>

\* Variant: every slice starts the program over.
SwitchAgain_FromStart ==
  /\ pc = "switch"
  /\ first_execution # 1
  /\ reg' = SwitchTo(instruction_memory_procs[proc],
                     instruction_memory_procs[proc], data_memory_procs[proc])
  /\ pc' = "restore"
  /\ UNCHANGED <<tables, CURRENT_PROCESS, i, idx, proc, first_execution, area, upc, itype>>

\* Later slices: go on from the program counter saved.
SwitchAgain ==
  /\ pc = "switch"
  /\ first_execution # 1
  /\ reg' = SwitchTo(PROC_PC_SALVO[proc],
                     instruction_memory_procs[proc], data_memory_procs[proc])
  /\ pc' = "restore"
  /\ UNCHANGED <<tables, CURRENT_PROCESS, i, idx, proc, first_execution, area, upc, itype>>

RestoreProgram ==
  /\ pc = "restore"
  /\ reg' = RestoreContext(reg)
  /\ pc' = "jump"
  /\ UNCHANGED <<tables, CURRENT_PROCESS, i, idx, proc, first_execution, area, upc, itype>>

\* os_jump_to, after the timer is armed in preemptive mode.
JumpTo ==
  /\ pc \in {"jump", "npm_jump"}
  /\ upc' = reg.k0
  /\ pc' = IF pc = "jump" THEN "user" ELSE "npm_user"
  /\ UNCHANGED <<tables, CURRENT_PROCESS, i, idx, proc, first_execution, reg, area, itype>>

\* Variant: the bases are the kernel's before the program is saved.
SaveProgram_BasesFirst ==
  /\ pc \in {"return", "npm_return"}
  /\ reg' = KernelBases(reg)
  /\ area' = SaveContext(reg')
  /\ pc' = IF pc = "return" THEN "reenter" ELSE "npm_reenter"
  /\ UNCHANGED <<tables, CURRENT_PROCESS, i, idx, proc, first_execution, upc, itype>>

\* Back from user mode: save the program, zero the bases.
SaveProgram ==
  /\ pc \in {"return", "npm_return"}
  /\ area' = SaveContext(reg)
  /\ reg' = KernelBases(reg)
  /\ pc' = IF pc = "return" THEN "reenter" ELSE "npm_reenter"
  /\ UNCHANGED <<tables, CURRENT_PROCESS, i, idx, proc, first_execution, upc, itype>>

RestoreKernel ==
  /\ pc = "reenter"
  /\ reg' = RestoreContext(reg)
  /\ pc' = "classify"
  /\ UNCHANGED <<tables, CURRENT_PROCESS, i, idx, proc, first_execution, area, upc, itype>>

\* get_interr_type is 1: the quantum is over.
TimerTaken ==
  /\ pc = "classify"
  /\ itype = 1
  /\ STATE_PROCESS' = [STATE_PROCESS EXCEPT ![proc] = 1]
  /\ PROC_PC_SALVO' = [PROC_PC_SALVO EXCEPT ![proc] = upc]
  /\ pc' = "advance"
  /\ UNCHANGED <<PROCESS_QUEUE, FIRST_EXECUTION_PROC, NUMBER_OF_PROCS,
                 ACTIVE_PROCESSES, CURRENT_PROCESS, i, idx, proc, first_execution, machine>>

\* Variant: a halted program is still counted as active.
HaltTaken_StillActive ==
  /\ pc = "classify"
  /\ itype = 2
  /\ STATE_PROCESS' = [STATE_PROCESS EXCEPT ![proc] = 4]
  /\ pc' = "advance"
  /\ UNCHANGED <<PROCESS_QUEUE, PROC_PC_SALVO, FIRST_EXECUTION_PROC, NUMBER_OF_PROCS,
                 ACTIVE_PROCESSES, CURRENT_PROCESS, i, idx, proc, first_execution, machine>>

\* get_interr_type is 2: the program executed HALT.
HaltTaken ==
  /\ pc = "classify"
  /\ itype = 2
  /\ STATE_PROCESS' = [STATE_PROCESS EXCEPT ![proc] = 4]
  /\ ACTIVE_PROCESSES' = ACTIVE_PROCESSES - 1
  /\ pc' = "advance"
  /\ UNCHANGED <<PROCESS_QUEUE, PROC_PC_SALVO, FIRST_EXECUTION_PROC, NUMBER_OF_PROCS,
                 CURRENT_PROCESS, i, idx, proc, first_execution, machine>>

\* Variant: the queue wraps one entry late.
Advance_WrapLate ==
  /\ pc = "advance"
  /\ idx' = IF idx + 1 > NUMBER_OF_PROCS THEN 0 ELSE idx + 1
  /\ pc' = "sched"
  /\ UNCHANGED <<tables, CURRENT_PROCESS, i, proc, first_execution, machine>>

\* Variant: every slice is followed by the first program's.
Advance_ToHead ==
  /\ pc = "advance"
  /\ idx' = 0
  /\ pc' = "sched"
  /\ UNCHANGED <<tables, CURRENT_PROCESS, i, proc, first_execution, machine>>

Advance ==
  /\ pc = "advance"
  /\ idx' = IF idx + 1 >= NUMBER_OF_PROCS THEN 0 ELSE idx + 1
  /\ pc' = "sched"
  /\ UNCHANGED <<tables, CURRENT_PROCESS, i, proc, first_execution, machine>>

-----------------------------------------------------------------------------
(* run_non_preemptive_mode; JumpTo and SaveProgram are shared. *)

EnterNonPreemptive ==
  /\ pc = "npm"
  /\ area' = SaveContext(reg)
  /\ reg' = SwitchTo(instruction_memory_procs[CURRENT_PROCESS],
                     instruction_memory_procs[CURRENT_PROCESS],
                     data_memory_procs[CURRENT_PROCESS])
  /\ pc' = "npm_jump"
  /\ UNCHANGED <<tables, CURRENT_PROCESS, i, idx, proc, first_execution, upc, itype>>

LeaveNonPreemptive ==
  /\ pc = "npm_reenter"
  /\ reg' = RestoreContext(reg)
  /\ reset_process_flags
  /\ pc' = "shell"
  /\ UNCHANGED <<CURRENT_PROCESS, i, idx, proc, first_execution, area, upc, itype>>

-----------------------------------------------------------------------------
(* The processor in user mode.  A program leaves anything in its registers *)
(* but $s0, $s1 and $k0, and moves anywhere inside its own code.           *)

UserStep ==
  /\ pc \in {"user", "npm_user"}
  /\ \E t, hi \in Values, o \in Offsets :
       /\ reg' = [reg EXCEPT !.t = t, !.hi = hi]
       /\ upc' = reg.s1 + o
  /\ UNCHANGED <<pc, tables, CURRENT_PROCESS, i, idx, proc, first_execution, area, itype>>

\* The quantum armed with set_interr_timer(50) runs out.
TimerInterrupt ==
  /\ pc = "user"
  /\ itype' = 1
  /\ pc' = "return"
  /\ UNCHANGED <<tables, CURRENT_PROCESS, i, idx, proc, first_execution, reg, area, upc>>

Halt ==
  /\ pc \in {"user", "npm_user"}
  /\ itype' = 2
  /\ pc' = IF pc = "user" THEN "return" ELSE "npm_return"
  /\ UNCHANGED <<tables, CURRENT_PROCESS, i, idx, proc, first_execution, reg, area, upc>>

-----------------------------------------------------------------------------
\* Steps that wait for the switches.
InputStep ==
  \/ ShellMode
  \/ how_many_processes
  \/ \E choice \in Inputs : ChooseProgram(choice)
  \/ \E choice \in Inputs : RefuseRepeated(choice)
  \/ ChooseTier
  \/ non_preemp_choice_simples

\* Steps the kernel takes by itself.
KernelStep ==
  \/ ChoiceDone
  \/ AllFinished
  \/ SkipFinished
  \/ PickProcess
  \/ SaveKernel
  \/ SwitchFirst
  \/ SwitchAgain
  \/ RestoreProgram
  \/ JumpTo
  \/ SaveProgram
  \/ RestoreKernel
  \/ TimerTaken
  \/ HaltTaken
  \/ Advance
  \/ EnterNonPreemptive
  \/ LeaveNonPreemptive

Next == InputStep \/ KernelStep \/ UserStep \/ TimerInterrupt \/ Halt

Spec == Init /\ [][Next]_vars

\* The processor executes the kernel's next instruction, and the timer fires.
Fairness == WF_vars(KernelStep) /\ WF_vars(TimerInterrupt)
FairSpec == Spec /\ Fairness

=============================================================================
