---------------------------- MODULE KernelProofs ----------------------------
(***************************************************************************)
(* Proofs about Kernel for any number of simple programs up to 10, any     *)
(* register contents and any code: the type invariant, the invariants of   *)
(* the scheduler and of the context switch.                                *)
(***************************************************************************)
EXTENDS KernelProps, FiniteSetTheorems, TLAPS

-----------------------------------------------------------------------------
(* The memory map. *)

\* The slots init_constants lays out have different data bases, and the kernel's is 0.
LEMMA DataBases ==
  /\ data_memory_procs \in [Slots -> Bases]
  /\ data_memory_procs[0] = 0
  /\ 0 \in Bases
  /\ \A p, q \in Slots : data_memory_procs[p] = data_memory_procs[q] => p = q
<1>1. 0 \in Slots
  BY NSimpleAssumption DEF Slots, COMPLEX_PROG_ID
<1>2. data_memory_procs \in [Slots -> Bases]
  BY DEF Bases, data_memory_procs
<1>3. data_memory_procs[0] = 0
  BY <1>1 DEF data_memory_procs
<1>4. \A p, q \in Slots : data_memory_procs[p] = data_memory_procs[q] => p = q
  BY NSimpleAssumption DEF data_memory_procs, Slots, COMPLEX_PROG_ID
<1> QED BY <1>1, <1>2, <1>3, <1>4 DEF Bases

LEMMA CodeBasesTyped ==
  /\ instruction_memory_procs \in [Slots -> CodeBases]
  /\ instruction_memory_procs[0] = 0
  /\ 0 \in CodeBases
  /\ \A p \in Slots : instruction_memory_procs[p] \in Addresses
  /\ \A b \in CodeBases, o \in Offsets : b + o \in Addresses
<1>1. 0 \in Slots
  BY NSimpleAssumption DEF Slots, COMPLEX_PROG_ID
<1>2. instruction_memory_procs \in [Slots -> CodeBases]
  BY DEF CodeBases, instruction_memory_procs
<1>3. instruction_memory_procs[0] = 0
  BY <1>1 DEF instruction_memory_procs
<1>4. \A b \in CodeBases, o \in Offsets : b + o \in Addresses
  BY DEF Addresses
<1>5. \A b \in CodeBases : b \in Nat
  BY NSimpleAssumption DEF CodeBases, instruction_memory_procs, Slots, COMPLEX_PROG_ID
<1>6. ASSUME NEW p \in Slots PROVE instruction_memory_procs[p] \in Addresses
  <2>1. instruction_memory_procs[p] = instruction_memory_procs[p] + 0
    BY <1>2, <1>5
  <2> QED BY <1>2, <1>4, <2>1, OffsetsAssumption
<1> QED BY <1>1, <1>2, <1>3, <1>4, <1>6 DEF CodeBases

\* Whatever is read from the switches, the clamp yields a simple program.
LEMMA ClampTyped == \A v \in Inputs : clamp_simple_prog_num(v) \in Simple
BY NSimpleAssumption DEF Inputs, clamp_simple_prog_num, Simple

LEMMA SimpleSlots ==
  /\ NSimple \in Nat /\ NSimple >= 1
  /\ Simple \subseteq Slots /\ 0 \in Slots /\ 0 \notin Simple
  /\ 0..NSimple \subseteq Slots
  /\ COMPLEX_PROG_ID \in Slots
  /\ Programs \subseteq Slots /\ Simple \subseteq Programs /\ 0 \notin Programs
  /\ COMPLEX_PROG_ID \in Programs
BY NSimpleAssumption DEF Simple, Slots, COMPLEX_PROG_ID, Programs

-----------------------------------------------------------------------------
(* Types.  That ACTIVE_PROCESSES stays in range follows from what it counts. *)

RegisterFile == [t : Words, s0 : Bases, s1 : CodeBases, k0 : {0} \cup Addresses, hi : Words]

Types ==
  /\ pc \in Points
  /\ STATE_PROCESS \in [Slots -> {0, 1, 2, 4}]
  /\ PROCESS_QUEUE \in [Slots -> {0} \cup Simple]
  /\ PROC_PC_SALVO \in [Slots -> {0} \cup Addresses]
  /\ FIRST_EXECUTION_PROC \in [Slots -> {0, 1}]
  /\ NUMBER_OF_PROCS \in 0..NSimple
  /\ ACTIVE_PROCESSES \in Int
  /\ CURRENT_PROCESS \in Slots
  /\ i \in 0..NSimple
  /\ idx \in 0..NSimple
  /\ proc \in {0} \cup Simple
  /\ first_execution \in {0, 1}
  /\ reg \in RegisterFile
  /\ area \in [Bases -> SaveArea]
  /\ upc \in {0} \cup Addresses
  /\ itype \in {0, 1, 2}

\* Saving a register file keeps the areas typed, restoring keeps the registers typed.
LEMMA SaveTyped ==
  ASSUME area \in [Bases -> SaveArea], NEW r \in RegisterFile
  PROVE  SaveContext(r) \in [Bases -> SaveArea]
BY DEF SaveContext, SaveArea, RegisterFile

LEMMA RestoreTyped ==
  ASSUME area \in [Bases -> SaveArea], NEW r \in RegisterFile
  PROVE  RestoreContext(r) \in RegisterFile
BY DEF RestoreContext, SaveArea, RegisterFile

LEMMA SwitchTyped ==
  ASSUME reg \in RegisterFile, NEW at \in {0} \cup Addresses,
         NEW im \in CodeBases, NEW dm \in Bases
  PROVE  SwitchTo(at, im, dm) \in RegisterFile
BY DEF SwitchTo, RegisterFile, Words

LEMMA KernelBasesTyped ==
  ASSUME NEW r \in RegisterFile
  PROVE  KernelBases(r) \in RegisterFile
BY DataBases, CodeBasesTyped DEF KernelBases, RegisterFile

LEMMA TypesInit == Init => Types
BY DataBases, CodeBasesTyped, SimpleSlots
   DEF Init, Types, Points, RegisterFile, SaveArea, Words

LEMMA TypesNext == Types /\ [Next]_vars => Types'
<1> SUFFICES ASSUME Types, [Next]_vars PROVE Types'
  OBVIOUS
<1> USE SimpleSlots DEF Types, Points, Slice, Entering, Leaving, NonPreemptive
<1>1. CASE ShellMode
  BY <1>1 DEF ShellMode, tables, machine
<1>2. CASE how_many_processes
  BY <1>2, ClampTyped DEF how_many_processes, machine, Simple
<1>3. ASSUME NEW choice \in Inputs, ChooseProgram(choice) PROVE Types'
  <2> DEFINE n == clamp_simple_prog_num(choice)
  <2>1. n \in Simple /\ n \in Slots
    BY ClampTyped
  <2>2. instruction_memory_procs[n] \in Addresses
    BY <2>1, CodeBasesTyped
  <2> HIDE DEF n
  <2>3. i' \in 0..NSimple
    BY <1>3 DEF ChooseProgram
  <2> QED BY <1>3, <2>1, <2>2, <2>3 DEF ChooseProgram, carregar_processo, machine, n
<1>4. ASSUME NEW choice \in Inputs, RefuseRepeated(choice) PROVE Types'
  BY <1>4 DEF RefuseRepeated, vars, tables, machine
<1>5. CASE ChooseTier
  BY <1>5 DEF ChooseTier, tables, machine
<1>6. CASE non_preemp_choice_simples
  BY <1>6, ClampTyped DEF non_preemp_choice_simples, tables, machine
<1>7. CASE ChoiceDone
  BY <1>7 DEF ChoiceDone, tables, machine
<1>8. CASE AllFinished
  BY <1>8 DEF AllFinished, reset_process_flags, machine
<1>9. CASE SkipFinished
  BY <1>9 DEF SkipFinished, tables, machine
<1>10. CASE PickProcess
  BY <1>10 DEF PickProcess, machine
<1>11. CASE SaveKernel
  <2>1. reg' \in RegisterFile
    BY <1>11, KernelBasesTyped DEF SaveKernel
  <2>2. area' \in [Bases -> SaveArea]
    BY <1>11, <2>1, SaveTyped DEF SaveKernel
  <2> QED BY <1>11, <2>1, <2>2 DEF SaveKernel
<1>12. CASE SwitchFirst
  <2>1. reg' \in RegisterFile
    BY <1>12, SwitchTyped, DataBases, CodeBasesTyped DEF SwitchFirst
  <2> QED BY <1>12, <2>1 DEF SwitchFirst, tables
<1>13. CASE SwitchAgain
  <2>1. reg' \in RegisterFile
    BY <1>13, SwitchTyped, DataBases, CodeBasesTyped DEF SwitchAgain
  <2> QED BY <1>13, <2>1 DEF SwitchAgain, tables
<1>14. CASE RestoreProgram
  BY <1>14, RestoreTyped DEF RestoreProgram, tables
<1>15. CASE JumpTo
  BY <1>15 DEF JumpTo, tables, RegisterFile
<1>16. CASE SaveProgram
  BY <1>16, SaveTyped, KernelBasesTyped DEF SaveProgram, tables
<1>17. CASE RestoreKernel
  BY <1>17, RestoreTyped DEF RestoreKernel, tables
<1>18. CASE TimerTaken
  BY <1>18 DEF TimerTaken, machine
<1>19. CASE HaltTaken
  BY <1>19 DEF HaltTaken, machine
<1>20. CASE Advance
  BY <1>20 DEF Advance, tables, machine
<1>21. CASE EnterNonPreemptive
  <2>1. reg' \in RegisterFile
    BY <1>21, SwitchTyped, DataBases, CodeBasesTyped DEF EnterNonPreemptive
  <2> QED BY <1>21, <2>1, SaveTyped DEF EnterNonPreemptive, tables
<1>22. CASE LeaveNonPreemptive
  BY <1>22, RestoreTyped DEF LeaveNonPreemptive, reset_process_flags
<1>23. CASE UserStep
  <2>1. PICK t \in Values, hi \in Values, o \in Offsets :
          /\ reg' = [reg EXCEPT !.t = t, !.hi = hi]
          /\ upc' = reg.s1 + o
    BY <1>23 DEF UserStep
  <2>2. reg' \in RegisterFile
    BY <2>1 DEF RegisterFile, Words
  <2>3. upc' \in Addresses
    BY <2>1, CodeBasesTyped DEF RegisterFile
  <2> QED BY <1>23, <2>2, <2>3 DEF UserStep, tables
<1>24. CASE TimerInterrupt
  BY <1>24 DEF TimerInterrupt, tables
<1>25. CASE Halt
  BY <1>25 DEF Halt, tables
<1>26. CASE UNCHANGED vars
  BY <1>26 DEF vars, tables, machine
<1> QED
  BY <1>1, <1>2, <1>3, <1>4, <1>5, <1>6, <1>7, <1>8, <1>9, <1>10, <1>11, <1>12, <1>13,
     <1>14, <1>15, <1>16, <1>17, <1>18, <1>19, <1>20, <1>21, <1>22, <1>23, <1>24, <1>25,
     <1>26 DEF Next, InputStep, KernelStep

LEMMA TypesAlways == Spec => []Types
BY TypesInit, TypesNext, PTL DEF Spec

-----------------------------------------------------------------------------
(* The scheduler's control: which tables say what at which point. *)

\* Points where no program is loaded in the tables.
Idle == {"shell", "how_many", "tier", "simple", "npm"} \cup NonPreemptive

\* Points of preemptive mode's loop.
Looping == {"sched", "advance"} \cup Slice

IdleTables ==
  pc \in Idle => /\ ACTIVE_PROCESSES = 0
                 /\ \A p \in Slots : STATE_PROCESS[p] = 0 /\ FIRST_EXECUTION_PROC[p] = 1

Queue ==
  pc \in {"choice"} \cup Looping =>
    /\ \A j \in 0..(i - 1) :
         PROCESS_QUEUE[j] \in Simple /\ STATE_PROCESS[PROCESS_QUEUE[j]] # 0
    /\ \A p \in Slots : STATE_PROCESS[p] # 0 => \E j \in 0..(i - 1) : PROCESS_QUEUE[j] = p
    /\ \A j, k \in 0..(i - 1) : j # k => PROCESS_QUEUE[j] # PROCESS_QUEUE[k]
    /\ i <= NUMBER_OF_PROCS /\ 1 <= NUMBER_OF_PROCS
    /\ pc # "choice" => i = NUMBER_OF_PROCS /\ idx < NUMBER_OF_PROCS

Running ==
  /\ \A p \in Slots : STATE_PROCESS[p] = 2 <=> pc \in Slice /\ p = proc
  /\ pc \in Slice \cup {"advance"} => proc = PROCESS_QUEUE[idx]
  /\ pc \in Slice => proc \in Simple
  /\ pc = "choice" => \A p \in Slots : FIRST_EXECUTION_PROC[p] = 1
  /\ pc = "enter" => first_execution = FIRST_EXECUTION_PROC[proc]
  /\ pc \in Slice \ {"enter"} => FIRST_EXECUTION_PROC[proc] = 0
  /\ pc = "restore" => first_execution = 0
  /\ pc \in Leaving => itype \in {1, 2}
  /\ pc \in {"npm"} \cup NonPreemptive => CURRENT_PROCESS \in Programs

Control == IdleTables /\ Queue /\ Running

LEMMA ControlInit == Init => Control
BY SimpleSlots DEF Init, Control, IdleTables, Queue, Running, Idle, Looping, Slice,
     Entering, Leaving, NonPreemptive

LEMMA ControlNext == Types /\ Control /\ [Next]_vars => Control'
<1> SUFFICES ASSUME Types, Control, [Next]_vars PROVE Control'
  OBVIOUS
<1> USE SimpleSlots
    DEF Types, Control, IdleTables, Queue, Running, Idle, Looping, Points, Slice,
        Entering, Leaving, NonPreemptive
<1>1. CASE ShellMode
  BY <1>1 DEF ShellMode, tables, machine
<1>2. CASE how_many_processes
  BY <1>2, ClampTyped DEF how_many_processes, machine, Simple
<1>3. ASSUME NEW choice \in Inputs, ChooseProgram(choice) PROVE Control'
  <2> DEFINE n == clamp_simple_prog_num(choice)
  <2>1. n \in Simple /\ n \in Slots
    BY ClampTyped
  <2> HIDE DEF n
  <2>2. /\ pc = "choice" /\ pc' = pc /\ i < NUMBER_OF_PROCS /\ i' = i + 1
        /\ STATE_PROCESS[n] = 0
        /\ STATE_PROCESS' = [STATE_PROCESS EXCEPT ![n] = 1]
        /\ PROCESS_QUEUE' = [PROCESS_QUEUE EXCEPT ![i] = n]
        /\ UNCHANGED <<NUMBER_OF_PROCS, FIRST_EXECUTION_PROC>>
    BY <1>3 DEF ChooseProgram, carregar_processo, n
  <2>3. \A j \in 0..i : PROCESS_QUEUE'[j] = IF j = i THEN n ELSE PROCESS_QUEUE[j]
    BY <2>2
  <2>4. \A j \in 0..(i - 1) : PROCESS_QUEUE[j] # n
    BY <2>2
  <2>5. IdleTables' /\ Running'
    BY <2>1, <2>2
  <2>6. \A j \in 0..i :
           PROCESS_QUEUE'[j] \in Simple /\ STATE_PROCESS'[PROCESS_QUEUE'[j]] # 0
    BY <2>1, <2>2, <2>3
  <2>7. \A p \in Slots : STATE_PROCESS'[p] # 0 => \E j \in 0..i : PROCESS_QUEUE'[j] = p
    <3> SUFFICES ASSUME NEW p \in Slots, STATE_PROCESS'[p] # 0
                 PROVE  \E j \in 0..i : PROCESS_QUEUE'[j] = p
      OBVIOUS
    <3>1. CASE p = n
      BY <3>1, <2>3
    <3>2. CASE p # n
      <4>1. PICK j \in 0..(i - 1) : PROCESS_QUEUE[j] = p
        BY <3>2, <2>2
      <4> QED BY <4>1, <2>3
    <3> QED BY <3>1, <3>2
  <2>8. \A j, k \in 0..i : j # k => PROCESS_QUEUE'[j] # PROCESS_QUEUE'[k]
    BY <2>2, <2>3, <2>4
  <2>9. i' - 1 = i /\ i' <= NUMBER_OF_PROCS' /\ 1 <= NUMBER_OF_PROCS'
    BY <2>2
  <2> QED BY <2>2, <2>5, <2>6, <2>7, <2>8, <2>9
<1>4. ASSUME NEW choice \in Inputs, RefuseRepeated(choice) PROVE Control'
  BY <1>4 DEF RefuseRepeated, vars, tables, machine
<1>5. CASE ChooseTier
  BY <1>5 DEF ChooseTier, tables, machine
<1>6. CASE non_preemp_choice_simples
  BY <1>6, ClampTyped DEF non_preemp_choice_simples, tables, machine
<1>7. CASE ChoiceDone
  BY <1>7 DEF ChoiceDone, tables, machine
<1>8. CASE AllFinished
  BY <1>8 DEF AllFinished, reset_process_flags, machine
<1>9. CASE SkipFinished
  BY <1>9 DEF SkipFinished, tables, machine
<1>10. CASE PickProcess
  <2>1. proc' \in Simple
    BY <1>10 DEF PickProcess
  <2>2. IdleTables' /\ Running'
    BY <1>10, <2>1 DEF PickProcess
  <2>3. \A p \in Slots : STATE_PROCESS'[p] # 0 <=> STATE_PROCESS[p] # 0
    BY <1>10, <2>1 DEF PickProcess
  <2>4. Queue'
    BY <1>10, <2>3 DEF PickProcess
  <2> QED BY <2>2, <2>4
<1>11. CASE SaveKernel
  BY <1>11 DEF SaveKernel
<1>12. CASE SwitchFirst
  BY <1>12 DEF SwitchFirst, tables
<1>13. CASE SwitchAgain
  BY <1>13 DEF SwitchAgain, tables
<1>14. CASE RestoreProgram
  BY <1>14 DEF RestoreProgram, tables
<1>15. CASE JumpTo
  BY <1>15 DEF JumpTo, tables
<1>16. CASE SaveProgram
  BY <1>16 DEF SaveProgram, tables
<1>17. CASE RestoreKernel
  BY <1>17 DEF RestoreKernel, tables
<1>18. CASE TimerTaken
  <2>1. IdleTables' /\ Running'
    BY <1>18 DEF TimerTaken
  <2>2. \A p \in Slots : STATE_PROCESS'[p] # 0 <=> STATE_PROCESS[p] # 0
    BY <1>18 DEF TimerTaken
  <2> QED BY <1>18, <2>1, <2>2 DEF TimerTaken
<1>19. CASE HaltTaken
  <2>1. IdleTables' /\ Running'
    BY <1>19 DEF HaltTaken
  <2>2. \A p \in Slots : STATE_PROCESS'[p] # 0 <=> STATE_PROCESS[p] # 0
    BY <1>19 DEF HaltTaken
  <2> QED BY <1>19, <2>1, <2>2 DEF HaltTaken
<1>20. CASE Advance
  BY <1>20 DEF Advance, tables, machine
<1>21. CASE EnterNonPreemptive
  BY <1>21 DEF EnterNonPreemptive, tables
<1>22. CASE LeaveNonPreemptive
  BY <1>22 DEF LeaveNonPreemptive, reset_process_flags
<1>23. CASE UserStep
  BY <1>23 DEF UserStep, tables
<1>24. CASE TimerInterrupt
  BY <1>24 DEF TimerInterrupt, tables
<1>25. CASE Halt
  BY <1>25 DEF Halt, tables
<1>26. CASE UNCHANGED vars
  BY <1>26 DEF vars, tables, machine
<1> QED
  BY <1>1, <1>2, <1>3, <1>4, <1>5, <1>6, <1>7, <1>8, <1>9, <1>10, <1>11, <1>12, <1>13,
     <1>14, <1>15, <1>16, <1>17, <1>18, <1>19, <1>20, <1>21, <1>22, <1>23, <1>24, <1>25,
     <1>26 DEF Next, InputStep, KernelStep

-----------------------------------------------------------------------------
(* ACTIVE_PROCESSES counts the unfinished programs. *)

ActiveSet == {p \in Slots : STATE_PROCESS[p] \in {1, 2}}

LEMMA SlotsFinite == \A S \in SUBSET Slots : IsFiniteSet(S) /\ Cardinality(S) \in Nat
<1>1. IsFiniteSet(Slots)
  BY FS_Interval, SimpleSlots DEF Slots, COMPLEX_PROG_ID
<1> QED BY <1>1, FS_Subset, FS_CardinalityType

LEMMA ActiveInit == Init => ActiveCount
<1> SUFFICES ASSUME Init PROVE ActiveCount
  OBVIOUS
<1>1. ActiveSet = {}
  BY DEF Init, ActiveSet
<1> QED BY <1>1, FS_EmptySet DEF Init, ActiveCount, ActiveSet

\* A step that leaves the set of unfinished programs and the counter alone.
LEMMA ActiveKept ==
  ASSUME ActiveCount, ActiveSet' = ActiveSet, ACTIVE_PROCESSES' = ACTIVE_PROCESSES
  PROVE  ActiveCount'
BY DEF ActiveCount, ActiveSet

\* reset_process_flags
LEMMA ActiveReset ==
  ASSUME reset_process_flags
  PROVE  ActiveCount'
<1>1. ActiveSet' = {}
  BY DEF reset_process_flags, ActiveSet
<1> QED BY <1>1, FS_EmptySet DEF reset_process_flags, ActiveCount, ActiveSet

LEMMA ActiveNext == Types /\ Control /\ ActiveCount /\ [Next]_vars => ActiveCount'
<1> SUFFICES ASSUME Types, Control, ActiveCount, [Next]_vars PROVE ActiveCount'
  OBVIOUS
<1>1. ASSUME NEW choice \in Inputs, ChooseProgram(choice) PROVE ActiveCount'
  <2> DEFINE n == clamp_simple_prog_num(choice)
  <2>1. n \in Slots
    BY ClampTyped, SimpleSlots
  <2>2. STATE_PROCESS[n] = 0 /\ STATE_PROCESS' = [STATE_PROCESS EXCEPT ![n] = 1]
        /\ ACTIVE_PROCESSES' = ACTIVE_PROCESSES + 1
    BY <1>1 DEF ChooseProgram, carregar_processo
  <2> HIDE DEF n
  <2>3. ActiveSet' = ActiveSet \cup {n} /\ n \notin ActiveSet
    BY <2>1, <2>2 DEF ActiveSet, Types
  <2>4. Cardinality(ActiveSet \cup {n}) = Cardinality(ActiveSet) + 1
    BY <2>3, SlotsFinite, FS_AddElement DEF ActiveSet
  <2> QED BY <2>2, <2>3, <2>4 DEF ActiveCount, ActiveSet
<1>2. CASE AllFinished
  BY <1>2, ActiveReset DEF AllFinished
<1>3. CASE PickProcess
  <2>1. proc' \in Slots /\ STATE_PROCESS[proc'] \in {1, 2}
    BY <1>3, SimpleSlots
       DEF PickProcess, Types, Control, Queue, Looping
  <2>2. ActiveSet' = ActiveSet
    BY <1>3, <2>1 DEF PickProcess, ActiveSet, Types
  <2> QED BY <1>3, <2>2, ActiveKept DEF PickProcess
<1>4. CASE TimerTaken
  <2>1. proc \in Slots /\ STATE_PROCESS[proc] = 2
    BY <1>4, SimpleSlots DEF TimerTaken, Control, Running, Slice, Leaving
  <2>2. ActiveSet' = ActiveSet
    BY <1>4, <2>1 DEF TimerTaken, ActiveSet, Types
  <2> QED BY <1>4, <2>2, ActiveKept DEF TimerTaken
<1>5. CASE HaltTaken
  <2>1. proc \in Slots /\ STATE_PROCESS[proc] = 2
    BY <1>5, SimpleSlots DEF HaltTaken, Control, Running, Slice, Leaving
  <2>2. ActiveSet' = ActiveSet \ {proc} /\ proc \in ActiveSet
    BY <1>5, <2>1 DEF HaltTaken, ActiveSet, Types
  <2>3. Cardinality(ActiveSet \ {proc}) = Cardinality(ActiveSet) - 1
    BY <2>2, SlotsFinite, FS_RemoveElement DEF ActiveSet
  <2> QED BY <1>5, <2>2, <2>3 DEF HaltTaken, ActiveCount, ActiveSet
<1>6. CASE LeaveNonPreemptive
  BY <1>6, ActiveReset DEF LeaveNonPreemptive
<1>7. CASE /\ UNCHANGED <<STATE_PROCESS, ACTIVE_PROCESSES>>
  BY <1>7 DEF ActiveCount
<1> QED
  BY <1>1, <1>2, <1>3, <1>4, <1>5, <1>6, <1>7
     DEF Next, InputStep, KernelStep, vars, tables, machine, ShellMode, how_many_processes,
         RefuseRepeated, ChooseTier, non_preemp_choice_simples, ChoiceDone, SkipFinished,
         SaveKernel, SwitchFirst, SwitchAgain, RestoreProgram, JumpTo, SaveProgram,
         RestoreKernel, Advance, EnterNonPreemptive, UserStep, TimerInterrupt, Halt

\* The counter's range, from what it counts: slots 1..NSimple only.
LEMMA ActiveRange == Types /\ Control /\ ActiveCount => ACTIVE_PROCESSES \in 0..NSimple
<1> SUFFICES ASSUME Types, Control, ActiveCount PROVE ACTIVE_PROCESSES \in 0..NSimple
  OBVIOUS
<1>1. ActiveSet \subseteq Simple
  BY SimpleSlots
     DEF ActiveSet, Control, IdleTables, Queue, Types, Points, Looping, Idle
<1>2. IsFiniteSet(Simple) /\ Cardinality(Simple) = NSimple
  BY FS_Interval, SimpleSlots DEF Simple
<1>3. Cardinality(ActiveSet) <= NSimple
  BY <1>1, <1>2, FS_Subset
<1>4. Cardinality(ActiveSet) \in Nat
  BY SlotsFinite DEF ActiveSet
<1> QED BY <1>3, <1>4, SimpleSlots DEF ActiveCount, ActiveSet

-----------------------------------------------------------------------------
(* The context switch. *)

\* From the moment the kernel has saved itself to the moment it is restored.
KernelAway == {"switch", "restore", "jump", "user", "return", "reenter"} \cup NonPreemptive

KernelSaved ==
  pc \in KernelAway => area[0].s0 = 0 /\ area[0].s1 = 0 /\ area[0].hi = OSWord

LoadedRegisters ==
  /\ pc = "npm_jump" => reg.k0 = instruction_memory_procs[CURRENT_PROCESS]
  /\ pc = "jump" /\ first_execution = 1 => reg.k0 = instruction_memory_procs[proc]
  /\ pc \in {"restore", "jump"} /\ first_execution = 0 => reg.k0 = PROC_PC_SALVO[proc]
  /\ pc = "jump" /\ first_execution = 0 =>
       /\ reg.t = area[data_memory_procs[proc]].t
       /\ reg.hi = area[data_memory_procs[proc]].hi

Context == KernelAddressing /\ OwnContext /\ KernelSaved /\ LoadedRegisters

LEMMA ContextInit == Init => Context
BY SimpleSlots
   DEF Init, Context, KernelAddressing, OwnContext, KernelSaved, LoadedRegisters,
       KernelAway, ProgramBases, NonPreemptive

\* What a save leaves in each area.
LEMMA SaveEffect ==
  ASSUME area \in [Bases -> SaveArea], NEW r \in RegisterFile, NEW b \in Bases
  PROVE  SaveContext(r)[b] = IF b = r.s0 THEN [t |-> r.t, s0 |-> r.s0, s1 |-> r.s1, hi |-> r.hi]
                             ELSE area[b]
BY DEF SaveContext, RegisterFile

\* What a restore puts in each register, when the area holds its own base.
LEMMA RestoreEffect ==
  ASSUME area \in [Bases -> SaveArea], NEW r \in RegisterFile, area[r.s0].s0 = r.s0
  PROVE  /\ RestoreContext(r).t = area[r.s0].t
         /\ RestoreContext(r).s0 = r.s0
         /\ RestoreContext(r).s1 = area[r.s0].s1
         /\ RestoreContext(r).hi = area[r.s0].hi
         /\ RestoreContext(r).k0 = r.k0
BY DEF RestoreContext, RegisterFile

LEMMA SwitchEffect ==
  ASSUME reg \in RegisterFile, NEW at, NEW im, NEW dm
  PROVE  /\ SwitchTo(at, im, dm).t = OSWord
         /\ SwitchTo(at, im, dm).s0 = dm
         /\ SwitchTo(at, im, dm).s1 = im
         /\ SwitchTo(at, im, dm).k0 = at
         /\ SwitchTo(at, im, dm).hi = reg.hi
BY DEF SwitchTo, RegisterFile

LEMMA KernelBasesEffect ==
  ASSUME NEW r \in RegisterFile
  PROVE  /\ KernelBases(r).t = r.t
         /\ KernelBases(r).s0 = 0
         /\ KernelBases(r).s1 = 0
         /\ KernelBases(r).k0 = r.k0
         /\ KernelBases(r).hi = r.hi
BY DEF KernelBases, RegisterFile

\* A program's data base is neither the kernel's nor another program's.
LEMMA ProgramBase ==
  \A p \in Programs :
    /\ data_memory_procs[p] \in Bases /\ data_memory_procs[p] # 0
    /\ \A q \in Programs : data_memory_procs[p] = data_memory_procs[q] => p = q
BY DataBases, SimpleSlots

\* At a point where the registers are a program's, that program is a real one.
LEMMA CurrentProgram ==
  Types /\ Control /\ pc \in {"npm"} \cup NonPreemptive \cup Slice
    => Current \in Programs \/ pc = "npm"
BY SimpleSlots DEF Current, Control, Running, NonPreemptive, Slice, Entering, Leaving

LEMMA ContextNext == Types /\ Control /\ Context /\ [Next]_vars => Context'
<1> SUFFICES ASSUME Types, Control, Context, [Next]_vars PROVE Context'
  OBVIOUS
<1>0. /\ pc \in Points /\ reg \in RegisterFile /\ area \in [Bases -> SaveArea]
      /\ proc \in {0} \cup Simple /\ 0 \in Bases
      /\ STATE_PROCESS \in [Slots -> {0, 1, 2, 4}]
      /\ FIRST_EXECUTION_PROC \in [Slots -> {0, 1}]
      /\ PROC_PC_SALVO \in [Slots -> {0} \cup Addresses]
      /\ first_execution \in {0, 1}
  BY DataBases DEF Types
<1> USE <1>0, SimpleSlots
    DEF Context, KernelAddressing, OwnContext, KernelSaved, LoadedRegisters,
        Points, Slice, Entering, Leaving, NonPreemptive, ProgramBases, KernelAway, Current
\* Steps that leave the registers, the areas and the tables of the switch alone.
<1>1. ASSUME UNCHANGED <<reg, area, STATE_PROCESS, FIRST_EXECUTION_PROC, PROC_PC_SALVO,
                         proc, first_execution>>,
             pc \in {"shell", "how_many", "choice", "tier", "simple", "npm", "sched", "advance"},
             pc' \in {"shell", "how_many", "choice", "tier", "simple", "npm", "sched"}
      PROVE  Context'
  BY <1>1
<1>2. ASSUME NEW choice \in Inputs, ChooseProgram(choice) PROVE Context'
  <2> DEFINE n == clamp_simple_prog_num(choice)
  <2>1. n \in Slots
    BY ClampTyped
  <2>2. /\ STATE_PROCESS' = [STATE_PROCESS EXCEPT ![n] = 1]
        /\ pc = "choice" /\ pc' = pc
        /\ UNCHANGED <<reg, area, FIRST_EXECUTION_PROC>>
    BY <1>2 DEF ChooseProgram, carregar_processo, machine
  <2>3. \A p \in Slots : FIRST_EXECUTION_PROC[p] = 1
    BY <2>2 DEF Control, Running
  <2> QED BY <2>1, <2>2, <2>3
<1>3. ASSUME NEW choice \in Inputs, RefuseRepeated(choice) PROVE Context'
  BY <1>1, <1>3 DEF RefuseRepeated, vars, tables, machine
<1>4. CASE AllFinished
  BY <1>4 DEF AllFinished, reset_process_flags, machine
<1>5. CASE SkipFinished
  BY <1>5 DEF SkipFinished, tables, machine
<1>6. CASE PickProcess
  <2>1. proc' \in Simple /\ STATE_PROCESS[proc'] \in {1, 2}
    BY <1>6 DEF PickProcess, Types, Control, Queue, Looping
  <2> QED BY <1>6, <2>1 DEF PickProcess, machine
<1>7. CASE SaveKernel
  <2>1. reg' \in RegisterFile /\ reg'.s0 = 0 /\ reg'.s1 = 0 /\ reg'.hi = OSWord
    BY <1>7, KernelBasesTyped, KernelBasesEffect DEF SaveKernel
  <2>2. \A b \in Bases :
          area'[b] = IF b = 0 THEN [t |-> reg'.t, s0 |-> 0, s1 |-> 0, hi |-> OSWord] ELSE area[b]
    BY <1>7, <2>1, SaveEffect DEF SaveKernel
  <2>3. proc \in Simple /\ first_execution = FIRST_EXECUTION_PROC[proc]
    BY <1>7 DEF SaveKernel, Control, Running
  <2>4. KernelAddressing' /\ KernelSaved' /\ LoadedRegisters'
    BY <1>7, <2>1, <2>2 DEF SaveKernel
  <2>5. OwnContext'
    BY <1>7, <2>2, <2>3, ProgramBase DEF SaveKernel
  <2> QED BY <2>4, <2>5
<1>8. CASE SwitchFirst
  <2>1. /\ reg'.s0 = data_memory_procs[proc] /\ reg'.s1 = instruction_memory_procs[proc]
        /\ reg'.k0 = instruction_memory_procs[proc]
    BY <1>8, SwitchEffect DEF SwitchFirst
  <2> QED BY <1>8, <2>1 DEF SwitchFirst, tables
<1>9. CASE SwitchAgain
  <2>1. /\ reg'.s0 = data_memory_procs[proc] /\ reg'.s1 = instruction_memory_procs[proc]
        /\ reg'.k0 = PROC_PC_SALVO[proc]
    BY <1>9, SwitchEffect DEF SwitchAgain
  <2> QED BY <1>9, <2>1 DEF SwitchAgain, tables
<1>10. CASE RestoreProgram
  <2>1. /\ proc \in Simple /\ proc \in Programs /\ first_execution = 0
        /\ STATE_PROCESS[proc] = 2 /\ FIRST_EXECUTION_PROC[proc] = 0
    BY <1>10 DEF RestoreProgram, Control, Running
  <2>2. /\ reg.s0 = data_memory_procs[proc]
        /\ area[reg.s0].s0 = reg.s0
        /\ area[reg.s0].s1 = instruction_memory_procs[proc]
    BY <1>10, <2>1 DEF RestoreProgram
  <2>3. /\ reg'.s0 = data_memory_procs[proc] /\ reg'.s1 = instruction_memory_procs[proc]
        /\ reg'.t = area[reg.s0].t /\ reg'.hi = area[reg.s0].hi /\ reg'.k0 = reg.k0
    BY <1>10, <2>2, RestoreEffect DEF RestoreProgram
  <2> QED BY <1>10, <2>1, <2>2, <2>3 DEF RestoreProgram, tables
<1>11. CASE JumpTo
  BY <1>11 DEF JumpTo, tables
<1>12. CASE SaveProgram
  <2>1. Current \in Programs /\ reg.s0 = data_memory_procs[Current]
        /\ reg.s1 = instruction_memory_procs[Current]
    BY <1>12, CurrentProgram DEF SaveProgram
  <2>2. \A b \in Bases :
          area'[b] = IF b = reg.s0
                     THEN [t |-> reg.t, s0 |-> reg.s0, s1 |-> reg.s1, hi |-> reg.hi]
                     ELSE area[b]
    BY <1>12, SaveEffect DEF SaveProgram
  <2>3. reg'.s0 = 0 /\ reg'.s1 = 0
    BY <1>12, KernelBasesEffect DEF SaveProgram
  <2>4. area'[0] = area[0]
    BY <2>1, <2>2, ProgramBase
  <2>5. KernelAddressing' /\ KernelSaved' /\ LoadedRegisters'
    BY <1>12, <2>3, <2>4 DEF SaveProgram
  <2>6. CASE pc = "return"
    BY <1>12, <2>1, <2>2, <2>5, <2>6, ProgramBase DEF SaveProgram, tables
  <2>7. CASE pc = "npm_return"
    BY <1>12, <2>5, <2>7 DEF SaveProgram, tables, Control, IdleTables, Idle
  <2> QED BY <1>12, <2>6, <2>7 DEF SaveProgram
<1>13. CASE RestoreKernel
  <2>1. reg.s0 = 0 /\ area[reg.s0].s0 = reg.s0
    BY <1>13 DEF RestoreKernel
  <2>2. reg'.s0 = 0 /\ reg'.s1 = 0 /\ reg'.hi = OSWord
    BY <1>13, <2>1, RestoreEffect DEF RestoreKernel
  <2> QED BY <1>13, <2>2 DEF RestoreKernel, tables
<1>14. CASE TimerTaken
  <2>1. proc \in Simple /\ STATE_PROCESS[proc] = 2
    BY <1>14 DEF TimerTaken, Control, Running
  <2> QED BY <1>14, <2>1 DEF TimerTaken, machine
<1>15. CASE HaltTaken
  <2>1. proc \in Simple
    BY <1>15 DEF HaltTaken, Control, Running
  <2> QED BY <1>15, <2>1 DEF HaltTaken, machine
<1>16. CASE Advance
  BY <1>16 DEF Advance, tables, machine
<1>17. CASE EnterNonPreemptive
  <2>1. reg.s0 = 0 /\ reg.s1 = 0 /\ reg.hi = OSWord
    BY <1>17 DEF EnterNonPreemptive
  <2>2. area'[0] = [t |-> reg.t, s0 |-> 0, s1 |-> 0, hi |-> OSWord]
    BY <1>17, <2>1, SaveEffect DEF EnterNonPreemptive
  <2>3. /\ reg'.s0 = data_memory_procs[CURRENT_PROCESS]
        /\ reg'.s1 = instruction_memory_procs[CURRENT_PROCESS]
        /\ reg'.k0 = instruction_memory_procs[CURRENT_PROCESS]
    BY <1>17, SwitchEffect DEF EnterNonPreemptive
  <2>4. \A p \in Slots : STATE_PROCESS'[p] = 0
    BY <1>17 DEF EnterNonPreemptive, tables, Control, IdleTables, Idle
  <2> QED BY <1>17, <2>2, <2>3, <2>4 DEF EnterNonPreemptive
<1>18. CASE LeaveNonPreemptive
  <2>1. reg.s0 = 0 /\ area[reg.s0].s0 = reg.s0
    BY <1>18 DEF LeaveNonPreemptive
  <2>2. reg'.s0 = 0 /\ reg'.s1 = 0 /\ reg'.hi = OSWord
    BY <1>18, <2>1, RestoreEffect DEF LeaveNonPreemptive
  <2> QED BY <1>18, <2>2 DEF LeaveNonPreemptive, reset_process_flags
<1>19. CASE UserStep
  <2>1. reg'.s0 = reg.s0 /\ reg'.s1 = reg.s1
    BY <1>19 DEF UserStep, RegisterFile
  <2> QED BY <1>19, <2>1 DEF UserStep, tables
<1>20. CASE TimerInterrupt
  BY <1>20 DEF TimerInterrupt, tables
<1>21. CASE Halt
  BY <1>21 DEF Halt, tables
<1>22. CASE UNCHANGED vars
  BY <1>22 DEF vars, tables, machine
<1>23. CASE ShellMode
  BY <1>1, <1>23 DEF ShellMode, tables, machine
<1>24. CASE how_many_processes
  BY <1>1, <1>24 DEF how_many_processes, machine
<1>25. CASE ChooseTier
  BY <1>1, <1>25 DEF ChooseTier, tables, machine
<1>26. CASE non_preemp_choice_simples
  BY <1>1, <1>26 DEF non_preemp_choice_simples, tables, machine
<1>27. CASE ChoiceDone
  BY <1>1, <1>27 DEF ChoiceDone, tables, machine
<1> QED
  BY <1>2, <1>3, <1>4, <1>5, <1>6, <1>7, <1>8, <1>9, <1>10, <1>11, <1>12, <1>13, <1>14,
     <1>15, <1>16, <1>17, <1>18, <1>19, <1>20, <1>21, <1>22, <1>23, <1>24, <1>25, <1>26,
     <1>27 DEF Next, InputStep, KernelStep

-----------------------------------------------------------------------------
(* The theorems. *)

\* The inductive invariant: types, control, the count and the context switch.
KernelInv == Types /\ Control /\ ActiveCount /\ Context

LEMMA KernelInvNext == KernelInv /\ [Next]_vars => KernelInv'
BY TypesNext, ControlNext, ActiveNext, ContextNext DEF KernelInv

\* KernelInv holds in every state the system reaches (SO.cm, assembler.c).
THEOREM KernelInvariant == Spec => []KernelInv
<1>1. Init => KernelInv
  BY TypesInit, ControlInit, ActiveInit, ContextInit DEF KernelInv
<1> QED BY <1>1, KernelInvNext, PTL DEF Spec

\* Every variable has its type; in particular the counters and the queue index
\* of SO.cm never leave their tables.
THEOREM TypeCorrect == Spec => []TypeOK
<1>1. KernelInv => TypeOK
  BY ActiveRange DEF KernelInv, Types, TypeOK, RegisterFile
<1> QED BY <1>1, KernelInvariant, PTL

\* Kernel code always runs with the kernel's bases and frame pointer, a program
\* with its own bases (os_save_context, os_restore_context, os_set_dm_base).
THEOREM AddressingCorrect == Spec => []KernelAddressing
<1>1. KernelInv => KernelAddressing
  BY DEF KernelInv, Context
<1> QED BY <1>1, KernelInvariant, PTL

\* The save area of every program that has run holds that program's own bases,
\* which is what makes os_restore_context's change of $s0 half-way harmless.
THEOREM ContextsOwned == Spec => []OwnContext
<1>1. KernelInv => OwnContext
  BY DEF KernelInv, Context
<1> QED BY <1>1, KernelInvariant, PTL

\* ACTIVE_PROCESSES counts the unfinished programs in every state, so the loop of
\* run_preemptive_mode ends exactly when none is left.
THEOREM ActiveCounted == Spec => []ActiveCount
<1>1. KernelInv => ActiveCount
  BY DEF KernelInv
<1> QED BY <1>1, KernelInvariant, PTL

\* Exactly the program whose slice it is is marked running, and never slot 0.
THEOREM OneAtATime == Spec => []OneRunning
<1>1. KernelInv => OneRunning
  <2> SUFFICES ASSUME KernelInv PROVE OneRunning
    OBVIOUS
  <2>1. pc \in Slice => proc \in Simple /\ proc \in Slots /\ proc # 0
    BY SimpleSlots DEF KernelInv, Control, Running
  <2>2. \A p \in Slots : STATE_PROCESS[p] = 2 <=> pc \in Slice /\ p = proc
    BY DEF KernelInv, Control, Running
  <2> QED BY <2>1, <2>2 DEF OneRunning
<1> QED BY <1>1, KernelInvariant, PTL

\* The queue's first i entries are the loaded programs, each once.
THEOREM QueueCorrect == Spec => []QueueIsLoaded
<1>1. KernelInv => QueueIsLoaded
  <2> SUFFICES ASSUME KernelInv, pc \in {"choice", "sched", "advance"} \cup Slice
               PROVE  /\ \A j, k \in 0..(i - 1) : j # k => PROCESS_QUEUE[j] # PROCESS_QUEUE[k]
                      /\ {PROCESS_QUEUE[j] : j \in 0..(i - 1)}
                           = {p \in Slots : STATE_PROCESS[p] # 0}
                      /\ pc # "choice" => i = NUMBER_OF_PROCS
    BY DEF QueueIsLoaded
  <2>1. /\ \A j \in 0..(i - 1) :
              PROCESS_QUEUE[j] \in Slots /\ STATE_PROCESS[PROCESS_QUEUE[j]] # 0
        /\ \A p \in Slots :
              STATE_PROCESS[p] # 0 => \E j \in 0..(i - 1) : PROCESS_QUEUE[j] = p
    BY SimpleSlots DEF KernelInv, Control, Queue, Looping
  <2>2. {PROCESS_QUEUE[j] : j \in 0..(i - 1)} = {p \in Slots : STATE_PROCESS[p] # 0}
    BY <2>1
  <2> QED BY <2>2 DEF KernelInv, Control, Queue, Looping
<1> QED BY <1>1, KernelInvariant, PTL

\* preemp_choice always has an answer it accepts: fewer programs are queued than
\* there are simple programs.
THEOREM ChoiceEnds == Spec => []ChoiceCanEnd
<1>1. KernelInv => ChoiceCanEnd
  <2> SUFFICES ASSUME KernelInv, pc = "choice", i < NUMBER_OF_PROCS,
                      \A choice \in Inputs : STATE_PROCESS[clamp_simple_prog_num(choice)] # 0
               PROVE  FALSE
    BY DEF ChoiceCanEnd
  <2> DEFINE Queued == {PROCESS_QUEUE[j] : j \in 0..(i - 1)}
  <2>1. \A p \in Simple : p \in Inputs /\ clamp_simple_prog_num(p) = p
    BY SimpleSlots DEF Simple, Inputs, clamp_simple_prog_num
  <2>2. Simple \subseteq Queued
    <3>1. \A p \in Simple : STATE_PROCESS[p] # 0
      BY <2>1
    <3>2. \A p \in Slots : STATE_PROCESS[p] # 0 => \E j \in 0..(i - 1) : PROCESS_QUEUE[j] = p
      BY DEF KernelInv, Control, Queue
    <3> QED BY <3>1, <3>2, SimpleSlots
  <2>3. i \in 0..NSimple /\ i < NSimple
    BY SimpleSlots DEF KernelInv, Types
  <2>4. IsFiniteSet(0..(i - 1)) /\ Cardinality(0..(i - 1)) = i
    BY <2>3, SimpleSlots, FS_Interval
  <2>5. IsFiniteSet(Queued) /\ Cardinality(Queued) <= i
    <3> DEFINE q == [j \in 0..(i - 1) |-> PROCESS_QUEUE[j]]
    <3>1. q \in Surjection(0..(i - 1), Queued)
      BY DEF Surjection
    <3> QED BY <2>4, <3>1, FS_Surjection
  <2>6. IsFiniteSet(Simple) /\ Cardinality(Simple) = NSimple
    BY FS_Interval, SimpleSlots DEF Simple
  <2>7. Cardinality(Simple) <= Cardinality(Queued)
    BY <2>2, <2>5, FS_Subset
  <2>8. Cardinality(Queued) \in Nat
    BY <2>5, FS_CardinalityType
  <2> QED BY <2>3, <2>5, <2>6, <2>7, <2>8, SimpleSlots
<1> QED BY <1>1, KernelInvariant, PTL

-----------------------------------------------------------------------------
(* Kernel implements Multiprog: every kernel step is invisible to the      *)
(* virtual machines of the programs but the ones that start, resume,       *)
(* suspend, finish or forget them.                                         *)

\* Code addresses stay inside the image of the program they belong to.
PlacesOf(p) == {instruction_memory_procs[p] + o : o \in Offsets}

AtHome ==
  /\ \A p \in Simple : STATE_PROCESS[p] # 0 => PROC_PC_SALVO[p] \in PlacesOf(p)
  /\ pc \in {"user"} \cup Leaving => upc \in PlacesOf(proc)
  /\ pc = "npm_user" => upc \in PlacesOf(CURRENT_PROCESS)

LEMMA EntryAtHome == \A p \in Slots : instruction_memory_procs[p] \in PlacesOf(p)
<1> SUFFICES ASSUME NEW p \in Slots PROVE instruction_memory_procs[p] \in PlacesOf(p)
  OBVIOUS
<1>1. instruction_memory_procs[p] \in Int
  BY NSimpleAssumption DEF instruction_memory_procs, Slots, COMPLEX_PROG_ID
<1>2. instruction_memory_procs[p] = instruction_memory_procs[p] + 0
  BY <1>1
<1> QED BY <1>2, OffsetsAssumption DEF PlacesOf

LEMMA AtHomeInit == Init => AtHome
BY SimpleSlots DEF Init, AtHome, Leaving

LEMMA AtHomeNext == KernelInv /\ AtHome /\ [Next]_vars => AtHome'
<1> SUFFICES ASSUME KernelInv, AtHome, [Next]_vars PROVE AtHome'
  OBVIOUS
<1>0. /\ pc \in Points /\ proc \in {0} \cup Simple
      /\ STATE_PROCESS \in [Slots -> {0, 1, 2, 4}]
      /\ PROC_PC_SALVO \in [Slots -> {0} \cup Addresses]
      /\ first_execution \in {0, 1}
  BY DEF KernelInv, Types
<1> USE <1>0, SimpleSlots
    DEF AtHome, Points, Slice, Entering, Leaving, NonPreemptive
\* Steps that leave the entries alone and do not arrive in user mode.
<1>1. ASSUME UNCHANGED <<STATE_PROCESS, PROC_PC_SALVO>>,
             pc' \notin {"user", "npm_user"} \cup Leaving
      PROVE  AtHome'
  BY <1>1 DEF PlacesOf
<1>2. ASSUME NEW choice \in Inputs, ChooseProgram(choice) PROVE AtHome'
  <2> DEFINE n == clamp_simple_prog_num(choice)
  <2>1. n \in Slots
    BY ClampTyped
  <2>2. instruction_memory_procs[n] \in PlacesOf(n)
    BY <2>1, EntryAtHome
  <2> HIDE DEF n
  <2>3. /\ STATE_PROCESS' = [STATE_PROCESS EXCEPT ![n] = 1]
        /\ PROC_PC_SALVO' = [PROC_PC_SALVO EXCEPT ![n] = instruction_memory_procs[n]]
        /\ pc = "choice" /\ pc' = pc
    BY <1>2 DEF ChooseProgram, carregar_processo, n
  <2> QED BY <2>1, <2>2, <2>3 DEF PlacesOf
<1>3. ASSUME NEW choice \in Inputs, RefuseRepeated(choice) PROVE AtHome'
  BY <1>3 DEF RefuseRepeated, vars, tables, machine, PlacesOf
<1>4. CASE AllFinished \/ LeaveNonPreemptive
  BY <1>4 DEF AllFinished, LeaveNonPreemptive, reset_process_flags
<1>5. CASE PickProcess
  <2>1. proc' \in Simple /\ STATE_PROCESS[proc'] # 0
    BY <1>5 DEF PickProcess, KernelInv, Types, Control, Queue, Looping
  <2> QED BY <1>5, <2>1 DEF PickProcess, PlacesOf
<1>6. CASE JumpTo
  <2>1. CASE pc = "jump" /\ first_execution = 1
    BY <1>6, <2>1, EntryAtHome
       DEF JumpTo, tables, PlacesOf, KernelInv, Context, LoadedRegisters
  <2>2. CASE pc = "jump" /\ first_execution = 0
    <3>1. proc \in Simple /\ STATE_PROCESS[proc] = 2
      BY <2>2 DEF KernelInv, Control, Running
    <3>2. upc' = PROC_PC_SALVO[proc]
      BY <1>6, <2>2 DEF JumpTo, KernelInv, Context, LoadedRegisters
    <3> QED BY <1>6, <2>2, <3>1, <3>2 DEF JumpTo, tables, PlacesOf
  <2>3. CASE pc = "npm_jump"
    <3>1. CURRENT_PROCESS \in Slots
      BY DEF KernelInv, Types
    <3> QED
      BY <1>6, <2>3, <3>1, EntryAtHome
         DEF JumpTo, tables, PlacesOf, KernelInv, Context, LoadedRegisters
  <2> QED BY <1>6, <2>1, <2>2, <2>3 DEF JumpTo
<1>7. CASE TimerTaken
  <2>1. proc \in Simple /\ proc \in Slots /\ STATE_PROCESS[proc] = 2 /\ upc \in PlacesOf(proc)
    BY <1>7 DEF TimerTaken, KernelInv, Control, Running
  <2> QED BY <1>7, <2>1 DEF TimerTaken, PlacesOf
<1>8. CASE HaltTaken
  <2>1. proc \in Simple /\ STATE_PROCESS[proc] = 2
    BY <1>8 DEF HaltTaken, KernelInv, Control, Running
  <2> QED BY <1>8, <2>1 DEF HaltTaken, PlacesOf
<1>9. CASE UserStep
  <2>1. upc' \in {reg.s1 + o : o \in Offsets}
    BY <1>9 DEF UserStep
  <2>2. reg.s1 = instruction_memory_procs[Current]
    BY <1>9 DEF UserStep, KernelInv, Context, KernelAddressing, ProgramBases
  <2>3. upc' \in PlacesOf(Current)
    BY <2>1, <2>2 DEF PlacesOf
  <2> QED BY <1>9, <2>3 DEF UserStep, tables, Current, PlacesOf
<1>10. CASE TimerInterrupt \/ Halt \/ SaveProgram \/ RestoreKernel
  BY <1>10 DEF TimerInterrupt, Halt, SaveProgram, RestoreKernel, tables, PlacesOf
<1>11. CASE UNCHANGED vars
  BY <1>11 DEF vars, tables, machine, PlacesOf
<1>12. CASE \/ ShellMode \/ how_many_processes \/ ChooseTier \/ non_preemp_choice_simples
            \/ ChoiceDone \/ SkipFinished \/ SaveKernel \/ SwitchFirst \/ SwitchAgain
            \/ RestoreProgram \/ Advance \/ EnterNonPreemptive
  BY <1>1, <1>12
     DEF ShellMode, how_many_processes, ChooseTier, non_preemp_choice_simples, ChoiceDone,
         SkipFinished, SaveKernel, SwitchFirst, SwitchAgain, RestoreProgram, Advance,
         EnterNonPreemptive, tables
<1> QED
  BY <1>2, <1>3, <1>4, <1>5, <1>6, <1>7, <1>8, <1>9, <1>10, <1>11, <1>12
     DEF Next, InputStep, KernelStep

-----------------------------------------------------------------------------
(* The mapping, point by point. *)

RefInv == KernelInv /\ AtHome

\* In the non-preemptive mode only the program chosen exists.
LEMMA PhaseAlone ==
  ASSUME RefInv, pc \in NonPreemptive, NEW p \in Programs
  PROVE  Phase(p) = IF p # CURRENT_PROCESS THEN "absent"
                    ELSE IF pc = "npm_jump" THEN "fresh"
                    ELSE IF pc = "npm_user" THEN "alive" ELSE "halted"
<1>1. STATE_PROCESS[p] = 0
  BY SimpleSlots DEF RefInv, KernelInv, Control, IdleTables, Idle
<1> QED BY <1>1 DEF Phase, AloneAt, NonPreemptive

LEMMA PhaseAloneNext ==
  ASSUME RefInv', pc' \in NonPreemptive, NEW p \in Programs
  PROVE  Phase(p)' = IF p # CURRENT_PROCESS' THEN "absent"
                     ELSE IF pc' = "npm_jump" THEN "fresh"
                     ELSE IF pc' = "npm_user" THEN "alive" ELSE "halted"
<1>1. STATE_PROCESS'[p] = 0
  BY SimpleSlots DEF RefInv, KernelInv, Control, IdleTables, Idle
<1> QED BY <1>1 DEF Phase, AloneAt, NonPreemptive

LEMMA PhaseTables ==
  ASSUME pc \notin NonPreemptive, NEW p \in Programs
  PROVE  Phase(p) = IF STATE_PROCESS[p] = 0 THEN "absent"
                    ELSE IF STATE_PROCESS[p] = 4 \/ HaltedNow(p) THEN "halted"
                    ELSE IF \/ FIRST_EXECUTION_PROC[p] = 1
                            \/ proc = p /\ first_execution = 1 /\ pc \in Entering
                    THEN "fresh" ELSE "alive"
BY DEF Phase, AloneAt, NonPreemptive

LEMMA PhaseTablesNext ==
  ASSUME pc' \notin NonPreemptive, NEW p \in Programs
  PROVE  Phase(p)' = IF STATE_PROCESS'[p] = 0 THEN "absent"
                     ELSE IF STATE_PROCESS'[p] = 4 \/ HaltedNow(p)' THEN "halted"
                     ELSE IF \/ FIRST_EXECUTION_PROC'[p] = 1
                             \/ proc' = p /\ first_execution' = 1 /\ pc' \in Entering
                     THEN "fresh" ELSE "alive"
BY DEF Phase, AloneAt, NonPreemptive

\* A step no program notices.
LEMMA Unnoticed ==
  ASSUME \A p \in Programs : Phase(p)' = Phase(p) /\ VirtualMachine(p)' = VirtualMachine(p),
         Executing' = Executing, Due' = Due
  PROVE  UNCHANGED MP!vars
BY DEF MP!vars

\* The queue and what is left of the round decide Due.
LEMMA DueKept ==
  ASSUME pc # "npm_jump", pc' # "npm_jump", ToCome' = ToCome, UNCHANGED PROCESS_QUEUE,
         \A p \in Programs : Phase(p)' = Phase(p)
  PROVE  Due' = Due
BY DEF Due

LEMMA RefinesInit == Init => MP!Init
<1> SUFFICES ASSUME Init PROVE MP!Init
  OBVIOUS
<1>1. \A p \in Programs : Phase(p) = "absent"
  BY SimpleSlots DEF Init, Phase, AloneAt
<1>2. \A p \in Programs : VirtualMachine(p) = Blank
  BY <1>1 DEF VirtualMachine
<1>3. Executing = 0 /\ Due = {}
  BY <1>1 DEF Init, Executing, Due
<1> QED BY <1>1, <1>2, <1>3 DEF MP!Init

\* Steps of the shell, before any program is loaded.
LEMMA RefinesIdle ==
  ASSUME RefInv, RefInv',
         pc \in Idle \ NonPreemptive, pc' \in (Idle \ NonPreemptive) \cup {"choice"},
         UNCHANGED <<STATE_PROCESS, FIRST_EXECUTION_PROC, PROCESS_QUEUE>>,
         pc' = "choice" => i' = 0
  PROVE  UNCHANGED MP!vars
<1> USE DEF Idle, NonPreemptive
<1>1. \A p \in Programs : Phase(p) = "absent" /\ Phase(p)' = "absent"
  <2>1. \A p \in Programs : STATE_PROCESS[p] = 0 /\ STATE_PROCESS'[p] = 0
    BY SimpleSlots DEF RefInv, KernelInv, Control, IdleTables
  <2> QED BY <2>1 DEF Phase, AloneAt
<1>2. \A p \in Programs : VirtualMachine(p) = Blank /\ VirtualMachine(p)' = Blank
  BY <1>1 DEF VirtualMachine
<1>3. Executing = 0 /\ Executing' = 0
  BY DEF Executing
<1>4. Due = {} /\ Due' = {}
  BY <1>1 DEF Due
<1> QED BY <1>1, <1>2, <1>3, <1>4, Unnoticed

\* preemp_choice loads one more program.
LEMMA RefinesChoose ==
  ASSUME RefInv, NEW choice \in Inputs, ChooseProgram(choice)
  PROVE  \E p \in Programs : MP!Load(p)
<1> DEFINE n == clamp_simple_prog_num(choice)
<1>1. n \in Simple /\ n \in Programs /\ n \in Slots
  BY ClampTyped, SimpleSlots
<1>2. /\ pc = "choice" /\ pc' = "choice" /\ i < NUMBER_OF_PROCS /\ i' = i + 1
      /\ STATE_PROCESS[n] = 0
      /\ STATE_PROCESS' = [STATE_PROCESS EXCEPT ![n] = 1]
      /\ PROCESS_QUEUE' = [PROCESS_QUEUE EXCEPT ![i] = n]
      /\ PROC_PC_SALVO' = [PROC_PC_SALVO EXCEPT ![n] = instruction_memory_procs[n]]
      /\ UNCHANGED <<FIRST_EXECUTION_PROC, proc, first_execution, reg, area, upc>>
  BY DEF ChooseProgram, carregar_processo, machine
<1> HIDE DEF n
<1>3. /\ STATE_PROCESS \in [Slots -> {0, 1, 2, 4}]
      /\ PROCESS_QUEUE \in [Slots -> {0} \cup Simple]
      /\ i \in 0..NSimple /\ i \in Slots
      /\ \A p \in Slots : FIRST_EXECUTION_PROC[p] = 1
      /\ \A p \in Slots : STATE_PROCESS[p] # 2
  BY <1>2, SimpleSlots DEF RefInv, KernelInv, Types, Control, Running, Slice, Entering, Leaving
<1>4. \A p \in Programs : Phase(p)' = IF p = n THEN "fresh" ELSE Phase(p)
  BY <1>1, <1>2, <1>3, SimpleSlots, PhaseTables, PhaseTablesNext
     DEF NonPreemptive, Leaving, HaltedNow
<1>5. Phase(n) = "absent"
  BY <1>1, <1>2, PhaseTables DEF NonPreemptive
<1>6. \A p \in Programs : Phase(p) # "alive"
  BY <1>2, <1>3, SimpleSlots, PhaseTables DEF NonPreemptive
<1>7. \A p \in Programs : VirtualMachine(p)' = VirtualMachine(p)
  BY <1>4, <1>6 DEF VirtualMachine
<1>8. Executing = 0 /\ Executing' = 0
  BY <1>2 DEF Executing
<1>9. Due' = Due \cup {n}
  <2>1. ToCome = 0..(i - 1) /\ ToCome' = 0..i
    BY <1>2, <1>3 DEF ToCome
  <2>2. \A j \in 0..i : PROCESS_QUEUE'[j] = IF j = i THEN n ELSE PROCESS_QUEUE[j]
    BY <1>2, <1>3, SimpleSlots
  <2>3. \A p \in Programs :
          (\E j \in 0..i : PROCESS_QUEUE'[j] = p)
            <=> p = n \/ \E j \in 0..(i - 1) : PROCESS_QUEUE[j] = p
    BY <1>3, <2>2, SimpleSlots
  <2> QED BY <1>1, <1>2, <1>4, <1>5, <2>1, <2>3 DEF Due
<1> QED BY <1>1, <1>4, <1>5, <1>7, <1>8, <1>9 DEF MP!Load

\* What every state of preemptive mode's loop offers the proofs below.
LEMMA LoopFacts ==
  ASSUME RefInv, pc \in Looping
  PROVE  /\ STATE_PROCESS \in [Slots -> {0, 1, 2, 4}]
         /\ FIRST_EXECUTION_PROC \in [Slots -> {0, 1}]
         /\ PROCESS_QUEUE \in [Slots -> {0} \cup Simple]
         /\ PROC_PC_SALVO \in [Slots -> {0} \cup Addresses]
         /\ first_execution \in {0, 1} /\ itype \in {0, 1, 2}
         /\ reg \in RegisterFile /\ area \in [Bases -> SaveArea]
         /\ i = NUMBER_OF_PROCS /\ idx \in 0..(i - 1) /\ i \in 1..NSimple
         /\ \A j \in 0..(i - 1) : PROCESS_QUEUE[j] \in Simple
         /\ \A j, k \in 0..(i - 1) : j # k => PROCESS_QUEUE[j] # PROCESS_QUEUE[k]
         /\ \A p \in Slots : STATE_PROCESS[p] # 0 => \E j \in 0..(i - 1) : PROCESS_QUEUE[j] = p
         /\ pc \in Slice => /\ proc \in Simple /\ proc \in Programs /\ proc \in Slots
                            /\ STATE_PROCESS[proc] = 2 /\ proc = PROCESS_QUEUE[idx]
                            /\ Current = proc
         /\ pc \in Slice \ {"enter"} => FIRST_EXECUTION_PROC[proc] = 0
         /\ pc \notin NonPreemptive
<1>1. pc \notin NonPreemptive
  BY DEF Looping, Slice, Entering, Leaving, NonPreemptive
<1>2. pc \in Slice => /\ proc \in Simple /\ STATE_PROCESS[proc] = 2
                      /\ proc = PROCESS_QUEUE[idx] /\ Current = proc
  BY <1>1, SimpleSlots DEF RefInv, KernelInv, Control, Running, Current
<1>3. i = NUMBER_OF_PROCS /\ idx \in 0..(i - 1) /\ i \in 1..NSimple
  BY SimpleSlots DEF RefInv, KernelInv, Types, Control, Queue, Looping, Slice, Entering, Leaving
<1> QED
  BY <1>1, <1>2, <1>3, SimpleSlots DEF RefInv, KernelInv, Types, Control, Queue, Running

\* Kernel steps between two program steps that change no table and keep every
\* machine where the mapping finds it.
LEMMA RefinesSwitch ==
  ASSUME RefInv, RefInv', pc \in Looping, pc' \in Looping,
         \/ SaveKernel \/ SwitchFirst \/ SwitchAgain \/ RestoreProgram
         \/ SaveProgram \/ RestoreKernel
  PROVE  UNCHANGED MP!vars
<1>0. /\ STATE_PROCESS \in [Slots -> {0, 1, 2, 4}] /\ FIRST_EXECUTION_PROC \in [Slots -> {0, 1}]
      /\ area \in [Bases -> SaveArea] /\ reg \in RegisterFile
      /\ first_execution \in {0, 1} /\ pc \notin NonPreemptive
  BY LoopFacts
<1> USE <1>0, SimpleSlots
    DEF Slice, Entering, Leaving, Looping, NonPreemptive
<1>1. /\ pc \in Slice /\ pc' \in Slice
      /\ pc \in Entering <=> pc' \in Entering
      /\ pc \in Leaving <=> pc' \in Leaving
      /\ pc \notin {"user", "choice", "sched"} /\ pc' \notin {"user", "choice", "sched"}
      /\ UNCHANGED <<STATE_PROCESS, PROCESS_QUEUE, PROC_PC_SALVO, NUMBER_OF_PROCS, i, idx,
                     proc, first_execution, upc, itype>>
  BY DEF SaveKernel, SwitchFirst, SwitchAgain, RestoreProgram, SaveProgram, RestoreKernel,
         tables
<1>2. ASSUME NEW p \in Programs
      PROVE  \/ FIRST_EXECUTION_PROC'[p] = FIRST_EXECUTION_PROC[p]
             \/ p = proc /\ first_execution = 1 /\ pc \in Entering
  <2>1. CASE SaveKernel
    <3>1. pc \in Entering
      BY <2>1 DEF SaveKernel
    <3>2. CASE first_execution = 1
      <4>1. FIRST_EXECUTION_PROC' = [FIRST_EXECUTION_PROC EXCEPT ![proc] = 0]
        BY <2>1, <3>2 DEF SaveKernel
      <4> QED BY <3>1, <3>2, <4>1
    <3>3. CASE first_execution # 1
      BY <2>1, <3>3 DEF SaveKernel
    <3> QED BY <3>2, <3>3
  <2>2. CASE SwitchFirst \/ SwitchAgain \/ RestoreProgram \/ SaveProgram \/ RestoreKernel
    <3>1. UNCHANGED tables
      BY <2>2 DEF SwitchFirst, SwitchAgain, RestoreProgram, SaveProgram, RestoreKernel
    <3> QED BY <3>1 DEF tables
  <2> QED BY <2>1, <2>2
<1>3. \A p \in Programs : Phase(p)' = Phase(p)
  BY <1>1, <1>2, PhaseTables, PhaseTablesNext DEF HaltedNow
<1>4. Executing' = Executing /\ ToCome' = ToCome
  BY <1>1 DEF Executing, ToCome
<1>5. Due' = Due
  BY <1>1, <1>3, <1>4, DueKept
<1>6. Current = proc /\ Current' = proc
  BY <1>1 DEF Current
<1>7. ASSUME NEW p \in Programs PROVE VirtualMachine(p)' = VirtualMachine(p)
  <2>1. CASE SwitchFirst \/ SwitchAgain \/ RestoreProgram \/ RestoreKernel
    <3>1. area' = area /\ pc \notin {"return", "user"} /\ pc' \notin {"return", "user"}
          /\ (pc \in {"reenter", "classify"} <=> pc' \in {"reenter", "classify"})
      BY <2>1 DEF SwitchFirst, SwitchAgain, RestoreProgram, RestoreKernel
    <3> QED BY <1>1, <1>3, <3>1 DEF VirtualMachine
  <2>2. CASE SaveKernel
    <3>1. reg' \in RegisterFile /\ reg'.s0 = 0
      BY <2>2, KernelBasesTyped, KernelBasesEffect DEF SaveKernel
    <3>2. data_memory_procs[p] \in Bases /\ data_memory_procs[p] # 0
      BY ProgramBase
    <3>4. area' = SaveContext(reg')
      BY <2>2 DEF SaveKernel
    <3>5. area'[data_memory_procs[p]] = area[data_memory_procs[p]]
      BY <3>1, <3>2, <3>4, SaveEffect
    <3>3. pc = "enter" /\ pc' = "switch"
      BY <2>2 DEF SaveKernel
    <3> QED BY <1>1, <1>3, <3>3, <3>5 DEF VirtualMachine
  <2>3. CASE SaveProgram
    <3>1. pc = "return" /\ pc' = "reenter"
      BY <1>1, <2>3 DEF SaveProgram
    <3>2. reg.s0 = data_memory_procs[proc] /\ reg.s1 = instruction_memory_procs[proc]
      BY <1>6, <3>1 DEF RefInv, KernelInv, Context, KernelAddressing, ProgramBases
    <3>3. area'[data_memory_procs[p]] =
            IF p = proc THEN [t |-> reg.t, s0 |-> reg.s0, s1 |-> reg.s1, hi |-> reg.hi]
            ELSE area[data_memory_procs[p]]
      <4>1. proc \in Programs
        BY <1>1, LoopFacts
      <4>2. data_memory_procs[p] \in Bases
            /\ (data_memory_procs[p] = data_memory_procs[proc] => p = proc)
        BY <4>1, ProgramBase
      <4>3. area' = SaveContext(reg)
        BY <2>3 DEF SaveProgram
      <4> QED BY <3>2, <4>2, <4>3, SaveEffect
    <3>4. CASE p = proc
      BY <1>1, <1>3, <1>6, <3>1, <3>3, <3>4 DEF VirtualMachine
    <3>5. CASE p # proc
      BY <1>1, <1>3, <1>6, <3>1, <3>3, <3>5 DEF VirtualMachine
    <3> QED BY <3>4, <3>5
  <2> QED BY <2>1, <2>2, <2>3
<1> QED BY <1>3, <1>4, <1>5, <1>7, Unnoticed

\* Steps that move the loop on without touching a machine.
LEMMA RefinesClassify ==
  ASSUME RefInv, TimerTaken \/ HaltTaken
  PROVE  UNCHANGED MP!vars
<1> USE DEF Slice, Entering, Leaving, Looping, NonPreemptive
<1>1. pc = "classify" /\ pc' = "advance" /\ pc \in Looping
  BY DEF TimerTaken, HaltTaken
<1>2. /\ STATE_PROCESS \in [Slots -> {0, 1, 2, 4}] /\ proc \in Programs /\ proc \in Slots
      /\ STATE_PROCESS[proc] = 2 /\ Current = proc
      /\ PROC_PC_SALVO \in [Slots -> {0} \cup Addresses]
  BY <1>1, LoopFacts
<1>3. UNCHANGED <<PROCESS_QUEUE, FIRST_EXECUTION_PROC, NUMBER_OF_PROCS, idx, proc,
                  first_execution, reg, area, upc, itype>>
  BY DEF TimerTaken, HaltTaken, machine
<1>4. /\ STATE_PROCESS' = [STATE_PROCESS EXCEPT ![proc] = IF itype = 1 THEN 1 ELSE 4]
      /\ itype \in {1, 2}
      /\ PROC_PC_SALVO' = IF itype = 1 THEN [PROC_PC_SALVO EXCEPT ![proc] = upc]
                          ELSE PROC_PC_SALVO
  BY DEF TimerTaken, HaltTaken
<1>5. ASSUME NEW p \in Programs
      PROVE  Phase(p)' = Phase(p) /\ (itype = 2 /\ p = proc => Phase(p) = "halted")
  <2>1. STATE_PROCESS'[p] = IF p = proc THEN (IF itype = 1 THEN 1 ELSE 4) ELSE STATE_PROCESS[p]
    BY <1>2, <1>4, SimpleSlots
  <2> QED BY <1>1, <1>2, <1>3, <1>4, <2>1, PhaseTables, PhaseTablesNext DEF HaltedNow
<1>6. ASSUME NEW p \in Programs PROVE VirtualMachine(p)' = VirtualMachine(p)
  <2>1. p # proc => PROC_PC_SALVO'[p] = PROC_PC_SALVO[p]
    BY <1>4
  <2>2. itype = 1 => PROC_PC_SALVO'[proc] = upc
    BY <1>2, <1>4
  <2> QED BY <1>1, <1>3, <1>4, <1>5, <2>1, <2>2 DEF VirtualMachine
<1>7. ToCome' = ToCome /\ Executing' = Executing
  BY <1>1, <1>3 DEF ToCome, Executing
<1> QED BY <1>1, <1>3, <1>5, <1>6, <1>7, DueKept, Unnoticed

\* The loop looks at a finished program, or picks one.
LEMMA RefinesPick ==
  ASSUME RefInv, SkipFinished \/ PickProcess
  PROVE  UNCHANGED MP!vars
<1> USE DEF Slice, Entering, Leaving, Looping, NonPreemptive
<1>1. /\ pc = "sched" /\ pc \in Looping /\ pc' \in {"advance", "enter"}
      /\ proc' = PROCESS_QUEUE[idx]
      /\ UNCHANGED <<PROCESS_QUEUE, FIRST_EXECUTION_PROC, NUMBER_OF_PROCS, idx,
                     PROC_PC_SALVO, reg, area, upc, itype, i>>
  BY DEF SkipFinished, PickProcess, machine, tables
<1>2. /\ STATE_PROCESS \in [Slots -> {0, 1, 2, 4}]
      /\ FIRST_EXECUTION_PROC \in [Slots -> {0, 1}]
      /\ i = NUMBER_OF_PROCS /\ idx \in 0..(i - 1) /\ i \in 1..NSimple
      /\ \A j, k \in 0..(i - 1) : j # k => PROCESS_QUEUE[j] # PROCESS_QUEUE[k]
      /\ proc' \in Simple /\ proc' \in Slots
  BY <1>1, LoopFacts, SimpleSlots
<1>3. STATE_PROCESS[proc'] # 0 /\ STATE_PROCESS[proc'] # 2
  BY <1>1, <1>2 DEF RefInv, KernelInv, Control, Queue, Running
<1>4. ASSUME NEW p \in Programs PROVE Phase(p)' = Phase(p)
  <2>1. CASE SkipFinished
    BY <1>1, <2>1, PhaseTables, PhaseTablesNext DEF SkipFinished, HaltedNow, tables
  <2>2. CASE PickProcess
    <3>1. STATE_PROCESS'[p] = IF p = proc' THEN 2 ELSE STATE_PROCESS[p]
      BY <1>2, <2>2, SimpleSlots DEF PickProcess
    <3>2. STATE_PROCESS[proc'] = 1 /\ pc' = "enter"
          /\ first_execution' = FIRST_EXECUTION_PROC[proc']
      BY <1>2, <1>3, <2>2 DEF PickProcess
    <3> QED BY <1>1, <3>1, <3>2, PhaseTables, PhaseTablesNext DEF HaltedNow
  <2> QED BY <2>1, <2>2
<1>5. ASSUME NEW p \in Programs PROVE VirtualMachine(p)' = VirtualMachine(p)
  BY <1>1, <1>4 DEF VirtualMachine
<1>6. Executing' = Executing
  BY <1>1 DEF Executing
<1>7. Due' = Due
  <2>1. CASE PickProcess
    <3>1. ToCome' = ToCome
      BY <1>1, <2>1 DEF PickProcess, ToCome
    <3> QED BY <1>1, <1>4, <3>1, DueKept
  <2>2. CASE SkipFinished
    <3>1. ToCome = idx..(i - 1) /\ ToCome' = (idx + 1)..(i - 1)
      BY <1>1, <1>2, <2>2 DEF SkipFinished, ToCome
    <3>2. Phase(proc') = "halted"
      BY <1>1, <1>2, <2>2, PhaseTables, SimpleSlots DEF SkipFinished
    <3>3. \A j \in ToCome : j \in ToCome' \/ PROCESS_QUEUE[j] = proc'
      BY <1>1, <1>2, <3>1
    <3>4. \A j \in ToCome' : j \in ToCome
      BY <1>1, <1>2, <3>1
    <3> QED BY <1>1, <1>4, <3>2, <3>3, <3>4 DEF Due
  <2> QED BY <2>1, <2>2
<1> QED BY <1>4, <1>5, <1>6, <1>7, Unnoticed

\* Each program's machine is where Multiprog lets it be.
LEMMA PlacesMapped ==
  ASSUME NEW p \in Programs, NEW m,
         m = [t |-> reg.t, hi |-> reg.hi, dm |-> data_memory_procs[p],
              im |-> instruction_memory_procs[p], at |-> upc]',
         reg' \in RegisterFile, upc' \in PlacesOf(p)
  PROVE  m \in MP!Machines(p)
<1>1. reg'.t \in Words /\ reg'.hi \in Words
  BY DEF RegisterFile
<1> QED BY <1>1 DEF MP!Machines, PlacesOf

\* os_jump_to in preemptive mode: a slice starts or goes on.
LEMMA RefinesJump ==
  ASSUME RefInv, RefInv', JumpTo, pc = "jump", NEW q \in Programs, q = proc
  PROVE  MP!Start(q) \/ MP!Resume(q)
<1> USE DEF Slice, Entering, Leaving, Looping, NonPreemptive
<1>1. /\ pc \in Looping /\ pc' = "user" /\ upc' = reg.k0
      /\ UNCHANGED <<STATE_PROCESS, PROCESS_QUEUE, PROC_PC_SALVO, FIRST_EXECUTION_PROC,
                     NUMBER_OF_PROCS, i, idx, proc, first_execution, reg, area, itype>>
  BY DEF JumpTo, tables
<1>0. q = proc /\ q = proc'
  BY <1>1
<1> USE <1>0
<1>2. /\ i = NUMBER_OF_PROCS /\ idx \in 0..(i - 1) /\ i \in 1..NSimple
      /\ \A j, k \in 0..(i - 1) : j # k => PROCESS_QUEUE[j] # PROCESS_QUEUE[k]
      /\ q \in Programs /\ q \in Slots /\ q \in Simple
      /\ q = PROCESS_QUEUE[idx] /\ STATE_PROCESS[q] = 2
      /\ FIRST_EXECUTION_PROC[q] = 0 /\ first_execution \in {0, 1} /\ reg \in RegisterFile
  BY <1>1, LoopFacts
<1>3. reg.s0 = data_memory_procs[q] /\ reg.s1 = instruction_memory_procs[q]
  BY <1>2 DEF RefInv, KernelInv, Context, KernelAddressing, ProgramBases, Current
<1>4. Executing = 0 /\ Executing' = q
  BY <1>1 DEF Executing
<1>5. /\ \A p \in Programs : p # q => Phase(p)' = Phase(p)
      /\ Phase(q)' = "alive"
      /\ Phase(q) = IF first_execution = 1 THEN "fresh" ELSE "alive"
  BY <1>1, <1>2, PhaseTables, PhaseTablesNext DEF HaltedNow
<1>6. ASSUME NEW p \in Programs, p # q PROVE VirtualMachine(p)' = VirtualMachine(p)
  BY <1>1, <1>5, <1>6 DEF VirtualMachine, Current
<1>7. VirtualMachine(q)' = [t |-> reg.t, hi |-> reg.hi, dm |-> data_memory_procs[q],
                               im |-> instruction_memory_procs[q], at |-> upc]'
  BY <1>1, <1>3, <1>5 DEF VirtualMachine, Current
<1>8. Due' = Due \ {q} /\ q \in Due
  <2>1. ToCome = idx..(i - 1) /\ ToCome' = (idx + 1)..(i - 1)
    BY <1>1, <1>2 DEF ToCome
  <2>2. \A j \in ToCome : j = idx \/ (j \in ToCome' /\ PROCESS_QUEUE[j] # q)
    BY <1>2, <2>1
  <2>3. \A j \in ToCome' : j \in ToCome /\ PROCESS_QUEUE[j] # q
    BY <1>2, <2>1
  <2>4. idx \in ToCome
    BY <1>2, <2>1
  <2> QED BY <1>1, <1>2, <1>5, <2>2, <2>3, <2>4 DEF Due
<1>9. CASE first_execution = 1
  <2>1. upc' = instruction_memory_procs[q]
    BY <1>1, <1>9 DEF RefInv, KernelInv, Context, LoadedRegisters
  <2>2. VirtualMachine(q)' \in MP!Machines(q)
    <3>1. upc' \in PlacesOf(q)
      BY <1>2, <2>1, EntryAtHome
    <3> QED BY <1>1, <1>2, <1>7, <3>1, PlacesMapped
  <2>3. VirtualMachine(q)'.at = instruction_memory_procs[q]
    BY <1>7, <2>1
  <2> DEFINE m == VirtualMachine(q)'
  <2>4. [p \in Programs |-> VirtualMachine(p)]' =
          [[p \in Programs |-> VirtualMachine(p)] EXCEPT ![q] = m]
    BY <1>2, <1>6
  <2>5. [p \in Programs |-> Phase(p)]' = [[p \in Programs |-> Phase(p)] EXCEPT ![q] = "alive"]
    BY <1>2, <1>5
  <2>6. [p \in Programs |-> Phase(p)][q] = "fresh"
    BY <1>2, <1>5, <1>9
  <2> HIDE DEF m
  <2>7. m \in MP!Machines(q) /\ m.at = instruction_memory_procs[q]
    BY <2>2, <2>3 DEF m
  <2> QED BY <1>4, <1>8, <2>4, <2>5, <2>6, <2>7 DEF MP!Start
<1>10. CASE first_execution = 0
  <2>1. /\ upc' = PROC_PC_SALVO[q]
        /\ reg.t = area[data_memory_procs[q]].t
        /\ reg.hi = area[data_memory_procs[q]].hi
    BY <1>1, <1>10 DEF RefInv, KernelInv, Context, LoadedRegisters
  <2>2. /\ area[data_memory_procs[q]].s0 = data_memory_procs[q]
        /\ area[data_memory_procs[q]].s1 = instruction_memory_procs[q]
    BY <1>2, <1>10 DEF RefInv, KernelInv, Context, OwnContext
  <2>3. Phase(q) = "alive" /\ pc = "jump"
    BY <1>5, <1>10
  <2>4. VirtualMachine(q) =
          [t |-> area[data_memory_procs[q]].t, hi |-> area[data_memory_procs[q]].hi,
           dm |-> area[data_memory_procs[q]].s0, im |-> area[data_memory_procs[q]].s1,
           at |-> PROC_PC_SALVO[q]]
    BY <2>3 DEF VirtualMachine
  <2>5. VirtualMachine(q)' = VirtualMachine(q)
    BY <1>1, <1>7, <2>1, <2>2, <2>4
  <2>6. \A p \in Programs : Phase(p)' = Phase(p) /\ VirtualMachine(p)' = VirtualMachine(p)
    BY <1>5, <1>6, <2>3, <2>5
  <2> QED BY <1>2, <1>4, <1>8, <2>3, <2>6 DEF MP!Resume
<1> QED BY <1>2, <1>9, <1>10

\* The program executing changes its own machine; the timer suspends it, HALT ends it.
LEMMA RefinesUser ==
  ASSUME RefInv, RefInv', pc = "user", UserStep \/ TimerInterrupt \/ Halt,
         NEW q \in Programs, q = proc
  PROVE  MP!Step(q) \/ MP!Suspend(q) \/ MP!Finish(q)
<1> USE DEF Slice, Entering, Leaving, Looping, NonPreemptive
<1>1. /\ pc \in Looping
      /\ UNCHANGED <<STATE_PROCESS, PROCESS_QUEUE, PROC_PC_SALVO, FIRST_EXECUTION_PROC,
                     NUMBER_OF_PROCS, i, idx, proc, first_execution, area>>
  BY DEF UserStep, TimerInterrupt, Halt, tables
<1>0. q = proc /\ q = proc'
  BY <1>1
<1> USE <1>0
<1>2. /\ q \in Programs /\ q \in Slots /\ STATE_PROCESS[q] = 2
      /\ FIRST_EXECUTION_PROC[q] = 0 /\ reg \in RegisterFile
  BY <1>1, LoopFacts
<1>3. Executing = q
  BY DEF Executing
<1>4. ASSUME NEW p \in Programs, p # q
      PROVE  Phase(p)' = Phase(p) /\ VirtualMachine(p)' = VirtualMachine(p)
  <2>1. pc' \in {"user", "return"}
    BY DEF UserStep, TimerInterrupt, Halt
  <2>2. Phase(p)' = Phase(p)
    BY <1>1, <1>4, <2>1, PhaseTables, PhaseTablesNext DEF HaltedNow
  <2> QED BY <1>1, <1>4, <2>1, <2>2 DEF VirtualMachine, Current
<1>5. Phase(q) = "alive"
  BY <1>2, PhaseTables DEF HaltedNow
<1>6. ToCome' = ToCome
  BY <1>1 DEF ToCome, UserStep, TimerInterrupt, Halt
<1>7. pc # "npm_jump" /\ pc' # "npm_jump"
  BY DEF UserStep, TimerInterrupt, Halt
<1>8. CASE UserStep
  <2>0. pc' = "user" /\ UNCHANGED itype
    BY <1>8 DEF UserStep
  <2>1. pc' = "user" /\ Phase(q)' = "alive"
    BY <1>1, <1>2, <2>0, PhaseTablesNext DEF HaltedNow
  <2>2. reg' \in RegisterFile /\ upc' \in PlacesOf(q)
        /\ reg'.s0 = data_memory_procs[q] /\ reg'.s1 = instruction_memory_procs[q]
    BY <1>1, <2>1
       DEF RefInv, KernelInv, Types, AtHome, Context, KernelAddressing, ProgramBases, Current,
           PlacesOf
  <2>3. VirtualMachine(q)' = [t |-> reg.t, hi |-> reg.hi, dm |-> data_memory_procs[q],
                                 im |-> instruction_memory_procs[q], at |-> upc]'
    BY <1>1, <2>1, <2>2 DEF VirtualMachine, Current
  <2>4. VirtualMachine(q)' \in MP!Machines(q)
    BY <2>2, <2>3, PlacesMapped
  <2>5. \A p \in Programs : Phase(p)' = Phase(p)
    BY <1>4, <1>5, <2>1
  <2>6. Due' = Due
    BY <1>1, <1>6, <1>7, <2>5, DueKept
  <2>7. Executing' = q
    BY <1>1, <2>1 DEF Executing
  <2> DEFINE m == VirtualMachine(q)'
  <2>8. [p \in Programs |-> VirtualMachine(p)]' =
          [[p \in Programs |-> VirtualMachine(p)] EXCEPT ![q] = m]
    BY <1>2, <1>4
  <2> HIDE DEF m
  <2>9. m \in MP!Machines(q)
    BY <2>4 DEF m
  <2>10. UNCHANGED <<[p \in Programs |-> Phase(p)], Executing, Due>>
    BY <1>3, <2>5, <2>6, <2>7
  <2> QED BY <1>3, <2>8, <2>9, <2>10 DEF MP!Step
<1>9. CASE TimerInterrupt
  <2>1. pc' = "return" /\ itype' = 1 /\ UNCHANGED <<reg, upc>>
    BY <1>9 DEF TimerInterrupt
  <2>2. Phase(q)' = "alive"
    BY <1>1, <1>2, <2>1, PhaseTablesNext DEF HaltedNow
  <2>3. VirtualMachine(q)' = VirtualMachine(q)
    BY <1>1, <1>5, <2>1, <2>2 DEF VirtualMachine, Current
  <2>4. \A p \in Programs : Phase(p)' = Phase(p) /\ VirtualMachine(p)' = VirtualMachine(p)
    BY <1>4, <1>5, <2>2, <2>3
  <2>5. Due' = Due
    BY <1>1, <1>6, <1>7, <2>4, DueKept
  <2>6. Executing' = 0
    BY <2>1 DEF Executing
  <2> QED BY <1>3, <2>4, <2>5, <2>6 DEF MP!Suspend
<1>10. CASE Halt
  <2>1. pc' = "return" /\ itype' = 2
    BY <1>10 DEF Halt
  <2>2. Phase(q)' = "halted"
    BY <1>1, <1>2, <2>1, PhaseTablesNext DEF HaltedNow
  <2>3. VirtualMachine(q)' = Blank
    BY <1>1, <2>2 DEF VirtualMachine
  <2>4. Executing' = 0
    BY <2>1 DEF Executing
  <2>5. Due' = Due
    <3>1. q \notin Due
      <4>1. ToCome = (idx + 1)..(i - 1)
        BY <1>1, LoopFacts DEF ToCome
      <4>2. \A j \in ToCome : PROCESS_QUEUE[j] # q
        BY <1>1, <4>1, LoopFacts
      <4> QED BY <1>7, <4>2 DEF Due
    <3>2. q \notin Due'
      BY <1>1, <1>7, <2>2 DEF Due
    <3>3. \A p \in Programs : p # q => (p \in Due' <=> p \in Due)
      BY <1>1, <1>4, <1>6, <1>7 DEF Due
    <3> QED BY <1>1, <3>1, <3>2, <3>3 DEF Due
  <2>6. [p \in Programs |-> Phase(p)]' = [[p \in Programs |-> Phase(p)] EXCEPT ![q] = "halted"]
    BY <1>2, <1>4, <2>2
  <2>7. [p \in Programs |-> VirtualMachine(p)]' =
          [[p \in Programs |-> VirtualMachine(p)] EXCEPT ![q] = Blank]
    BY <1>2, <1>4, <2>3
  <2> QED BY <1>3, <2>4, <2>5, <2>6, <2>7 DEF MP!Finish
<1> QED BY <1>8, <1>9, <1>10

\* The loop goes on to the next queue entry; past the last one a round begins.
LEMMA RefinesAdvance ==
  ASSUME RefInv, Advance
  PROVE  MP!NewRound \/ UNCHANGED MP!vars
<1> USE DEF Slice, Entering, Leaving, Looping, NonPreemptive
<1>1. /\ pc = "advance" /\ pc' = "sched" /\ pc \in Looping
      /\ idx' = IF idx + 1 >= NUMBER_OF_PROCS THEN 0 ELSE idx + 1
      /\ UNCHANGED <<STATE_PROCESS, PROCESS_QUEUE, PROC_PC_SALVO, FIRST_EXECUTION_PROC,
                     NUMBER_OF_PROCS, i, proc, first_execution, reg, area, upc, itype>>
  BY DEF Advance, tables, machine
<1>2. /\ i = NUMBER_OF_PROCS /\ idx \in 0..(i - 1) /\ i \in 1..NSimple
      /\ \A p \in Slots : STATE_PROCESS[p] # 0 => \E j \in 0..(i - 1) : PROCESS_QUEUE[j] = p
  BY <1>1, LoopFacts
<1>3. ASSUME NEW p \in Programs PROVE Phase(p)' = Phase(p)
  BY <1>1, PhaseTables, PhaseTablesNext DEF HaltedNow
<1>4. ASSUME NEW p \in Programs PROVE VirtualMachine(p)' = VirtualMachine(p)
  BY <1>1, <1>3 DEF VirtualMachine
<1>5. Executing = 0 /\ Executing' = 0
  BY <1>1 DEF Executing
<1>6. ToCome = (idx + 1)..(i - 1) /\ ToCome' = idx'..(i - 1)
  BY <1>1, <1>2 DEF ToCome
<1>7. CASE idx + 1 < i
  <2>1. ToCome' = ToCome
    BY <1>1, <1>2, <1>6, <1>7, SimpleSlots
  <2> QED BY <1>1, <1>3, <1>4, <1>5, <2>1, DueKept, Unnoticed
<1>8. CASE idx + 1 >= i
  <2>1. ToCome = {} /\ ToCome' = 0..(i - 1)
    BY <1>1, <1>2, <1>6, <1>8, SimpleSlots
  <2>2. Due = {}
    BY <1>1, <2>1 DEF Due
  <2>3. Due' = {p \in Programs : Phase(p) \in {"fresh", "alive"}}
    <3>1. \A p \in Programs : Phase(p) \in {"fresh", "alive"} => STATE_PROCESS[p] # 0
      BY <1>1, PhaseTables
    <3>2. \A p \in Programs : Phase(p) \in {"fresh", "alive"} =>
            \E j \in 0..(i - 1) : PROCESS_QUEUE[j] = p
      BY <1>2, <3>1, SimpleSlots
    <3> QED BY <1>1, <1>3, <2>1, <3>2 DEF Due
  <2>4. MP!Unfinished = {p \in Programs : Phase(p) \in {"fresh", "alive"}}
    BY DEF MP!Unfinished
  <2> QED BY <1>3, <1>4, <1>5, <2>2, <2>3, <2>4 DEF MP!NewRound
<1> QED BY <1>2, <1>7, <1>8, SimpleSlots

\* The choice of programs is over, and the first round begins.
LEMMA RefinesChoiceDone ==
  ASSUME RefInv, ChoiceDone
  PROVE  UNCHANGED MP!vars
<1> USE DEF Slice, Entering, Leaving, Looping, NonPreemptive
<1>1. /\ pc = "choice" /\ pc' = "sched" /\ idx' = 0 /\ i >= NUMBER_OF_PROCS
      /\ UNCHANGED <<STATE_PROCESS, PROCESS_QUEUE, PROC_PC_SALVO, FIRST_EXECUTION_PROC,
                     NUMBER_OF_PROCS, i, proc, first_execution, reg, area, upc, itype>>
  BY DEF ChoiceDone, tables, machine
<1>2. i = NUMBER_OF_PROCS
  BY <1>1, SimpleSlots DEF RefInv, KernelInv, Types, Control, Queue
<1>3. ASSUME NEW p \in Programs PROVE Phase(p)' = Phase(p)
  BY <1>1, PhaseTables, PhaseTablesNext DEF HaltedNow
<1>4. ASSUME NEW p \in Programs PROVE VirtualMachine(p)' = VirtualMachine(p)
  BY <1>1, <1>3 DEF VirtualMachine
<1>5. ToCome' = ToCome /\ Executing' = Executing
  BY <1>1, <1>2 DEF ToCome, Executing
<1> QED BY <1>1, <1>3, <1>4, <1>5, DueKept, Unnoticed

\* Preemptive mode is left only when the count says that nothing is unfinished.
LEMMA RefinesAllFinished ==
  ASSUME RefInv, RefInv', AllFinished
  PROVE  MP!Clear
<1> USE DEF Slice, Entering, Leaving, Looping, NonPreemptive
<1>1. pc = "sched" /\ pc' = "shell" /\ ACTIVE_PROCESSES <= 0 /\ pc \in Looping
  BY DEF AllFinished
<1>2. {p \in Slots : STATE_PROCESS[p] \in {1, 2}} = {}
  <2> DEFINE S == {p \in Slots : STATE_PROCESS[p] \in {1, 2}}
  <2>1. IsFiniteSet(S) /\ Cardinality(S) \in Nat
    BY SlotsFinite
  <2>2. Cardinality(S) = 0
    BY <1>1, <2>1 DEF RefInv, KernelInv, ActiveCount
  <2> QED BY <2>1, <2>2, FS_EmptySet
<1>3. STATE_PROCESS \in [Slots -> {0, 1, 2, 4}]
  BY <1>1, LoopFacts
<1>4. \A p \in Programs : Phase(p) \in {"absent", "halted"}
  BY <1>1, <1>2, <1>3, PhaseTables, SimpleSlots
<1>5. \A p \in Programs : Phase(p)' = "absent"
  <2>1. \A p \in Programs : STATE_PROCESS'[p] = 0
    BY SimpleSlots DEF AllFinished, reset_process_flags
  <2> QED BY <1>1, <2>1, PhaseTablesNext
<1>6. \A p \in Programs : VirtualMachine(p)' = VirtualMachine(p)
  BY <1>4, <1>5 DEF VirtualMachine
<1>7. Executing = 0 /\ Executing' = 0
  BY <1>1 DEF Executing
<1>8. Due = {} /\ Due' = {}
  BY <1>1, <1>4, <1>5 DEF Due
<1>9. MP!Unfinished = {}
  BY <1>4 DEF MP!Unfinished
<1> QED BY <1>5, <1>6, <1>7, <1>8, <1>9 DEF MP!Clear

-----------------------------------------------------------------------------
(* Non-preemptive mode. *)

\* The program chosen is loaded as the kernel saves itself.
LEMMA RefinesEnterAlone ==
  ASSUME RefInv, RefInv', EnterNonPreemptive, NEW q \in Programs, q = CURRENT_PROCESS
  PROVE  MP!Load(q)
<1>1. pc = "npm" /\ pc' = "npm_jump" /\ q = CURRENT_PROCESS'
  BY DEF EnterNonPreemptive
<1>2. pc \notin NonPreemptive /\ pc' \in NonPreemptive
  BY <1>1 DEF NonPreemptive
<1>3. \A p \in Programs : Phase(p) = "absent"
  BY <1>1, <1>2, PhaseTables, SimpleSlots DEF RefInv, KernelInv, Control, IdleTables, Idle
<1>4. \A p \in Programs : Phase(p)' = IF p = q THEN "fresh" ELSE "absent"
  BY <1>1, <1>2, PhaseAloneNext
<1>5. \A p \in Programs : VirtualMachine(p)' = VirtualMachine(p)
  BY <1>3, <1>4 DEF VirtualMachine
<1>6. Executing = 0 /\ Executing' = 0
  BY <1>1 DEF Executing
<1>7. Due = {} /\ Due' = Due \cup {q}
  <2>1. Due = {}
    BY <1>3 DEF Due
  <2>2. ToCome' = {}
    BY <1>1 DEF ToCome, Entering, Leaving
  <2> QED BY <1>1, <1>4, <2>1, <2>2 DEF Due
<1>8. [p \in Programs |-> Phase(p)]' = [[p \in Programs |-> Phase(p)] EXCEPT ![q] = "fresh"]
  BY <1>3, <1>4
<1> QED BY <1>3, <1>5, <1>6, <1>7, <1>8 DEF MP!Load

\* It starts, runs and halts with nobody else about.
LEMMA RefinesJumpAlone ==
  ASSUME RefInv, RefInv', JumpTo, pc = "npm_jump", NEW q \in Programs, q = CURRENT_PROCESS
  PROVE  MP!Start(q)
<1>1. pc' = "npm_user" /\ upc' = reg.k0 /\ UNCHANGED <<CURRENT_PROCESS, reg>>
  BY DEF JumpTo
<1>2. pc \in NonPreemptive /\ pc' \in NonPreemptive
  BY <1>1 DEF NonPreemptive
<1>3. \A p \in Programs : Phase(p) = IF p = q THEN "fresh" ELSE "absent"
  BY <1>2, PhaseAlone
<1>4. \A p \in Programs : Phase(p)' = IF p = q THEN "alive" ELSE "absent"
  BY <1>1, <1>2, PhaseAloneNext
<1>5. upc' = instruction_memory_procs[q]
  BY <1>1 DEF RefInv, KernelInv, Context, LoadedRegisters
<1>6. /\ reg \in RegisterFile
      /\ reg.s0 = data_memory_procs[q] /\ reg.s1 = instruction_memory_procs[q]
  BY <1>2 DEF RefInv, KernelInv, Types, Context, KernelAddressing, ProgramBases, Current
<1>7. VirtualMachine(q)' = [t |-> reg.t, hi |-> reg.hi, dm |-> data_memory_procs[q],
                            im |-> instruction_memory_procs[q], at |-> upc]'
  BY <1>1, <1>2, <1>4, <1>6 DEF VirtualMachine, Current
<1>8. VirtualMachine(q)' \in MP!Machines(q) /\ VirtualMachine(q)'.at = instruction_memory_procs[q]
  <2>1. upc' \in PlacesOf(q)
    BY <1>5, EntryAtHome, SimpleSlots
  <2> QED BY <1>1, <1>5, <1>6, <1>7, <2>1, PlacesMapped
<1>9. Executing = 0 /\ Executing' = q
  BY <1>1 DEF Executing
<1>10. Due = {q} /\ Due' = {}
  <2>1. ToCome = {} /\ ToCome' = {}
    BY <1>1 DEF ToCome, Entering, Leaving
  <2> QED BY <1>1, <1>3, <1>4, <2>1 DEF Due
<1>11. \A p \in Programs : p # q => VirtualMachine(p)' = VirtualMachine(p)
  BY <1>3, <1>4 DEF VirtualMachine
<1> DEFINE m == VirtualMachine(q)'
<1>12. [p \in Programs |-> VirtualMachine(p)]' =
         [[p \in Programs |-> VirtualMachine(p)] EXCEPT ![q] = m]
  BY <1>11
<1>13. [p \in Programs |-> Phase(p)]' = [[p \in Programs |-> Phase(p)] EXCEPT ![q] = "alive"]
  BY <1>3, <1>4
<1> HIDE DEF m
<1>14. m \in MP!Machines(q) /\ m.at = instruction_memory_procs[q]
  BY <1>8 DEF m
<1> QED BY <1>3, <1>9, <1>10, <1>12, <1>13, <1>14 DEF MP!Start

LEMMA RefinesUserAlone ==
  ASSUME RefInv, RefInv', pc = "npm_user", UserStep \/ Halt,
         NEW q \in Programs, q = CURRENT_PROCESS
  PROVE  MP!Step(q) \/ MP!Finish(q)
<1>1. pc \in NonPreemptive /\ pc' \in NonPreemptive /\ UNCHANGED CURRENT_PROCESS
  BY DEF NonPreemptive, UserStep, Halt
<1>2. \A p \in Programs : Phase(p) = IF p = q THEN "alive" ELSE "absent"
  BY <1>1, PhaseAlone
<1>3. Executing = q
  BY DEF Executing
<1>4. Due = {} /\ Due' = {}
  <2>1. ToCome = {} /\ ToCome' = {} /\ pc' # "npm_jump"
    BY DEF ToCome, Entering, Leaving, UserStep, Halt
  <2> QED BY <2>1 DEF Due
<1>5. CASE UserStep
  <2>1. pc' = "npm_user"
    BY <1>5 DEF UserStep
  <2>2. \A p \in Programs : Phase(p)' = IF p = q THEN "alive" ELSE "absent"
    BY <1>1, <2>1, PhaseAloneNext
  <2>3. /\ reg' \in RegisterFile /\ upc' \in PlacesOf(q)
        /\ reg'.s0 = data_memory_procs[q] /\ reg'.s1 = instruction_memory_procs[q]
    BY <1>1, <2>1
       DEF RefInv, KernelInv, Types, AtHome, Context, KernelAddressing, ProgramBases, Current
  <2>4. VirtualMachine(q)' = [t |-> reg.t, hi |-> reg.hi, dm |-> data_memory_procs[q],
                              im |-> instruction_memory_procs[q], at |-> upc]'
    BY <1>1, <2>1, <2>2, <2>3 DEF VirtualMachine, Current
  <2>5. VirtualMachine(q)' \in MP!Machines(q)
    BY <2>3, <2>4, PlacesMapped
  <2>6. \A p \in Programs : p # q => VirtualMachine(p)' = VirtualMachine(p)
    BY <1>2, <2>2 DEF VirtualMachine
  <2> DEFINE m == VirtualMachine(q)'
  <2>7. [p \in Programs |-> VirtualMachine(p)]' =
          [[p \in Programs |-> VirtualMachine(p)] EXCEPT ![q] = m]
    BY <2>6
  <2> HIDE DEF m
  <2>8. m \in MP!Machines(q)
    BY <2>5 DEF m
  <2>9. UNCHANGED <<[p \in Programs |-> Phase(p)], Executing, Due>>
    BY <1>1, <1>2, <1>3, <1>4, <2>1, <2>2 DEF Executing
  <2> QED BY <1>3, <2>7, <2>8, <2>9 DEF MP!Step
<1>6. CASE Halt
  <2>1. pc' = "npm_return"
    BY <1>6 DEF Halt
  <2>2. \A p \in Programs : Phase(p)' = IF p = q THEN "halted" ELSE "absent"
    BY <1>1, <2>1, PhaseAloneNext
  <2>3. \A p \in Programs : VirtualMachine(p)' = IF p = q THEN Blank ELSE VirtualMachine(p)
    BY <1>2, <2>2 DEF VirtualMachine
  <2>4. Executing' = 0
    BY <2>1 DEF Executing
  <2>5. [p \in Programs |-> Phase(p)]' = [[p \in Programs |-> Phase(p)] EXCEPT ![q] = "halted"]
    BY <1>2, <2>2
  <2>6. [p \in Programs |-> VirtualMachine(p)]' =
          [[p \in Programs |-> VirtualMachine(p)] EXCEPT ![q] = Blank]
    BY <2>3
  <2> QED BY <1>3, <1>4, <2>4, <2>5, <2>6 DEF MP!Finish
<1> QED BY <1>5, <1>6

\* Saving it afterwards concerns nobody, and going back to the shell forgets it.
LEMMA RefinesSaveAlone ==
  ASSUME RefInv, RefInv', SaveProgram, pc = "npm_return"
  PROVE  UNCHANGED MP!vars
<1>1. pc' = "npm_reenter" /\ UNCHANGED CURRENT_PROCESS
  BY DEF SaveProgram
<1>2. pc \in NonPreemptive /\ pc' \in NonPreemptive
  BY <1>1 DEF NonPreemptive
<1>3. \A p \in Programs :
        /\ Phase(p)' = Phase(p)
        /\ Phase(p) # "alive"
  BY <1>1, <1>2, PhaseAlone, PhaseAloneNext
<1>4. \A p \in Programs : VirtualMachine(p)' = VirtualMachine(p)
  BY <1>3 DEF VirtualMachine
<1>5. Executing' = Executing /\ Due' = Due
  BY <1>1, <1>3 DEF Executing, Due, ToCome, Entering, Leaving
<1> QED BY <1>3, <1>4, <1>5, Unnoticed

LEMMA RefinesLeaveAlone ==
  ASSUME RefInv, RefInv', LeaveNonPreemptive
  PROVE  MP!Clear
<1>1. /\ pc = "npm_reenter" /\ pc' = "shell"
      /\ \A p \in Programs : STATE_PROCESS'[p] = 0
  BY SimpleSlots DEF LeaveNonPreemptive, reset_process_flags
<1>2. \A p \in Programs : Phase(p) \in {"absent", "halted"}
  BY <1>1, PhaseAlone DEF NonPreemptive
<1>3. \A p \in Programs : Phase(p)' = "absent"
  BY <1>1, PhaseTablesNext DEF NonPreemptive
<1>4. \A p \in Programs : VirtualMachine(p)' = VirtualMachine(p)
  BY <1>2, <1>3 DEF VirtualMachine
<1>5. Executing = 0 /\ Executing' = 0
  BY <1>1 DEF Executing
<1>6. Due = {} /\ Due' = {}
  BY <1>1, <1>2, <1>3 DEF Due
<1>7. MP!Unfinished = {}
  BY <1>2 DEF MP!Unfinished
<1> QED BY <1>3, <1>4, <1>5, <1>6, <1>7 DEF MP!Clear

-----------------------------------------------------------------------------
(* The theorem. *)

LEMMA StepRefines == RefInv /\ RefInv' /\ [Next]_vars => [MP!Next]_MP!vars
<1> SUFFICES ASSUME RefInv, RefInv', [Next]_vars PROVE MP!Next \/ UNCHANGED MP!vars
  OBVIOUS
<1> USE DEF MP!Next
<1>0. /\ pc \in Slice => proc \in Programs
      /\ pc \in {"npm"} \cup NonPreemptive => CURRENT_PROCESS \in Programs
  BY SimpleSlots DEF RefInv, KernelInv, Control, Running
<1>1. CASE \/ ShellMode \/ how_many_processes \/ ChooseTier \/ non_preemp_choice_simples
  <2>1. /\ pc \in Idle \ NonPreemptive
        /\ pc' \in (Idle \ NonPreemptive) \cup {"choice"}
        /\ UNCHANGED <<STATE_PROCESS, FIRST_EXECUTION_PROC, PROCESS_QUEUE>>
        /\ pc' = "choice" => i' = 0
    BY <1>1 DEF ShellMode, how_many_processes, ChooseTier, non_preemp_choice_simples, Idle,
                NonPreemptive, tables
  <2> QED BY <2>1, RefinesIdle
<1>2. ASSUME NEW choice \in Inputs, ChooseProgram(choice) PROVE MP!Next
  BY <1>2, RefinesChoose
<1>3. ASSUME UNCHANGED vars PROVE UNCHANGED MP!vars
  BY <1>3 DEF MP!vars, vars, tables, machine, Phase, VirtualMachine, Executing, Due, ToCome,
              AloneAt, HaltedNow, Current
<1>4. ASSUME NEW choice \in Inputs, RefuseRepeated(choice) PROVE UNCHANGED MP!vars
  <2>1. UNCHANGED vars
    BY <1>4 DEF RefuseRepeated
  <2> QED BY <1>3, <2>1
<1>5. CASE ChoiceDone
  BY <1>5, RefinesChoiceDone
<1>6. CASE AllFinished
  BY <1>6, RefinesAllFinished
<1>7. CASE SkipFinished \/ PickProcess
  BY <1>7, RefinesPick
<1>8. CASE SaveKernel \/ SwitchFirst \/ SwitchAgain \/ RestoreProgram \/ RestoreKernel
  <2>1. pc \in Looping /\ pc' \in Looping
    BY <1>8 DEF SaveKernel, SwitchFirst, SwitchAgain, RestoreProgram, RestoreKernel,
                Looping, Slice, Entering, Leaving
  <2> QED BY <1>8, <2>1, RefinesSwitch
<1>9. CASE SaveProgram
  <2>1. CASE pc = "return"
    <3>1. pc \in Looping /\ pc' \in Looping
      BY <1>9, <2>1 DEF SaveProgram, Looping, Slice, Leaving
    <3> QED BY <1>9, <3>1, RefinesSwitch
  <2>2. CASE pc = "npm_return"
    BY <1>9, <2>2, RefinesSaveAlone
  <2> QED BY <1>9, <2>1, <2>2 DEF SaveProgram
<1>10. CASE TimerTaken \/ HaltTaken
  BY <1>10, RefinesClassify
<1>11. CASE Advance
  BY <1>11, RefinesAdvance
<1>12. CASE JumpTo
  <2>1. CASE pc = "jump"
    <3>1. proc \in Programs
      BY <1>0, <2>1 DEF Slice, Entering
    <3> QED BY <1>12, <2>1, <3>1, RefinesJump
  <2>2. CASE pc = "npm_jump"
    <3>1. CURRENT_PROCESS \in Programs
      BY <1>0, <2>2 DEF NonPreemptive
    <3> QED BY <1>12, <2>2, <3>1, RefinesJumpAlone
  <2> QED BY <1>12, <2>1, <2>2 DEF JumpTo
<1>13. CASE UserStep \/ TimerInterrupt \/ Halt
  <2>1. CASE pc = "user"
    <3>1. proc \in Programs
      BY <1>0, <2>1 DEF Slice
    <3> QED BY <1>13, <2>1, <3>1, RefinesUser
  <2>2. CASE pc = "npm_user"
    <3>1. CURRENT_PROCESS \in Programs
      BY <1>0, <2>2 DEF NonPreemptive
    <3>2. UserStep \/ Halt
      BY <1>13, <2>2 DEF TimerInterrupt
    <3> QED BY <2>2, <3>1, <3>2, RefinesUserAlone
  <2> QED BY <1>13, <2>1, <2>2 DEF UserStep, TimerInterrupt, Halt
<1>14. CASE EnterNonPreemptive
  <2>1. CURRENT_PROCESS \in Programs
    BY <1>0, <1>14 DEF EnterNonPreemptive
  <2> QED BY <1>14, <2>1, RefinesEnterAlone
<1>15. CASE LeaveNonPreemptive
  BY <1>15, RefinesLeaveAlone
<1> QED
  BY <1>1, <1>2, <1>3, <1>4, <1>5, <1>6, <1>7, <1>8, <1>9, <1>10, <1>11, <1>12, <1>13,
     <1>14, <1>15 DEF Next, InputStep, KernelStep

\* The kernel implements Multiprog: each program it runs owns a virtual machine
\* that nothing but its own execution changes, and slices come in rounds
\* (SO.cm 131-295, os_save_context and os_restore_context of assembler.c).
THEOREM Refinement == Spec => IsolatedPrograms
<1>1. Init => RefInv
  BY TypesInit, ControlInit, ActiveInit, ContextInit, AtHomeInit DEF RefInv, KernelInv
<1>2. RefInv /\ [Next]_vars => RefInv'
  BY KernelInvNext, AtHomeNext DEF RefInv
<1>3. Spec => []RefInv
  BY <1>1, <1>2, PTL DEF Spec
<1> QED BY <1>3, RefinesInit, StepRefines, PTL DEF Spec, IsolatedPrograms, MP!Spec

=============================================================================
