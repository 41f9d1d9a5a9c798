----------------------------- MODULE KernelProps -----------------------------
(***************************************************************************)
(* What Kernel guarantees: its invariants, the machine each program sees   *)
(* (a refinement of Multiprog), and its liveness under fair scheduling.    *)
(***************************************************************************)
EXTENDS Kernel

-----------------------------------------------------------------------------
\* Points of run_preemptive_mode between picking a program and the end of its slice.
Entering == {"enter", "switch", "restore", "jump"}
Leaving  == {"return", "reenter", "classify"}
Slice    == Entering \cup {"user"} \cup Leaving

NonPreemptive == {"npm_jump", "npm_user", "npm_return", "npm_reenter"}

Points == Slice \cup NonPreemptive \cup
          {"shell", "how_many", "choice", "tier", "simple", "npm", "sched", "advance"}

\* Points where the registers are a program's, or are being made so.
ProgramBases == {"restore", "jump", "user", "return", "npm_jump", "npm_user", "npm_return"}

SaveArea == [t : Words, s0 : Bases, s1 : CodeBases, hi : Words]

TypeOK ==
  /\ pc \in Points
  /\ STATE_PROCESS \in [Slots -> {0, 1, 2, 4}]
  /\ PROCESS_QUEUE \in [Slots -> {0} \cup Simple]
  /\ PROC_PC_SALVO \in [Slots -> {0} \cup Addresses]
  /\ FIRST_EXECUTION_PROC \in [Slots -> {0, 1}]
  /\ NUMBER_OF_PROCS \in 0..NSimple
  /\ ACTIVE_PROCESSES \in 0..NSimple
  /\ CURRENT_PROCESS \in Slots
  /\ i \in 0..NSimple
  /\ idx \in 0..NSimple
  /\ proc \in {0} \cup Simple
  /\ first_execution \in {0, 1}
  /\ reg \in [t : Words, s0 : Bases, s1 : CodeBases, k0 : {0} \cup Addresses, hi : Words]
  /\ area \in [Bases -> SaveArea]
  /\ upc \in {0} \cup Addresses
  /\ itype \in {0, 1, 2}

-----------------------------------------------------------------------------
\* The program whose slice it is, in either mode.
Current == IF pc \in NonPreemptive THEN CURRENT_PROCESS ELSE proc

\* SO.cm reads its globals through $s0 and its locals through $fp.  At every
\* point where kernel code does so, $s0 and $s1 are the kernel's (0) and $fp is
\* the kernel's own; in a program's slice they are that program's bases, so the
\* program reaches its own partition only (os_set_dm_base, os_restore_context).
KernelAddressing ==
  /\ pc \in Points \ (ProgramBases \cup {"reenter", "npm_reenter"}) =>
       reg.s0 = 0 /\ reg.s1 = 0 /\ reg.hi = OSWord
  /\ pc \in {"reenter", "npm_reenter"} =>
       reg.s0 = 0 /\ area[0].s0 = 0 /\ area[0].s1 = 0 /\ area[0].hi = OSWord
  /\ pc \in ProgramBases =>
       /\ reg.s0 = data_memory_procs[Current]
       /\ reg.s1 = instruction_memory_procs[Current]

\* os_restore_context reads every register above $s0 through the $s0 it has
\* just loaded: a program that has run must have its own bases in its own area.
OwnContext ==
  \A p \in Simple :
    (/\ STATE_PROCESS[p] \in {1, 2} /\ FIRST_EXECUTION_PROC[p] = 0
     /\ ~ (p = proc /\ first_execution = 1 /\ pc \in {"switch", "jump", "user", "return"}))
      => /\ area[data_memory_procs[p]].s0 = data_memory_procs[p]
         /\ area[data_memory_procs[p]].s1 = instruction_memory_procs[p]

\* ACTIVE_PROCESSES, which ends preemptive mode, counts the programs loaded and
\* not finished, at every point where it is tested or changed.
ActiveCount ==
  ACTIVE_PROCESSES = Cardinality({p \in Slots : STATE_PROCESS[p] \in {1, 2}})

\* Outside a slice no program is marked running; inside, exactly the one whose
\* slice it is.  Slot 0 of the tables, the kernel's, is never scheduled.
OneRunning ==
  /\ {p \in Slots : STATE_PROCESS[p] = 2} = IF pc \in Slice THEN {proc} ELSE {}
  /\ pc \in Slice => proc # 0

\* The first i queue entries are the programs loaded, each once, from the moment
\* they are chosen (preemp_choice) to the end of preemptive mode.
QueueIsLoaded ==
  pc \in {"choice", "sched", "advance"} \cup Slice =>
    /\ \A j, k \in 0..(i - 1) : j # k => PROCESS_QUEUE[j] # PROCESS_QUEUE[k]
    /\ {PROCESS_QUEUE[j] : j \in 0..(i - 1)} = {p \in Slots : STATE_PROCESS[p] # 0}
    /\ pc # "choice" => i = NUMBER_OF_PROCS

\* preemp_choice's loop asks again for a repeated program; there is always an
\* answer it accepts, so the loop can end.
ChoiceCanEnd ==
  pc = "choice" /\ i < NUMBER_OF_PROCS =>
    \E choice \in Inputs : STATE_PROCESS[clamp_simple_prog_num(choice)] = 0

-----------------------------------------------------------------------------
(* The machine each program sees, as a refinement mapping. *)

Blank == [t |-> Unset, hi |-> Unset, dm |-> 0, im |-> 0, at |-> 0]

AloneAt(points, p) == pc \in points /\ CURRENT_PROCESS = p

HaltedNow(p) == pc \in Leaving /\ itype = 2 /\ proc = p

Phase(p) ==
  CASE AloneAt({"npm_jump"}, p)                  -> "fresh"
    [] AloneAt({"npm_user"}, p)                  -> "alive"
    [] AloneAt({"npm_return", "npm_reenter"}, p) -> "halted"
    [] OTHER ->
       IF STATE_PROCESS[p] = 0 THEN "absent"
       ELSE IF STATE_PROCESS[p] = 4 \/ HaltedNow(p) THEN "halted"
       ELSE IF \/ FIRST_EXECUTION_PROC[p] = 1
               \/ proc = p /\ first_execution = 1 /\ pc \in Entering THEN "fresh"
       ELSE "alive"

\* In the registers from the jump until it is saved, in its save area otherwise.
VirtualMachine(p) ==
  IF Phase(p) # "alive" THEN Blank
  ELSE IF Current = p /\ pc \in {"user", "return", "npm_user"}
  THEN [t |-> reg.t, hi |-> reg.hi, dm |-> reg.s0, im |-> reg.s1, at |-> upc]
  ELSE LET saved == area[data_memory_procs[p]]
       IN  [t |-> saved.t, hi |-> saved.hi, dm |-> saved.s0, im |-> saved.s1,
            at |-> IF proc = p /\ pc \in {"reenter", "classify"} THEN upc
                   ELSE PROC_PC_SALVO[p]]

Executing == IF pc = "user" THEN proc ELSE IF pc = "npm_user" THEN CURRENT_PROCESS ELSE 0

\* Queue positions whose slice of this round is still to come.
ToCome ==
  IF pc = "choice" THEN 0..(i - 1)
  ELSE IF pc \in {"sched"} \cup Entering THEN idx..(NUMBER_OF_PROCS - 1)
  ELSE IF pc \in {"user", "advance"} \cup Leaving THEN (idx + 1)..(NUMBER_OF_PROCS - 1)
  ELSE {}

Due == {p \in Programs :
          \/ Phase(p) = "fresh" /\ pc = "npm_jump"
          \/ Phase(p) \in {"fresh", "alive"} /\ \E j \in ToCome : PROCESS_QUEUE[j] = p}

MP == INSTANCE Multiprog WITH
        Data    <- data_memory_procs,
        Code    <- instruction_memory_procs,
        Places  <- [p \in Programs |-> {instruction_memory_procs[p] + o : o \in Offsets}],
        phase   <- [p \in Programs |-> Phase(p)],
        machine <- [p \in Programs |-> VirtualMachine(p)],
        running <- Executing,
        due     <- Due

\* Every program has its own machine, changed by nothing but its own execution:
\* save and restore, the timer and the other programs are invisible to it; and
\* slices come in rounds (run_preemptive_mode, run_non_preemptive_mode).
IsolatedPrograms == MP!Spec

-----------------------------------------------------------------------------
\* A program that is ready while the round-robin loop runs gets the processor:
\* the queue is circular and the timer bounds every other program's slice.
EveryReadyRuns ==
  \A p \in Simple :
    (pc = "sched" /\ STATE_PROCESS[p] = 1) ~> (pc = "user" /\ proc = p)

\* The program that is running comes to its HALT.
HaltOf(p) == Halt /\ pc = "user" /\ proc = p

\* If every program that keeps getting slices halts, preemptive mode ends and
\* the shell is back.
ModeEnds ==
  (\A p \in Simple : SF_vars(HaltOf(p))) => (pc = "sched" ~> pc = "shell")

=============================================================================
