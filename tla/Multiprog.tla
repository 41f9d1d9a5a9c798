------------------------------ MODULE Multiprog ------------------------------
(***************************************************************************)
(* What tests/SO/PC4/SO.cm promises to the programs it runs: each owns a   *)
(* virtual machine that nothing but its own execution changes, at most one *)
(* of them executes, and they take their slices in rounds: no program gets *)
(* a second slice before every other one has had its first.                *)
(***************************************************************************)
EXTENDS Naturals

CONSTANTS
  Programs,   \* program identifiers
  Words,      \* what a register can hold
  Blank,      \* the machine of a program that is not alive
  Data,       \* Data[p]: data base of program p
  Code,       \* Code[p]: code base of program p
  Places      \* Places[p]: code addresses of program p

VARIABLES
  phase,      \* phase[p] \in {"absent", "fresh", "alive", "halted"}
  machine,    \* machine[p]: registers, bases and program counter of p
  running,    \* the program executing, 0 when none does
  due         \* programs whose slice of this round is still to come

vars == <<phase, machine, running, due>>

Unfinished == {p \in Programs : phase[p] \in {"fresh", "alive"}}

Machines(p) ==
  [t : Words, hi : Words, dm : {Data[p]}, im : {Code[p]}, at : Places[p]]

Init ==
  /\ phase = [p \in Programs |-> "absent"]
  /\ machine = [p \in Programs |-> Blank]
  /\ running = 0
  /\ due = {}

Load(p) ==
  /\ running = 0
  /\ phase[p] = "absent"
  /\ phase' = [phase EXCEPT ![p] = "fresh"]
  /\ due' = due \cup {p}
  /\ UNCHANGED <<machine, running>>

\* The first slice starts at the first instruction, with the program's bases.
Start(p) ==
  /\ running = 0
  /\ phase[p] = "fresh"
  /\ p \in due
  /\ phase' = [phase EXCEPT ![p] = "alive"]
  /\ \E m \in Machines(p) :
       /\ m.at = Code[p]
       /\ machine' = [machine EXCEPT ![p] = m]
  /\ running' = p
  /\ due' = due \ {p}

\* A later slice goes on with the machine as it was left.
Resume(p) ==
  /\ running = 0
  /\ phase[p] = "alive"
  /\ p \in due
  /\ running' = p
  /\ due' = due \ {p}
  /\ UNCHANGED <<phase, machine>>

Step(p) ==
  /\ running = p
  /\ \E m \in Machines(p) : machine' = [machine EXCEPT ![p] = m]
  /\ UNCHANGED <<phase, running, due>>

Suspend(p) ==
  /\ running = p
  /\ running' = 0
  /\ UNCHANGED <<phase, machine, due>>

Finish(p) ==
  /\ running = p
  /\ running' = 0
  /\ phase' = [phase EXCEPT ![p] = "halted"]
  /\ machine' = [machine EXCEPT ![p] = Blank]
  /\ UNCHANGED due

NewRound ==
  /\ running = 0
  /\ due = {}
  /\ due' = Unfinished
  /\ UNCHANGED <<phase, machine, running>>

\* Everything is forgotten only once every program loaded has halted.
Clear ==
  /\ running = 0
  /\ Unfinished = {}
  /\ phase' = [p \in Programs |-> "absent"]
  /\ UNCHANGED <<machine, running, due>>

Next ==
  \/ \E p \in Programs :
       \/ Load(p)
       \/ Start(p)
       \/ Resume(p)
       \/ Step(p)
       \/ Suspend(p)
       \/ Finish(p)
  \/ NewRound
  \/ Clear

Spec == Init /\ [][Next]_vars

=============================================================================
