----------------------------- MODULE Activations -----------------------------
(***************************************************************************)
(* What a call means in the C- language, independent of how frames are     *)
(* laid out in memory: every activation of a function has its own          *)
(* variables, a call gives the parameters the values of the arguments in   *)
(* order, an array argument denotes the caller's array, and a return goes  *)
(* on in the caller, which finds its variables and the arguments it had    *)
(* already computed as it left them.                                       *)
(***************************************************************************)
EXTENDS Integers, Sequences

CONSTANT Values

VARIABLES
  \* The program:
  Main,          \* the function it starts in
  Callees,       \* functions each function may call
  Params,        \* number of parameters of a function; they are its variables 0, 1..
  VarsOf,        \* variables of a function, parameters included
  ArrayOf,       \* the variables that are elements of a function's local array, by index
  Globals,       \* global variables
  \* and its state:
  stack,     \* activations, the running one last: fn, home (its identity), vars, pending
  globals,
  result     \* value of the expression just computed

program == <<Main, Callees, Params, VarsOf, ArrayOf, Globals>>
avars == <<program, stack, globals, result>>

Depth == Len(stack)
Running == stack[Depth]

\* An array is denoted by the identity of the activation it belongs to.
LiveArrays ==
  {[address |-> stack[d].home, len |-> Len(ArrayOf[stack[d].fn])] : d \in 1..Depth}

Set(d, v, word) == [stack EXCEPT ![d].vars[v] = word]

AInit ==
  /\ Depth = 1
  /\ Running.fn = Main
  /\ Running.pending = <<>>
  /\ DOMAIN Running.vars = VarsOf[Main]

\* Anything computed without memory.
Compute ==
  /\ result' \in Values
  /\ UNCHANGED <<stack, globals>>

Read ==
  /\ \/ \E v \in VarsOf[Running.fn] : result' = Running.vars[v]
     \/ \E g \in Globals : result' = globals[g]
  /\ UNCHANGED <<stack, globals>>

Write ==
  /\ \/ /\ \E v \in VarsOf[Running.fn] : stack' = Set(Depth, v, result)
        /\ UNCHANGED globals
     \/ /\ \E g \in Globals : globals' = [globals EXCEPT ![g] = result]
        /\ UNCHANGED stack
  /\ UNCHANGED result

\* An element of the array a parameter denotes, wherever on the stack it is.
ReadElement ==
  /\ \E p \in 0..(Params[Running.fn] - 1), d \in 1..Depth :
       /\ Running.vars[p] \in LiveArrays
       /\ stack[d].home = Running.vars[p].address
       /\ \E e \in DOMAIN ArrayOf[stack[d].fn] :
            result' = stack[d].vars[ArrayOf[stack[d].fn][e]]
  /\ UNCHANGED <<stack, globals>>

WriteElement ==
  /\ \E p \in 0..(Params[Running.fn] - 1), d \in 1..Depth :
       /\ Running.vars[p] \in LiveArrays
       /\ stack[d].home = Running.vars[p].address
       /\ \E e \in DOMAIN ArrayOf[stack[d].fn] :
            stack' = Set(d, ArrayOf[stack[d].fn][e], result)
  /\ UNCHANGED <<globals, result>>

Pass ==
  /\ \/ result' = result
     \/ result' = [address |-> Running.home, len |-> Len(ArrayOf[Running.fn])]
  /\ stack' = [stack EXCEPT ![Depth].pending = Append(@, result')]
  /\ UNCHANGED globals

\* The variables that are not parameters start with any value.
Invoke ==
  /\ \E g \in Callees[Running.fn] :
       LET left == Len(Running.pending) - Params[g]
           callee == stack'[Depth + 1]
       IN  /\ left >= 0
           /\ Len(stack') = Depth + 1
           /\ \A d \in 1..(Depth - 1) : stack'[d] = stack[d]
           /\ stack'[Depth] = [Running EXCEPT !.pending = SubSeq(@, 1, left)]
           /\ callee.fn = g
           /\ callee.home \notin {stack[d].home : d \in 1..Depth}
           /\ callee.pending = <<>>
           /\ DOMAIN callee.vars = VarsOf[g]
           /\ \A p \in 0..(Params[g] - 1) : callee.vars[p] = Running.pending[left + p + 1]
  /\ UNCHANGED <<globals, result>>

\* The caller goes on with the value computed last.
GiveBack ==
  /\ Depth > 1
  /\ stack' = SubSeq(stack, 1, Depth - 1)
  /\ UNCHANGED <<globals, result>>

ANext ==
  /\ \/ Compute \/ Read \/ Write \/ ReadElement \/ WriteElement
     \/ Pass \/ Invoke \/ GiveBack
  /\ UNCHANGED program

ASpec == AInit /\ [][ANext]_avars

=============================================================================
