------------------------------ MODULE MCFrames ------------------------------
(* Small instances of Frames for TLC. *)
EXTENDS Frames

\* 1 is a leaf with an array and a nested declaration, 2 calls it, 3 is main
\* and has an array it may pass.
Passing ==
  [Params |-> <<1, 1, 0>>, Locals |-> <<1, 0, 1>>, Nested |-> <<1, 0, 0>>,
   Callees |-> <<{}, {1}, {1, 2}>>, Void |-> {1}, GlobalSize |-> 0]

\* 1 has two parameters and calls itself.
Recursive ==
  [Params |-> <<2, 0>>, Locals |-> <<0, 0>>, Nested |-> <<0, 0>>,
   Callees |-> <<{1}, {1}>>, Void |-> {}, GlobalSize |-> 1]

PassingAndRecursive == {Passing, Recursive}
OnlyRecursive == {Recursive}

\* The premise of the theorems of FramesProofs.
ASSUME MCNestedInLeaves == NestedInLeaves

=============================================================================
