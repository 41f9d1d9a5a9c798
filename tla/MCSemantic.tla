----------------------------- MODULE MCSemantic -----------------------------
(* Small instances of Semantic for TLC, with a built-in function that *)
(* returns nothing.                                                   *)
EXTENDS SemanticProps

CONSTANTS Output, f, x

OutputOnly == Output :> "VOID"

\* A program may use f and x for anything.
Interchangeable == Permutations({f, x})

=============================================================================
