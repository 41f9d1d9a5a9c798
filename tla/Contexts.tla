------------------------------ MODULE Contexts ------------------------------
(***************************************************************************)
(* What os_save_context and os_restore_context do, for registers grouped   *)
(* by how the sequences of src/assembler.c treat them:                     *)
(*   t   0..22, the temporaries     s0  23, data base                      *)
(*   s1  24, code base              k0  25, jump target, never saved       *)
(*   hi  26..31, $pilha $temp $sp $fp $ra $zero, saved after the gap       *)
(***************************************************************************)

VARIABLE area  \* the save area at word 467 of each data base

\* sw r, 467+r($s0) for every register but $k0.
SaveContext(r) ==
  [area EXCEPT ![r.s0] = [t |-> r.t, s0 |-> r.s0, s1 |-> r.s1, hi |-> r.hi]]

\* lw r, 467+r($s0) in the same order.  Register 23 is $s0 itself: every
\* register above it is loaded from the area of the $s0 just loaded.
RestoreContext(r) ==
  LET b == area[r.s0].s0
  IN  [r EXCEPT !.t = area[r.s0].t, !.s0 = b, !.s1 = area[b].s1, !.hi = area[b].hi]

=============================================================================
