------------------------------- MODULE MCSnakes -------------------------------
(***************************************************************************)
(* Snakes on a small screen.  One is coiled up at the upper wall, as the   *)
(* last one of setup_snakes is.                                            *)
(***************************************************************************)
EXTENDS Snakes

MCStarts ==
  <<[y |-> 1, x |-> 0, len |-> 2, dx |-> 0, dy |-> 1, color |-> 6],
    [y |-> 1, x |-> 3, len |-> 3, dx |-> 0, dy |-> 1, color |-> 7]>>
=============================================================================
