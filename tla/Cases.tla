------------------------------- MODULE Cases -------------------------------
(***************************************************************************)
(* One behaviour of the composed model exercises one part of the program.  *)
(* A part that is a function of its inputs has a state for every input;    *)
(* its module states what the function's result must be.                   *)
(***************************************************************************)
VARIABLES
    part,   \* the part this behaviour exercises
    input   \* what the part was given
=============================================================================
