-------------------------------- MODULE MCFizz --------------------------------
(* Small instances of Fizz for TLC. *)
EXTENDS Fizz
=============================================================================
