------------------------------- MODULE MCFlight -------------------------------
(* Instances of Flight; the configurations give the bounds.                  *)
EXTENDS Flight
=============================================================================
