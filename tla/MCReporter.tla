----------------------------- MODULE MCReporter -----------------------------
(* Model checking instances of Reporter.                                   *)
EXTENDS Reporter

=============================================================================
