-------------------------- MODULE MCJobEnvironment --------------------------
(* Instances of JobEnvironment.                                            *)
EXTENDS JobEnvironment

=============================================================================
