---------------------------- MODULE MCJobExecutor ----------------------------
(* Instances of JobExecutor.                                               *)
EXTENDS JobExecutor

=============================================================================
