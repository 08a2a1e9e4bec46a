--------------------------- MODULE MCActionFetch ---------------------------
(* Two jobs of one process and one of another want the same action. *)
EXTENDS ActionFetch, TLC

CONSTANTS j1, j2, j3, p1, p2, c1, c2

MCProcOf == (j1 :> p1) @@ (j2 :> p1) @@ (j3 :> p2)
=============================================================================
