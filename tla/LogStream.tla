------------------------------ MODULE LogStream ------------------------------
(***************************************************************************)
(* What the reporter promises about a task's log: the log the server keeps *)
(* is the stream of rows the job produced, in order, each row once and     *)
(* without a hole, however late its end is.  The server may lose a tail of *)
(* what it has, never a row in the middle.                                 *)
(***************************************************************************)
EXTENDS Integers, Sequences

VARIABLES
    produced,  \* number of rows the job produced; row i is the i-th of them
    log        \* the rows the server keeps

vars == <<produced, log>>

Init == produced = 0 /\ log = <<>>

\* The job produces rows.
Produce ==
    /\ produced' > produced
    /\ UNCHANGED log

\* The server takes the next k rows.
Deliver(k) ==
    /\ log' = [i \in 1..(Len(log) + k) |-> IF i <= Len(log) THEN log[i] ELSE i]
    /\ UNCHANGED produced

Lose(k) ==
    /\ log' = SubSeq(log, 1, k)
    /\ UNCHANGED produced

Next ==
    \/ Produce
    \/ \E k \in 1..(produced - Len(log)) : Deliver(k)
    \/ \E k \in 0..(Len(log) - 1) : Lose(k)

Spec == Init /\ [][Next]_vars

=============================================================================
