------------------------------ MODULE MCPoller ------------------------------
(* An instance of Poller in every mode: the deliveries d1 and d2 carry the *)
(* same task and the capacity is 2, so that duplicates meet, the semaphore *)
(* is full while the loop waits, and PollOnce has a second task to leave.  *)
EXTENDS Poller

CONSTANTS d1, d2, t1

MCTaskOf == [d \in Deliveries |-> t1]
=============================================================================
