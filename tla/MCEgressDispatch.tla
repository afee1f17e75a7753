-------------------------- MODULE MCEgressDispatch ---------------------------
(* EgressDispatch with two listeners and more messages than the ring holds.   *)
EXTENDS EgressDispatch

CONSTANTS l1, l2, m1, m2, m3, m4, shm

=============================================================================
