---------------------- MODULE MCQueueImplementsLifecycle ----------------------
(***************************************************************************)
(* Instances of QueueImplementsLifecycle for TLC.  Repository ra gets two  *)
(* events of one change request and one of another, rb and rc one event.   *)
(***************************************************************************)
EXTENDS QueueImplementsLifecycle

CONSTANTS a1, a2, a3, b1, c1, ra, rb, rc, k1, k2, k3, k4

MCRepoOf == [d \in Deliveries |-> IF d = b1 THEN rb ELSE IF d = c1 THEN rc ELSE ra]

MCCoalesceKeyOf ==
  [d \in Deliveries |->
     IF d \in {a1, a2} THEN k1 ELSE IF d = a3 THEN k2 ELSE IF d = b1 THEN k3 ELSE k4]
=============================================================================
