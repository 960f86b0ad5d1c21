---------------------------- MODULE MCQueueStream ----------------------------
(***************************************************************************)
(* A queue that has been served for long, for TLC.  Its cache holds one    *)
(* key, so that a delivery it has forgotten is run when it comes again:    *)
(* four pushes of repository ra make an endless stream.  Two events of one *)
(* change request of rb are new.                                           *)
(***************************************************************************)
EXTENDS WebhookQueue

CONSTANTS a1, a2, a3, a4, b1, b2, ra, rb, kb

MCRepoOf == [d \in Deliveries |-> IF d \in {b1, b2} THEN rb ELSE ra]
MCCoalesceKeyOf == [d \in Deliveries |-> IF d \in {b1, b2} THEN kb ELSE NoKey]

\* Nothing waits or runs, and every push was run twice and forgotten; a4 ran last.
Old == Deliveries \ {b1, b2}
Served ==
  /\ waiting = [r \in Repos |-> <<>>] /\ order = <<>>
  /\ active = {} /\ inFlight = {} /\ runs = [d \in Deliveries |-> 0]
  /\ completed = <<a4>>
  /\ accepting = TRUE /\ waiters = 0 /\ drained = FALSE
  /\ accepted = Old /\ finished = Old /\ superseded = {}
  /\ started = [d \in Deliveries |-> IF d \in Old THEN 2 ELSE 0]
  /\ forgotten = Old

StreamSpec == Served /\ [][Next]_vars /\ Fairness
=============================================================================
