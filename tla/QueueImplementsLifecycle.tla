---------------------- MODULE QueueImplementsLifecycle ----------------------
(***************************************************************************)
(* The queue implements the life of a delivery, as long as every delivery  *)
(* carries a change request and the completed-key cache never overflows.   *)
(***************************************************************************)
EXTENDS WebhookQueue

\* Where the queue's own state puts each delivery.
StatusOf(d) ==
  IF d \in Running THEN "running"
  ELSE IF Waiting(d) THEN "queued"
  ELSE IF d \in finished THEN "done"
  ELSE IF d \in superseded THEN "replaced"
  ELSE "new"

Life == [d \in Deliveries |-> StatusOf(d)]

L == INSTANCE DeliveryLifecycle WITH
       Jobs <- Deliveries,
       ChangeOf <- CoalesceKeyOf,
       slots <- maxConcurrentRepos,
       status <- Life

\* Every step of the queue is a step of the abstract life, or changes nothing there: no
\* delivery runs twice, comes back after it was replaced, or vanishes once accepted.
ImplementsLifecycle == L!Spec
=============================================================================
