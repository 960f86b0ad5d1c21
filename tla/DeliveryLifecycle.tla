-------------------------- MODULE DeliveryLifecycle --------------------------
(***************************************************************************)
(* What the daemon's queue promises of the deliveries it is given, without *)
(* lists, caches or callbacks (driver-webhook/src/index.ts, the comment    *)
(* above QueueTask; docs/08-deployment-modes.md): every delivery goes      *)
(* through one life, forwards only, and while deliveries run no two of one *)
(* repository do so together and at most `slots` do in all.                *)
(***************************************************************************)
EXTENDS Integers, FiniteSets

CONSTANTS
  Jobs,        \* deliveries
  RepoOf,      \* the repository of each
  ChangeOf,    \* the change request of each
  slots        \* repositories served at once

VARIABLE status    \* where each delivery is in its life

Status == {"new", "queued", "running", "done", "replaced"}

\* What one step may do to one delivery.  A delivery starts at once when it may.
Moves ==
  {<<"new", "queued">>, <<"new", "running">>, <<"queued", "running">>,
   <<"queued", "replaced">>, <<"running", "done">>}

InStatus(s, what) == {j \in Jobs : s[j] = what}

Init == status = [j \in Jobs |-> "new"]

\* A delivery is only replaced in favour of one of its change request that joins the queue.
ReplacedByArrival(j) ==
  \E k \in Jobs : /\ ChangeOf[k] = ChangeOf[j]
                  /\ status[k] = "new" /\ status'[k] = "queued"

Next ==
  /\ status' \in [Jobs -> Status]
  /\ \A j \in Jobs : status'[j] # status[j] => <<status[j], status'[j]>> \in Moves
  /\ \A j \in Jobs : status[j] # "replaced" /\ status'[j] = "replaced" => ReplacedByArrival(j)
  /\ \A j, k \in InStatus(status', "running") : RepoOf[j] = RepoOf[k] => j = k
  /\ Cardinality(InStatus(status', "running")) <= slots

Spec == Init /\ [][Next]_status
=============================================================================
