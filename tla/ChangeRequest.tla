----------------------------- MODULE ChangeRequest -----------------------------
(***************************************************************************)
(* What the bot leaves at one change request: the comments, summaries and  *)
(* branches of its runs (Publication), and the sticky comment of a         *)
(* progress reporter (Progress).  The two do not read one another, so a    *)
(* scenario has either runs or a reporter.                                 *)
(***************************************************************************)
EXTENDS Publication, Progress

RequestVars == <<pubVars, progressVars>>

RequestInit == Init /\ ProgressInit(given.sticky) /\ (given.runs # {} => progressComment)

RequestNext ==
  \/ Next /\ UNCHANGED progressVars
  \/ given.runs = {} /\ ProgressNext /\ UNCHANGED pubVars

\* The forge answers.
RequestSpec ==
  /\ RequestInit /\ [][RequestNext]_RequestVars
  /\ WF_RequestVars(given.runs = {} /\ ChainStep /\ UNCHANGED pubVars)
=============================================================================
