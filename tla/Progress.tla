-------------------------------- MODULE Progress --------------------------------
(***************************************************************************)
(* The progress reporter of packages/core/progress: one sticky comment     *)
(* that is set to "received", to a stage now and then while the agent's    *)
(* session streams, and to the result at the end.                          *)
(*                                                                         *)
(* A reporter is begun before the session is tracked, and is finished      *)
(* once; the session's events may call advance at any time after that,     *)
(* and after finish too.  Writes go through a chain, one at a time.        *)
(***************************************************************************)
EXTENDS Integers, Sequences

CONSTANTS
  Stages,     \* what advance may be told
  throttleMs,
  horizon     \* bound on the clock

ASSUME ProgressConstants ==
  /\ throttleMs \in Nat /\ horizon \in Nat
  /\ {"received", "result"} \cap Stages = {}

VARIABLES
  progressComment, \* the configuration's switch
  clock,           \* now()
  begun,           \* begin has ended
  sticky,          \* the comment the reporter knows to be its own, 0 for none
  lastWrite,       \* when the throttle's slot was taken; before the clock began for never
  finished,
  chain,           \* the writes that are not settled, the first of them under way
  shown,           \* the bot's comments with the marker
  attempted,       \* the result was sent
  told             \* finish has ended well

progressVars ==
  <<progressComment, clock, begun, sticky, lastWrite, finished, chain, shown, attempted, told>>

Never == 0 - throttleMs - 1
Bodies == Stages \cup {"received", "result"}
Entry(body, sent) == [body |-> body, sent |-> sent, at |-> clock]

\* Faulty variants of definitions below: writes do not wait for one another; a rejected write
\* takes those behind it along.
MaySendAny(i) == ~chain[i].sent
SettledAll(i, landed) == IF landed THEN Tail(chain) ELSE <<>>

\* `listing` is what a previous run left: nothing, or its result.
ProgressInit(listing) ==
  /\ progressComment \in BOOLEAN
  /\ clock = 0 /\ lastWrite = Never
  /\ begun = FALSE /\ finished = FALSE /\ attempted = FALSE /\ told = FALSE
  /\ sticky = 0 /\ chain = <<>>
  /\ shown = listing

\* A request does its work or not; its answer may be lost when it does.
Outcomes == {[landed |-> TRUE, answered |-> TRUE], [landed |-> TRUE, answered |-> FALSE],
             [landed |-> FALSE, answered |-> FALSE]}

(***************************************************************************)
(* begin: with the switch off nothing is written.  Otherwise the comment   *)
(* of an earlier run is reset, and known from when it was found; or one is *)
(* created, and known only from the answer.  The search may fail as well.  *)
(***************************************************************************)
Begin ==
  /\ ~begun /\ begun' = TRUE
  /\ \/ ~progressComment /\ UNCHANGED <<sticky, lastWrite, shown>>
     \/ progressComment /\ UNCHANGED <<sticky, lastWrite, shown>>
     \/ /\ progressComment
        /\ \E o \in Outcomes :
             /\ lastWrite' = IF o.answered THEN clock ELSE lastWrite
             /\ IF shown # <<>>
                THEN /\ sticky' = 1
                     /\ shown' = IF o.landed THEN [shown EXCEPT ![1] = "received"] ELSE shown
                ELSE /\ sticky' = IF o.answered THEN 1 ELSE 0
                     /\ shown' = IF o.landed THEN <<"received">> ELSE shown
  /\ UNCHANGED <<progressComment, clock, finished, chain, attempted, told>>

Throttled == clock - lastWrite < throttleMs

\* advance: the throttle's slot is taken before the write is queued.
Advance(stage) ==
  /\ begun /\ ~finished /\ progressComment /\ sticky # 0 /\ ~Throttled
  /\ lastWrite' = clock
  /\ chain' = Append(chain, Entry(stage, FALSE))
  /\ UNCHANGED <<progressComment, clock, begun, sticky, finished, shown, attempted, told>>

\* finish: behind the writes that wait, or, where no comment is known, at once.
Finish ==
  /\ begun /\ ~finished
  /\ finished' = TRUE
  /\ chain' = Append(chain, Entry("result", sticky = 0))
  /\ attempted' = (sticky = 0)
  /\ UNCHANGED <<progressComment, clock, begun, sticky, lastWrite, shown, told>>

\* A write is sent when those before it are settled.
MaySend(i) == i = 1 /\ ~chain[i].sent

\* A stage is dropped, not sent, once the reporter is finished.
Send(i) ==
  /\ MaySend(i)
  /\ IF chain[i].body # "result" /\ finished
     THEN chain' = Tail(chain) /\ UNCHANGED attempted
     ELSE /\ chain' = [chain EXCEPT ![i].sent = TRUE]
          /\ attempted' = (attempted \/ chain[i].body = "result")
  /\ UNCHANGED <<progressComment, clock, begun, sticky, lastWrite, finished, shown, told>>

\* A rejected write does not keep those behind it from being sent.
Settled(i, landed) == [j \in 1..(Len(chain) - 1) |-> chain[IF j < i THEN j ELSE j + 1]]

Settle(i) ==
  /\ chain[i].sent
  /\ \E o \in Outcomes :
       /\ chain' = Settled(i, o.landed)
       /\ shown' = IF ~o.landed THEN shown
                   ELSE IF sticky = 0 THEN Append(shown, chain[i].body)
                   ELSE [shown EXCEPT ![sticky] = chain[i].body]
       /\ told' = (told \/ (o.answered /\ chain[i].body = "result"))
       /\ sticky' = IF sticky = 0 /\ o.answered THEN Len(shown) + 1 ELSE sticky
  /\ UNCHANGED <<progressComment, clock, begun, lastWrite, finished, attempted>>

Tick ==
  /\ clock < horizon /\ clock' = clock + 1
  /\ UNCHANGED <<progressComment, begun, sticky, lastWrite, finished, chain, shown, attempted,
                 told>>

ChainStep == \E i \in 1..Len(chain) : Send(i) \/ Settle(i)
ProgressNext == Begin \/ Finish \/ ChainStep \/ Tick \/ \E stage \in Stages : Advance(stage)

ProgressStarts == \E listing \in {<<>>, <<"result">>} : ProgressInit(listing)
ProgressSpec == ProgressStarts /\ [][ProgressNext]_progressVars

-----------------------------------------------------------------------------
\* Well-typed state.
Entries == [body : Stages \cup {"result"}, sent : BOOLEAN, at : 0..horizon]
ProgressTypeOK ==
  /\ progressComment \in BOOLEAN /\ begun \in BOOLEAN /\ finished \in BOOLEAN
  /\ attempted \in BOOLEAN /\ told \in BOOLEAN
  /\ clock \in 0..horizon
  /\ lastWrite \in {Never} \cup 0..horizon
  /\ sticky \in 0..Len(shown)
  /\ chain \in Seq(Entries)
  /\ shown \in Seq(Bodies)

(***************************************************************************)
(* Once finish has ended well, the comment shows the result and goes on to *)
(* show it: no stage that was under way or that the stream still tells     *)
(* overwrites it (createProgressReporter's write chain).                   *)
(***************************************************************************)
FinalIsLast == told => sticky # 0 /\ shown[sticky] = "result"

\* Stages are queued at least the throttle's interval apart, however many events the stream
\* has (advance takes the slot before it waits).
StagesAreSpaced ==
  \A i, j \in 1..Len(chain) :
    i < j /\ chain[j].body # "result" => chain[j].at - chain[i].at >= throttleMs

\* A finished reporter comes to send its result, whatever fails before.
FinishIsAttempted == finished ~> attempted
=============================================================================
