----------------------- MODULE ReviewPipeline_proofs -----------------------
(***************************************************************************)
(* Proofs about the review pipeline, for any runs and any bound on how     *)
(* many overlap.                                                           *)
(***************************************************************************)
EXTENDS ReviewPipeline, FiniteSetTheorems, TLAPS

-----------------------------------------------------------------------------
(* Types. *)

LEMMA ResolveLevel ==
  ASSUME NEW a \in Actors, NEW i, NEW allow
  PROVE  Resolve(a, i, allow) \in Levels
BY DEF Resolve, Actors, Levels

\* The types of what is bound, and of how a run stands.
SlotsTyped == /\ slot \in [Slots -> Runs \cup {None}]
              /\ saved \in [Runs -> [Slots -> Runs \cup {None, Unbound}]]
EndsTyped == /\ stage \in [Runs -> Stages]
             /\ report \in [Runs -> [status : Statuses, tells : SUBSET Told] \cup {None}]

\* Binding and unwinding keep the types of the slots.
LEMMA SlotTypes ==
  ASSUME SlotsTyped, NEW r \in Runs
  PROVE  /\ \A s \in Slots : Bind(r, s) => SlotsTyped'
         /\ \A S \in SUBSET Slots : Unwind(r, S) => SlotsTyped'
<1>1. ASSUME NEW s \in Slots, Bind(r, s) PROVE SlotsTyped'
  BY <1>1 DEF SlotsTyped, Bind
<1>2. ASSUME NEW S \in SUBSET Slots, Unwind(r, S) PROVE SlotsTyped'
  <2>1. \A s \in Held(r, S) : s \in Slots /\ saved[r][s] \in Runs \cup {None}
    BY DEF SlotsTyped, Held
  <2>2. slot' \in [Slots -> Runs \cup {None}]
    BY <1>2, <2>1 DEF SlotsTyped, Unwind
  <2>3. saved' \in [Runs -> [Slots -> Runs \cup {None, Unbound}]]
    BY <1>2 DEF SlotsTyped, Unwind
  <2>4. QED BY <2>2, <2>3 DEF SlotsTyped
<1>3. QED BY <1>1, <1>2

\* So do the ways a stretch of a run ends.
LEMMA EndTypes ==
  ASSUME Types, NEW r \in Runs
  PROVE  /\ \A s \in Stages : Await(r, s) => EndsTyped'
         /\ \A s \in Statuses, told \in SUBSET Told :
              Terminal(r, s, told) => EndsTyped'
         /\ FailureStatuses(r) \in SUBSET Statuses
         /\ Hoisted(r) \in SUBSET Told
         /\ \A s \in FailureStatuses(r) : Terminal(r, s, Hoisted(r)) => EndsTyped'
         /\ Throws(r) => EndsTyped'
<1>1. ASSUME NEW s \in Stages, Await(r, s) PROVE EndsTyped'
  BY <1>1 DEF Types, EndsTyped, Await
<1>2. ASSUME NEW s \in Statuses, NEW told \in SUBSET Told,
             Terminal(r, s, told)
      PROVE  EndsTyped'
  BY <1>2 DEF Types, EndsTyped, Terminal, Stages
<1>3. FailureStatuses(r) \in SUBSET Statuses /\ Hoisted(r) \in SUBSET Told
  BY DEF Types, FailureStatuses, Statuses, Hoisted, Facts, Told
<1>4. QED BY <1>1, <1>2, <1>3 DEF Throws, Returns

\* What a run does and learns.
LEMMA DeedTypes ==
  ASSUME Types, NEW r \in Runs
  PROVE  /\ \A S \in SUBSET Deeds : Did(r, S) => effects' \in [Runs -> SUBSET Deeds]
         /\ \A S \in SUBSET Facts : Learns(r, S) => known' \in [Runs -> SUBSET Facts]
<1>1. effects[r] \in SUBSET Deeds /\ known[r] \in SUBSET Facts
  BY DEF Types
<1>2. ASSUME NEW S \in SUBSET Deeds, Did(r, S) PROVE effects' \in [Runs -> SUBSET Deeds]
  <2>1. effects[r] \cup S \in SUBSET Deeds
    BY <1>1
  <2>2. QED BY <1>2, <2>1 DEF Types, Did
<1>3. ASSUME NEW S \in SUBSET Facts, Learns(r, S) PROVE known' \in [Runs -> SUBSET Facts]
  <2>1. known[r] \cup S \in SUBSET Facts
    BY <1>1
  <2>2. QED BY <1>3, <2>1 DEF Types, Learns
<1>4. QED BY <1>2, <1>3

LEMMA TypesHold ==
  ASSUME Types, [Next]_vars
  PROVE  Types'
<1> SlotsTyped
  BY DEF Types, SlotsTyped
<1> USE DEF settledVars
<1>1. ASSUME NEW r \in Runs, Start(r) PROVE Types'
  <2>1. SlotsTyped'
    BY <1>1, SlotTypes DEF Start, SlotsTyped, Throws, Returns, slotVars, Slots, RunSlots, AgentSlots
  <2>2. EndsTyped'
    BY <1>1, EndTypes DEF Start, Types, EndsTyped, Returns, Stages, Statuses, BlockedStatus, Facts, Told
  <2>3. /\ known' \in [Runs -> SUBSET Facts]
        /\ gate' \in [Runs -> Outcomes] /\ asked' \in [Runs -> BOOLEAN]
    BY <1>1, DeedTypes DEF Start, Types, Facts, Outcomes
  <2>4. effects' \in [Runs -> SUBSET Deeds]
    BY <1>1, DeedTypes DEF Start, Types, Deeds
  <2>5. /\ intent' \in [Runs -> Intents] /\ actor' \in [Runs -> Actors]
        /\ trust' \in [Runs -> Levels] /\ granted' \in [Runs -> Levels]
        /\ fired' \in [Runs -> BOOLEAN] /\ cancelled' \in [Runs -> BOOLEAN]
        /\ allowWrite' \in BOOLEAN /\ depsAllowWrite' \in BOOLEAN
    BY <1>1, ResolveLevel DEF Start, Types, Listening
  <2>6. QED BY <2>1, <2>2, <2>3, <2>4, <2>5 DEF Types, SlotsTyped, EndsTyped
<1>2. ASSUME NEW r \in Runs, AuthorizeEnds(r) PROVE Types'
  <2>1. SlotsTyped'
    BY <1>2, SlotTypes DEF AuthorizeEnds, SlotsTyped, Throws, Returns, slotVars, Slots, RunSlots, AgentSlots
  <2>2. EndsTyped'
    BY <1>2, EndTypes DEF AuthorizeEnds, Types, EndsTyped, Returns, Stages, Statuses, BlockedStatus, Facts, Told
  <2>3. /\ known' \in [Runs -> SUBSET Facts]
        /\ gate' \in [Runs -> Outcomes] /\ asked' \in [Runs -> BOOLEAN]
    BY <1>2, DeedTypes DEF AuthorizeEnds, Types, Facts, Outcomes
  <2>4. effects' \in [Runs -> SUBSET Deeds]
    BY <1>2, DeedTypes DEF AuthorizeEnds, Types, Deeds
  <2>5. /\ intent' \in [Runs -> Intents] /\ actor' \in [Runs -> Actors]
        /\ trust' \in [Runs -> Levels] /\ granted' \in [Runs -> Levels]
        /\ fired' \in [Runs -> BOOLEAN] /\ cancelled' \in [Runs -> BOOLEAN]
        /\ allowWrite' \in BOOLEAN /\ depsAllowWrite' \in BOOLEAN
    <3>1. CASE UNCHANGED <<actor, trust, granted>>
      BY <1>2, <3>1 DEF AuthorizeEnds, Types
    <3>2. CASE \E a \in Actors :
                 /\ actor' = [actor EXCEPT ![r] = a]
                 /\ trust' = [trust EXCEPT ![r] = Resolve(a, intent[r], depsAllowWrite)]
                 /\ \/ UNCHANGED granted
                    \/ granted' = [granted EXCEPT ![r] = Resolve(a, intent[r], allowWrite)]
      <4>1. PICK a \in Actors :
              /\ actor' = [actor EXCEPT ![r] = a]
              /\ trust' = [trust EXCEPT ![r] = Resolve(a, intent[r], depsAllowWrite)]
              /\ \/ UNCHANGED granted
                 \/ granted' = [granted EXCEPT ![r] = Resolve(a, intent[r], allowWrite)]
        BY <3>2
      <4>2. /\ Resolve(a, intent[r], depsAllowWrite) \in Levels
            /\ Resolve(a, intent[r], allowWrite) \in Levels
        BY ResolveLevel
      <4>3. UNCHANGED <<intent, fired, cancelled, allowWrite, depsAllowWrite>>
        BY <1>2 DEF AuthorizeEnds
      <4>4. QED BY <4>1, <4>2, <4>3 DEF Types
    <3>3. \/ UNCHANGED <<actor, trust, granted>>
          \/ \E a \in Actors :
               /\ actor' = [actor EXCEPT ![r] = a]
               /\ trust' = [trust EXCEPT ![r] = Resolve(a, intent[r], depsAllowWrite)]
               /\ \/ UNCHANGED granted
                  \/ granted' = [granted EXCEPT ![r] = Resolve(a, intent[r], allowWrite)]
      BY <1>2 DEF AuthorizeEnds
    <3>4. QED BY <3>1, <3>2, <3>3
  <2>6. QED BY <2>1, <2>2, <2>3, <2>4, <2>5 DEF Types, SlotsTyped, EndsTyped
<1>3. ASSUME NEW r \in Runs, RecordEnds(r) PROVE Types'
  <2>1. SlotsTyped'
    BY <1>3, SlotTypes DEF RecordEnds, SlotsTyped, Throws, Returns, slotVars, Slots, RunSlots, AgentSlots
  <2>2. EndsTyped'
    BY <1>3, EndTypes DEF RecordEnds, Types, EndsTyped, Returns, Stages, Statuses, BlockedStatus, Facts, Told
  <2>3. /\ known' \in [Runs -> SUBSET Facts]
        /\ gate' \in [Runs -> Outcomes] /\ asked' \in [Runs -> BOOLEAN]
    BY <1>3, DeedTypes DEF RecordEnds, Types, Facts, Outcomes
  <2>4. effects' \in [Runs -> SUBSET Deeds]
    BY <1>3, DeedTypes DEF RecordEnds, Types, Deeds
  <2>5. /\ intent' \in [Runs -> Intents] /\ actor' \in [Runs -> Actors]
        /\ trust' \in [Runs -> Levels] /\ granted' \in [Runs -> Levels]
        /\ fired' \in [Runs -> BOOLEAN] /\ cancelled' \in [Runs -> BOOLEAN]
        /\ allowWrite' \in BOOLEAN /\ depsAllowWrite' \in BOOLEAN
    BY <1>3, ResolveLevel DEF RecordEnds, Types, Listening
  <2>6. QED BY <2>1, <2>2, <2>3, <2>4, <2>5 DEF Types, SlotsTyped, EndsTyped
<1>4. ASSUME NEW r \in Runs, ReplyEnds(r) PROVE Types'
  <2>1. SlotsTyped'
    BY <1>4, SlotTypes DEF ReplyEnds, SlotsTyped, Throws, Returns, slotVars, Slots, RunSlots, AgentSlots
  <2>2. EndsTyped'
    BY <1>4, EndTypes DEF ReplyEnds, Types, EndsTyped, Returns, Stages, Statuses, BlockedStatus, Facts, Told
  <2>3. /\ known' \in [Runs -> SUBSET Facts]
        /\ gate' \in [Runs -> Outcomes] /\ asked' \in [Runs -> BOOLEAN]
    BY <1>4, DeedTypes DEF ReplyEnds, Types, Facts, Outcomes
  <2>4. effects' \in [Runs -> SUBSET Deeds]
    BY <1>4, DeedTypes DEF ReplyEnds, Types, Deeds
  <2>5. /\ intent' \in [Runs -> Intents] /\ actor' \in [Runs -> Actors]
        /\ trust' \in [Runs -> Levels] /\ granted' \in [Runs -> Levels]
        /\ fired' \in [Runs -> BOOLEAN] /\ cancelled' \in [Runs -> BOOLEAN]
        /\ allowWrite' \in BOOLEAN /\ depsAllowWrite' \in BOOLEAN
    BY <1>4, ResolveLevel DEF ReplyEnds, Types, Listening
  <2>6. QED BY <2>1, <2>2, <2>3, <2>4, <2>5 DEF Types, SlotsTyped, EndsTyped
<1>5. ASSUME NEW r \in Runs, DiffEnds(r) PROVE Types'
  <2>1. SlotsTyped'
    BY <1>5, SlotTypes DEF DiffEnds, SlotsTyped, Throws, Returns, slotVars, Slots, RunSlots, AgentSlots
  <2>2. EndsTyped'
    BY <1>5, EndTypes DEF DiffEnds, Types, EndsTyped, Returns, Stages, Statuses, BlockedStatus, Facts, Told
  <2>3. /\ known' \in [Runs -> SUBSET Facts]
        /\ gate' \in [Runs -> Outcomes] /\ asked' \in [Runs -> BOOLEAN]
    BY <1>5, DeedTypes DEF DiffEnds, Types, Facts, Outcomes
  <2>4. effects' \in [Runs -> SUBSET Deeds]
    BY <1>5, DeedTypes DEF DiffEnds, Types, Deeds
  <2>5. /\ intent' \in [Runs -> Intents] /\ actor' \in [Runs -> Actors]
        /\ trust' \in [Runs -> Levels] /\ granted' \in [Runs -> Levels]
        /\ fired' \in [Runs -> BOOLEAN] /\ cancelled' \in [Runs -> BOOLEAN]
        /\ allowWrite' \in BOOLEAN /\ depsAllowWrite' \in BOOLEAN
    BY <1>5, ResolveLevel DEF DiffEnds, Types, Listening
  <2>6. QED BY <2>1, <2>2, <2>3, <2>4, <2>5 DEF Types, SlotsTyped, EndsTyped
<1>6. ASSUME NEW r \in Runs, ContextEnds(r) PROVE Types'
  <2>1. SlotsTyped'
    BY <1>6, SlotTypes DEF ContextEnds, SlotsTyped, Throws, Returns, slotVars, Slots, RunSlots, AgentSlots
  <2>2. EndsTyped'
    BY <1>6, EndTypes DEF ContextEnds, Types, EndsTyped, Returns, Stages, Statuses, BlockedStatus, Facts, Told
  <2>3. /\ known' \in [Runs -> SUBSET Facts]
        /\ gate' \in [Runs -> Outcomes] /\ asked' \in [Runs -> BOOLEAN]
    BY <1>6, DeedTypes DEF ContextEnds, Types, Facts, Outcomes
  <2>4. effects' \in [Runs -> SUBSET Deeds]
    BY <1>6, DeedTypes DEF ContextEnds, Types, Deeds
  <2>5. /\ intent' \in [Runs -> Intents] /\ actor' \in [Runs -> Actors]
        /\ trust' \in [Runs -> Levels] /\ granted' \in [Runs -> Levels]
        /\ fired' \in [Runs -> BOOLEAN] /\ cancelled' \in [Runs -> BOOLEAN]
        /\ allowWrite' \in BOOLEAN /\ depsAllowWrite' \in BOOLEAN
    BY <1>6, ResolveLevel DEF ContextEnds, Types, Listening
  <2>6. QED BY <2>1, <2>2, <2>3, <2>4, <2>5 DEF Types, SlotsTyped, EndsTyped
<1>7. ASSUME NEW r \in Runs, ShardsEnd(r) PROVE Types'
  <2>1. SlotsTyped'
    BY <1>7, SlotTypes DEF ShardsEnd, SlotsTyped, Throws, Returns, slotVars, Slots, RunSlots, AgentSlots
  <2>2. EndsTyped'
    BY <1>7, EndTypes DEF ShardsEnd, Types, EndsTyped, Returns, Stages, Statuses, BlockedStatus, Facts, Told
  <2>3. /\ known' \in [Runs -> SUBSET Facts]
        /\ gate' \in [Runs -> Outcomes] /\ asked' \in [Runs -> BOOLEAN]
    BY <1>7, DeedTypes DEF ShardsEnd, Types, Facts, Outcomes
  <2>4. effects' \in [Runs -> SUBSET Deeds]
    BY <1>7, DeedTypes DEF ShardsEnd, Types, Deeds
  <2>5. /\ intent' \in [Runs -> Intents] /\ actor' \in [Runs -> Actors]
        /\ trust' \in [Runs -> Levels] /\ granted' \in [Runs -> Levels]
        /\ fired' \in [Runs -> BOOLEAN] /\ cancelled' \in [Runs -> BOOLEAN]
        /\ allowWrite' \in BOOLEAN /\ depsAllowWrite' \in BOOLEAN
    BY <1>7, ResolveLevel DEF ShardsEnd, Types, Listening
  <2>6. QED BY <2>1, <2>2, <2>3, <2>4, <2>5 DEF Types, SlotsTyped, EndsTyped
<1>8. ASSUME NEW r \in Runs, AgentStarts(r) PROVE Types'
  <2>1. SlotsTyped'
    BY <1>8, SlotTypes DEF AgentStarts, SlotsTyped, Throws, Returns, slotVars, Slots, RunSlots, AgentSlots
  <2>2. EndsTyped'
    BY <1>8, EndTypes DEF AgentStarts, Types, EndsTyped, Returns, Stages, Statuses, BlockedStatus, Facts, Told
  <2>3. /\ known' \in [Runs -> SUBSET Facts]
        /\ gate' \in [Runs -> Outcomes] /\ asked' \in [Runs -> BOOLEAN]
    BY <1>8, DeedTypes DEF AgentStarts, Types, Facts, Outcomes
  <2>4. effects' \in [Runs -> SUBSET Deeds]
    BY <1>8, DeedTypes DEF AgentStarts, Types, Deeds
  <2>5. /\ intent' \in [Runs -> Intents] /\ actor' \in [Runs -> Actors]
        /\ trust' \in [Runs -> Levels] /\ granted' \in [Runs -> Levels]
        /\ fired' \in [Runs -> BOOLEAN] /\ cancelled' \in [Runs -> BOOLEAN]
        /\ allowWrite' \in BOOLEAN /\ depsAllowWrite' \in BOOLEAN
    BY <1>8, ResolveLevel DEF AgentStarts, Types, Listening
  <2>6. QED BY <2>1, <2>2, <2>3, <2>4, <2>5 DEF Types, SlotsTyped, EndsTyped
<1>9. ASSUME NEW r \in Runs, AgentEnds(r) PROVE Types'
  <2>1. SlotsTyped'
    BY <1>9, SlotTypes DEF AgentEnds, SlotsTyped, Throws, Returns, slotVars, Slots, RunSlots, AgentSlots
  <2>2. EndsTyped'
    BY <1>9, EndTypes DEF AgentEnds, Types, EndsTyped, Returns, Stages, Statuses, BlockedStatus, Facts, Told
  <2>3. /\ known' \in [Runs -> SUBSET Facts]
        /\ gate' \in [Runs -> Outcomes] /\ asked' \in [Runs -> BOOLEAN]
    BY <1>9, DeedTypes DEF AgentEnds, Types, Facts, Outcomes
  <2>4. effects' \in [Runs -> SUBSET Deeds]
    BY <1>9, DeedTypes DEF AgentEnds, Types, Deeds
  <2>5. /\ intent' \in [Runs -> Intents] /\ actor' \in [Runs -> Actors]
        /\ trust' \in [Runs -> Levels] /\ granted' \in [Runs -> Levels]
        /\ fired' \in [Runs -> BOOLEAN] /\ cancelled' \in [Runs -> BOOLEAN]
        /\ allowWrite' \in BOOLEAN /\ depsAllowWrite' \in BOOLEAN
    BY <1>9, ResolveLevel DEF AgentEnds, Types, Listening
  <2>6. QED BY <2>1, <2>2, <2>3, <2>4, <2>5 DEF Types, SlotsTyped, EndsTyped
<1>10. ASSUME NEW r \in Runs, Disposed(r) PROVE Types'
  <2>1. SlotsTyped'
    BY <1>10, SlotTypes DEF Disposed, SlotsTyped, Throws, Returns, slotVars, Slots, RunSlots, AgentSlots
  <2>2. EndsTyped'
    BY <1>10, EndTypes DEF Disposed, Types, EndsTyped, Returns, Stages, Statuses, BlockedStatus, Facts, Told
  <2>3. /\ known' \in [Runs -> SUBSET Facts]
        /\ gate' \in [Runs -> Outcomes] /\ asked' \in [Runs -> BOOLEAN]
    BY <1>10, DeedTypes DEF Disposed, Types, Facts, Outcomes
  <2>4. effects' \in [Runs -> SUBSET Deeds]
    BY <1>10, DeedTypes DEF Disposed, Types, Deeds
  <2>5. /\ intent' \in [Runs -> Intents] /\ actor' \in [Runs -> Actors]
        /\ trust' \in [Runs -> Levels] /\ granted' \in [Runs -> Levels]
        /\ fired' \in [Runs -> BOOLEAN] /\ cancelled' \in [Runs -> BOOLEAN]
        /\ allowWrite' \in BOOLEAN /\ depsAllowWrite' \in BOOLEAN
    BY <1>10, ResolveLevel DEF Disposed, Types, Listening
  <2>6. QED BY <2>1, <2>2, <2>3, <2>4, <2>5 DEF Types, SlotsTyped, EndsTyped
<1>11. ASSUME NEW r \in Runs, RecallEnds(r) PROVE Types'
  <2>1. SlotsTyped'
    BY <1>11, SlotTypes DEF RecallEnds, SlotsTyped, Throws, Returns, slotVars, Slots, RunSlots, AgentSlots
  <2>2. EndsTyped'
    BY <1>11, EndTypes DEF RecallEnds, Types, EndsTyped, Returns, Stages, Statuses, BlockedStatus, Facts, Told
  <2>3. /\ known' \in [Runs -> SUBSET Facts]
        /\ gate' \in [Runs -> Outcomes] /\ asked' \in [Runs -> BOOLEAN]
    BY <1>11, DeedTypes DEF RecallEnds, Types, Facts, Outcomes
  <2>4. effects' \in [Runs -> SUBSET Deeds]
    BY <1>11, DeedTypes DEF RecallEnds, Types, Deeds
  <2>5. /\ intent' \in [Runs -> Intents] /\ actor' \in [Runs -> Actors]
        /\ trust' \in [Runs -> Levels] /\ granted' \in [Runs -> Levels]
        /\ fired' \in [Runs -> BOOLEAN] /\ cancelled' \in [Runs -> BOOLEAN]
        /\ allowWrite' \in BOOLEAN /\ depsAllowWrite' \in BOOLEAN
    BY <1>11, ResolveLevel DEF RecallEnds, Types, Listening
  <2>6. QED BY <2>1, <2>2, <2>3, <2>4, <2>5 DEF Types, SlotsTyped, EndsTyped
<1>12. ASSUME NEW r \in Runs, InlineEnds(r) PROVE Types'
  <2>1. SlotsTyped'
    BY <1>12, SlotTypes DEF InlineEnds, SlotsTyped, Throws, Returns, slotVars, Slots, RunSlots, AgentSlots
  <2>2. EndsTyped'
    BY <1>12, EndTypes DEF InlineEnds, Types, EndsTyped, Returns, Stages, Statuses, BlockedStatus, Facts, Told
  <2>3. /\ known' \in [Runs -> SUBSET Facts]
        /\ gate' \in [Runs -> Outcomes] /\ asked' \in [Runs -> BOOLEAN]
    BY <1>12, DeedTypes DEF InlineEnds, Types, Facts, Outcomes
  <2>4. effects' \in [Runs -> SUBSET Deeds]
    BY <1>12, DeedTypes DEF InlineEnds, Types, Deeds
  <2>5. /\ intent' \in [Runs -> Intents] /\ actor' \in [Runs -> Actors]
        /\ trust' \in [Runs -> Levels] /\ granted' \in [Runs -> Levels]
        /\ fired' \in [Runs -> BOOLEAN] /\ cancelled' \in [Runs -> BOOLEAN]
        /\ allowWrite' \in BOOLEAN /\ depsAllowWrite' \in BOOLEAN
    BY <1>12, ResolveLevel DEF InlineEnds, Types, Listening
  <2>6. QED BY <2>1, <2>2, <2>3, <2>4, <2>5 DEF Types, SlotsTyped, EndsTyped
<1>13. ASSUME NEW r \in Runs, SummaryEnds(r) PROVE Types'
  <2>1. SlotsTyped'
    BY <1>13, SlotTypes DEF SummaryEnds, SlotsTyped, Throws, Returns, slotVars, Slots, RunSlots, AgentSlots
  <2>2. EndsTyped'
    <3>1. CASE Throws(r)
      BY <3>1, EndTypes
    <3>2. CASE Learns(r, {"publication"})
      <4>1. known' \in [Runs -> SUBSET Facts]
        BY <3>2, DeedTypes DEF Facts
      <4>2. known'[r] \in SUBSET Told
        BY <4>1 DEF Told
      <4>3. \/ Await(r, "plan")
            \/ Returns(r, "success", known'[r])
            \/ Throws(r)
        BY <1>13 DEF SummaryEnds
      <4>4. QED BY <4>2, <4>3, EndTypes DEF Returns, Stages, Statuses
    <3>3. QED BY <1>13, <3>1, <3>2 DEF SummaryEnds
  <2>3. /\ known' \in [Runs -> SUBSET Facts]
        /\ gate' \in [Runs -> Outcomes] /\ asked' \in [Runs -> BOOLEAN]
    BY <1>13, DeedTypes DEF SummaryEnds, Types, Facts, Outcomes
  <2>4. effects' \in [Runs -> SUBSET Deeds]
    BY <1>13, DeedTypes DEF SummaryEnds, Types, Deeds
  <2>5. /\ intent' \in [Runs -> Intents] /\ actor' \in [Runs -> Actors]
        /\ trust' \in [Runs -> Levels] /\ granted' \in [Runs -> Levels]
        /\ fired' \in [Runs -> BOOLEAN] /\ cancelled' \in [Runs -> BOOLEAN]
        /\ allowWrite' \in BOOLEAN /\ depsAllowWrite' \in BOOLEAN
    BY <1>13, ResolveLevel DEF SummaryEnds, Types, Listening
  <2>6. QED BY <2>1, <2>2, <2>3, <2>4, <2>5 DEF Types, SlotsTyped, EndsTyped
<1>14. ASSUME NEW r \in Runs, PlanEnds(r) PROVE Types'
  <2>1. SlotsTyped'
    BY <1>14, SlotTypes DEF PlanEnds, SlotsTyped, Throws, Returns, slotVars, Slots, RunSlots, AgentSlots
  <2>2. EndsTyped'
    BY <1>14, EndTypes DEF PlanEnds, Types, EndsTyped, Returns, Stages, Statuses, BlockedStatus, Facts, Told
  <2>3. /\ known' \in [Runs -> SUBSET Facts]
        /\ gate' \in [Runs -> Outcomes] /\ asked' \in [Runs -> BOOLEAN]
    BY <1>14, DeedTypes DEF PlanEnds, Types, Facts, Outcomes
  <2>4. effects' \in [Runs -> SUBSET Deeds]
    BY <1>14, DeedTypes DEF PlanEnds, Types, Deeds
  <2>5. /\ intent' \in [Runs -> Intents] /\ actor' \in [Runs -> Actors]
        /\ trust' \in [Runs -> Levels] /\ granted' \in [Runs -> Levels]
        /\ fired' \in [Runs -> BOOLEAN] /\ cancelled' \in [Runs -> BOOLEAN]
        /\ allowWrite' \in BOOLEAN /\ depsAllowWrite' \in BOOLEAN
    BY <1>14, ResolveLevel DEF PlanEnds, Types, Listening
  <2>6. QED BY <2>1, <2>2, <2>3, <2>4, <2>5 DEF Types, SlotsTyped, EndsTyped
<1>15. ASSUME NEW r \in Runs, WriteEnds(r) PROVE Types'
  <2>1. SlotsTyped'
    BY <1>15, SlotTypes DEF WriteEnds, SlotsTyped, Throws, Returns, slotVars, Slots, RunSlots, AgentSlots
  <2>2. EndsTyped'
    BY <1>15, EndTypes DEF WriteEnds, Types, EndsTyped, Returns, Stages, Statuses, BlockedStatus, Facts, Told
  <2>3. /\ known' \in [Runs -> SUBSET Facts]
        /\ gate' \in [Runs -> Outcomes] /\ asked' \in [Runs -> BOOLEAN]
    BY <1>15, DeedTypes DEF WriteEnds, Types, Facts, Outcomes
  <2>4. effects' \in [Runs -> SUBSET Deeds]
    BY <1>15, DeedTypes DEF WriteEnds, Types, Deeds
  <2>5. /\ intent' \in [Runs -> Intents] /\ actor' \in [Runs -> Actors]
        /\ trust' \in [Runs -> Levels] /\ granted' \in [Runs -> Levels]
        /\ fired' \in [Runs -> BOOLEAN] /\ cancelled' \in [Runs -> BOOLEAN]
        /\ allowWrite' \in BOOLEAN /\ depsAllowWrite' \in BOOLEAN
    BY <1>15, ResolveLevel DEF WriteEnds, Types, Listening
  <2>6. QED BY <2>1, <2>2, <2>3, <2>4, <2>5 DEF Types, SlotsTyped, EndsTyped
<1>16. ASSUME NEW r \in Runs, GateEnds(r) PROVE Types'
  <2>1. SlotsTyped'
    BY <1>16, SlotTypes DEF GateEnds, SlotsTyped, Throws, Returns, slotVars, Slots, RunSlots, AgentSlots
  <2>2. EndsTyped'
    BY <1>16, EndTypes DEF GateEnds, Types, EndsTyped, Returns, Stages, Statuses, BlockedStatus, Facts, Told
  <2>3. /\ known' \in [Runs -> SUBSET Facts]
        /\ gate' \in [Runs -> Outcomes] /\ asked' \in [Runs -> BOOLEAN]
    BY <1>16, DeedTypes DEF GateEnds, Types, Facts, Outcomes
  <2>4. effects' \in [Runs -> SUBSET Deeds]
    BY <1>16, DeedTypes DEF GateEnds, Types, Deeds
  <2>5. /\ intent' \in [Runs -> Intents] /\ actor' \in [Runs -> Actors]
        /\ trust' \in [Runs -> Levels] /\ granted' \in [Runs -> Levels]
        /\ fired' \in [Runs -> BOOLEAN] /\ cancelled' \in [Runs -> BOOLEAN]
        /\ allowWrite' \in BOOLEAN /\ depsAllowWrite' \in BOOLEAN
    BY <1>16, ResolveLevel DEF GateEnds, Types, Listening
  <2>6. QED BY <2>1, <2>2, <2>3, <2>4, <2>5 DEF Types, SlotsTyped, EndsTyped
<1>17. ASSUME NEW r \in Runs, GateCommentEnds(r) PROVE Types'
  <2>1. SlotsTyped'
    BY <1>17, SlotTypes DEF GateCommentEnds, SlotsTyped, Throws, Returns, slotVars, Slots, RunSlots, AgentSlots
  <2>2. EndsTyped'
    BY <1>17, EndTypes DEF GateCommentEnds, Types, EndsTyped, Returns, Stages, Statuses, BlockedStatus, Facts, Told
  <2>3. /\ known' \in [Runs -> SUBSET Facts]
        /\ gate' \in [Runs -> Outcomes] /\ asked' \in [Runs -> BOOLEAN]
    BY <1>17, DeedTypes DEF GateCommentEnds, Types, Facts, Outcomes
  <2>4. effects' \in [Runs -> SUBSET Deeds]
    BY <1>17, DeedTypes DEF GateCommentEnds, Types, Deeds
  <2>5. /\ intent' \in [Runs -> Intents] /\ actor' \in [Runs -> Actors]
        /\ trust' \in [Runs -> Levels] /\ granted' \in [Runs -> Levels]
        /\ fired' \in [Runs -> BOOLEAN] /\ cancelled' \in [Runs -> BOOLEAN]
        /\ allowWrite' \in BOOLEAN /\ depsAllowWrite' \in BOOLEAN
    BY <1>17, ResolveLevel DEF GateCommentEnds, Types, Listening
  <2>6. QED BY <2>1, <2>2, <2>3, <2>4, <2>5 DEF Types, SlotsTyped, EndsTyped
<1>18. ASSUME NEW r \in Runs, CommitEnds(r) PROVE Types'
  <2>1. SlotsTyped'
    BY <1>18, SlotTypes DEF CommitEnds, SlotsTyped, Throws, Returns, slotVars, Slots, RunSlots, AgentSlots
  <2>2. EndsTyped'
    BY <1>18, EndTypes DEF CommitEnds, Types, EndsTyped, Returns, Stages, Statuses, BlockedStatus, Facts, Told
  <2>3. /\ known' \in [Runs -> SUBSET Facts]
        /\ gate' \in [Runs -> Outcomes] /\ asked' \in [Runs -> BOOLEAN]
    BY <1>18, DeedTypes DEF CommitEnds, Types, Facts, Outcomes
  <2>4. effects' \in [Runs -> SUBSET Deeds]
    BY <1>18, DeedTypes DEF CommitEnds, Types, Deeds
  <2>5. /\ intent' \in [Runs -> Intents] /\ actor' \in [Runs -> Actors]
        /\ trust' \in [Runs -> Levels] /\ granted' \in [Runs -> Levels]
        /\ fired' \in [Runs -> BOOLEAN] /\ cancelled' \in [Runs -> BOOLEAN]
        /\ allowWrite' \in BOOLEAN /\ depsAllowWrite' \in BOOLEAN
    BY <1>18, ResolveLevel DEF CommitEnds, Types, Listening
  <2>6. QED BY <2>1, <2>2, <2>3, <2>4, <2>5 DEF Types, SlotsTyped, EndsTyped
<1>19. ASSUME NEW r \in Runs, Watchdog(r) PROVE Types'
  <2>1. SlotsTyped'
    BY <1>19, SlotTypes DEF Watchdog, SlotsTyped, Throws, Returns, slotVars, Slots, RunSlots, AgentSlots
  <2>2. EndsTyped'
    BY <1>19, EndTypes DEF Watchdog, Types, EndsTyped, Returns, Stages, Statuses, BlockedStatus, Facts, Told
  <2>3. /\ known' \in [Runs -> SUBSET Facts]
        /\ gate' \in [Runs -> Outcomes] /\ asked' \in [Runs -> BOOLEAN]
    BY <1>19, DeedTypes DEF Watchdog, Types, Facts, Outcomes
  <2>4. effects' \in [Runs -> SUBSET Deeds]
    BY <1>19, DeedTypes DEF Watchdog, Types, Deeds
  <2>5. /\ intent' \in [Runs -> Intents] /\ actor' \in [Runs -> Actors]
        /\ trust' \in [Runs -> Levels] /\ granted' \in [Runs -> Levels]
        /\ fired' \in [Runs -> BOOLEAN] /\ cancelled' \in [Runs -> BOOLEAN]
        /\ allowWrite' \in BOOLEAN /\ depsAllowWrite' \in BOOLEAN
    BY <1>19, ResolveLevel DEF Watchdog, Types, Listening
  <2>6. QED BY <2>1, <2>2, <2>3, <2>4, <2>5 DEF Types, SlotsTyped, EndsTyped
<1>20. ASSUME Toggle PROVE Types'
  BY <1>20 DEF Toggle, runVars, slotVars, Types
<1>21. ASSUME UNCHANGED vars PROVE Types'
  BY <1>21 DEF vars, runVars, slotVars, Types
<1>22. QED
  BY <1>1, <1>2, <1>3, <1>4, <1>5, <1>6, <1>7, <1>8, <1>9, <1>10, <1>11, <1>12, <1>13, <1>14, <1>15, <1>16, <1>17, <1>18, <1>19, <1>20, <1>21 DEF Next, StageEnds, ServiceEnds, WorkEnds

-----------------------------------------------------------------------------
(* The order of a run's deeds. *)

FixStages == {"plan", "write", "gate", "gateComment", "commit"}
Unpublished == {"new", "authorize", "record", "diff", "context", "shards", "create", "agent",
                "dispose", "giveUp", "recall", "inline"}

\* What a run under way has done and knows, by the await it is suspended in.
Ordered(r) ==
  /\ stage[r] \in Unpublished => effects[r] = {}
  /\ stage[r] = "reply" => "inline" \notin effects[r] /\ "summary" \notin effects[r]
  /\ stage[r] \in (Unpublished \ {"inline"}) \cup {"reply"} => known[r] = {}
  /\ stage[r] \in {"new", "authorize"} => granted[r] = "none"
  /\ stage[r] \in {"inline", "summary"} \cup FixStages => "findings" \in known[r]
  /\ stage[r] \notin {"new", "authorize", "done"} /\ intent[r] = "fix"
       => actor[r] = "writer" /\ depsAllowWrite
  /\ stage[r] \in FixStages => intent[r] = "fix" /\ "summary" \in effects[r]
  /\ stage[r] \in {"gate", "gateComment", "commit"} => "written" \in effects[r]
  /\ gate[r] = "failed" => stage[r] \in {"gateComment", "done"}
  /\ stage[r] # "done" => "committed" \notin effects[r]

\* The properties, for one run.
Reported(r) ==
  stage[r] = "done" =>
    /\ "inline" \in effects[r] \/ "summary" \in effects[r] => "findings" \in report[r].tells
    /\ known[r] \subseteq report[r].tells
Earned(r) ==
  "committed" \in effects[r] =>
    /\ intent[r] = "fix" /\ actor[r] = "writer" /\ depsAllowWrite
    /\ "written" \in effects[r] /\ "summary" \in effects[r]
    /\ gate[r] # "failed"
Honest(r) ==
  stage[r] = "done" =>
    /\ report[r].status = "success"
         => ("summary" \in effects[r] \/ "reply" \in effects[r]) /\ gate[r] # "failed"
    /\ report[r].status \in {"denied", "neutral"} => effects[r] = {} /\ granted[r] = "none"
    /\ report[r].status = "validation_failed" => effects[r] = {}
    /\ report[r].status = "timed_out" => fired[r]

RunInv(r) == Ordered(r) /\ Reported(r) /\ Earned(r) /\ Honest(r)
Inv == Types /\ \A r \in Runs : RunInv(r)

\* A step of one run leaves the others as they are.
Same(q) ==
  /\ stage'[q] = stage[q] /\ intent'[q] = intent[q] /\ actor'[q] = actor[q]
  /\ granted'[q] = granted[q] /\ fired'[q] = fired[q] /\ known'[q] = known[q]
  /\ gate'[q] = gate[q] /\ report'[q] = report[q] /\ effects'[q] = effects[q]
  /\ depsAllowWrite' = depsAllowWrite

LEMMA SameKeeps ==
  ASSUME NEW q \in Runs, RunInv(q), Same(q)
  PROVE  RunInv(q)'
BY DEF RunInv, Same, Ordered, Reported, Earned, Honest

LEMMA RankValues ==
  Rank("none") = 1 /\ Rank("untrusted") = 2 /\ Rank("trusted-read") = 3 /\ Rank("trusted-write") = 4
BY DEF Rank, TrustOrder

\* Only a writer whose repository opted in may ask for a fix.
LEMMA FixNeedsWriter ==
  ASSUME NEW a \in Actors, NEW allow \in BOOLEAN,
         MeetsTrust(Resolve(a, "fix", allow), MinTrust["fix"])
  PROVE  a = "writer" /\ allow
BY RankValues DEF Resolve, MeetsTrust, MinTrust, Actors

LEMMA RunInvHolds ==
  ASSUME Inv, [Next]_vars
  PROVE  \A r \in Runs : RunInv(r)'
<1> Types /\ Types'
  BY TypesHold DEF Inv
<1> USE DEF Await, Throws, Returns, Terminal, FailureStatuses, Hoisted, BlockedStatus, Did, Learns,
            settledVars
<1>1. ASSUME NEW r \in Runs, Start(r) PROVE \A q \in Runs : RunInv(q)'
  <2>1. \A q \in Runs \ {r} : Same(q)
    BY <1>1 DEF Start, Same, Types
  <2>2. Ordered(r)'
    BY <1>1 DEF Start, Types, Inv, RunInv, Ordered, FixStages, Unpublished
  <2>3. Reported(r)'
    BY <1>1 DEF Start, Types, Inv, RunInv, Ordered, Reported, FixStages, Unpublished
  <2>4. Earned(r)'
    BY <1>1 DEF Start, Types, Inv, RunInv, Ordered, Earned, FixStages, Unpublished
  <2>5. Honest(r)'
    BY <1>1 DEF Start, Types, Inv, RunInv, Ordered, Honest, FixStages, Unpublished
  <2>6. QED BY <2>1, <2>2, <2>3, <2>4, <2>5, SameKeeps DEF RunInv, Inv
<1>2. ASSUME NEW r \in Runs, AuthorizeEnds(r) PROVE \A q \in Runs : RunInv(q)'
  <2>1. \A q \in Runs \ {r} : Same(q)
    BY <1>2 DEF AuthorizeEnds, Same, Types
  <2>2. Ordered(r)'
    BY <1>2, FixNeedsWriter DEF AuthorizeEnds, Types, Inv, RunInv, Ordered, FixStages, Unpublished
  <2>3. Reported(r)'
    BY <1>2 DEF AuthorizeEnds, Types, Inv, RunInv, Ordered, Reported, FixStages, Unpublished
  <2>4. Earned(r)'
    BY <1>2 DEF AuthorizeEnds, Types, Inv, RunInv, Ordered, Earned, FixStages, Unpublished
  <2>5. Honest(r)'
    BY <1>2 DEF AuthorizeEnds, Types, Inv, RunInv, Ordered, Honest, FixStages, Unpublished
  <2>6. QED BY <2>1, <2>2, <2>3, <2>4, <2>5, SameKeeps DEF RunInv, Inv
<1>3. ASSUME NEW r \in Runs, RecordEnds(r) PROVE \A q \in Runs : RunInv(q)'
  <2>1. \A q \in Runs \ {r} : Same(q)
    BY <1>3 DEF RecordEnds, Same, Types
  <2>2. Ordered(r)'
    <3>1. effects[r] = {} /\ known[r] = {} /\ gate[r] # "failed"
      BY <1>3 DEF RecordEnds, Inv, RunInv, Ordered, Unpublished
    <3>2. \/ stage'[r] = "done"
          \/ stage'[r] = "reply" /\ effects'[r] = {"recorded"}
      BY <1>3, <3>1 DEF RecordEnds, Types
    <3>3. intent'[r] = "fix" => actor'[r] = "writer" /\ depsAllowWrite'
      BY <1>3 DEF RecordEnds, Inv, RunInv, Ordered
    <3>4. known'[r] = {} /\ gate'[r] # "failed"
      BY <1>3, <3>1 DEF RecordEnds
    <3>5. QED BY <3>2, <3>3, <3>4 DEF Ordered, FixStages, Unpublished
  <2>3. Reported(r)'
    <3>1. effects[r] = {} /\ known[r] = {}
      BY <1>3 DEF RecordEnds, Inv, RunInv, Ordered, Unpublished
    <3>2. effects'[r] \subseteq {"recorded"} /\ known'[r] = {}
      BY <1>3, <3>1 DEF RecordEnds, Types
    <3>3. QED BY <3>2 DEF Reported
  <2>4. Earned(r)'
    BY <1>3 DEF RecordEnds, Types, Inv, RunInv, Ordered, Earned, FixStages, Unpublished
  <2>5. Honest(r)'
    BY <1>3 DEF RecordEnds, Types, Inv, RunInv, Ordered, Honest, FixStages, Unpublished
  <2>6. QED BY <2>1, <2>2, <2>3, <2>4, <2>5, SameKeeps DEF RunInv, Inv
<1>4. ASSUME NEW r \in Runs, ReplyEnds(r) PROVE \A q \in Runs : RunInv(q)'
  <2>1. \A q \in Runs \ {r} : Same(q)
    BY <1>4 DEF ReplyEnds, Same, Types
  <2>2. Ordered(r)'
    BY <1>4 DEF ReplyEnds, Types, Inv, RunInv, Ordered, FixStages, Unpublished
  <2>3. Reported(r)'
    BY <1>4 DEF ReplyEnds, Types, Inv, RunInv, Ordered, Reported, FixStages, Unpublished
  <2>4. Earned(r)'
    BY <1>4 DEF ReplyEnds, Types, Inv, RunInv, Ordered, Earned, FixStages, Unpublished
  <2>5. Honest(r)'
    BY <1>4 DEF ReplyEnds, Types, Inv, RunInv, Ordered, Honest, FixStages, Unpublished
  <2>6. QED BY <2>1, <2>2, <2>3, <2>4, <2>5, SameKeeps DEF RunInv, Inv
<1>5. ASSUME NEW r \in Runs, DiffEnds(r) PROVE \A q \in Runs : RunInv(q)'
  <2>1. \A q \in Runs \ {r} : Same(q)
    BY <1>5 DEF DiffEnds, Same, Types
  <2>2. Ordered(r)'
    BY <1>5 DEF DiffEnds, Types, Inv, RunInv, Ordered, FixStages, Unpublished
  <2>3. Reported(r)'
    BY <1>5 DEF DiffEnds, Types, Inv, RunInv, Ordered, Reported, FixStages, Unpublished
  <2>4. Earned(r)'
    BY <1>5 DEF DiffEnds, Types, Inv, RunInv, Ordered, Earned, FixStages, Unpublished
  <2>5. Honest(r)'
    BY <1>5 DEF DiffEnds, Types, Inv, RunInv, Ordered, Honest, FixStages, Unpublished
  <2>6. QED BY <2>1, <2>2, <2>3, <2>4, <2>5, SameKeeps DEF RunInv, Inv
<1>6. ASSUME NEW r \in Runs, ContextEnds(r) PROVE \A q \in Runs : RunInv(q)'
  <2>1. \A q \in Runs \ {r} : Same(q)
    BY <1>6 DEF ContextEnds, Same, Types
  <2>2. Ordered(r)'
    BY <1>6 DEF ContextEnds, Types, Inv, RunInv, Ordered, FixStages, Unpublished
  <2>3. Reported(r)'
    BY <1>6 DEF ContextEnds, Types, Inv, RunInv, Ordered, Reported, FixStages, Unpublished
  <2>4. Earned(r)'
    BY <1>6 DEF ContextEnds, Types, Inv, RunInv, Ordered, Earned, FixStages, Unpublished
  <2>5. Honest(r)'
    BY <1>6 DEF ContextEnds, Types, Inv, RunInv, Ordered, Honest, FixStages, Unpublished
  <2>6. QED BY <2>1, <2>2, <2>3, <2>4, <2>5, SameKeeps DEF RunInv, Inv
<1>7. ASSUME NEW r \in Runs, ShardsEnd(r) PROVE \A q \in Runs : RunInv(q)'
  <2>1. \A q \in Runs \ {r} : Same(q)
    BY <1>7 DEF ShardsEnd, Same, Types
  <2>2. Ordered(r)'
    BY <1>7 DEF ShardsEnd, Types, Inv, RunInv, Ordered, FixStages, Unpublished
  <2>3. Reported(r)'
    BY <1>7 DEF ShardsEnd, Types, Inv, RunInv, Ordered, Reported, FixStages, Unpublished
  <2>4. Earned(r)'
    BY <1>7 DEF ShardsEnd, Types, Inv, RunInv, Ordered, Earned, FixStages, Unpublished
  <2>5. Honest(r)'
    BY <1>7 DEF ShardsEnd, Types, Inv, RunInv, Ordered, Honest, FixStages, Unpublished
  <2>6. QED BY <2>1, <2>2, <2>3, <2>4, <2>5, SameKeeps DEF RunInv, Inv
<1>8. ASSUME NEW r \in Runs, AgentStarts(r) PROVE \A q \in Runs : RunInv(q)'
  <2>1. \A q \in Runs \ {r} : Same(q)
    BY <1>8 DEF AgentStarts, Same, Types
  <2>2. Ordered(r)'
    BY <1>8 DEF AgentStarts, Types, Inv, RunInv, Ordered, FixStages, Unpublished
  <2>3. Reported(r)'
    BY <1>8 DEF AgentStarts, Types, Inv, RunInv, Ordered, Reported, FixStages, Unpublished
  <2>4. Earned(r)'
    BY <1>8 DEF AgentStarts, Types, Inv, RunInv, Ordered, Earned, FixStages, Unpublished
  <2>5. Honest(r)'
    BY <1>8 DEF AgentStarts, Types, Inv, RunInv, Ordered, Honest, FixStages, Unpublished
  <2>6. QED BY <2>1, <2>2, <2>3, <2>4, <2>5, SameKeeps DEF RunInv, Inv
<1>9. ASSUME NEW r \in Runs, AgentEnds(r) PROVE \A q \in Runs : RunInv(q)'
  <2>1. \A q \in Runs \ {r} : Same(q)
    BY <1>9 DEF AgentEnds, Same, Types
  <2>2. Ordered(r)'
    BY <1>9 DEF AgentEnds, Types, Inv, RunInv, Ordered, FixStages, Unpublished
  <2>3. Reported(r)'
    BY <1>9 DEF AgentEnds, Types, Inv, RunInv, Ordered, Reported, FixStages, Unpublished
  <2>4. Earned(r)'
    BY <1>9 DEF AgentEnds, Types, Inv, RunInv, Ordered, Earned, FixStages, Unpublished
  <2>5. Honest(r)'
    BY <1>9 DEF AgentEnds, Types, Inv, RunInv, Ordered, Honest, FixStages, Unpublished
  <2>6. QED BY <2>1, <2>2, <2>3, <2>4, <2>5, SameKeeps DEF RunInv, Inv
<1>10. ASSUME NEW r \in Runs, Disposed(r) PROVE \A q \in Runs : RunInv(q)'
  <2>1. \A q \in Runs \ {r} : Same(q)
    BY <1>10 DEF Disposed, Same, Types
  <2>2. Ordered(r)'
    BY <1>10 DEF Disposed, Types, Inv, RunInv, Ordered, FixStages, Unpublished
  <2>3. Reported(r)'
    BY <1>10 DEF Disposed, Types, Inv, RunInv, Ordered, Reported, FixStages, Unpublished
  <2>4. Earned(r)'
    BY <1>10 DEF Disposed, Types, Inv, RunInv, Ordered, Earned, FixStages, Unpublished
  <2>5. Honest(r)'
    BY <1>10 DEF Disposed, Types, Inv, RunInv, Ordered, Honest, FixStages, Unpublished
  <2>6. QED BY <2>1, <2>2, <2>3, <2>4, <2>5, SameKeeps DEF RunInv, Inv
<1>11. ASSUME NEW r \in Runs, RecallEnds(r) PROVE \A q \in Runs : RunInv(q)'
  <2>1. \A q \in Runs \ {r} : Same(q)
    BY <1>11 DEF RecallEnds, Same, Types
  <2>2. Ordered(r)'
    BY <1>11 DEF RecallEnds, Types, Inv, RunInv, Ordered, FixStages, Unpublished
  <2>3. Reported(r)'
    BY <1>11 DEF RecallEnds, Types, Inv, RunInv, Ordered, Reported, FixStages, Unpublished
  <2>4. Earned(r)'
    BY <1>11 DEF RecallEnds, Types, Inv, RunInv, Ordered, Earned, FixStages, Unpublished
  <2>5. Honest(r)'
    BY <1>11 DEF RecallEnds, Types, Inv, RunInv, Ordered, Honest, FixStages, Unpublished
  <2>6. QED BY <2>1, <2>2, <2>3, <2>4, <2>5, SameKeeps DEF RunInv, Inv
<1>12. ASSUME NEW r \in Runs, InlineEnds(r) PROVE \A q \in Runs : RunInv(q)'
  <2>1. \A q \in Runs \ {r} : Same(q)
    BY <1>12 DEF InlineEnds, Same, Types
  <2>2. Ordered(r)'
    BY <1>12 DEF InlineEnds, Types, Inv, RunInv, Ordered, FixStages, Unpublished
  <2>3. Reported(r)'
    BY <1>12 DEF InlineEnds, Types, Inv, RunInv, Ordered, Reported, FixStages, Unpublished
  <2>4. Earned(r)'
    BY <1>12 DEF InlineEnds, Types, Inv, RunInv, Ordered, Earned, FixStages, Unpublished
  <2>5. Honest(r)'
    BY <1>12 DEF InlineEnds, Types, Inv, RunInv, Ordered, Honest, FixStages, Unpublished
  <2>6. QED BY <2>1, <2>2, <2>3, <2>4, <2>5, SameKeeps DEF RunInv, Inv
<1>13. ASSUME NEW r \in Runs, SummaryEnds(r) PROVE \A q \in Runs : RunInv(q)'
  <2>1. \A q \in Runs \ {r} : Same(q)
    BY <1>13 DEF SummaryEnds, Same, Types
  <2>2. Ordered(r)'
    BY <1>13 DEF SummaryEnds, Types, Inv, RunInv, Ordered, FixStages, Unpublished
  <2>3. Reported(r)'
    BY <1>13 DEF SummaryEnds, Types, Inv, RunInv, Ordered, Reported, FixStages, Unpublished
  <2>4. Earned(r)'
    BY <1>13 DEF SummaryEnds, Types, Inv, RunInv, Ordered, Earned, FixStages, Unpublished
  <2>5. Honest(r)'
    BY <1>13 DEF SummaryEnds, Types, Inv, RunInv, Ordered, Honest, FixStages, Unpublished
  <2>6. QED BY <2>1, <2>2, <2>3, <2>4, <2>5, SameKeeps DEF RunInv, Inv
<1>14. ASSUME NEW r \in Runs, PlanEnds(r) PROVE \A q \in Runs : RunInv(q)'
  <2>1. \A q \in Runs \ {r} : Same(q)
    BY <1>14 DEF PlanEnds, Same, Types
  <2>2. Ordered(r)'
    BY <1>14 DEF PlanEnds, Types, Inv, RunInv, Ordered, FixStages, Unpublished
  <2>3. Reported(r)'
    BY <1>14 DEF PlanEnds, Types, Inv, RunInv, Ordered, Reported, FixStages, Unpublished
  <2>4. Earned(r)'
    BY <1>14 DEF PlanEnds, Types, Inv, RunInv, Ordered, Earned, FixStages, Unpublished
  <2>5. Honest(r)'
    BY <1>14 DEF PlanEnds, Types, Inv, RunInv, Ordered, Honest, FixStages, Unpublished
  <2>6. QED BY <2>1, <2>2, <2>3, <2>4, <2>5, SameKeeps DEF RunInv, Inv
<1>15. ASSUME NEW r \in Runs, WriteEnds(r) PROVE \A q \in Runs : RunInv(q)'
  <2>1. \A q \in Runs \ {r} : Same(q)
    BY <1>15 DEF WriteEnds, Same, Types
  <2>2. Ordered(r)'
    <3>1. /\ "findings" \in known[r] /\ intent[r] = "fix" /\ "summary" \in effects[r]
          /\ actor[r] = "writer" /\ depsAllowWrite /\ gate[r] # "failed"
          /\ "committed" \notin effects[r]
      BY <1>15 DEF WriteEnds, Inv, RunInv, Ordered, FixStages
    <3>2. \/ stage'[r] = "done"
          \/ stage'[r] \in {"gate", "commit"} /\ effects'[r] = effects[r] \cup {"written"}
      BY <1>15 DEF WriteEnds, Types
    <3>3. /\ known'[r] = known[r] /\ intent'[r] = intent[r] /\ actor'[r] = actor[r]
          /\ depsAllowWrite' = depsAllowWrite /\ gate'[r] = gate[r]
      BY <1>15 DEF WriteEnds
    <3>4. QED BY <3>1, <3>2, <3>3 DEF Ordered, FixStages, Unpublished
  <2>3. Reported(r)'
    BY <1>15 DEF WriteEnds, Types, Inv, RunInv, Ordered, Reported, FixStages, Unpublished
  <2>4. Earned(r)'
    BY <1>15 DEF WriteEnds, Types, Inv, RunInv, Ordered, Earned, FixStages, Unpublished
  <2>5. Honest(r)'
    BY <1>15 DEF WriteEnds, Types, Inv, RunInv, Ordered, Honest, FixStages, Unpublished
  <2>6. QED BY <2>1, <2>2, <2>3, <2>4, <2>5, SameKeeps DEF RunInv, Inv
<1>16. ASSUME NEW r \in Runs, GateEnds(r) PROVE \A q \in Runs : RunInv(q)'
  <2>1. \A q \in Runs \ {r} : Same(q)
    BY <1>16 DEF GateEnds, Same, Types
  <2>2. Ordered(r)'
    BY <1>16 DEF GateEnds, Types, Inv, RunInv, Ordered, FixStages, Unpublished
  <2>3. Reported(r)'
    BY <1>16 DEF GateEnds, Types, Inv, RunInv, Ordered, Reported, FixStages, Unpublished
  <2>4. Earned(r)'
    BY <1>16 DEF GateEnds, Types, Inv, RunInv, Ordered, Earned, FixStages, Unpublished
  <2>5. Honest(r)'
    BY <1>16 DEF GateEnds, Types, Inv, RunInv, Ordered, Honest, FixStages, Unpublished
  <2>6. QED BY <2>1, <2>2, <2>3, <2>4, <2>5, SameKeeps DEF RunInv, Inv
<1>17. ASSUME NEW r \in Runs, GateCommentEnds(r) PROVE \A q \in Runs : RunInv(q)'
  <2>1. \A q \in Runs \ {r} : Same(q)
    BY <1>17 DEF GateCommentEnds, Same, Types
  <2>2. Ordered(r)'
    BY <1>17 DEF GateCommentEnds, Types, Inv, RunInv, Ordered, FixStages, Unpublished
  <2>3. Reported(r)'
    BY <1>17 DEF GateCommentEnds, Types, Inv, RunInv, Ordered, Reported, FixStages, Unpublished
  <2>4. Earned(r)'
    BY <1>17 DEF GateCommentEnds, Types, Inv, RunInv, Ordered, Earned, FixStages, Unpublished
  <2>5. Honest(r)'
    BY <1>17 DEF GateCommentEnds, Types, Inv, RunInv, Ordered, Honest, FixStages, Unpublished
  <2>6. QED BY <2>1, <2>2, <2>3, <2>4, <2>5, SameKeeps DEF RunInv, Inv
<1>18. ASSUME NEW r \in Runs, CommitEnds(r) PROVE \A q \in Runs : RunInv(q)'
  <2>1. \A q \in Runs \ {r} : Same(q)
    BY <1>18 DEF CommitEnds, Same, Types
  <2>2. Ordered(r)'
    BY <1>18 DEF CommitEnds, Types, Inv, RunInv, Ordered, FixStages, Unpublished
  <2>3. Reported(r)'
    BY <1>18 DEF CommitEnds, Types, Inv, RunInv, Ordered, Reported, FixStages, Unpublished
  <2>4. Earned(r)'
    <3>1. /\ "written" \in effects[r] /\ "summary" \in effects[r] /\ gate[r] # "failed"
          /\ intent[r] = "fix" /\ actor[r] = "writer" /\ depsAllowWrite
      BY <1>18 DEF CommitEnds, Inv, RunInv, Ordered, FixStages
    <3>2. "written" \in effects'[r] /\ "summary" \in effects'[r]
      BY <1>18, <3>1 DEF CommitEnds, Types
    <3>3. QED BY <1>18, <3>1, <3>2 DEF CommitEnds, Earned
  <2>5. Honest(r)'
    BY <1>18 DEF CommitEnds, Types, Inv, RunInv, Ordered, Honest, FixStages, Unpublished
  <2>6. QED BY <2>1, <2>2, <2>3, <2>4, <2>5, SameKeeps DEF RunInv, Inv
<1>19. ASSUME NEW r \in Runs, Watchdog(r) PROVE \A q \in Runs : RunInv(q)'
  <2>1. \A q \in Runs \ {r} : Same(q)
    BY <1>19 DEF Watchdog, Same, Types
  <2>2. Ordered(r)'
    BY <1>19 DEF Watchdog, Types, Inv, RunInv, Ordered, FixStages, Unpublished
  <2>3. Reported(r)'
    BY <1>19 DEF Watchdog, Types, Inv, RunInv, Ordered, Reported, FixStages, Unpublished
  <2>4. Earned(r)'
    BY <1>19 DEF Watchdog, Types, Inv, RunInv, Ordered, Earned, FixStages, Unpublished
  <2>5. Honest(r)'
    BY <1>19 DEF Watchdog, Types, Inv, RunInv, Ordered, Honest, FixStages, Unpublished
  <2>6. QED BY <2>1, <2>2, <2>3, <2>4, <2>5, SameKeeps DEF RunInv, Inv
<1>20. ASSUME Toggle \/ UNCHANGED vars PROVE \A q \in Runs : RunInv(q)'
  BY <1>20, SameKeeps DEF Toggle, vars, runVars, Same, Inv
<1>21. QED
  BY <1>1, <1>2, <1>3, <1>4, <1>5, <1>6, <1>7, <1>8, <1>9, <1>10, <1>11, <1>12, <1>13, <1>14, <1>15, <1>16, <1>17, <1>18, <1>19, <1>20 DEF Next, StageEnds, ServiceEnds, WorkEnds

-----------------------------------------------------------------------------
(* The driver's bound. *)

Bounded == IsFiniteSet(InProgress) /\ Cardinality(InProgress) <= maxConcurrent

LEMMA BoundHolds ==
  ASSUME Types, Bounded, [Next]_vars
  PROVE  Bounded'
<1>1. ASSUME NEW r \in Runs, Start(r) PROVE Bounded'
  <2>1. InProgress' \in SUBSET (InProgress \cup {r})
    BY <1>1 DEF Start, InProgress, Types, Throws, Returns, Terminal, Await
  <2>2. /\ IsFiniteSet(InProgress \cup {r})
        /\ Cardinality(InProgress \cup {r}) <= Cardinality(InProgress) + 1
        /\ Cardinality(InProgress) \in Nat
        /\ Cardinality(InProgress \cup {r}) \in Nat
    <3>1. IsFiniteSet(InProgress) /\ Cardinality(InProgress) \in Nat
      BY FS_CardinalityType DEF Bounded
    <3>2. /\ IsFiniteSet(InProgress \cup {r})
          /\ Cardinality(InProgress \cup {r})
               = IF r \in InProgress THEN Cardinality(InProgress) ELSE Cardinality(InProgress) + 1
      BY <3>1, FS_AddElement
    <3>3. QED BY <3>1, <3>2
  <2>3. Cardinality(InProgress) < maxConcurrent
    BY <1>1 DEF Start, HasRoom
  <2>4. /\ IsFiniteSet(InProgress')
        /\ Cardinality(InProgress') <= Cardinality(InProgress \cup {r})
        /\ Cardinality(InProgress') \in Nat
    BY <2>1, <2>2, FS_Subset, FS_CardinalityType
  <2>5. Cardinality(InProgress') <= maxConcurrent
    BY <2>2, <2>3, <2>4, PipelineConstants DEF PipelineConstants
  <2>6. QED BY <2>4, <2>5 DEF Bounded
<1>2. ASSUME InProgress' \in SUBSET InProgress PROVE Bounded'
  <2>1. /\ IsFiniteSet(InProgress')
        /\ Cardinality(InProgress') <= Cardinality(InProgress)
    BY <1>2, FS_Subset DEF Bounded
  <2>2. Cardinality(InProgress) \in Nat /\ Cardinality(InProgress') \in Nat
    BY <2>1, FS_CardinalityType DEF Bounded
  <2>3. Cardinality(InProgress') <= maxConcurrent
    BY <2>1, <2>2, PipelineConstants DEF Bounded, PipelineConstants
  <2>4. QED BY <2>1, <2>3 DEF Bounded
<1>3. ASSUME NEW r \in Runs, StageEnds(r) \/ Watchdog(r)
      PROVE  InProgress' \in SUBSET InProgress
  <2>1. r \in InProgress /\ (\A q \in Runs \ {r} : stage'[q] = stage[q])
    BY <1>3 DEF StageEnds, ServiceEnds, WorkEnds, ShardsEnd, AuthorizeEnds, RecordEnds, ReplyEnds, DiffEnds, ContextEnds, AgentStarts,
                Disposed, RecallEnds, InlineEnds, SummaryEnds, PlanEnds, WriteEnds, GateEnds,
                GateCommentEnds, CommitEnds, AgentEnds, Watchdog, Types, InProgress, Throws,
                Returns, Terminal, Await
  <2>2. QED BY <2>1 DEF InProgress
<1>4. ASSUME Toggle \/ UNCHANGED vars PROVE InProgress' \in SUBSET InProgress
  BY <1>4 DEF Toggle, vars, runVars, InProgress
<1>5. QED BY <1>1, <1>2, <1>3, <1>4 DEF Next

-----------------------------------------------------------------------------
(* Scopes, when runs do not overlap. *)

\* The awaits at which a run has bound a slot.
ScopeOf ==
  LET trusted == {"diff", "context", "shards", "create", "agent", "dispose", "giveUp", "recall",
                  "inline", "summary"} \cup FixStages
  IN  [input |-> trusted, writeContext |-> trusted \ {"diff"},
       toolContext |-> {"agent", "dispose", "giveUp"}]

Scoped ==
  /\ \A r \in Runs, s \in Slots :
       /\ saved[r][s] = IF stage[r] \in ScopeOf[s] THEN None ELSE Unbound
       /\ stage[r] \in ScopeOf[s] => slot[s] = r
  /\ \A s \in Slots : slot[s] # None => stage[slot[s]] \in ScopeOf[s]

\* A run that is alone in progress, or about to be.
Alone(r) == \A q \in Runs \ {r} : stage[q] \in {"new", "done"}

LEMMA RunsAreAlone ==
  ASSUME Types, Bounded, maxConcurrent = 1, NEW r \in Runs, r \in InProgress \/ HasRoom
  PROVE  Alone(r)
<1>1. Cardinality(InProgress) \in Nat
  BY FS_CardinalityType DEF Bounded
<1>2. CASE r \in InProgress
  <2>1. Cardinality(InProgress) # 0
    BY <1>2, FS_EmptySet DEF Bounded
  <2>2. Cardinality(InProgress) = 1
    BY <1>1, <2>1 DEF Bounded
  <2>3. PICK x : InProgress = {x}
    BY <2>2, FS_Singleton DEF Bounded
  <2>4. InProgress = {r}
    BY <1>2, <2>3
  <2>5. QED BY <2>4 DEF Alone, InProgress
<1>3. CASE HasRoom
  <2>1. Cardinality(InProgress) = 0
    BY <1>1, <1>3 DEF HasRoom
  <2>2. InProgress = {}
    BY <2>1, FS_EmptySet DEF Bounded
  <2>3. QED BY <2>2 DEF Alone, InProgress
<1>4. QED BY <1>2, <1>3

\* What a step of a run does to a slot agrees with the await it reaches.
Kept(r, s) ==
  /\ slot'[s] = slot[s] /\ saved'[r][s] = saved[r][s]
  /\ stage'[r] \in ScopeOf[s] <=> stage[r] \in ScopeOf[s]
Taken(r, s) ==
  /\ slot'[s] = r /\ saved'[r][s] = slot[s]
  /\ stage'[r] \in ScopeOf[s] /\ stage[r] \notin ScopeOf[s]
Restored(r, s) ==
  /\ slot'[s] = (IF saved[r][s] # Unbound THEN saved[r][s] ELSE slot[s])
  /\ saved'[r][s] = Unbound
  /\ stage'[r] \notin ScopeOf[s]
Moves(r) ==
  /\ \A q \in Runs \ {r} : stage'[q] = stage[q] /\ saved'[q] = saved[q]
  /\ \A s \in Slots : Kept(r, s) \/ Taken(r, s) \/ Restored(r, s)

LEMMA ScopeSets ==
  \A s \in Slots : "new" \notin ScopeOf[s] /\ "done" \notin ScopeOf[s]
BY DEF Slots, ScopeOf, FixStages

LEMMA MovesKeepScopes ==
  ASSUME Types, Types', Scoped, NEW r \in Runs, Alone(r), Moves(r)
  PROVE  Scoped'
<1> SUFFICES ASSUME NEW s \in Slots
             PROVE  /\ \A q \in Runs :
                         /\ saved'[q][s] = IF stage'[q] \in ScopeOf[s] THEN None ELSE Unbound
                         /\ stage'[q] \in ScopeOf[s] => slot'[s] = q
                    /\ slot'[s] # None => stage'[slot'[s]] \in ScopeOf[s]
  BY DEF Scoped
<1>1. /\ saved[r][s] = IF stage[r] \in ScopeOf[s] THEN None ELSE Unbound
      /\ stage[r] \in ScopeOf[s] => slot[s] = r
      /\ slot[s] # None => stage[slot[s]] \in ScopeOf[s]
      /\ slot[s] \in Runs \cup {None}
      /\ None # Unbound /\ None \notin Runs
  BY PipelineConstants DEF Scoped, Types, PipelineConstants
<1>2. \A q \in Runs \ {r} : /\ stage'[q] \notin ScopeOf[s] /\ stage[q] \notin ScopeOf[s]
                            /\ saved'[q][s] = Unbound
  BY ScopeSets DEF Alone, Moves, Scoped
<1>3. slot[s] \in {r, None}
  BY <1>1, <1>2
<1>4. CASE Kept(r, s)
  BY <1>1, <1>2, <1>3, <1>4 DEF Kept
<1>5. CASE Taken(r, s)
  <2>1. slot[s] = None
    BY <1>1, <1>3, <1>5 DEF Taken
  <2>2. QED BY <1>1, <1>2, <1>5, <2>1 DEF Taken
<1>6. CASE Restored(r, s)
  <2>1. slot'[s] = None
    BY <1>1, <1>3, <1>6 DEF Restored
  <2>2. QED BY <1>1, <1>2, <1>6, <2>1 DEF Restored
<1>7. QED BY <1>4, <1>5, <1>6 DEF Moves

\* The awaits with the same slots bound.
SameScope(x, y) == \A s \in Slots : x \in ScopeOf[s] <=> y \in ScopeOf[s]

LEMMA SameScopes ==
  /\ SameScope("new", "authorize") /\ SameScope("authorize", "record")
  /\ SameScope("record", "reply") /\ SameScope("context", "create")
  /\ SameScope("context", "recall") /\ SameScope("context", "shards")
  /\ SameScope("shards", "create") /\ SameScope("shards", "recall")
  /\ SameScope("agent", "dispose") /\ SameScope("agent", "giveUp")
  /\ SameScope("recall", "inline") /\ SameScope("inline", "summary")
  /\ SameScope("summary", "plan") /\ SameScope("plan", "write")
  /\ SameScope("write", "gate") /\ SameScope("write", "commit")
  /\ SameScope("gate", "commit") /\ SameScope("gate", "gateComment")
BY DEF SameScope, Slots, ScopeOf, FixStages

Moved(r) == \A s \in Slots : Kept(r, s) \/ Taken(r, s) \/ Restored(r, s)

LEMMA AwaitMoves ==
  ASSUME Types, NEW r \in Runs, NEW n, SameScope(stage[r], n), Await(r, n), UNCHANGED slotVars
  PROVE  Moved(r)
<1>1. stage'[r] = n /\ slot' = slot /\ saved' = saved
  BY DEF Types, Await, slotVars
<1>2. QED BY <1>1 DEF Moved, Kept, SameScope

LEMMA UnwindMoves ==
  ASSUME Types, NEW r \in Runs, NEW S \in SUBSET Slots, Unwind(r, S)
  PROVE  /\ \A s \in S : stage'[r] \notin ScopeOf[s] => Restored(r, s)
         /\ \A s \in Slots \ S : slot'[s] = slot[s] /\ saved'[r][s] = saved[r][s]
<1>1. ASSUME NEW s \in S
      PROVE  /\ slot'[s] = (IF saved[r][s] # Unbound THEN saved[r][s] ELSE slot[s])
             /\ saved'[r][s] = Unbound
  BY DEF Types, Unwind, Held
<1>2. ASSUME NEW s \in Slots \ S PROVE slot'[s] = slot[s] /\ saved'[r][s] = saved[r][s]
  BY DEF Types, Unwind, Held
<1>3. QED BY <1>1, <1>2 DEF Restored

LEMMA ReturnMoves ==
  ASSUME Types, NEW r \in Runs, stage[r] \notin {"agent", "dispose", "giveUp"}, NEW status, NEW told,
         Returns(r, status, told)
  PROVE  Moved(r)
<1>1. stage'[r] = "done" /\ Unwind(r, RunSlots) /\ RunSlots \in SUBSET Slots
  BY DEF Types, Returns, Terminal, RunSlots, Slots
<1>2. \A s \in RunSlots : Restored(r, s)
  BY <1>1, ScopeSets, UnwindMoves
<1>3. stage[r] \notin ScopeOf["toolContext"] /\ stage'[r] \notin ScopeOf["toolContext"]
  BY <1>1 DEF ScopeOf
<1>4. "toolContext" \in Slots \ RunSlots
  BY DEF Slots, RunSlots
<1>5. Kept(r, "toolContext")
  BY <1>1, <1>3, <1>4, UnwindMoves DEF Kept
<1>6. QED BY <1>2, <1>5 DEF Moved, Slots, RunSlots

LEMMA ThrowMoves ==
  ASSUME Types, NEW r \in Runs, stage[r] \notin {"agent", "dispose", "giveUp"}, Throws(r)
  PROVE  Moved(r)
BY ReturnMoves DEF Throws

LEMMA BindMoves ==
  ASSUME Types, NEW r \in Runs, NEW s \in Slots, NEW n, Bind(r, s), Await(r, n),
         n \in ScopeOf[s], stage[r] \notin ScopeOf[s],
         \A t \in Slots \ {s} : n \in ScopeOf[t] <=> stage[r] \in ScopeOf[t]
  PROVE  Moved(r)
<1>1. stage'[r] = n
  BY DEF Types, Await
<1>2. Taken(r, s)
  BY <1>1 DEF Types, Bind, Taken
<1>3. \A t \in Slots \ {s} : Kept(r, t)
  BY <1>1 DEF Types, Bind, Kept
<1>4. QED BY <1>2, <1>3 DEF Moved

LEMMA ScopesHold ==
  ASSUME Types, Types', Bounded, Scoped, maxConcurrent = 1, [Next]_vars
  PROVE  Scoped'
<1>1. ASSUME NEW r \in Runs, Start(r) PROVE Scoped'
  <2>1. \A q \in Runs \ {r} : stage'[q] = stage[q] /\ saved'[q] = saved[q]
    BY <1>1 DEF Start, Types, Await, Throws, Returns, Terminal, Bind, Unwind, slotVars
  <2>2. Moved(r)
    BY <1>1, ReturnMoves, ThrowMoves, AwaitMoves, SameScopes DEF Start
  <2>3. r \in InProgress \/ HasRoom
    BY <1>1 DEF Start, InProgress
  <2>4. QED BY <2>1, <2>2, <2>3, RunsAreAlone, MovesKeepScopes DEF Moves, Moved
<1>2. ASSUME NEW r \in Runs, AuthorizeEnds(r) PROVE Scoped'
  <2>1. \A q \in Runs \ {r} : stage'[q] = stage[q] /\ saved'[q] = saved[q]
    BY <1>2 DEF AuthorizeEnds, Types, Await, Throws, Returns, Terminal, Bind, Unwind, slotVars
  <2>2. Moved(r)
    <3>1. CASE Throws(r)
      BY <1>2, <3>1, ThrowMoves DEF AuthorizeEnds
    <3>2. CASE Bind(r, "input") /\ Await(r, "diff")
      <4>1. /\ "input" \in Slots /\ "diff" \in ScopeOf["input"] /\ "authorize" \notin ScopeOf["input"]
            /\ \A t \in Slots \ {"input"} : "diff" \in ScopeOf[t] <=> "authorize" \in ScopeOf[t]
        BY DEF Slots, ScopeOf, FixStages
      <4>2. QED BY <1>2, <3>2, <4>1, BindMoves DEF AuthorizeEnds
    <3>3. QED BY <1>2, <3>1, <3>2, AwaitMoves, SameScopes DEF AuthorizeEnds
  <2>3. r \in InProgress \/ HasRoom
    BY <1>2 DEF AuthorizeEnds, InProgress
  <2>4. QED BY <2>1, <2>2, <2>3, RunsAreAlone, MovesKeepScopes DEF Moves, Moved
<1>3. ASSUME NEW r \in Runs, RecordEnds(r) PROVE Scoped'
  <2>1. \A q \in Runs \ {r} : stage'[q] = stage[q] /\ saved'[q] = saved[q]
    BY <1>3 DEF RecordEnds, Types, Await, Throws, Returns, Terminal, Bind, Unwind, slotVars
  <2>2. Moved(r)
    BY <1>3, ReturnMoves, ThrowMoves, AwaitMoves, SameScopes DEF RecordEnds
  <2>3. r \in InProgress \/ HasRoom
    BY <1>3 DEF RecordEnds, InProgress
  <2>4. QED BY <2>1, <2>2, <2>3, RunsAreAlone, MovesKeepScopes DEF Moves, Moved
<1>4. ASSUME NEW r \in Runs, ReplyEnds(r) PROVE Scoped'
  <2>1. \A q \in Runs \ {r} : stage'[q] = stage[q] /\ saved'[q] = saved[q]
    BY <1>4 DEF ReplyEnds, Types, Await, Throws, Returns, Terminal, Bind, Unwind, slotVars
  <2>2. Moved(r)
    BY <1>4, ReturnMoves, ThrowMoves, AwaitMoves, SameScopes DEF ReplyEnds
  <2>3. r \in InProgress \/ HasRoom
    BY <1>4 DEF ReplyEnds, InProgress
  <2>4. QED BY <2>1, <2>2, <2>3, RunsAreAlone, MovesKeepScopes DEF Moves, Moved
<1>5. ASSUME NEW r \in Runs, DiffEnds(r) PROVE Scoped'
  <2>1. \A q \in Runs \ {r} : stage'[q] = stage[q] /\ saved'[q] = saved[q]
    BY <1>5 DEF DiffEnds, Types, Await, Throws, Returns, Terminal, Bind, Unwind, slotVars
  <2>2. Moved(r)
    <3>1. CASE Throws(r)
      BY <1>5, <3>1, ThrowMoves DEF DiffEnds
    <3>2. CASE Bind(r, "writeContext") /\ Await(r, "context")
      <4>1. /\ "writeContext" \in Slots /\ "context" \in ScopeOf["writeContext"] /\ "diff" \notin ScopeOf["writeContext"]
            /\ \A t \in Slots \ {"writeContext"} : "context" \in ScopeOf[t] <=> "diff" \in ScopeOf[t]
        BY DEF Slots, ScopeOf, FixStages
      <4>2. QED BY <1>5, <3>2, <4>1, BindMoves DEF DiffEnds
    <3>3. QED BY <1>5, <3>1, <3>2 DEF DiffEnds
  <2>3. r \in InProgress \/ HasRoom
    BY <1>5 DEF DiffEnds, InProgress
  <2>4. QED BY <2>1, <2>2, <2>3, RunsAreAlone, MovesKeepScopes DEF Moves, Moved
<1>6. ASSUME NEW r \in Runs, ContextEnds(r) PROVE Scoped'
  <2>1. \A q \in Runs \ {r} : stage'[q] = stage[q] /\ saved'[q] = saved[q]
    BY <1>6 DEF ContextEnds, Types, Await, Throws, Returns, Terminal, Bind, Unwind, slotVars
  <2>2. Moved(r)
    BY <1>6, ReturnMoves, ThrowMoves, AwaitMoves, SameScopes DEF ContextEnds
  <2>3. r \in InProgress \/ HasRoom
    BY <1>6 DEF ContextEnds, InProgress
  <2>4. QED BY <2>1, <2>2, <2>3, RunsAreAlone, MovesKeepScopes DEF Moves, Moved
<1>7. ASSUME NEW r \in Runs, ShardsEnd(r) PROVE Scoped'
  <2>1. \A q \in Runs \ {r} : stage'[q] = stage[q] /\ saved'[q] = saved[q]
    BY <1>7 DEF ShardsEnd, Types, Await, Throws, Returns, Terminal, Bind, Unwind, slotVars
  <2>2. Moved(r)
    BY <1>7, ReturnMoves, ThrowMoves, AwaitMoves, SameScopes DEF ShardsEnd
  <2>3. r \in InProgress \/ HasRoom
    BY <1>7 DEF ShardsEnd, InProgress
  <2>4. QED BY <2>1, <2>2, <2>3, RunsAreAlone, MovesKeepScopes DEF Moves, Moved
<1>8. ASSUME NEW r \in Runs, AgentStarts(r) PROVE Scoped'
  <2>1. \A q \in Runs \ {r} : stage'[q] = stage[q] /\ saved'[q] = saved[q]
    BY <1>8 DEF AgentStarts, Types, Await, Throws, Returns, Terminal, Bind, Unwind, slotVars
  <2>2. Moved(r)
    <3>1. CASE Throws(r)
      BY <1>8, <3>1, ThrowMoves DEF AgentStarts
    <3>2. CASE Bind(r, "toolContext") /\ Await(r, "agent")
      <4>1. /\ "toolContext" \in Slots /\ "agent" \in ScopeOf["toolContext"] /\ "create" \notin ScopeOf["toolContext"]
            /\ \A t \in Slots \ {"toolContext"} : "agent" \in ScopeOf[t] <=> "create" \in ScopeOf[t]
        BY DEF Slots, ScopeOf, FixStages
      <4>2. QED BY <1>8, <3>2, <4>1, BindMoves DEF AgentStarts
    <3>3. QED BY <1>8, <3>1, <3>2 DEF AgentStarts
  <2>3. r \in InProgress \/ HasRoom
    BY <1>8 DEF AgentStarts, InProgress
  <2>4. QED BY <2>1, <2>2, <2>3, RunsAreAlone, MovesKeepScopes DEF Moves, Moved
<1>9. ASSUME NEW r \in Runs, AgentEnds(r) PROVE Scoped'
  <2>1. \A q \in Runs \ {r} : stage'[q] = stage[q] /\ saved'[q] = saved[q]
    BY <1>9 DEF AgentEnds, Types, Await, Throws, Returns, Terminal, Bind, Unwind, slotVars
  <2>2. Moved(r)
    BY <1>9, ReturnMoves, ThrowMoves, AwaitMoves, SameScopes DEF AgentEnds
  <2>3. r \in InProgress \/ HasRoom
    BY <1>9 DEF AgentEnds, InProgress
  <2>4. QED BY <2>1, <2>2, <2>3, RunsAreAlone, MovesKeepScopes DEF Moves, Moved
<1>10. ASSUME NEW r \in Runs, Disposed(r) PROVE Scoped'
  <2>1. \A q \in Runs \ {r} : stage'[q] = stage[q] /\ saved'[q] = saved[q]
    BY <1>10 DEF Disposed, Types, Await, Throws, Returns, Terminal, Bind, Unwind, slotVars
  <2>2. Moved(r)
    <3>1. CASE Unwind(r, AgentSlots \cup RunSlots) /\ stage'[r] = "done"
      <4>1. AgentSlots \cup RunSlots = Slots
        BY DEF Slots, AgentSlots, RunSlots
      <4>2. QED BY <3>1, <4>1, UnwindMoves, ScopeSets DEF Moved
    <3>2. CASE Unwind(r, AgentSlots) /\ stage'[r] = "recall"
      <4>1. AgentSlots \in SUBSET Slots
        BY DEF Slots, AgentSlots
      <4>2. "recall" \notin ScopeOf["toolContext"] /\ stage[r] \in {"dispose", "giveUp"}
        BY <1>10 DEF ScopeOf, Disposed
      <4>3. \A s \in Slots \ AgentSlots, x \in {"dispose", "giveUp"} :
              "recall" \in ScopeOf[s] <=> x \in ScopeOf[s]
        BY DEF Slots, AgentSlots, ScopeOf
      <4>4. QED BY <3>2, <4>1, <4>2, <4>3, UnwindMoves DEF Moved, Kept, AgentSlots
    <3>3. QED BY <1>10, <3>1, <3>2 DEF Disposed, Terminal, Await, Types
  <2>3. r \in InProgress \/ HasRoom
    BY <1>10 DEF Disposed, InProgress
  <2>4. QED BY <2>1, <2>2, <2>3, RunsAreAlone, MovesKeepScopes DEF Moves, Moved
<1>11. ASSUME NEW r \in Runs, RecallEnds(r) PROVE Scoped'
  <2>1. \A q \in Runs \ {r} : stage'[q] = stage[q] /\ saved'[q] = saved[q]
    BY <1>11 DEF RecallEnds, Types, Await, Throws, Returns, Terminal, Bind, Unwind, slotVars
  <2>2. Moved(r)
    BY <1>11, ReturnMoves, ThrowMoves, AwaitMoves, SameScopes DEF RecallEnds
  <2>3. r \in InProgress \/ HasRoom
    BY <1>11 DEF RecallEnds, InProgress
  <2>4. QED BY <2>1, <2>2, <2>3, RunsAreAlone, MovesKeepScopes DEF Moves, Moved
<1>12. ASSUME NEW r \in Runs, InlineEnds(r) PROVE Scoped'
  <2>1. \A q \in Runs \ {r} : stage'[q] = stage[q] /\ saved'[q] = saved[q]
    BY <1>12 DEF InlineEnds, Types, Await, Throws, Returns, Terminal, Bind, Unwind, slotVars
  <2>2. Moved(r)
    BY <1>12, ReturnMoves, ThrowMoves, AwaitMoves, SameScopes DEF InlineEnds
  <2>3. r \in InProgress \/ HasRoom
    BY <1>12 DEF InlineEnds, InProgress
  <2>4. QED BY <2>1, <2>2, <2>3, RunsAreAlone, MovesKeepScopes DEF Moves, Moved
<1>13. ASSUME NEW r \in Runs, SummaryEnds(r) PROVE Scoped'
  <2>1. \A q \in Runs \ {r} : stage'[q] = stage[q] /\ saved'[q] = saved[q]
    BY <1>13 DEF SummaryEnds, Types, Await, Throws, Returns, Terminal, Bind, Unwind, slotVars
  <2>2. Moved(r)
    BY <1>13, ReturnMoves, ThrowMoves, AwaitMoves, SameScopes DEF SummaryEnds
  <2>3. r \in InProgress \/ HasRoom
    BY <1>13 DEF SummaryEnds, InProgress
  <2>4. QED BY <2>1, <2>2, <2>3, RunsAreAlone, MovesKeepScopes DEF Moves, Moved
<1>14. ASSUME NEW r \in Runs, PlanEnds(r) PROVE Scoped'
  <2>1. \A q \in Runs \ {r} : stage'[q] = stage[q] /\ saved'[q] = saved[q]
    BY <1>14 DEF PlanEnds, Types, Await, Throws, Returns, Terminal, Bind, Unwind, slotVars
  <2>2. Moved(r)
    BY <1>14, ReturnMoves, ThrowMoves, AwaitMoves, SameScopes DEF PlanEnds
  <2>3. r \in InProgress \/ HasRoom
    BY <1>14 DEF PlanEnds, InProgress
  <2>4. QED BY <2>1, <2>2, <2>3, RunsAreAlone, MovesKeepScopes DEF Moves, Moved
<1>15. ASSUME NEW r \in Runs, WriteEnds(r) PROVE Scoped'
  <2>1. \A q \in Runs \ {r} : stage'[q] = stage[q] /\ saved'[q] = saved[q]
    BY <1>15 DEF WriteEnds, Types, Await, Throws, Returns, Terminal, Bind, Unwind, slotVars
  <2>2. Moved(r)
    BY <1>15, ReturnMoves, ThrowMoves, AwaitMoves, SameScopes DEF WriteEnds
  <2>3. r \in InProgress \/ HasRoom
    BY <1>15 DEF WriteEnds, InProgress
  <2>4. QED BY <2>1, <2>2, <2>3, RunsAreAlone, MovesKeepScopes DEF Moves, Moved
<1>16. ASSUME NEW r \in Runs, GateEnds(r) PROVE Scoped'
  <2>1. \A q \in Runs \ {r} : stage'[q] = stage[q] /\ saved'[q] = saved[q]
    BY <1>16 DEF GateEnds, Types, Await, Throws, Returns, Terminal, Bind, Unwind, slotVars
  <2>2. Moved(r)
    BY <1>16, ReturnMoves, ThrowMoves, AwaitMoves, SameScopes DEF GateEnds
  <2>3. r \in InProgress \/ HasRoom
    BY <1>16 DEF GateEnds, InProgress
  <2>4. QED BY <2>1, <2>2, <2>3, RunsAreAlone, MovesKeepScopes DEF Moves, Moved
<1>17. ASSUME NEW r \in Runs, GateCommentEnds(r) PROVE Scoped'
  <2>1. \A q \in Runs \ {r} : stage'[q] = stage[q] /\ saved'[q] = saved[q]
    BY <1>17 DEF GateCommentEnds, Types, Await, Throws, Returns, Terminal, Bind, Unwind, slotVars
  <2>2. Moved(r)
    BY <1>17, ReturnMoves, ThrowMoves, AwaitMoves, SameScopes DEF GateCommentEnds
  <2>3. r \in InProgress \/ HasRoom
    BY <1>17 DEF GateCommentEnds, InProgress
  <2>4. QED BY <2>1, <2>2, <2>3, RunsAreAlone, MovesKeepScopes DEF Moves, Moved
<1>18. ASSUME NEW r \in Runs, CommitEnds(r) PROVE Scoped'
  <2>1. \A q \in Runs \ {r} : stage'[q] = stage[q] /\ saved'[q] = saved[q]
    BY <1>18 DEF CommitEnds, Types, Await, Throws, Returns, Terminal, Bind, Unwind, slotVars
  <2>2. Moved(r)
    BY <1>18, ReturnMoves, ThrowMoves, AwaitMoves, SameScopes DEF CommitEnds
  <2>3. r \in InProgress \/ HasRoom
    BY <1>18 DEF CommitEnds, InProgress
  <2>4. QED BY <2>1, <2>2, <2>3, RunsAreAlone, MovesKeepScopes DEF Moves, Moved
<1>19. ASSUME NEW r \in Runs, Watchdog(r) PROVE Scoped'
  <2>1. \A q \in Runs \ {r} : stage'[q] = stage[q] /\ saved'[q] = saved[q]
    BY <1>19 DEF Watchdog, Types, Await, Throws, Returns, Terminal, Bind, Unwind, slotVars
  <2>2. Moved(r)
    BY <1>19 DEF Watchdog, slotVars, Moved, Kept
  <2>3. r \in InProgress \/ HasRoom
    BY <1>19 DEF Watchdog, InProgress
  <2>4. QED BY <2>1, <2>2, <2>3, RunsAreAlone, MovesKeepScopes DEF Moves, Moved
<1>20. ASSUME Toggle \/ UNCHANGED vars PROVE Scoped'
  BY <1>20 DEF Toggle, vars, runVars, slotVars, Scoped
<1>21. QED
  BY <1>1, <1>2, <1>3, <1>4, <1>5, <1>6, <1>7, <1>8, <1>9, <1>10, <1>11, <1>12, <1>13, <1>14, <1>15, <1>16, <1>17, <1>18, <1>19, <1>20 DEF Next, StageEnds, ServiceEnds, WorkEnds

-----------------------------------------------------------------------------
(* Theorems. *)

LEMMA Initially == Init => Inv /\ Bounded /\ Scoped
<1> SUFFICES ASSUME Init PROVE Inv /\ Bounded /\ Scoped
  OBVIOUS
<1>1. Types
  BY DEF Init, Types, Stages, Intents, Actors, Levels, Facts, Outcomes, Deeds
<1>2. \A r \in Runs : RunInv(r)
  BY DEF Init, RunInv, Ordered, Reported, Earned, Honest, FixStages, Unpublished
<1>3. InProgress = {}
  BY DEF Init, InProgress
<1>4. Bounded
  BY <1>3, FS_EmptySet, PipelineConstants DEF Bounded, PipelineConstants
<1>5. Scoped
  BY ScopeSets DEF Init, Scoped
<1>6. QED BY <1>1, <1>2, <1>4, <1>5 DEF Inv

\* The state is well typed and no more runs overlap than the driver allows.
THEOREM PipelineTypeCorrect == Spec => []TypeOK
<1>1. Init => Types /\ Bounded
  BY Initially DEF Inv
<1>2. Types /\ Bounded /\ [Next]_vars => (Types /\ Bounded)'
  BY TypesHold, BoundHolds
<1>3. Types /\ Bounded => TypeOK
  BY DEF TypeOK, Bounded
<1>4. QED BY <1>1, <1>2, <1>3, PTL DEF Spec

LEMMA Invariance == Spec => []Inv
<1>1. Init => Inv
  BY Initially
<1>2. Inv /\ [Next]_vars => Inv'
  BY TypesHold, RunInvHolds DEF Inv
<1>3. QED BY <1>1, <1>2, PTL DEF Spec

\* The terminal result tells what the run published, however many runs overlap and whatever
\* failed: the variables runReview hoists out of its try are enough for its catch.
THEOREM PublicationIsTold == Spec => []PublishedIsReported
<1>1. Inv => PublishedIsReported
  BY DEF Inv, RunInv, Reported, PublishedIsReported
<1>2. QED BY <1>1, Invariance, PTL

\* Nothing is committed that a writer did not ask for with write mode on, that was not
\* published and written before, or whose validation failed.
THEOREM CommitsEarned == Spec => []CommitsAreEarned
<1>1. Inv => CommitsAreEarned
  BY DEF Inv, RunInv, Earned, CommitsAreEarned
<1>2. QED BY <1>1, Invariance, PTL

\* The verdict of a terminal result tells what happened.
THEOREM VerdictIsHonest == Spec => []HonestVerdict
<1>1. Inv => HonestVerdict
  BY DEF Inv, RunInv, Honest, HonestVerdict
<1>2. QED BY <1>1, Invariance, PTL

LEMMA ScopedInvariance == ASSUME maxConcurrent = 1 PROVE Spec => [](Types /\ Scoped)
<1> DEFINE I == Types /\ Bounded /\ Scoped
<1>1. Init => I
  BY Initially DEF Inv
<1>2. I /\ [Next]_vars => I'
  BY TypesHold, BoundHolds, ScopesHold
<1>3. QED
  BY <1>1, <1>2, PTL DEF Spec

\* What the scopes say of the runs whose agents answer, and of those that write.
LEMMA ScopeParts ==
  ASSUME Types, Scoped, NEW r \in Runs
  PROVE  /\ stage[r] \in {"shards", "agent", "plan", "write"} => slot["writeContext"] = r
         /\ stage[r] \in {"shards", "agent"} => slot["input"] = r
         /\ stage[r] = "agent" => slot["toolContext"] = r
         /\ stage[r] = "shards" => slot["toolContext"] = None
<1> /\ "input" \in Slots /\ "writeContext" \in Slots /\ "toolContext" \in Slots
  BY DEF Slots
<1>1. stage[r] \in {"shards", "agent", "plan", "write"} => stage[r] \in ScopeOf["writeContext"]
  BY DEF ScopeOf, FixStages
<1>2. stage[r] \in {"shards", "agent"} => stage[r] \in ScopeOf["input"]
  BY DEF ScopeOf, FixStages
<1>3. stage[r] = "agent" => stage[r] \in ScopeOf["toolContext"]
  BY DEF ScopeOf
<1>4. ASSUME stage[r] = "shards", slot["toolContext"] # None PROVE FALSE
  <2> DEFINE q == slot["toolContext"]
  <2>1. q \in Runs /\ stage[q] \in ScopeOf["toolContext"]
    BY <1>4 DEF Types, Scoped
  <2>2. stage[q] \in {"agent", "dispose", "giveUp"}
    BY <2>1 DEF ScopeOf
  <2>3. stage[q] \in ScopeOf["input"] /\ stage[q] # "shards"
    BY <2>2 DEF ScopeOf
  <2>4. slot["input"] = q /\ slot["input"] = r
    BY <1>2, <1>4, <2>1, <2>3 DEF Scoped
  <2>5. QED BY <1>4, <2>3, <2>4
<1>5. QED BY <1>1, <1>2, <1>3, <1>4 DEF Scoped

\* Where runs do not overlap, every run is judged by its own slots: the gate, the guard, the
\* review tools and the write plan read what the run itself bound.
THEOREM ScopesAreSound == ASSUME maxConcurrent = 1 PROVE Spec => []ScopesAreOwn
<1>1. Types /\ Scoped => ScopesAreOwn
  BY ScopeParts DEF ScopesAreOwn
<1>2. QED
  BY <1>1, ScopedInvariance, PTL

\* Where runs do not overlap, nothing a run bound survives it, however it ended, although
\* disposers restore what they found: they found nothing.
THEOREM NothingOutlivesItsRun == ASSUME maxConcurrent = 1 PROVE Spec => []NothingStaysBound
<1>1. Types /\ Scoped => NothingStaysBound
  BY ScopeSets DEF Types, Scoped, NothingStaysBound, InProgress
<1>2. QED
  BY <1>1, ScopedInvariance, PTL
=============================================================================
