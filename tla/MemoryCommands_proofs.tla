------------------------- MODULE MemoryCommands_proofs -------------------------
(***************************************************************************)
(* Theorems about MemoryCommands: who is heard, what a denial says, and    *)
(* that a review suppresses what stands accepted.                          *)
(*                                                                         *)
(* A run holds what authorize made of its event and nothing else           *)
(* (JudgedInv), because nothing that the judgement reads changes while the *)
(* run goes on; the rest of the first theorem is the case analysis of the  *)
(* judgement itself, for every payload, answer and change request.  For    *)
(* the second, the keys in the store are those of the commands that stand  *)
(* (HistoryInv), and a key tells what a command is about.                  *)
(***************************************************************************)
EXTENDS MemoryCommands, Findings_proofs

-----------------------------------------------------------------------------
(* Payloads. *)

LEMMA NamesAreTexts ==
  /\ "deliveryId" # NoText /\ "forge" # NoText /\ "unsupported" # NoText /\ "body" # NoText
  /\ "conclusion" # NoText /\ "missing pull_request object" # NoText /\ "base sha" # NoText
  /\ "head sha" # NoText /\ "repository" # NoText /\ "number" # NoText /\ "login" # NoText
  /\ "isFork" # NoText /\ "permission" # NoText /\ "allowWrite" # NoText /\ "intent" # NoText
BY Zenon DEF NoText

\* What ingest accepts has failed none of its checks.
LEMMA ChecksPass ==
  ASSUME NEW raw, IngestFailure(raw) = NoText
  PROVE  \A i \in 1..11 : ~IngestChecks(raw)[i][1]
<1>1. DOMAIN IngestChecks(raw) = 1..11
  BY DEF IngestChecks
<1>2. ASSUME NEW i \in 1..11 PROVE IngestChecks(raw)[i][2] # NoText
  <2> DEFINE checks == IngestChecks(raw)
  <2>1. /\ checks[1][2] = "deliveryId" /\ checks[2][2] = "forge" /\ checks[3][2] = "unsupported"
        /\ checks[4][2] = "body" /\ checks[5][2] = "conclusion"
        /\ checks[6][2] = "missing pull_request object" /\ checks[7][2] = "base sha"
        /\ checks[8][2] = "head sha" /\ checks[9][2] = "repository"
        /\ checks[10][2] = "number" /\ checks[11][2] = "login"
    BY DEF IngestChecks
  <2> HIDE DEF checks
  <2>2. i \in {1, 2, 3, 4, 5, 6, 7, 8, 9, 10, 11}
    OBVIOUS
  <2>3. checks[i][2] # NoText
    BY <2>1, <2>2, NamesAreTexts
  <2>4. QED
    BY <2>3 DEF checks
<1>3. DOMAIN IngestChecks(raw) \in SUBSET Nat
  BY <1>1
<1>4. \A i \in DOMAIN IngestChecks(raw) : IngestChecks(raw)[i][2] # NoText
  BY <1>1, <1>2
<1>5. FirstFailure(IngestChecks(raw)) = NoText
  BY DEF IngestFailure
<1>6. \A i \in DOMAIN IngestChecks(raw) : ~IngestChecks(raw)[i][1]
  BY Zenon, <1>3, <1>4, <1>5, NoneFails
<1>7. QED
  BY <1>1, <1>6

\* A kind that it does not know is none it accepts, and the actor has a name.
LEMMA KnownKind ==
  ASSUME NEW raw, IngestFailure(raw) = NoText
  PROVE  Kind(raw) \in {"comment", "change-request", "check-failed"} /\ ActorLogin(raw) # NoText
<1>1. /\ IngestChecks(raw)[3][1] <=> Kind(raw) = "unsupported"
      /\ IngestChecks(raw)[11][1] <=> ActorLogin(raw) = NoText
  BY DEF IngestChecks
<1>2. ~IngestChecks(raw)[3][1] /\ ~IngestChecks(raw)[11][1]
  BY ChecksPass
<1>3. Kind(raw) # "unsupported" /\ ActorLogin(raw) # NoText
  BY <1>1, <1>2
<1>4. QED
  BY <1>3 DEF Kind

-----------------------------------------------------------------------------
(***************************************************************************)
(* Trust: the tables, and what authorize and explainDenial make of them.   *)
(***************************************************************************)
Intents == {"none", "review", "explain", "rules", "diagnose", "accept", "forget", "fix"}
Harmless == {"review", "explain", "rules"}
Trusts == {"none", "untrusted", "trusted-read", "trusted-write"}

LEMMA MinTrustTable ==
  ASSUME NEW i \in Intents
  PROVE  /\ i \in Harmless => IntentMinTrust[i] = "untrusted"
         /\ i \in {"diagnose", "accept", "forget"} => IntentMinTrust[i] = "trusted-read"
         /\ i = "fix" => IntentMinTrust[i] = "trusted-write"
         /\ i = "none" => IntentMinTrust[i] = "none"
BY DEF IntentMinTrust, Intents, Harmless

LEMMA CommandsHaveIntents == \A verb \in DOMAIN CommandIntent : CommandIntent[verb] \in Intents
BY DEF CommandIntent, Intents, AcceptVerbs, ForgetVerbs

LEMMA MeetsTable ==
  ASSUME NEW minimum \in Trusts
  PROVE  /\ MeetsTrust("none", minimum) <=> minimum = "none"
         /\ MeetsTrust("untrusted", minimum) <=> minimum \in {"none", "untrusted"}
         /\ MeetsTrust("trusted-read", minimum) <=> minimum # "trusted-write"
         /\ MeetsTrust("trusted-write", minimum)
<1> DEFINE Rank(level) == CHOOSE i \in DOMAIN TrustOrder : TrustOrder[i] = level
<1>1. DOMAIN TrustOrder = 1..4 /\ TrustOrder[1] = "none" /\ TrustOrder[2] = "untrusted"
      /\ TrustOrder[3] = "trusted-read" /\ TrustOrder[4] = "trusted-write"
  BY DEF TrustOrder
<1>2. /\ Rank("none") = 1 /\ Rank("untrusted") = 2
      /\ Rank("trusted-read") = 3 /\ Rank("trusted-write") = 4
  BY <1>1
<1>3. \A a, b : MeetsTrust(a, b) <=> Rank(a) >= Rank(b)
  BY DEF MeetsTrust
<1> HIDE DEF Rank
<1>4. QED
  BY <1>2, <1>3 DEF Trusts

\* An input of the trust policy.
InputOf(fork, permission, intent, allow) ==
  [isFork |-> fork, permission |-> permission, intent |-> intent, allowWrite |-> allow]

LEMMA InputFields ==
  ASSUME NEW f, NEW p, NEW i, NEW w
  PROVE  /\ InputOf(f, p, i, w).isFork = f
         /\ InputOf(f, p, i, w).permission = p
         /\ InputOf(f, p, i, w).intent = i
         /\ InputOf(f, p, i, w).allowWrite = w
BY DEF InputOf

\* Who is authorized, in the four words of the policy.
Authorized(fork, permission, intent, allow) ==
  IF fork THEN intent \in Harmless
  ELSE permission \in WritePermissions /\ (intent = "fix" => allow)

LEMMA TrustTable ==
  ASSUME NEW f \in BOOLEAN, NEW p, NEW i \in Intents \ {"none"}, NEW w \in BOOLEAN
  PROVE  LET trust == ResolveTrust(InputOf(f, p, i, w))
         IN  /\ trust \in Trusts
             /\ MeetsTrust(trust, IntentMinTrust[i]) <=> Authorized(f, p, i, w)
             /\ Authorized(f, p, i, w) => trust # "none"
<1> DEFINE trust == ResolveTrust(InputOf(f, p, i, w))
<1>1. trust = IF f THEN "untrusted"
              ELSE IF p \notin WritePermissions THEN "none"
              ELSE IF i # "fix" THEN "trusted-read"
              ELSE IF w THEN "trusted-write" ELSE "none"
  BY InputFields DEF ResolveTrust, Intents
<1> HIDE DEF trust
<1>2. IntentMinTrust[i] \in Trusts
  BY MinTrustTable DEF Intents, Trusts, Harmless
<1>3. trust \in Trusts
  BY <1>1 DEF Trusts
<1>4. MeetsTrust(trust, IntentMinTrust[i]) <=> Authorized(f, p, i, w)
  BY <1>1, <1>2, MinTrustTable, MeetsTable DEF Authorized, Intents, Harmless
<1>5. Authorized(f, p, i, w) => trust # "none"
  BY <1>1 DEF Authorized
<1>6. QED
  BY <1>3, <1>4, <1>5 DEF trust

LEMMA DenialTable ==
  ASSUME NEW f \in BOOLEAN, NEW p, NEW i \in Intents \ {"none"}, NEW w \in BOOLEAN
  PROVE  ExplainDenial(InputOf(f, p, i, w))
           = IF Authorized(f, p, i, w) THEN NoText
             ELSE IF f THEN "isFork"
             ELSE IF p \notin WritePermissions THEN "permission" ELSE "allowWrite"
<1>1. CASE Authorized(f, p, i, w)
  BY <1>1, TrustTable, InputFields DEF ExplainDenial
<1>2. CASE ~Authorized(f, p, i, w)
  <2>1. ~MeetsTrust(ResolveTrust(InputOf(f, p, i, w)), IntentMinTrust[i])
    BY <1>2, TrustTable
  <2>2. ~f /\ p \in WritePermissions => i = "fix" /\ ~w
    BY <1>2 DEF Authorized
  <2>3. QED
    BY <1>2, <2>1, <2>2, InputFields DEF ExplainDenial
<1>3. QED
  BY <1>1, <1>2

\* What repairing the cause of a denial changes.
WithFork(in, fork) == [in EXCEPT !.isFork = fork]
WithPermission(in, permission) == [in EXCEPT !.permission = permission]
WithWrites(in, allow) == [in EXCEPT !.allowWrite = allow]

LEMMA WithFields ==
  ASSUME NEW f, NEW p, NEW i, NEW w, NEW g \in BOOLEAN
  PROVE  /\ WithFork(InputOf(f, p, i, w), g) = InputOf(g, p, i, w)
         /\ WithPermission(InputOf(f, p, i, w), "write") = InputOf(f, "write", i, w)
         /\ WithWrites(InputOf(f, p, i, w), g) = InputOf(f, p, i, g)
<1>1. WithFork(InputOf(f, p, i, w), g) = InputOf(g, p, i, w)
  BY DEF InputOf, WithFork
<1>2. WithPermission(InputOf(f, p, i, w), "write") = InputOf(f, "write", i, w)
  BY DEF InputOf, WithPermission
<1>3. WithWrites(InputOf(f, p, i, w), g) = InputOf(f, p, i, g)
  BY DEF InputOf, WithWrites
<1>4. QED
  BY <1>1, <1>2, <1>3

LEMMA RepairCases ==
  ASSUME NEW in
  PROVE  /\ ExplainDenial(in) = "isFork" => Repaired(in) = WithFork(in, FALSE)
         /\ ExplainDenial(in) = "permission" => Repaired(in) = WithPermission(in, "write")
         /\ ExplainDenial(in) = "allowWrite" => Repaired(in) = WithWrites(in, TRUE)
         /\ ExplainDenial(in) \notin {"isFork", "permission", "allowWrite"} => Repaired(in) = in
BY DEF Repaired, WithFork, WithPermission, WithWrites

LEMMA RepairTable ==
  ASSUME NEW f \in BOOLEAN, NEW p, NEW i \in Intents \ {"none"}, NEW w \in BOOLEAN
  PROVE  Repaired(InputOf(f, p, i, w))
           = IF Authorized(f, p, i, w) THEN InputOf(f, p, i, w)
             ELSE IF f THEN InputOf(FALSE, p, i, w)
             ELSE IF p \notin WritePermissions THEN InputOf(f, "write", i, w)
             ELSE InputOf(f, p, i, TRUE)
<1> DEFINE in == InputOf(f, p, i, w)
<1>1. CASE Authorized(f, p, i, w)
  <2>1. ExplainDenial(in) = NoText
    BY <1>1, DenialTable
  <2>2. ExplainDenial(in) \notin {"isFork", "permission", "allowWrite"}
    BY <2>1, NamesAreTexts
  <2>3. QED
    BY <1>1, <2>2, RepairCases
<1>2. CASE ~Authorized(f, p, i, w)
  <2>1. ExplainDenial(in)
          = IF f THEN "isFork" ELSE IF p \notin WritePermissions THEN "permission" ELSE "allowWrite"
    BY <1>2, DenialTable
  <2>2. /\ \A g \in BOOLEAN : WithFork(in, g) = InputOf(g, p, i, w)
        /\ WithPermission(in, "write") = InputOf(f, "write", i, w)
        /\ \A g \in BOOLEAN : WithWrites(in, g) = InputOf(f, p, i, g)
    <3>1. ASSUME NEW g \in BOOLEAN
          PROVE  /\ WithFork(in, g) = InputOf(g, p, i, w)
                 /\ WithPermission(in, "write") = InputOf(f, "write", i, w)
                 /\ WithWrites(in, g) = InputOf(f, p, i, g)
      BY WithFields
    <3>2. QED
      BY <3>1
  <2> HIDE DEF in
  <2>3. Repaired(in) = IF f THEN InputOf(FALSE, p, i, w)
                       ELSE IF p \notin WritePermissions THEN InputOf(f, "write", i, w)
                       ELSE InputOf(f, p, i, TRUE)
    BY <2>1, <2>2, RepairCases
  <2>4. QED
    BY <1>2, <2>3 DEF in
<1>3. QED
  BY <1>1, <1>2

LEMMA AuthorizedStays ==
  ASSUME NEW f \in BOOLEAN, NEW p, NEW i \in Intents \ {"none"}, NEW w \in BOOLEAN,
         Authorized(f, p, i, w)
  PROVE  /\ ExplainDenial(InputOf(f, p, i, w)) = NoText
         /\ Repaired(InputOf(f, p, i, w)) = InputOf(f, p, i, w)
<1>1. ExplainDenial(InputOf(f, p, i, w)) = NoText
  BY DenialTable
<1>2. Repaired(InputOf(f, p, i, w)) = InputOf(f, p, i, w)
  BY RepairTable
<1>3. QED
  BY <1>1, <1>2

\* Outside a fork, two repairs are enough; for who has a permission to write, one is.
LEMMA WriterRepaired ==
  ASSUME NEW p \in WritePermissions, NEW i \in Intents \ {"none"}, NEW w \in BOOLEAN
  PROVE  \E w1 \in BOOLEAN : /\ Repaired(InputOf(FALSE, p, i, w)) = InputOf(FALSE, p, i, w1)
                            /\ Authorized(FALSE, p, i, w1)
<1>1. Authorized(FALSE, p, i, TRUE)
  BY DEF Authorized
<1>2. CASE Authorized(FALSE, p, i, w)
  BY <1>2, RepairTable
<1>3. CASE ~Authorized(FALSE, p, i, w)
  <2>1. Repaired(InputOf(FALSE, p, i, w)) = InputOf(FALSE, p, i, TRUE)
    BY <1>3, RepairTable
  <2>2. QED
    BY <1>1, <2>1
<1>4. QED
  BY <1>2, <1>3

LEMMA NoForkRepaired ==
  ASSUME NEW p, NEW i \in Intents \ {"none"}, NEW w \in BOOLEAN
  PROVE  ExplainDenial(Repaired(Repaired(InputOf(FALSE, p, i, w)))) = NoText
<1>1. CASE p \in WritePermissions
  <2>1. PICK w1 \in BOOLEAN : /\ Repaired(InputOf(FALSE, p, i, w)) = InputOf(FALSE, p, i, w1)
                             /\ Authorized(FALSE, p, i, w1)
    BY <1>1, WriterRepaired
  <2>2. /\ Repaired(InputOf(FALSE, p, i, w1)) = InputOf(FALSE, p, i, w1)
        /\ ExplainDenial(InputOf(FALSE, p, i, w1)) = NoText
    BY Zenon, <2>1, AuthorizedStays
  <2>3. QED
    BY <2>1, <2>2
<1>2. CASE p \notin WritePermissions
  <2>1. ~Authorized(FALSE, p, i, w)
    BY <1>2 DEF Authorized
  <2>2. Repaired(InputOf(FALSE, p, i, w)) = InputOf(FALSE, "write", i, w)
    BY <1>2, <2>1, RepairTable
  <2>3. "write" \in WritePermissions
    BY DEF WritePermissions
  <2>4. PICK w1 \in BOOLEAN : /\ Repaired(InputOf(FALSE, "write", i, w)) = InputOf(FALSE, "write", i, w1)
                             /\ Authorized(FALSE, "write", i, w1)
    BY <2>3, WriterRepaired
  <2>5. ExplainDenial(InputOf(FALSE, "write", i, w1)) = NoText
    BY <2>4, DenialTable
  <2>6. QED
    BY <2>2, <2>4, <2>5
<1>3. QED
  BY <1>1, <1>2

LEMMA RepairsEnd ==
  ASSUME NEW f \in BOOLEAN, NEW p, NEW i \in Intents \ {"none"}, NEW w \in BOOLEAN,
         ~Authorized(f, p, i, w)
  PROVE  LET in == InputOf(f, p, i, w)
         IN  /\ ExplainDenial(in) \in {"isFork", "permission", "allowWrite"}
             /\ ExplainDenial(Repaired(in)) # ExplainDenial(in)
             /\ ExplainDenial(Repaired(Repaired(Repaired(in)))) = NoText
<1> DEFINE in == InputOf(f, p, i, w)
<1>1. ExplainDenial(in) = IF f THEN "isFork"
                          ELSE IF p \notin WritePermissions THEN "permission" ELSE "allowWrite"
  BY DenialTable
<1>2. ASSUME NEW q, NEW v \in BOOLEAN, Repaired(in) = InputOf(FALSE, q, i, v)
      PROVE  /\ ExplainDenial(Repaired(in)) \in {NoText, "permission", "allowWrite"}
             /\ q \in WritePermissions => ExplainDenial(Repaired(in)) \in {NoText, "allowWrite"}
             /\ v => ExplainDenial(Repaired(in)) \in {NoText, "permission"}
             /\ ExplainDenial(Repaired(Repaired(Repaired(in)))) = NoText
  <2>1. ExplainDenial(InputOf(FALSE, q, i, v))
          = IF Authorized(FALSE, q, i, v) THEN NoText
            ELSE IF q \notin WritePermissions THEN "permission" ELSE "allowWrite"
    BY DenialTable
  <2>2. v /\ q \in WritePermissions => Authorized(FALSE, q, i, v)
    BY DEF Authorized
  <2>3. ExplainDenial(Repaired(Repaired(InputOf(FALSE, q, i, v)))) = NoText
    BY NoForkRepaired
  <2>4. QED
    BY <1>2, <2>1, <2>2, <2>3
<1>3. CASE f
  <2>1. Repaired(in) = InputOf(FALSE, p, i, w)
    BY <1>3, RepairTable
  <2>2. QED
    BY <1>1, <1>2, <1>3, <2>1, NamesAreTexts
<1>4. CASE ~f /\ p \notin WritePermissions
  <2>1. Repaired(in) = InputOf(f, "write", i, w)
    BY <1>4, RepairTable
  <2>2. Repaired(in) = InputOf(FALSE, "write", i, w)
    BY <1>4, <2>1
  <2>3. "write" \in WritePermissions
    BY DEF WritePermissions
  <2>4. QED
    BY <1>1, <1>2, <1>4, <2>2, <2>3, NamesAreTexts
<1>5. CASE ~f /\ p \in WritePermissions
  <2>1. Repaired(in) = InputOf(FALSE, p, i, TRUE)
    BY <1>5, RepairTable
  <2>2. QED
    BY <1>1, <1>2, <1>5, <2>1, NamesAreTexts
<1>6. QED
  BY <1>3, <1>4, <1>5

-----------------------------------------------------------------------------
(***************************************************************************)
(* Events: what a run is judged by.                                        *)
(***************************************************************************)
LEMMA PermissionOfRole ==
  ASSUME NEW raw, MapPermission(raw) \in WritePermissions
  PROVE  IsText(raw) /\ raw.text \in {"admin", "maintain", "write", "push"}
BY DEF MapPermission, PermissionMap, IsText, WritePermissions

LEMMA PermissionOfLevel ==
  ASSUME NEW raw, MapAccessLevel(raw) \in WritePermissions
  PROVE  IsNumber(raw) /\ raw.number \in {30, 40, 50}
BY DEF MapAccessLevel, AccessLevelMap, IsNumber, WritePermissions

Forges == {"github", "gitlab", "local"}

\* Only who may push has a permission to write.
LEMMA WritersMayPush ==
  ASSUME NEW forge \in Forges, NEW answer, ResolvePermission(forge, answer) \in WritePermissions
  PROVE  MayPush(forge, answer)
<1>1. CASE forge = "local"
  BY <1>1 DEF MayPush
<1>2. CASE forge # "local"
  <2>1. answer.status = 200
    <3> SUFFICES ASSUME answer.status # 200 PROVE FALSE
      OBVIOUS
    <3>1. ResolvePermission(forge, answer) = "none"
      BY <1>2 DEF ResolvePermission
    <3>2. QED
      BY <3>1 DEF WritePermissions
  <2>2. CASE forge = "github"
    BY <2>1, <2>2, PermissionOfRole DEF ResolvePermission, MayPush
  <2>3. CASE forge = "gitlab"
    BY <2>1, <2>3, PermissionOfLevel DEF ResolvePermission, MayPush
  <2>4. QED
    BY <1>2, <2>2, <2>3 DEF Forges
<1>3. QED
  BY <1>1, <1>2

LEMMA ForkIsYesOrNo ==
  ASSUME NEW forge \in Forges, NEW change
  PROVE  IsFork(forge, change) \in BOOLEAN
BY DEF IsFork, IsForkOnGitHub, IsForkOnGitLab, Forges

LEMMA RouteIsIntent ==
  ASSUME NEW event, event.kind \in {"comment", "change-request", "check-failed"}, NEW diagnose
  PROVE  Route(event, diagnose) \in Intents
<1>1. RouteUnchecked(event) \in Intents
  <2>1. CASE event.kind = "comment"
    BY <2>1, CommandsHaveIntents DEF RouteUnchecked, Intents
  <2>2. CASE event.kind # "comment"
    BY <2>2 DEF RouteUnchecked, Intents
  <2>3. QED
    BY <2>1, <2>2
<1>2. QED
  BY <1>1 DEF Route, Intents

\* What the trust policy is asked about an event.
LEMMA InputIsReal ==
  ASSUME given \in Scenarios, NEW e \in DOMAIN PayloadOf, IngestFailure(PayloadOf[e]) = NoText
  PROVE  /\ Event(e).forge \in Forges
         /\ IntentOf(e) \in Intents
         /\ IsFork(Event(e).forge, ChangeAt(Event(e).forge, Event(e).change)) \in BOOLEAN
         /\ given.allowWrite \in BOOLEAN
         /\ TrustInput(e) = InputOf(IsFork(Event(e).forge, ChangeAt(Event(e).forge, Event(e).change)),
                                    ResolvePermission(Event(e).forge, Answer(e)),
                                    IntentOf(e), given.allowWrite)
<1>1. Event(e).forge \in Forges
  BY InputsAreReal DEF Forges
<1>2. Event(e).kind \in {"comment", "change-request", "check-failed"}
  BY KnownKind DEF Event, Ingest
<1>3. IntentOf(e) \in Intents
  BY <1>2, RouteIsIntent DEF IntentOf
<1>4. given.allowWrite \in BOOLEAN
  BY InputsAreReal
<1>5. QED
  BY <1>1, <1>3, <1>4, ForkIsYesOrNo DEF TrustInput, InputOf

\* What DenialNamesCause says of a run that authorize let through, and of one that it did not.
Entitled(e) ==
  IF TrustInput(e).isFork THEN TrustInput(e).intent \in Harmless
  ELSE MayPush(Event(e).forge, Answer(e)) /\ (TrustInput(e).intent = "fix" => given.allowWrite)

Explained(e, why) ==
  /\ why \in {"isFork", "permission", "allowWrite"}
  /\ ExplainDenial(Repaired(TrustInput(e))) # why
  /\ ExplainDenial(Repaired(Repaired(Repaired(TrustInput(e))))) = NoText

Trusted(e) == MeetsTrust(ResolveTrust(TrustInput(e)), IntentMinTrust[IntentOf(e)])

LEMMA TrustedIsEntitled ==
  ASSUME given \in Scenarios, NEW e \in DOMAIN PayloadOf, IngestFailure(PayloadOf[e]) = NoText,
         IntentOf(e) # "none"
  PROVE  /\ Trusted(e) => Entitled(e)
         /\ ~Trusted(e) => Explained(e, ExplainDenial(TrustInput(e)))
<1> DEFINE f == IsFork(Event(e).forge, ChangeAt(Event(e).forge, Event(e).change))
           p == ResolvePermission(Event(e).forge, Answer(e))
           i == IntentOf(e)
           w == given.allowWrite
<1>1. /\ Event(e).forge \in Forges /\ f \in BOOLEAN /\ w \in BOOLEAN /\ i \in Intents \ {"none"}
      /\ TrustInput(e) = InputOf(f, p, i, w)
  BY InputIsReal
<1>2. p \in WritePermissions => MayPush(Event(e).forge, Answer(e))
  BY <1>1, WritersMayPush
<1>3. Trusted(e) <=> MeetsTrust(ResolveTrust(InputOf(f, p, i, w)), IntentMinTrust[i])
  BY <1>1 DEF Trusted
<1>4. Entitled(e) <=> IF f THEN i \in Harmless
                      ELSE MayPush(Event(e).forge, Answer(e)) /\ (i = "fix" => w)
  BY <1>1, InputFields DEF Entitled
<1> HIDE DEF f, p, i, w
<1>5. Trusted(e) <=> Authorized(f, p, i, w)
  BY <1>1, <1>3, TrustTable
<1>6. ASSUME Trusted(e) PROVE Entitled(e)
  BY <1>2, <1>4, <1>5, <1>6 DEF Authorized
<1>7. ASSUME ~Trusted(e) PROVE Explained(e, ExplainDenial(TrustInput(e)))
  BY <1>1, <1>5, <1>7, RepairsEnd DEF Explained
<1>8. QED
  BY <1>6, <1>7

-----------------------------------------------------------------------------
(***************************************************************************)
(* The runs: each holds what its event was judged to be.                   *)
(***************************************************************************)
Replying(e) == [stage |-> "reply", event |-> e]
Recording(e) == [stage |-> "record", event |-> e]

RunIsJudged(r) ==
  \/ run[r] = Idle
  \/ \E e \in DOMAIN PayloadOf :
       \/ run[r] = Judged(e)
       \/ Judged(e) = Recording(e) /\ run[r] = Replying(e)

JudgedInv ==
  /\ given \in Scenarios
  /\ DOMAIN run = Runs
  /\ \A r \in Runs : RunIsJudged(r)

LEMMA JudgementStays ==
  ASSUME given' = given, NEW e
  PROVE  /\ Judged(e)' = Judged(e)
         /\ TrustInput(e)' = TrustInput(e)
BY DEF Judged, TrustInput, IntentOf, Event, Answer, Reference, Ended

LEMMA JudgedInit == Init => JudgedInv
BY DEF Init, JudgedInv, RunIsJudged

LEMMA JudgedStep == JudgedInv /\ [Next]_memoryVars => JudgedInv'
<1> SUFFICES ASSUME JudgedInv, [Next]_memoryVars PROVE JudgedInv'
  OBVIOUS
<1>1. given' = given
  BY DEF Next, memoryVars, Deliver, Record, Reply, Restart
<1>2. given' \in Scenarios
  BY <1>1 DEF JudgedInv
<1>3. \A e : Judged(e)' = Judged(e)
  BY <1>1, JudgementStays
<1>4. ASSUME NEW r \in Runs, run'[r] = run[r] PROVE RunIsJudged(r)'
  BY <1>3, <1>4 DEF JudgedInv, RunIsJudged, Replying, Recording, Idle
<1>5. ASSUME NEW r, NEW e \in EventsIn[given.name], Deliver(r, e) PROVE JudgedInv'
  <2>1. e \in DOMAIN PayloadOf
    BY <1>5, InputsAreReal DEF JudgedInv
  <2>2. DOMAIN run' = Runs
    BY <1>5 DEF Deliver, JudgedInv
  <2>3. ASSUME NEW s \in Runs PROVE RunIsJudged(s)'
    <3>1. CASE s = r
      <4>1. run'[s] = Judged(e)
        BY <1>5, <3>1 DEF Deliver, JudgedInv
      <4>2. QED
        BY <1>3, <2>1, <4>1 DEF RunIsJudged
    <3>2. CASE s # r
      <4>1. run'[s] = run[s]
        BY <1>5, <3>2 DEF Deliver, JudgedInv
      <4>2. QED
        BY <1>4, <4>1
    <3>3. QED
      BY <3>1, <3>2
  <2>4. QED
    BY <1>2, <2>2, <2>3 DEF JudgedInv
<1>6. ASSUME NEW r, Record(r) PROVE JudgedInv'
  <2>1. DOMAIN run' = Runs
    BY <1>6 DEF Record, JudgedInv
  <2>2. ASSUME NEW s \in Runs PROVE RunIsJudged(s)'
    <3>1. CASE s # r
      <4>1. run'[s] = run[s]
        BY <1>6, <3>1 DEF Record, JudgedInv
      <4>2. QED
        BY <1>4, <4>1
    <3>2. CASE s = r /\ run' = [run EXCEPT ![r] = Idle]
      <4>1. run'[s] = Idle
        BY <3>2 DEF JudgedInv
      <4>2. QED
        BY <4>1 DEF RunIsJudged, Idle
    <3>3. CASE s = r /\ run' = [run EXCEPT ![r].stage = "reply"]
      <4>1. run[r].stage = "record" /\ r \in Runs
        BY <1>6, <3>3 DEF Record
      <4>2. PICK e \in DOMAIN PayloadOf : run[r] = Judged(e)
        BY <4>1 DEF JudgedInv, RunIsJudged, Idle, Replying
      <4>3. Judged(e) = Recording(e)
        BY <4>1, <4>2 DEF Judged, Ended, Recording
      <4>4. run'[s] = Replying(e)
        BY <3>3, <4>1, <4>2, <4>3 DEF JudgedInv, Recording, Replying
      <4>5. QED
        BY <1>3, <4>3, <4>4 DEF RunIsJudged, Recording, Replying
    <3>4. QED
      BY <1>6, <3>1, <3>2, <3>3 DEF Record
  <2>3. QED
    BY <1>2, <2>1, <2>2 DEF JudgedInv
<1>7. ASSUME NEW r, Reply(r) PROVE JudgedInv'
  <2>1. DOMAIN run' = Runs
    BY <1>7 DEF Reply, JudgedInv
  <2>2. ASSUME NEW s \in Runs PROVE RunIsJudged(s)'
    <3>1. CASE s # r
      <4>1. run'[s] = run[s]
        BY <1>7, <3>1 DEF Reply, JudgedInv
      <4>2. QED
        BY <1>4, <4>1
    <3>2. CASE s = r
      <4>1. run'[s] = Idle
        BY <1>7, <3>2 DEF Reply, JudgedInv
      <4>2. QED
        BY <4>1 DEF RunIsJudged, Idle
    <3>3. QED
      BY <3>1, <3>2
  <2>3. QED
    BY <1>2, <2>1, <2>2 DEF JudgedInv
<1>8. CASE Restart \/ UNCHANGED memoryVars
  <2>1. run' = run
    BY <1>8 DEF Restart, memoryVars
  <2>2. \A r \in Runs : RunIsJudged(r)'
    BY <1>4, <2>1
  <2>3. QED
    BY <1>2, <2>1, <2>2 DEF JudgedInv
<1>9. QED
  BY <1>5, <1>6, <1>7, <1>8 DEF Next

LEMMA RunsAreJudged == Spec => []JudgedInv
<1>1. QED
  BY JudgedInit, JudgedStep, PTL DEF Spec

\* The run of an event that ingest takes, by the way authorize ends it.
LEMMA JudgedEnds ==
  ASSUME NEW e, IngestFailure(PayloadOf[e]) = NoText
  PROVE  /\ Judged(e).stage \in {"over", "record"}
         /\ Judged(e).event = e
         /\ ~(Judged(e).stage = "over" /\ Judged(e).code \in {"neutral", "E_UNEXPECTED", "E_DENIED"})
              => IntentOf(e) # "none" /\ Trusted(e)
         /\ Judged(e).stage = "over" /\ Judged(e).code = "E_DENIED"
              => IntentOf(e) # "none" /\ ~Trusted(e) /\ Judged(e).why = ExplainDenial(TrustInput(e))
<1>1. CASE IntentOf(e) = "none"
  BY <1>1 DEF Judged, Ended
<1>2. CASE IntentOf(e) # "none" /\ Event(e).forge # "local" /\ Faulty(Answer(e))
  BY <1>2 DEF Judged, Ended
<1>3. CASE IntentOf(e) # "none" /\ ~(Event(e).forge # "local" /\ Faulty(Answer(e))) /\ ~Trusted(e)
  <2>1. Judged(e) = Ended(e, "E_DENIED", ExplainDenial(TrustInput(e)))
    BY <1>3 DEF Judged, Trusted
  <2>2. QED
    BY <1>3, <2>1 DEF Ended
<1>4. CASE IntentOf(e) # "none" /\ ~(Event(e).forge # "local" /\ Faulty(Answer(e))) /\ Trusted(e)
  <2>1. \/ Judged(e) = Ended(e, "reviews", CapabilitiesFor(ResolveTrust(TrustInput(e))))
        \/ Judged(e) = Ended(e, "E_MEMORY_UNAVAILABLE", NoText)
        \/ Judged(e) = Ended(e, "E_MEMORY_ARGS", Reference(e).message)
        \/ Judged(e) = Recording(e)
    BY <1>4 DEF Judged, Trusted, Recording
  <2>2. QED
    BY <1>4, <2>1 DEF Ended, Recording
<1>5. QED
  BY <1>1, <1>2, <1>3, <1>4

LEMMA JudgedNamesCause == JudgedInv => DenialNamesCause
<1> SUFFICES ASSUME JudgedInv,
                    NEW r \in Runs, run[r].stage # "idle",
                    IngestFailure(PayloadOf[run[r].event]) = NoText
             PROVE  /\ ~(run[r].stage = "over" /\ run[r].code \in {"neutral", "E_UNEXPECTED", "E_DENIED"})
                         => Entitled(run[r].event)
                    /\ run[r].stage = "over" /\ run[r].code = "E_DENIED"
                         => Explained(run[r].event, run[r].why)
  BY DEF DenialNamesCause, Entitled, Explained, Harmless
<1>1. PICK e \in DOMAIN PayloadOf :
        \/ run[r] = Judged(e)
        \/ Judged(e) = Recording(e) /\ run[r] = Replying(e)
  BY DEF JudgedInv, RunIsJudged, Idle
<1>2. CASE run[r] = Judged(e)
  <2>1. CASE IngestFailure(PayloadOf[e]) # NoText
    <3>1. run[r].event = e
      BY <1>2, <2>1 DEF Judged, Ended
    <3>2. QED
      BY <2>1, <3>1
  <2>2. CASE IngestFailure(PayloadOf[e]) = NoText
    <3>1. run[r].event = e
      BY <1>2, <2>2, JudgedEnds
    <3>2. ASSUME ~(run[r].stage = "over" /\ run[r].code \in {"neutral", "E_UNEXPECTED", "E_DENIED"})
          PROVE  Entitled(e)
      BY <1>2, <2>2, <3>2, JudgedEnds, TrustedIsEntitled DEF JudgedInv
    <3>3. ASSUME run[r].stage = "over", run[r].code = "E_DENIED"
          PROVE  Explained(e, run[r].why)
      BY <1>2, <2>2, <3>3, JudgedEnds, TrustedIsEntitled DEF JudgedInv
    <3>4. QED
      BY <3>1, <3>2, <3>3
  <2>3. QED
    BY <2>1, <2>2
<1>3. CASE Judged(e) = Recording(e) /\ run[r] = Replying(e)
  <2>1. run[r].event = e /\ run[r].stage = "reply" /\ Judged(e).stage = "record"
    BY <1>3 DEF Replying, Recording
  <2>2. IntentOf(e) # "none" /\ Trusted(e)
    BY <2>1, JudgedEnds
  <2>3. Entitled(e)
    BY <2>1, <2>2, TrustedIsEntitled DEF JudgedInv
  <2>4. QED
    BY <2>1, <2>3
<1>4. QED
  BY <1>1, <1>2, <1>3

(***************************************************************************)
(* For any payloads, answers of the forges and change requests, any number *)
(* of runs that overlap and whatever the store does meanwhile: a run goes  *)
(* on for who may push and for nobody else, a fork's only as far as a      *)
(* review, and a denial names a cause whose repair helps (authorize,       *)
(* resolveTrust, explainDenial, resolvePermission, isFork).                *)
(***************************************************************************)
THEOREM DenialsAreExplained == Spec => []DenialNamesCause
<1>1. QED
  BY RunsAreJudged, JudgedNamesCause, PTL

-----------------------------------------------------------------------------
(***************************************************************************)
(* References: what a line is parsed to, what it is about, its key, and    *)
(* the command that takes it back.                                         *)
(***************************************************************************)
IsExact(ref) ==
  /\ ref = Exact(ref.path, ref.rule, ref.title)
  /\ IsList(ref.path) /\ IsSafeRelativePath(ref.path) /\ IsTitle(ref.title) /\ ref.title.length # 0
IsOfRule(ref) == ref = OfRule(ref.rule) /\ ref.rule # NoText
Pattern(ref) == [text |-> ref.glob, pattern |-> ref.pattern]
IsOfGlob(ref) ==
  /\ ref = OfGlob(Pattern(ref), ref.rule)
  /\ ref.glob # NoText /\ IsList(ref.pattern) /\ IsSafeGlobPattern(ref.pattern)

IsReference(ref) == IsExact(ref) \/ IsOfRule(ref) \/ IsOfGlob(ref)

LEMMA ReferenceFields ==
  /\ \A path, rule, title :
       LET ref == Exact(path, rule, title)
       IN  /\ ref.kind = "exact" /\ ref.path = path /\ ref.rule = rule /\ ref.title = title
           /\ ref.message = NoText
           /\ DOMAIN ref = {"message", "kind", "path", "rule", "title"}
  /\ \A rule :
       LET ref == OfRule(rule)
       IN  /\ ref.kind = "rule" /\ ref.rule = rule /\ ref.message = NoText
           /\ DOMAIN ref = {"message", "kind", "rule"}
  /\ \A glob, rule :
       LET ref == OfGlob(glob, rule)
       IN  /\ ref.kind = "glob" /\ ref.glob = glob.text /\ ref.pattern = glob.pattern /\ ref.rule = rule
           /\ ref.message = NoText
           /\ DOMAIN ref = {"message", "kind", "glob", "pattern", "rule"}
BY DEF Exact, OfRule, OfGlob

LEMMA ExactIsReference ==
  ASSUME NEW path, IsList(path), IsSafeRelativePath(path), NEW rule,
         NEW title, IsTitle(title), title.length # 0
  PROVE  IsExact(Exact(path, rule, title))
<1> DEFINE ref == Exact(path, rule, title)
<1>1. ref.path = path /\ ref.rule = rule /\ ref.title = title
  BY ReferenceFields
<1> HIDE DEF ref
<1>2. ref = Exact(ref.path, ref.rule, ref.title)
  BY <1>1, Zenon DEF ref
<1>3. QED
  BY <1>1, <1>2 DEF IsExact, ref

LEMMA OfRuleIsReference ==
  ASSUME NEW rule, rule # NoText
  PROVE  IsOfRule(OfRule(rule))
BY ReferenceFields DEF IsOfRule

LEMMA OfGlobIsReference ==
  ASSUME NEW glob, glob.text # NoText, IsList(glob.pattern), IsSafeGlobPattern(glob.pattern), NEW rule
  PROVE  IsOfGlob(OfGlob(glob, rule))
<1> DEFINE ref == OfGlob(glob, rule)
<1>1. ref.glob = glob.text /\ ref.pattern = glob.pattern /\ ref.rule = rule
  BY ReferenceFields
<1>2. Pattern(ref).text = ref.glob /\ Pattern(ref).pattern = ref.pattern
  BY DEF Pattern
<1>3. OfGlob(Pattern(ref), ref.rule) = ref
  <2>1. OfGlob(Pattern(ref), ref.rule)
          = [message |-> NoText, kind |-> "glob", glob |-> Pattern(ref).text,
             pattern |-> Pattern(ref).pattern, rule |-> ref.rule]
    BY DEF OfGlob
  <2>2. ref = [message |-> NoText, kind |-> "glob", glob |-> glob.text, pattern |-> glob.pattern, rule |-> rule]
    BY DEF OfGlob
  <2> HIDE DEF ref
  <2>3. QED
    BY <1>1, <1>2, <2>1, <2>2
<1> HIDE DEF ref
<1>4. QED
  BY <1>1, <1>3 DEF IsOfGlob, ref

\* What a line is parsed to, when it is parsed.
LEMMA ParsedIsReference ==
  ASSUME NEW line, IsCommandLine(line), ParseMemoryReference(line).message = NoText
  PROVE  IsReference(ParseMemoryReference(line))
<1> DEFINE words == line.words
           ref == ParseMemoryReference(line)
<1>0. /\ \A message : Unparsed(message).message = message
      /\ "expected a rule" # NoText /\ "unsafe glob" # NoText /\ "expected an identity" # NoText
      /\ "not three strings" # NoText /\ "unsafe path" # NoText /\ "empty title" # NoText
  <2>1. \A message : Unparsed(message).message = message
    BY DEF Unparsed
  <2>2. /\ "expected a rule" # NoText /\ "unsafe glob" # NoText /\ "expected an identity" # NoText
        /\ "not three strings" # NoText /\ "unsafe path" # NoText /\ "empty title" # NoText
    BY Zenon DEF NoText
  <2>3. QED
    BY <2>1, <2>2
<1>1. /\ IsList(words)
      /\ \A k \in 1..Len(words) : words[k].text # NoText /\ IsList(words[k].pattern)
  <2>1. IsList(words) /\ \A word \in Range(words) : word.text # NoText /\ IsList(word.pattern)
    BY DEF IsCommandLine
  <2>2. QED
    BY <2>1, ListElements
<1>2. CASE line.verb \in RuleVerbs /\ words = <<>>
  <2>1. ref = Unparsed("expected a rule")
    BY <1>2 DEF ParseMemoryReference
  <2>2. QED
    BY <1>0, <2>1
<1>3. CASE line.verb \in RuleVerbs /\ words # <<>> /\ Len(words) = 1
  <2>1. ref = OfRule(words[1].text)
    BY <1>3 DEF ParseMemoryReference
  <2>2. words[1].text # NoText
    BY <1>1, <1>3
  <2>3. QED
    BY <2>1, <2>2, OfRuleIsReference DEF IsReference
<1>4. CASE line.verb \notin RuleVerbs /\ line.verb \in GlobVerbs /\ Len(words) \in {1, 2}
  <2>1. ref = IF IsSafeGlobPattern(words[1].pattern)
              THEN OfGlob(words[1], IF Len(words) = 2 THEN words[2].text ELSE NoText)
              ELSE Unparsed("unsafe glob")
    BY <1>4 DEF ParseMemoryReference
  <2>2. words[1].text # NoText /\ IsList(words[1].pattern)
    BY <1>1, <1>4
  <2>3. IsSafeGlobPattern(words[1].pattern)
    BY <1>0, <2>1
  <2> DEFINE rule == IF Len(words) = 2 THEN words[2].text ELSE NoText
  <2>4. ref = OfGlob(words[1], rule)
    BY <2>1, <2>3
  <2> HIDE DEF rule
  <2>5. QED
    BY <2>2, <2>3, <2>4, OfGlobIsReference DEF IsReference
<1>5. CASE ref = ParseExact(line.identity)
  <2> DEFINE id == line.identity
  <2>1. id # <<>> /\ Len(id) = 3 /\ IsSafeRelativePath(id[1]) /\ id[3].length # 0
        /\ ref = Exact(id[1], id[2], id[3])
    BY <1>0, <1>5 DEF ParseExact
  <2>2. IsList(id[1]) /\ IsTitle(id[3])
    BY <2>1 DEF IsCommandLine
  <2> HIDE DEF ref
  <2>3. QED
    BY <2>1, <2>2, ExactIsReference DEF IsReference, ref
<1>6. \/ line.verb \in RuleVerbs /\ words = <<>>
      \/ line.verb \in RuleVerbs /\ words # <<>> /\ Len(words) = 1
      \/ line.verb \notin RuleVerbs /\ line.verb \in GlobVerbs /\ Len(words) \in {1, 2}
      \/ ref = ParseExact(line.identity)
  BY DEF ParseMemoryReference, RuleVerbs, GlobVerbs
<1>7. QED
  BY <1>2, <1>3, <1>4, <1>5, <1>6

-----------------------------------------------------------------------------
(* Keys and subjects. *)

\* A file of this name has the key of a wildcard.
NotStar(ref) == ref.kind = "exact" => ref.path # <<"*">>

LEMMA ReferenceKeys ==
  ASSUME NEW ref
  PROVE  /\ IsExact(ref) => /\ ref.kind = "exact"
                            /\ KeyOf(ref) = <<ref.path, ref.rule, ref.title.lower>>
                            /\ Subject(ref) = <<"exact", ref.path, ref.rule, ref.title.lower>>
         /\ IsOfRule(ref) => /\ ref.kind = "rule" /\ ref.rule # NoText
                             /\ KeyOf(ref) = << <<"*">>, ref.rule, NoText>>
                             /\ Subject(ref) = <<"rule", ref.rule>>
         /\ IsOfGlob(ref) => /\ ref.kind = "glob" /\ ref.glob # NoText
                             /\ KeyOf(ref) = << <<"*">>, ref.rule, ref.glob>>
                             /\ Subject(ref) = <<"glob", ref.glob, ref.rule>>
<1>1. ASSUME IsExact(ref) PROVE ref.kind = "exact"
  BY <1>1, ReferenceFields DEF IsExact
<1>2. ASSUME IsOfRule(ref) PROVE ref.kind = "rule" /\ ref.rule # NoText
  BY <1>2, ReferenceFields DEF IsOfRule
<1>3. ASSUME IsOfGlob(ref) PROVE ref.kind = "glob" /\ ref.glob # NoText
  BY <1>3, ReferenceFields DEF IsOfGlob
<1>4. ASSUME ref.kind = "exact"
      PROVE  /\ KeyOf(ref) = <<ref.path, ref.rule, ref.title.lower>>
             /\ Subject(ref) = <<"exact", ref.path, ref.rule, ref.title.lower>>
  BY <1>4 DEF KeyOf, MemoryKey, Subject
<1>5. ASSUME ref.kind = "rule"
      PROVE  KeyOf(ref) = << <<"*">>, ref.rule, NoText>> /\ Subject(ref) = <<"rule", ref.rule>>
  BY <1>5 DEF KeyOf, WildcardMemoryKey, Subject
<1>6. ASSUME ref.kind = "glob"
      PROVE  /\ KeyOf(ref) = << <<"*">>, ref.rule, ref.glob>>
             /\ Subject(ref) = <<"glob", ref.glob, ref.rule>>
  BY <1>6 DEF KeyOf, WildcardMemoryKey, Subject
<1>7. QED
  BY <1>1, <1>2, <1>3, <1>4, <1>5, <1>6

\* Two references have the same key exactly when they are about the same.
LEMMA KeysTellSubjects ==
  ASSUME NEW a, IsReference(a), NotStar(a), NEW b, IsReference(b), NotStar(b)
  PROVE  KeyOf(a) = KeyOf(b) <=> Subject(a) = Subject(b)
<1>1. \A u, v, w, x, y, z : <<u, v, w>> = <<x, y, z>> <=> u = x /\ v = y /\ w = z
  OBVIOUS
<1>2. \A u, v, w, x, y, z :
        <<"exact", u, v, w>> = <<"exact", x, y, z>> <=> u = x /\ v = y /\ w = z
  OBVIOUS
<1>3. \A u, v, x, y : <<"glob", u, v>> = <<"glob", x, y>> <=> u = x /\ v = y
  OBVIOUS
<1>4. \A u, x : <<"rule", u>> = <<"rule", x>> <=> u = x
  OBVIOUS
<1>5. /\ \A u, v, w, x : <<"exact", u, v, w>> # <<"rule", x>>
      /\ \A u, v, w, x, y : <<"exact", u, v, w>> # <<"glob", x, y>>
      /\ \A u, x, y : <<"rule", u>> # <<"glob", x, y>>
  OBVIOUS
<1>6. CASE IsExact(a) /\ IsExact(b)
  <2>1. /\ KeyOf(a) = <<a.path, a.rule, a.title.lower>>
        /\ KeyOf(b) = <<b.path, b.rule, b.title.lower>>
        /\ Subject(a) = <<"exact", a.path, a.rule, a.title.lower>>
        /\ Subject(b) = <<"exact", b.path, b.rule, b.title.lower>>
    BY <1>6, ReferenceKeys
  <2>2. QED
    BY <1>1, <1>2, <2>1
<1>7. CASE IsOfRule(a) /\ IsOfRule(b)
  <2>1. /\ KeyOf(a) = << <<"*">>, a.rule, NoText>> /\ KeyOf(b) = << <<"*">>, b.rule, NoText>>
        /\ Subject(a) = <<"rule", a.rule>> /\ Subject(b) = <<"rule", b.rule>>
    BY <1>7, ReferenceKeys
  <2>2. QED
    BY <1>1, <1>4, <2>1
<1>8. CASE IsOfGlob(a) /\ IsOfGlob(b)
  <2>1. /\ KeyOf(a) = << <<"*">>, a.rule, a.glob>> /\ KeyOf(b) = << <<"*">>, b.rule, b.glob>>
        /\ Subject(a) = <<"glob", a.glob, a.rule>> /\ Subject(b) = <<"glob", b.glob, b.rule>>
    BY <1>8, ReferenceKeys
  <2>2. QED
    BY <1>1, <1>3, <2>1
<1>9. CASE (IsExact(a) /\ ~IsExact(b)) \/ (~IsExact(a) /\ IsExact(b))
  <2>1. KeyOf(a) # KeyOf(b)
    BY <1>1, <1>9, ReferenceKeys DEF IsReference, NotStar
  <2>2. Subject(a) # Subject(b)
    BY <1>5, <1>9, ReferenceKeys DEF IsReference
  <2>3. QED
    BY <2>1, <2>2
<1>10. CASE IsOfRule(a) /\ IsOfGlob(b)
  <2>1. /\ KeyOf(a) = << <<"*">>, a.rule, NoText>> /\ KeyOf(b) = << <<"*">>, b.rule, b.glob>>
        /\ Subject(a) = <<"rule", a.rule>> /\ Subject(b) = <<"glob", b.glob, b.rule>>
        /\ b.glob # NoText
    BY <1>10, ReferenceKeys
  <2>2. QED
    BY <1>1, <1>5, <2>1
<1>11. CASE IsOfGlob(a) /\ IsOfRule(b)
  <2>1. /\ KeyOf(a) = << <<"*">>, a.rule, a.glob>> /\ KeyOf(b) = << <<"*">>, b.rule, NoText>>
        /\ Subject(a) = <<"glob", a.glob, a.rule>> /\ Subject(b) = <<"rule", b.rule>>
        /\ a.glob # NoText
    BY <1>11, ReferenceKeys
  <2>2. QED
    BY <1>1, <1>5, <2>1
<1>12. QED
  BY <1>6, <1>7, <1>8, <1>9, <1>10, <1>11 DEF IsReference

\* A pattern is told by its text.
SamePattern(a, b) == a.kind = "glob" /\ b.kind = "glob" /\ a.glob = b.glob => a.pattern = b.pattern

\* References that are about the same accept the same findings.
LEMMA SubjectsAccept ==
  ASSUME NEW a, IsReference(a), NEW b, IsReference(b), Subject(a) = Subject(b), SamePattern(a, b),
         NEW f
  PROVE  Accepts(a, f) <=> Accepts(b, f)
<1>1. \A u, v, w, x, y, z :
        <<"exact", u, v, w>> = <<"exact", x, y, z>> <=> u = x /\ v = y /\ w = z
  OBVIOUS
<1>2. \A u, v, x, y : <<"glob", u, v>> = <<"glob", x, y>> <=> u = x /\ v = y
  OBVIOUS
<1>3. \A u, x : <<"rule", u>> = <<"rule", x>> <=> u = x
  OBVIOUS
<1>4. /\ \A u, v, w, x : <<"exact", u, v, w>> # <<"rule", x>>
      /\ \A u, v, w, x, y : <<"exact", u, v, w>> # <<"glob", x, y>>
      /\ \A u, x, y : <<"rule", u>> # <<"glob", x, y>>
  OBVIOUS
<1>5. CASE IsExact(a) /\ IsExact(b)
  <2>1. /\ a.kind = "exact" /\ b.kind = "exact"
        /\ a.path = b.path /\ a.rule = b.rule /\ a.title.lower = b.title.lower
    BY <1>1, <1>5, ReferenceKeys
  <2>2. QED
    BY <2>1 DEF Accepts
<1>6. CASE IsOfRule(a) /\ IsOfRule(b)
  <2>1. a.kind = "rule" /\ b.kind = "rule" /\ a.rule = b.rule
    BY <1>3, <1>6, ReferenceKeys
  <2>2. QED
    BY <2>1 DEF Accepts
<1>7. CASE IsOfGlob(a) /\ IsOfGlob(b)
  <2>1. a.kind = "glob" /\ b.kind = "glob" /\ a.glob = b.glob /\ a.rule = b.rule
    BY <1>2, <1>7, ReferenceKeys
  <2>2. a.pattern = b.pattern
    BY <2>1 DEF SamePattern
  <2>3. QED
    BY <2>1, <2>2 DEF Accepts
<1>8. QED
  BY <1>4, <1>5, <1>6, <1>7, ReferenceKeys DEF IsReference

-----------------------------------------------------------------------------
(* What is stored of a reference, and the commands that are printed of it. *)

LEMMA ResolvedFields ==
  ASSUME NEW ref, IsReference(ref), NEW login, login # NoText
  PROVE  LET x == ResolvedException(ref, login)
         IN  /\ x.kind = ref.kind /\ x.rule = ref.rule /\ x.key = KeyOf(ref) /\ x.resolvedBy = login
             /\ ref.kind = "exact" => x.path = ref.path /\ x.title = ref.title
             /\ ref.kind = "glob" => x.glob = ref.glob /\ x.pattern = ref.pattern
             /\ x = [field \in DOMAIN x |-> x[field]]
<1> DEFINE x == ResolvedException(ref, login)
<1>1. ASSUME NEW field \in DOMAIN ref, field # "key", field # "resolvedBy"
      PROVE  x[field] = ref[field]
  BY <1>1 DEF ResolvedException
<1>2. x.key = KeyOf(ref) /\ x.resolvedBy = login
  BY DEF ResolvedException
<1>3. x = [field \in DOMAIN x |-> x[field]]
  BY DEF ResolvedException
<1> HIDE DEF x
<1>4. CASE IsExact(ref)
  <2>1. ref.kind = "exact" /\ DOMAIN ref = {"message", "kind", "path", "rule", "title"}
    BY <1>4, ReferenceFields DEF IsExact
  <2>2. x.kind = ref.kind /\ x.rule = ref.rule /\ x.path = ref.path /\ x.title = ref.title
    BY <1>1, <2>1
  <2>3. QED
    BY <1>2, <1>3, <2>1, <2>2 DEF x
<1>5. CASE IsOfRule(ref)
  <2>1. ref.kind = "rule" /\ DOMAIN ref = {"message", "kind", "rule"}
    BY <1>5, ReferenceFields DEF IsOfRule
  <2>2. x.kind = ref.kind /\ x.rule = ref.rule
    BY <1>1, <2>1
  <2>3. QED
    BY <1>2, <1>3, <2>1, <2>2 DEF x
<1>6. CASE IsOfGlob(ref)
  <2>1. ref.kind = "glob" /\ DOMAIN ref = {"message", "kind", "glob", "pattern", "rule"}
    BY <1>6, ReferenceFields DEF IsOfGlob
  <2>2. x.kind = ref.kind /\ x.rule = ref.rule /\ x.glob = ref.glob /\ x.pattern = ref.pattern
    BY <1>1, <2>1
  <2>3. QED
    BY <1>2, <1>3, <2>1, <2>2 DEF x
<1>7. QED
  BY <1>4, <1>5, <1>6 DEF IsReference

\* What is stored means what was accepted, and comes back from a file as it was.
LEMMA ResolvedProperties ==
  ASSUME NEW ref, IsReference(ref), NEW login, login # NoText
  PROVE  LET x == ResolvedException(ref, login)
         IN  /\ IsException(x) /\ ~Corrupt(x) /\ RehydrateException(x) = x
             /\ \A f : Accepts(x, f) <=> Accepts(ref, f)
<1> DEFINE x == ResolvedException(ref, login)
<1>1. /\ x.kind = ref.kind /\ x.rule = ref.rule /\ x.key = KeyOf(ref) /\ x.resolvedBy = login
      /\ ref.kind = "exact" => x.path = ref.path /\ x.title = ref.title
      /\ ref.kind = "glob" => x.glob = ref.glob /\ x.pattern = ref.pattern
      /\ x = [field \in DOMAIN x |-> x[field]]
  BY ResolvedFields
<1> HIDE DEF x
<1>2. KeyOf(x) = KeyOf(ref) => RehydrateException(x) = x
  BY <1>1 DEF RehydrateException
<1>3. CASE IsExact(ref)
  <2>1. ref.kind = "exact" /\ IsSafeRelativePath(ref.path) /\ ref.title.length # 0
    BY <1>3, ReferenceKeys DEF IsExact
  <2>2. x.kind = "exact" /\ x.path = ref.path /\ x.title = ref.title
    BY <1>1, <2>1
  <2>3. KeyOf(x) = KeyOf(ref)
    BY <1>1, <2>1, <2>2 DEF KeyOf
  <2>4. ~Corrupt(x)
    BY <1>1, <2>1, <2>2 DEF Corrupt
  <2>5. \A f : Accepts(x, f) <=> Accepts(ref, f)
    BY <1>1, <2>1, <2>2 DEF Accepts
  <2>6. IsException(x)
    BY <2>2 DEF IsException
  <2>7. QED
    BY <1>2, <2>3, <2>4, <2>5, <2>6 DEF x
<1>4. CASE IsOfRule(ref)
  <2>1. ref.kind = "rule" /\ ref.rule # NoText
    BY <1>4, ReferenceKeys
  <2>2. KeyOf(x) = KeyOf(ref)
    BY <1>1, <2>1 DEF KeyOf
  <2>3. ~Corrupt(x)
    BY <1>1, <2>1 DEF Corrupt
  <2>4. \A f : Accepts(x, f) <=> Accepts(ref, f)
    BY <1>1, <2>1 DEF Accepts
  <2>5. IsException(x)
    BY <1>1, <2>1 DEF IsException
  <2>6. QED
    BY <1>2, <2>2, <2>3, <2>4, <2>5 DEF x
<1>5. CASE IsOfGlob(ref)
  <2>1. ref.kind = "glob" /\ IsList(ref.pattern) /\ IsSafeGlobPattern(ref.pattern)
    BY <1>5, ReferenceKeys DEF IsOfGlob
  <2>2. x.kind = "glob" /\ x.glob = ref.glob /\ x.pattern = ref.pattern
    BY <1>1, <2>1
  <2>3. KeyOf(x) = KeyOf(ref)
    BY <1>1, <2>1, <2>2 DEF KeyOf
  <2>4. ~Corrupt(x)
    BY <1>1, <2>1, <2>2 DEF Corrupt
  <2>5. \A f : Accepts(x, f) <=> Accepts(ref, f)
    BY <1>1, <2>1, <2>2 DEF Accepts
  <2>6. IsException(x)
    BY <2>1, <2>2 DEF IsException, IsSafeGlobPattern
  <2>7. QED
    BY <1>2, <2>3, <2>4, <2>5, <2>6 DEF x
<1>6. QED
  BY <1>3, <1>4, <1>5 DEF IsReference

LEMMA LineFields ==
  ASSUME NEW verb, NEW words, NEW identity
  PROVE  /\ Line(verb, words, identity).verb = verb
         /\ Line(verb, words, identity).words = words
         /\ Line(verb, words, identity).identity = identity
BY DEF Line

LEMMA LoweredFields ==
  ASSUME NEW title, IsTitle(title)
  PROVE  Lowered(title).lower = title.lower /\ Lowered(title).length = title.length
<1>1. DOMAIN title = {"text", "lower", "loose", "length"}
  BY DEF IsTitle
<1>2. QED
  BY <1>1 DEF Lowered

\* A command for one finding is parsed to what it names.
LEMMA PrintedIdentity ==
  ASSUME NEW verb \in {"accept", "forget"}, NEW path, IsSafeRelativePath(path), NEW rule,
         NEW title, IsTitle(title), title.length # 0
  PROVE  ParseMemoryReference(Line(verb, <<>>, <<path, rule, Lowered(title)>>))
           = Exact(path, rule, Lowered(title))
<1> DEFINE id   == <<path, rule, Lowered(title)>>
           line == Line(verb, <<>>, id)
<1>1. line.verb = verb /\ line.identity = id
  BY LineFields
<1>2. id # <<>> /\ Len(id) = 3 /\ id[1] = path /\ id[2] = rule /\ id[3] = Lowered(title)
  OBVIOUS
<1>3. Lowered(title).length # 0
  BY LoweredFields
<1>4. verb \notin RuleVerbs /\ verb \notin GlobVerbs
  BY DEF RuleVerbs, GlobVerbs
<1> HIDE DEF id, line
<1>5. ParseMemoryReference(line) = ParseExact(id)
  BY <1>1, <1>4 DEF ParseMemoryReference
<1>6. ParseExact(id) = Exact(path, rule, Lowered(title))
  BY <1>2, <1>3 DEF ParseExact
<1>7. QED
  BY <1>5, <1>6 DEF line, id

\* The command that is printed with a finding accepts it.
LEMMA PrintedCommandAccepts ==
  ASSUME NEW f \in Range(Proposed)
  PROVE  LET ref == ParseMemoryReference(AcceptCommand(f))
         IN  ref.message = NoText /\ Accepts(ref, f)
<1> DEFINE ref == Exact(f.anchor.path, f.rule, Lowered(f.title))
<1>1. IsSafeRelativePath(f.anchor.path) /\ IsTitle(f.title) /\ f.title.length # 0
  BY ProposedAreReal
<1>2. ParseMemoryReference(AcceptCommand(f)) = ref
  BY <1>1, PrintedIdentity DEF AcceptCommand
<1>3. /\ ref.kind = "exact" /\ ref.path = f.anchor.path /\ ref.rule = f.rule
      /\ ref.title = Lowered(f.title) /\ ref.message = NoText
  BY ReferenceFields
<1>4. ref.title.lower = f.title.lower
  BY <1>1, <1>3, LoweredFields
<1> HIDE DEF ref
<1>5. Accepts(ref, f)
  BY <1>3, <1>4 DEF Accepts
<1>6. QED
  BY <1>2, <1>3, <1>5

\* The forget command that is printed with a confirmation is about what was accepted.
LEMMA PrintedCommandUndoes ==
  ASSUME NEW ref, IsReference(ref)
  PROVE  Undoes(ForgetCommand(ref), ref)
<1>1. \A line : Undoes(line, ref) <=>
        /\ line.verb \in {"forget", "forget-rule", "forget-glob"}
        /\ ParseMemoryReference(line).message = NoText
        /\ Subject(ParseMemoryReference(line)) = Subject(ref)
  BY DEF Undoes
<1>2. CASE IsExact(ref)
  <2> DEFINE back == Exact(ref.path, ref.rule, Lowered(ref.title))
             line == Line("forget", <<>>, <<ref.path, ref.rule, Lowered(ref.title)>>)
  <2>1. /\ ref.kind = "exact" /\ IsSafeRelativePath(ref.path) /\ IsTitle(ref.title)
        /\ ref.title.length # 0
        /\ Subject(ref) = <<"exact", ref.path, ref.rule, ref.title.lower>>
    BY <1>2, ReferenceKeys DEF IsExact
  <2>2. ForgetCommand(ref) = line
    BY <2>1 DEF ForgetCommand
  <2>3. ParseMemoryReference(line) = back
    BY <2>1, PrintedIdentity
  <2>4. /\ back.kind = "exact" /\ back.message = NoText /\ back.path = ref.path /\ back.rule = ref.rule
        /\ back.title.lower = ref.title.lower
    BY <2>1, ReferenceFields, LoweredFields
  <2>5. line.verb = "forget"
    BY LineFields
  <2> HIDE DEF back, line
  <2>6. Subject(back) = Subject(ref)
    BY <2>1, <2>4 DEF Subject
  <2>7. QED
    BY <1>1, <2>2, <2>3, <2>4, <2>5, <2>6
<1>3. CASE IsOfRule(ref)
  <2> DEFINE words == <<Word(ref.rule)>>
             line  == Line("forget-rule", words, <<>>)
             back  == OfRule(ref.rule)
  <2>1. ref.kind = "rule"
    BY <1>3, ReferenceKeys
  <2>2. ForgetCommand(ref) = line
    BY <2>1 DEF ForgetCommand
  <2>3. words # <<>> /\ Len(words) = 1 /\ words[1].text = ref.rule
    BY DEF Word
  <2>4. line.verb = "forget-rule" /\ line.words = words
    BY LineFields
  <2>5. back = ref /\ back.message = NoText
    BY <1>3, ReferenceFields DEF IsOfRule
  <2> HIDE DEF words, line, back
  <2>6. ParseMemoryReference(line) = OfRule(words[1].text)
    BY <2>3, <2>4 DEF ParseMemoryReference, RuleVerbs
  <2>7. ParseMemoryReference(line) = ref
    BY <2>3, <2>5, <2>6 DEF back
  <2>8. QED
    BY <1>1, <2>2, <2>4, <2>5, <2>7
<1>4. CASE IsOfGlob(ref)
  <2> DEFINE word  == Pattern(ref)
             rest  == IF ref.rule = NoText THEN <<>> ELSE <<Word(ref.rule)>>
             words == <<word>> \o rest
             line  == Line("forget-glob", words, <<>>)
  <2>1. /\ ref.kind = "glob" /\ IsSafeGlobPattern(ref.pattern)
        /\ ref = OfGlob(word, ref.rule)
    BY <1>4, ReferenceKeys DEF IsOfGlob
  <2>2. ForgetCommand(ref) = line
    BY <2>1 DEF ForgetCommand, Pattern
  <2>3. word.pattern = ref.pattern
    BY DEF Pattern
  <2>4. /\ words[1] = word /\ Len(words) \in {1, 2}
        /\ ref.rule = NoText => Len(words) = 1
        /\ ref.rule # NoText => Len(words) = 2 /\ words[2].text = ref.rule
    <3> DEFINE T == {word, Word(ref.rule)}
    <3>0. \A t \in T : <<t>> \in Seq(T)
      OBVIOUS
    <3>1. <<word>> \in Seq(T) /\ rest \in Seq(T) /\ Len(<<word>>) = 1 /\ <<word>>[1] = word
      <4>1. word \in T /\ Word(ref.rule) \in T /\ <<>> \in Seq(T)
        OBVIOUS
      <4> HIDE DEF T, word
      <4>2. QED
        BY <3>0, <4>1
    <3>2. /\ ref.rule = NoText => Len(rest) = 0
          /\ ref.rule # NoText => Len(rest) = 1 /\ rest[1] = Word(ref.rule)
      OBVIOUS
    <3>3. Word(ref.rule).text = ref.rule
      BY DEF Word
    <3> HIDE DEF T, rest, word
    <3>4. /\ Len(words) = Len(<<word>>) + Len(rest)
          /\ \A i \in 1..Len(<<word>>) : words[i] = <<word>>[i]
          /\ \A j \in 1..Len(rest) : words[Len(<<word>>) + j] = rest[j]
      BY <3>1, ConcatPlaces
    <3> HIDE DEF words
    <3>5. words[1] = word
      BY <3>1, <3>4
    <3>6. ref.rule = NoText => Len(words) = 1
      BY <3>1, <3>2, <3>4
    <3>7. ref.rule # NoText => Len(words) = 2 /\ words[2] = Word(ref.rule)
      BY <3>1, <3>2, <3>4
    <3>8. QED
      BY <3>3, <3>5, <3>6, <3>7
  <2>5. line.verb = "forget-glob" /\ line.words = words
    <3> HIDE DEF words
    <3>1. QED
      BY LineFields
  <2>6. ref.message = NoText
    BY <1>4, ReferenceFields DEF IsOfGlob
  <2> HIDE DEF word, rest, words, line
  <2>7. ParseMemoryReference(line)
          = OfGlob(words[1], IF Len(words) = 2 THEN words[2].text ELSE NoText)
    BY <2>1, <2>3, <2>4, <2>5 DEF ParseMemoryReference, RuleVerbs, GlobVerbs
  <2>8. ParseMemoryReference(line) = ref
    BY <2>1, <2>4, <2>7
  <2>9. QED
    BY <1>1, <2>2, <2>5, <2>6, <2>8
<1>5. QED
  BY <1>2, <1>3, <1>4 DEF IsReference

-----------------------------------------------------------------------------
(***************************************************************************)
(* Events that the store is asked about.                                   *)
(***************************************************************************)
Commands == {e \in Asking : Reference(e).message = NoText}
Exceptions == {ResolvedException(Reference(e), Event(e).actor) : e \in Commands}

\* No comment names a file of the root that is called `*`: its key could be that of a pattern.
NoFileIsNamedStar == \A e \in Commands : NotStar(Reference(e))

LEMMA IdentityNamesExact ==
  ASSUME NEW id
  PROVE  ParseExact(id).message # NoText \/ ParseExact(id).kind = "exact"
<1>1. \/ ParseExact(id) = Unparsed("expected an identity")
      \/ ParseExact(id) = Unparsed("not three strings")
      \/ ParseExact(id) = Unparsed("unsafe path")
      \/ ParseExact(id) = Unparsed("empty title")
      \/ ParseExact(id) = Exact(id[1], id[2], id[3])
  BY Zenon DEF ParseExact
<1>2. Exact(id[1], id[2], id[3]).kind = "exact"
  BY ReferenceFields
<1>3. /\ Unparsed("expected an identity").message # NoText
      /\ Unparsed("not three strings").message # NoText
      /\ Unparsed("unsafe path").message # NoText
      /\ Unparsed("empty title").message # NoText
  <2>1. \A message : Unparsed(message).message = message
    BY DEF Unparsed
  <2>2. /\ "expected an identity" # NoText /\ "not three strings" # NoText
        /\ "unsafe path" # NoText /\ "empty title" # NoText
    BY Zenon DEF NoText
  <2>3. QED
    BY <2>1, <2>2
<1>4. QED
  BY <1>1, <1>2, <1>3

LEMMA CommandsAreReferences ==
  /\ \A e \in Commands : IsReference(Reference(e)) /\ Event(e).actor # NoText
  /\ \A e, other \in Commands : SamePattern(Reference(e), Reference(other))
<1>1. ASSUME NEW e \in Commands
      PROVE  /\ IsReference(Reference(e)) /\ Event(e).actor # NoText
             /\ e \in Asking /\ IsCommandLine(Event(e).body.first)
  <2>1. e \in Asking /\ Reference(e).message = NoText /\ IngestFailure(PayloadOf[e]) = NoText
    BY DEF Commands, Asking
  <2>2. IsCommandLine(Event(e).body.first)
    BY <2>1, CommandsAreReal
  <2>3. IsReference(Reference(e))
    BY <2>1, <2>2, ParsedIsReference DEF Reference
  <2>4. Event(e).actor # NoText
    BY <2>1, KnownKind DEF Event, Ingest
  <2>5. QED
    BY <2>1, <2>2, <2>3, <2>4
<1>2. ASSUME NEW e \in Commands, Reference(e).kind = "glob"
      PROVE  \E word \in Range(Event(e).body.first.words) :
               Reference(e).glob = word.text /\ Reference(e).pattern = word.pattern
  <2> DEFINE line == Event(e).body.first
             words == line.words
             rule  == IF Len(words) = 2 THEN words[2].text ELSE NoText
  <2>1. IsList(words)
    BY <1>1 DEF IsCommandLine
  <2>2. Reference(e) = ParseMemoryReference(line) /\ Reference(e).message = NoText
    BY DEF Reference, Commands
  <2>3. /\ \A r : OfRule(r).kind = "rule"
        /\ \A p, r, t : Exact(p, r, t).kind = "exact"
        /\ \A g, r : OfGlob(g, r).glob = g.text /\ OfGlob(g, r).pattern = g.pattern
    BY ReferenceFields
  <2>4. \A message : Unparsed(message).message = message
    BY DEF Unparsed
  <2>5. /\ "expected a rule" # NoText /\ "unsafe glob" # NoText /\ "expected an identity" # NoText
        /\ "not three strings" # NoText /\ "unsafe path" # NoText /\ "empty title" # NoText
    BY Zenon DEF NoText
  <2>6. Len(words) \in {1, 2} /\ Reference(e) = OfGlob(words[1], rule)
    <3>1. \/ ParseMemoryReference(line) = Unparsed("expected a rule")
          \/ ParseMemoryReference(line) = OfRule(words[1].text)
          \/ Len(words) \in {1, 2} /\ ParseMemoryReference(line) = OfGlob(words[1], rule)
          \/ ParseMemoryReference(line) = Unparsed("unsafe glob")
          \/ ParseMemoryReference(line) = ParseExact(line.identity)
      BY DEF ParseMemoryReference
    <3> HIDE DEF words, rule
    <3>2. \/ ParseExact(line.identity).message # NoText
          \/ ParseExact(line.identity).kind = "exact"
      BY IdentityNamesExact
    <3>3. QED
      BY <1>2, <2>2, <2>3, <2>4, <2>5, <3>1, <3>2
  <2>7. words[1] \in Range(words)
    BY <2>1, <2>6, ListElements
  <2> HIDE DEF words, rule
  <2>8. Reference(e).glob = words[1].text /\ Reference(e).pattern = words[1].pattern
    BY <2>3, <2>6
  <2>9. QED
    BY <2>7, <2>8 DEF words
<1>3. ASSUME NEW e \in Commands, NEW other \in Commands
      PROVE  SamePattern(Reference(e), Reference(other))
  <2>1. SUFFICES ASSUME Reference(e).kind = "glob", Reference(other).kind = "glob",
                        Reference(e).glob = Reference(other).glob
                 PROVE  Reference(e).pattern = Reference(other).pattern
    BY DEF SamePattern
  <2>2. PICK word \in Range(Event(e).body.first.words) :
          Reference(e).glob = word.text /\ Reference(e).pattern = word.pattern
    BY <1>2, <2>1
  <2>3. PICK also \in Range(Event(other).body.first.words) :
          Reference(other).glob = also.text /\ Reference(other).pattern = also.pattern
    BY <1>2, <2>1
  <2>4. \A x, y \in Asking :
          \A v \in Range(Event(x).body.first.words), w \in Range(Event(y).body.first.words) :
            v.text = w.text => v.pattern = w.pattern
    BY CommandsAreReal
  <2>5. word.text = also.text /\ e \in Asking /\ other \in Asking
    BY <1>1, <2>1, <2>2, <2>3
  <2>6. word.pattern = also.pattern
    BY Zenon, <2>2, <2>3, <2>4, <2>5
  <2>7. QED
    BY <2>2, <2>3, <2>6
<1>4. QED
  BY <1>1, <1>3

\* What is in the store comes back from a file as it was.
LEMMA StoreIsReread ==
  ASSUME NEW list \in Seq(Exceptions)
  PROVE  ParseMemory(list) = list
<1>1. \A i \in DOMAIN list : list[i] \in Exceptions /\ list = [j \in DOMAIN list |-> list[j]]
  OBVIOUS
<1>2. ASSUME NEW x \in Exceptions PROVE ~Corrupt(x) /\ RehydrateException(x) = x
  <2>1. PICK e \in Commands : x = ResolvedException(Reference(e), Event(e).actor)
    BY DEF Exceptions
  <2>2. QED
    BY <2>1, CommandsAreReferences, ResolvedProperties
<1>3. ~\E x \in Range(list) : Corrupt(x)
  BY <1>1, <1>2 DEF Range
<1>4. [i \in DOMAIN list |-> RehydrateException(list[i])] = [i \in DOMAIN list |-> list[i]]
  BY <1>1, <1>2
<1>5. list = [i \in DOMAIN list |-> list[i]]
  OBVIOUS
<1>6. QED
  BY <1>3, <1>4, <1>5 DEF ParseMemory

-----------------------------------------------------------------------------
(***************************************************************************)
(* What stands after a list of commands, and the keys of it.               *)
(***************************************************************************)
Asked(e, diagnose) == Route(Event(e), diagnose)

StandingOf(list, diagnose) ==
  {i \in DOMAIN list :
     /\ Asked(list[i], diagnose) = "accept"
     /\ \A j \in DOMAIN list :
          j > i /\ Asked(list[j], diagnose) = "forget"
            => Subject(Reference(list[j])) # Subject(Reference(list[i]))}

KeysOf(list, diagnose) == {KeyOf(Reference(list[i])) : i \in StandingOf(list, diagnose)}
StoredKeys(list) == {x.key : x \in Range(list)}

LEMMA AppendStands ==
  ASSUME NEW list \in Seq(Commands), NEW e \in Commands, NEW diagnose,
         Asked(e, diagnose) \in {"accept", "forget"}
  PROVE  \A i : i \in StandingOf(Append(list, e), diagnose) <=>
           \/ i = Len(list) + 1 /\ Asked(e, diagnose) = "accept"
           \/ /\ i \in StandingOf(list, diagnose)
              /\ Asked(e, diagnose) = "forget" => Subject(Reference(e)) # Subject(Reference(list[i]))
<1> DEFINE next == Append(list, e)
           N == Len(list)
<1>1. /\ N \in Nat /\ DOMAIN list = 1..N /\ DOMAIN next = 1..(N + 1)
      /\ next[N + 1] = e /\ \A i \in 1..N : next[i] = list[i]
  OBVIOUS
<1>2. /\ \A i \in 1..N : i \in 1..(N + 1) /\ N + 1 > i /\ i # N + 1
      /\ \A i \in 1..(N + 1) : i \in 1..N \/ i = N + 1
      /\ \A j \in 1..(N + 1) : ~(j > N + 1)
      /\ N + 1 \in 1..(N + 1)
  BY <1>1
<1> HIDE DEF next, N
<1>3. ASSUME NEW i \in 1..N
      PROVE  i \in StandingOf(next, diagnose) <=>
               /\ i \in StandingOf(list, diagnose)
               /\ Asked(e, diagnose) = "forget" => Subject(Reference(e)) # Subject(Reference(list[i]))
  BY <1>1, <1>2 DEF StandingOf
<1>4. N + 1 \in StandingOf(next, diagnose) <=> Asked(e, diagnose) = "accept"
  BY <1>1, <1>2 DEF StandingOf
<1>5. /\ \A i \in StandingOf(next, diagnose) : i \in 1..(N + 1)
      /\ \A i \in StandingOf(list, diagnose) : i \in 1..N
  BY <1>1 DEF StandingOf
<1>6. QED
  BY <1>2, <1>3, <1>4, <1>5 DEF next, N

LEMMA AcceptedKeys ==
  ASSUME NEW list \in Seq(Commands), NEW e \in Commands, NEW diagnose,
         Asked(e, diagnose) = "accept"
  PROVE  KeysOf(Append(list, e), diagnose) = KeysOf(list, diagnose) \cup {KeyOf(Reference(e))}
<1> DEFINE next == Append(list, e)
           N == Len(list)
<1>1. /\ next[N + 1] = e
      /\ \A i \in StandingOf(list, diagnose) : next[i] = list[i]
  BY DEF StandingOf
<1>2. \A i : i \in StandingOf(next, diagnose) <=> i = N + 1 \/ i \in StandingOf(list, diagnose)
  BY AppendStands
<1> HIDE DEF next, N
<1>3. KeysOf(next, diagnose) = KeysOf(list, diagnose) \cup {KeyOf(Reference(e))}
  BY <1>1, <1>2 DEF KeysOf
<1>4. QED
  BY <1>3 DEF next

LEMMA ForgottenKeys ==
  ASSUME NoFileIsNamedStar, NEW list \in Seq(Commands), NEW e \in Commands, NEW diagnose,
         Asked(e, diagnose) = "forget"
  PROVE  KeysOf(Append(list, e), diagnose) = KeysOf(list, diagnose) \ {KeyOf(Reference(e))}
<1> DEFINE next == Append(list, e)
<1>1. \A i \in StandingOf(list, diagnose) : next[i] = list[i] /\ list[i] \in Commands
  BY DEF StandingOf
<1>2. \A i : i \in StandingOf(next, diagnose) <=>
               /\ i \in StandingOf(list, diagnose)
               /\ Subject(Reference(e)) # Subject(Reference(list[i]))
  BY AppendStands
<1> HIDE DEF next
<1>3. \A other \in Commands :
        KeyOf(Reference(e)) = KeyOf(Reference(other)) <=> Subject(Reference(e)) = Subject(Reference(other))
  BY CommandsAreReferences, KeysTellSubjects DEF NoFileIsNamedStar
<1>4. KeysOf(next, diagnose) = KeysOf(list, diagnose) \ {KeyOf(Reference(e))}
  BY <1>1, <1>2, <1>3 DEF KeysOf
<1>5. QED
  BY <1>4 DEF next

LEMMA WithoutKey ==
  ASSUME NEW T, NEW list \in Seq(T), NEW key
  PROVE  Without(list, key) \in Seq(T) /\ StoredKeys(Without(list, key)) = StoredKeys(list) \ {key}
<1> DEFINE places == {i \in DOMAIN list : list[i].key # key}
           rest == Picked(list, places)
<1>1. Without(list, key) = rest
  BY DEF Without
<1>2. rest \in Seq(T) /\ \A x : x \in Range(rest) <=> \E i \in places \cap DOMAIN list : x = list[i]
  <2> HIDE DEF places
  <2>1. QED
    BY PickedProperties
<1>3. \A x : x \in Range(rest) <=> x \in Range(list) /\ x.key # key
  <2> HIDE DEF rest
  <2>1. QED
    BY <1>2 DEF Range
<1> HIDE DEF rest, places
<1>4. StoredKeys(rest) = StoredKeys(list) \ {key}
  BY <1>3 DEF StoredKeys
<1>5. QED
  BY <1>1, <1>2, <1>4

LEMMA RecordedKey ==
  ASSUME NEW T, NEW list \in Seq(T), NEW x \in T
  PROVE  Recorded(list, x) \in Seq(T) /\ StoredKeys(Recorded(list, x)) = StoredKeys(list) \cup {x.key}
<1> DEFINE rest == Without(list, x.key)
           next == Append(rest, x)
<1>1. rest \in Seq(T) /\ StoredKeys(rest) = StoredKeys(list) \ {x.key}
  BY WithoutKey
<1>2. Recorded(list, x) = next
  BY DEF Recorded
<1> HIDE DEF rest
<1>3. next \in Seq(T) /\ DOMAIN next = 1..(Len(rest) + 1) /\ next[Len(rest) + 1] = x
      /\ \A i \in 1..Len(rest) : next[i] = rest[i]
  BY <1>1
<1>4. DOMAIN rest = 1..Len(rest) /\ Len(rest) \in Nat
  BY <1>1
<1>5. \A i \in 1..(Len(rest) + 1) : i \in 1..Len(rest) \/ i = Len(rest) + 1
  BY <1>4
<1>6. \A i \in 1..Len(rest) : i \in 1..(Len(rest) + 1)
  BY <1>4
<1>7. Len(rest) + 1 \in 1..(Len(rest) + 1)
  BY <1>4
<1> HIDE DEF next
<1>8. \A y : y \in Range(next) <=> y \in Range(rest) \/ y = x
  BY <1>3, <1>4, <1>5, <1>6, <1>7 DEF Range
<1>9. StoredKeys(next) = StoredKeys(rest) \cup {x.key}
  BY <1>8 DEF StoredKeys
<1>10. QED
  BY <1>1, <1>2, <1>3, <1>9

-----------------------------------------------------------------------------
(***************************************************************************)
(* The store holds an exception for each command that stands, under its    *)
(* key, and no other.                                                      *)
(***************************************************************************)
HistoryInv ==
  /\ store \in Seq(Exceptions)
  /\ executed \in Seq(Commands)
  /\ \A i \in DOMAIN executed : Asked(executed[i], given.enableDiagnose) \in {"accept", "forget"}
  /\ StoredKeys(store) = KeysOf(executed, given.enableDiagnose)

LEMMA HistoryInit == Init => HistoryInv
<1>1. StoredKeys(<<>>) = {} /\ \A diagnose : KeysOf(<<>>, diagnose) = {}
  BY DEF StoredKeys, KeysOf, StandingOf, Range
<1>2. <<>> \in Seq(Exceptions) /\ <<>> \in Seq(Commands) /\ DOMAIN <<>> = {}
  OBVIOUS
<1>3. Init => store = <<>> /\ executed = <<>>
  BY DEF Init
<1>4. QED
  BY <1>1, <1>2, <1>3 DEF HistoryInv

\* What a run asks the store to do is a command.
LEMMA RecordingIsCommand ==
  ASSUME JudgedInv, NEW r \in Runs, run[r].stage = "record"
  PROVE  run[r].event \in Commands /\ IntentOf(run[r].event) \in {"accept", "forget"}
<1>1. PICK e \in DOMAIN PayloadOf : run[r] = Judged(e)
  BY DEF JudgedInv, RunIsJudged, Idle, Replying
<1>2. /\ IngestFailure(PayloadOf[e]) = NoText /\ IntentOf(e) \in {"accept", "forget"}
      /\ Reference(e).message = NoText /\ Judged(e) = Recording(e)
  BY <1>1 DEF Judged, Ended, Recording
<1>3. run[r].event = e
  BY <1>1, <1>2 DEF Recording
<1>4. Route(Event(e), TRUE) = IntentOf(e)
  BY <1>2 DEF IntentOf, Route
<1>5. e \in Commands
  BY <1>2, <1>4 DEF Commands, Asking
<1>6. QED
  BY <1>2, <1>3, <1>5

LEMMA HistoryRecord ==
  ASSUME NoFileIsNamedStar, JudgedInv, HistoryInv, NEW r \in Runs, Record(r)
  PROVE  HistoryInv'
<1> DEFINE e == run[r].event
           diagnose == given.enableDiagnose
<1>1. /\ run[r].stage = "record" /\ given' = given
      /\ \/ store' = Executed(e) /\ executed' = Append(executed, e)
         \/ store' = store /\ executed' = executed
  BY DEF Record
<1>2. CASE store' = store /\ executed' = executed
  BY <1>1, <1>2 DEF HistoryInv
<1>3. CASE store' = Executed(e) /\ executed' = Append(executed, e)
  <2>1. /\ e \in Commands /\ Asked(e, diagnose) \in {"accept", "forget"}
        /\ Asked(e, diagnose) = IntentOf(e)
    BY <1>1, RecordingIsCommand DEF Asked, IntentOf
  <2>2. /\ store \in Seq(Exceptions) /\ executed \in Seq(Commands)
        /\ \A i \in DOMAIN executed : Asked(executed[i], diagnose) \in {"accept", "forget"}
        /\ StoredKeys(store) = KeysOf(executed, diagnose)
    BY DEF HistoryInv
  <2> HIDE DEF e
  <2>3. executed' \in Seq(Commands)
    BY <1>3, <2>1, <2>2
  <2>4. \A i \in DOMAIN executed' : Asked(executed'[i], diagnose) \in {"accept", "forget"}
    <3> HIDE DEF diagnose
    <3>1. \A i \in DOMAIN executed' : executed'[i] = e \/ (i \in DOMAIN executed /\ executed'[i] = executed[i])
      BY <1>3, <2>2
    <3>2. QED
      BY <2>1, <2>2, <3>1
  <2>5. store' \in Seq(Exceptions) /\ StoredKeys(store') = KeysOf(executed', diagnose)
    <3> DEFINE x == ResolvedException(Reference(e), Event(e).actor)
    <3>1. x \in Exceptions /\ x.key = KeyOf(Reference(e))
      BY <2>1, CommandsAreReferences, ResolvedFields DEF Exceptions
    <3> HIDE DEF diagnose
    <3>2. CASE Asked(e, diagnose) = "accept"
      <4>1. store' = Recorded(store, x)
        BY <1>3, <2>1, <3>2 DEF Executed
      <4> HIDE DEF x
      <4>2. /\ Recorded(store, x) \in Seq(Exceptions)
            /\ StoredKeys(Recorded(store, x)) = StoredKeys(store) \cup {x.key}
        BY <2>2, <3>1, RecordedKey
      <4>3. KeysOf(Append(executed, e), diagnose) = KeysOf(executed, diagnose) \cup {KeyOf(Reference(e))}
        BY <2>1, <2>2, <3>2, AcceptedKeys
      <4>4. QED
        BY <1>3, <2>2, <3>1, <4>1, <4>2, <4>3
    <3>3. CASE Asked(e, diagnose) = "forget"
      <4> DEFINE key == KeyOf(Reference(e))
      <4>1. store' = Without(store, key)
        BY <1>3, <2>1, <3>3 DEF Executed
      <4>2. KeysOf(Append(executed, e), diagnose) = KeysOf(executed, diagnose) \ {key}
        BY <2>1, <2>2, <3>3, ForgottenKeys
      <4> HIDE DEF key
      <4>3. /\ Without(store, key) \in Seq(Exceptions)
            /\ StoredKeys(Without(store, key)) = StoredKeys(store) \ {key}
        BY <2>2, WithoutKey
      <4>4. QED
        BY <1>3, <2>2, <4>1, <4>2, <4>3
    <3>4. QED
      BY <2>1, <3>2, <3>3
  <2>6. QED
    BY <1>1, <2>3, <2>4, <2>5 DEF HistoryInv
<1>4. QED
  BY <1>1, <1>2, <1>3

LEMMA HistoryStep ==
  ASSUME NoFileIsNamedStar, JudgedInv, HistoryInv, [Next]_memoryVars
  PROVE  HistoryInv'
<1>1. ASSUME given' = given, store' = store, executed' = executed PROVE HistoryInv'
  BY <1>1 DEF HistoryInv
<1>2. ASSUME NEW r, NEW e, Deliver(r, e) PROVE HistoryInv'
  BY <1>1, <1>2 DEF Deliver
<1>3. ASSUME NEW r \in given.runs, Record(r) PROVE HistoryInv'
  <2>1. r \in Runs
    BY <1>3, InputsAreReal DEF JudgedInv
  <2>2. QED
    BY <1>3, <2>1, HistoryRecord
<1>4. ASSUME NEW r, Reply(r) PROVE HistoryInv'
  BY <1>1, <1>4 DEF Reply
<1>5. CASE Restart
  <2>1. store' = store
    BY <1>5, StoreIsReread DEF Restart, HistoryInv
  <2>2. QED
    BY <1>1, <1>5, <2>1 DEF Restart
<1>6. CASE UNCHANGED memoryVars
  BY <1>1, <1>6 DEF memoryVars
<1>7. QED
  BY <1>2, <1>3, <1>4, <1>5, <1>6 DEF Next

LEMMA HistoryIsKept ==
  ASSUME NoFileIsNamedStar
  PROVE  Spec => [](JudgedInv /\ HistoryInv)
<1>1. Init => JudgedInv /\ HistoryInv
  BY JudgedInit, HistoryInit
<1>2. (JudgedInv /\ HistoryInv) /\ [Next]_memoryVars => (JudgedInv /\ HistoryInv)'
  BY JudgedStep, HistoryStep
<1>3. QED
  BY <1>1, <1>2, PTL DEF Spec

LEMMA HistoryIsHonored ==
  ASSUME NoFileIsNamedStar, HistoryInv
  PROVE  AcceptIsHonored
<1> DEFINE diagnose == given.enableDiagnose
<1>1. Standing = StandingOf(executed, diagnose)
  BY DEF Standing, StandingOf, Asked, IntentOf
<1>2. /\ store \in Seq(Exceptions) /\ executed \in Seq(Commands)
      /\ StoredKeys(store) = KeysOf(executed, diagnose)
  BY DEF HistoryInv
<1>3. \A i \in Standing : executed[i] \in Commands
  BY <1>1, <1>2 DEF StandingOf
<1>4. \A i \in Standing : IsReference(Reference(executed[i]))
  BY <1>3, CommandsAreReferences
<1> HIDE DEF diagnose
<1>5. ASSUME NEW x \in Exceptions
      PROVE  /\ IsException(x)
             /\ \E e \in Commands : /\ x.key = KeyOf(Reference(e))
                                    /\ \A f : Accepts(x, f) <=> Accepts(Reference(e), f)
  <2>1. PICK e \in Commands : x = ResolvedException(Reference(e), Event(e).actor)
    BY DEF Exceptions
  <2>2. IsReference(Reference(e)) /\ Event(e).actor # NoText
    BY CommandsAreReferences
  <2>3. x.key = KeyOf(Reference(e))
    BY <2>1, <2>2, ResolvedFields
  <2>4. IsException(x) /\ \A f : Accepts(x, f) <=> Accepts(Reference(e), f)
    BY <2>1, <2>2, ResolvedProperties
  <2>5. QED
    BY <2>3, <2>4
\* An exception of the store accepts what the standing command of its key does.
<1>6. ASSUME NEW x \in Range(store), NEW i \in Standing,
             x.key = KeyOf(Reference(executed[i])), NEW f
      PROVE  Accepts(x, f) <=> Accepts(Reference(executed[i]), f)
  <2>1. x \in Exceptions
    BY <1>2 DEF Range
  <2>2. PICK e \in Commands : /\ x.key = KeyOf(Reference(e))
                              /\ \A g : Accepts(x, g) <=> Accepts(Reference(e), g)
    BY <1>5, <2>1
  <2>3. executed[i] \in Commands
    BY <1>3
  <2> DEFINE a == Reference(e)
             b == Reference(executed[i])
  <2>4. /\ IsReference(a) /\ IsReference(b) /\ NotStar(a) /\ NotStar(b)
        /\ SamePattern(a, b) /\ KeyOf(a) = KeyOf(b)
    BY <1>6, <2>2, <2>3, CommandsAreReferences DEF NoFileIsNamedStar
  <2> HIDE DEF a, b
  <2>5. Subject(a) = Subject(b)
    BY <2>4, KeysTellSubjects
  <2>6. Accepts(a, f) <=> Accepts(b, f)
    BY <2>4, <2>5, SubjectsAccept
  <2>7. QED
    BY <2>2, <2>6 DEF a, b
<1>7. ASSUME NEW f \in Range(Proposed)
      PROVE  f \in Range(SuppressResolved(Proposed, store).findings)
               <=> \A x \in Range(store) : ~Accepts(x, f)
  <2> DEFINE all == SuppressResolved(Proposed, store)
  <2>1. Proposed \in Seq(Range(Proposed))
    BY ProposedAreReal DEF IsList
  <2>2. /\ Range(Proposed) = Range(all.findings) \cup Range(all.suppressed)
        /\ \A g \in Range(all.findings) : SuppressedBy(g, store) = <<>>
        /\ \A g \in Range(all.suppressed) : SuppressedBy(g, store) # <<>>
    BY <2>1, SuppressProperties
  <2> HIDE DEF all
  <2>3. f \in Range(all.findings) <=> SuppressedBy(f, store) = <<>>
    BY <1>7, <2>2
  <2>4. IsList(store) /\ \A x \in Range(store) : x \in Exceptions /\ IsException(x)
    <3>1. IsList(store)
      BY <1>2, IsListOf
    <3>2. \A x \in Range(store) : x \in Exceptions
      BY <1>2 DEF Range
    <3>3. QED
      BY <1>5, <3>1, <3>2
  <2>5. SuppressedBy(f, store) # <<>> <=> \E x \in Range(store) : Covers(x, f)
    BY <2>4, SuppressedByProperties
  <2>6. Len(f.anchor.path) \in Nat
    BY ProposedAreReal, ListElements
  <2>7. \A x \in Range(store) : Covers(x, f) <=> Accepts(x, f)
    BY <2>4, <2>6, CoversIffAccepts
  <2>8. QED
    BY <2>3, <2>5, <2>7 DEF all
<1>8. /\ \A x \in Range(store) : \E i \in Standing : x.key = KeyOf(Reference(executed[i]))
      /\ \A i \in Standing : \E x \in Range(store) : x.key = KeyOf(Reference(executed[i]))
  <2>1. {x.key : x \in Range(store)} = {KeyOf(Reference(executed[i])) : i \in Standing}
    BY <1>1, <1>2 DEF StoredKeys, KeysOf
  <2>2. QED
    BY <2>1
<1>9. ASSUME NEW f \in Range(Proposed)
      PROVE  (\A x \in Range(store) : ~Accepts(x, f))
               <=> \A i \in Standing : ~Accepts(Reference(executed[i]), f)
  <2>1. ASSUME NEW x \in Range(store), Accepts(x, f)
        PROVE  \E i \in Standing : Accepts(Reference(executed[i]), f)
    BY <1>6, <1>8, <2>1
  <2>2. ASSUME NEW i \in Standing, Accepts(Reference(executed[i]), f)
        PROVE  \E x \in Range(store) : Accepts(x, f)
    BY <1>6, <1>8, <2>2
  <2>3. QED
    BY <2>1, <2>2
<1>10. \A i \in Standing : Undoes(ForgetCommand(Reference(executed[i])), Reference(executed[i]))
  BY <1>4, PrintedCommandUndoes
<1>11. QED
  <2>1. ASSUME NEW f \in Range(Proposed)
        PROVE  /\ f \in Range(SuppressResolved(Proposed, store).findings)
                    <=> \A i \in Standing : ~Accepts(Reference(executed[i]), f)
               /\ LET ref == ParseMemoryReference(AcceptCommand(f))
                  IN  ref.message = NoText /\ Accepts(ref, f)
    BY <1>7, <1>9, PrintedCommandAccepts
  <2>2. QED
    BY <1>10, <2>1 DEF AcceptIsHonored

(***************************************************************************)
(* For any comments, runs that overlap, failures of the store and          *)
(* restarts, as long as no comment is about a file of the root that is     *)
(* called `*`: a review reports a finding exactly when no accepted         *)
(* exception that still stands is about it, and the commands that are      *)
(* printed with findings and confirmations do what they say                *)
(* (runMemoryCommand, parseMemoryReference, suppressResolved,              *)
(* parseMemory).                                                           *)
(***************************************************************************)
THEOREM AcceptsAreHonored ==
  ASSUME NoFileIsNamedStar
  PROVE  Spec => []AcceptIsHonored
<1>1. JudgedInv /\ HistoryInv => AcceptIsHonored
  BY HistoryIsHonored
<1>2. Spec => [](JudgedInv /\ HistoryInv)
  BY HistoryIsKept
<1>3. QED
  BY <1>1, <1>2, PTL

================================================================================
