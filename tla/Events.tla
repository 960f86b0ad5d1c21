-------------------------------- MODULE Events --------------------------------
(***************************************************************************)
(* From an event to the decision whether it may be acted on: `ingest`,     *)
(* `route` and `authorize` of packages/core/review-runtime, the actor      *)
(* resolvers of the forges, and packages/core/trust-policy.                *)
(*                                                                         *)
(* The body of a comment is its first line and the rest.  A line mentions  *)
(* the bot, or not, and has a verb, the words after it and, where the line *)
(* has brackets, the identity that they enclose.                           *)
(***************************************************************************)
EXTENDS Payloads

CONSTANT Shas \* the texts that are commit shas

IsText(leaf) == "text" \in DOMAIN leaf
IsFlag(leaf) == "flag" \in DOMAIN leaf
IsNumber(leaf) == "number" \in DOMAIN leaf

IsSha(leaf) == IsText(leaf) /\ leaf.text \in Shas
IsPositive(leaf) == IsNumber(leaf) /\ leaf.number > 0

-----------------------------------------------------------------------------
(***************************************************************************)
(* ingest.  What a driver hands over is the forge's payload with the id of *)
(* the delivery, and with the forge where there may be several.            *)
(***************************************************************************)
Handed(payload, deliveryId, forge) ==
  payload @@ [deliveryId |-> [text |-> deliveryId], forge |-> [text |-> forge]]

Kind(raw) ==
  IF Present(Field(raw, "comment")) THEN "comment"
  ELSE IF Present(Field(raw, "pull_request")) THEN "change-request"
  ELSE IF Present(Field(raw, "check_run")) THEN "check-failed"
  ELSE "unsupported"

Linked(raw) == Field(Field(raw, "check_run"), "pull_requests")

\* The record that describes the change request.
PullRequest(raw) ==
  IF Kind(raw) # "check-failed" THEN Field(raw, "pull_request")
  ELSE IF Linked(raw) = <<>> THEN Absent ELSE Head(Linked(raw))

HeadRepo(raw) == Field(Field(PullRequest(raw), "head"), "repo")

\* The record that names the repository; a check run's is that of its change request's base.
Repository(raw) ==
  LET pr == PullRequest(raw)
      preferred == IF Kind(raw) = "check-failed" THEN Field(Field(pr, "base"), "repository")
                   ELSE Field(raw, "repository")
  IN  IF Present(preferred) THEN preferred
      ELSE IF Kind(raw) = "check-failed" THEN Field(pr, "repository") ELSE HeadRepo(raw)

\* actorLogin: the sender, if it has a login, before the comment's author.
SenderLogin(raw) == Field(Field(raw, "sender"), "login")
AuthorLogin(raw) == Field(Field(Field(raw, "comment"), "user"), "login")
ActorLogin(raw) ==
  IF IsText(SenderLogin(raw)) THEN SenderLogin(raw).text
  ELSE IF IsText(AuthorLogin(raw)) THEN AuthorLogin(raw).text
  ELSE "github-actions[bot]"

Diagnosable == {"failure", "cancelled", "timed_out"}

IngestChecks(raw) ==
  LET pr == PullRequest(raw)
      kind == Kind(raw)
  IN  << <<AsNonEmptyString(Field(raw, "deliveryId")) = NoText, "deliveryId">>,
         <<Present(Field(raw, "forge")) /\ ~IsText(Field(raw, "forge")), "forge">>,
         <<kind = "unsupported", "unsupported">>,
         <<kind = "comment" /\ ~IsText(Field(Field(raw, "comment"), "body")), "body">>,
         <<kind = "check-failed"
             /\ AsNonEmptyString(Field(Field(raw, "check_run"), "conclusion")) \notin Diagnosable,
           "conclusion">>,
         <<~Present(pr), "missing pull_request object">>,
         <<~IsSha(Field(Field(pr, "base"), "sha")), "base sha">>,
         <<~IsSha(Field(Field(pr, "head"), "sha")), "head sha">>,
         <<AsNonEmptyString(Field(Repository(raw), "full_name")) = NoText, "repository">>,
         <<~IsPositive(Field(pr, "number")), "number">>,
         <<ActorLogin(raw) = NoText, "login">> >>

IngestFailure(raw) == FirstFailure(IngestChecks(raw))

\* For a payload without a failure.
Ingest(raw) ==
  [forge |-> IF Present(Field(raw, "forge")) THEN Field(raw, "forge").text ELSE "github",
   kind  |-> Kind(raw),
   repo  |-> Field(Repository(raw), "full_name").text,
   change |-> Field(PullRequest(raw), "number").number,
   actor |-> ActorLogin(raw),
   body  |-> IF Kind(raw) = "comment" THEN Field(Field(raw, "comment"), "body").text ELSE Absent]

-----------------------------------------------------------------------------
(***************************************************************************)
(* route: only the first line of a comment is looked at.                   *)
(***************************************************************************)
AcceptVerbs == {"accept", "accept-rule", "accept-glob"}
ForgetVerbs == {"forget", "forget-rule", "forget-glob"}
CommandIntent ==
  [verb \in {"review", "explain", "diagnose", "fix", "rules"} \cup AcceptVerbs \cup ForgetVerbs |->
    IF verb \in AcceptVerbs THEN "accept" ELSE IF verb \in ForgetVerbs THEN "forget" ELSE verb]

RouteUnchecked(event) ==
  CASE event.kind = "change-request" -> "review"
    [] event.kind = "check-failed" -> "diagnose"
    [] event.kind = "comment" ->
         LET line == event.body.first
         IN  IF line.mention /\ line.verb \in DOMAIN CommandIntent
             THEN CommandIntent[line.verb] ELSE "none"

Route(event, enableDiagnose) ==
  LET intent == RouteUnchecked(event)
  IN  IF intent = "diagnose" /\ ~enableDiagnose THEN "none" ELSE intent

-----------------------------------------------------------------------------
(***************************************************************************)
(* ActorResolver: what a forge's answers come to.  An answer is a status   *)
(* and what it says; 403 and 404 say that the actor is no collaborator.    *)
(***************************************************************************)
PermissionMap == [admin |-> "admin", maintain |-> "maintain", write |-> "write", push |-> "write",
                  triage |-> "triage", read |-> "read", pull |-> "read", none |-> "none"]
MapPermission(raw) ==
  IF IsText(raw) /\ raw.text \in DOMAIN PermissionMap THEN PermissionMap[raw.text] ELSE "none"

AccessLevelMap ==
  [level \in {0, 5, 10, 20, 30, 40, 50} |->
    CASE level = 50 -> "admin"
      [] level = 40 -> "maintain"
      [] level = 30 -> "write"
      [] level \in {10, 20} -> "read"
      [] level \in {0, 5} -> "none"]
MapAccessLevel(raw) ==
  IF IsNumber(raw) /\ raw.number \in DOMAIN AccessLevelMap THEN AccessLevelMap[raw.number]
  ELSE "none"

Faulty(answer) == answer.status \notin {200, 403, 404}

ResolvePermission(forge, answer) ==
  IF forge = "local" THEN "admin"
  ELSE IF answer.status # 200 THEN "none"
  ELSE IF forge = "github" THEN MapPermission(answer.role) ELSE MapAccessLevel(answer.role)

\* A change request of which the forge does not tell where it is from is from a fork.
IsForkOnGitHub(change) ==
  LET flag == Field(Field(Field(change, "head"), "repo"), "fork")
  IN  IsFlag(flag) => flag.flag
IsForkOnGitLab(change) ==
  LET source == Field(change, "source_project_id")
      target == Field(change, "target_project_id")
  IN  IsNumber(source) /\ IsNumber(target) => source.number # target.number

IsFork(forge, change) ==
  CASE forge = "local" -> FALSE
    [] forge = "github" -> IsForkOnGitHub(change)
    [] forge = "gitlab" -> IsForkOnGitLab(change)

-----------------------------------------------------------------------------
(***************************************************************************)
(* Trust.  An input of it is [isFork, permission, intent, allowWrite].     *)
(***************************************************************************)
WritePermissions == {"write", "maintain", "admin"}
TrustOrder == <<"none", "untrusted", "trusted-read", "trusted-write">>
IntentMinTrust ==
  [intent \in {"none", "review", "explain", "rules", "diagnose", "accept", "forget", "fix"} |->
    CASE intent \in {"review", "explain", "rules"} -> "untrusted"
      [] intent \in {"diagnose", "accept", "forget"} -> "trusted-read"
      [] intent = "fix" -> "trusted-write"
      [] intent = "none" -> "none"]

MeetsTrust(trust, minimum) ==
  LET Rank(level) == CHOOSE i \in DOMAIN TrustOrder : TrustOrder[i] = level
  IN  Rank(trust) >= Rank(minimum)

\* A fork is judged by its actor's permission first.
ResolveTrustForkLast(in) ==
  IF in.intent = "none" THEN "none"
  ELSE IF in.permission \notin WritePermissions THEN IF in.isFork THEN "untrusted" ELSE "none"
  ELSE IF in.intent # "fix" THEN "trusted-read" ELSE IF in.allowWrite THEN "trusted-write" ELSE "none"

ResolveTrust(in) ==
  CASE in.intent = "none" -> "none"
    [] in.intent # "none" /\ in.isFork -> "untrusted"
    [] in.intent # "none" /\ ~in.isFork ->
         IF in.permission \notin WritePermissions THEN "none"
         ELSE IF in.intent # "fix" THEN "trusted-read"
         ELSE IF in.allowWrite THEN "trusted-write" ELSE "none"

CapabilitiesFor(trust) ==
  CASE trust = "none" -> {}
    [] trust = "untrusted" -> {"readDiff", "publishComments"}
    [] trust = "trusted-read" -> {"readDiff", "readRepoFiles", "readCheckLogs", "publishComments"}
    [] trust = "trusted-write" -> {"readDiff", "readRepoFiles", "readCheckLogs", "publishComments",
                                   "proposePatches", "commitPatches"}

\* explainDenial: the condition a denied actor lacks, and no text when none is.
ExplainDenial(in) ==
  LET trust == ResolveTrust(in)
  IN  IF MeetsTrust(trust, IntentMinTrust[in.intent]) /\ trust # "none" THEN NoText
      ELSE IF in.intent = "none" THEN "intent"
      ELSE IF in.isFork THEN "isFork"
      ELSE IF in.permission \notin WritePermissions THEN "permission"
      ELSE IF in.intent = "fix" /\ ~in.allowWrite THEN "allowWrite"
      ELSE "intent"
=============================================================================
