---------------------------- MODULE WebhookHandler ----------------------------
(***************************************************************************)
(* What the webhook daemon reads off one HTTP request: the handler of      *)
(* `createHandler` of packages/drivers/driver-webhook/src/index.ts up to   *)
(* the call of the queue, with the transport's limit on the body.          *)
(*                                                                         *)
(* A request is a record of a path, a method, the bytes of its body,       *)
(* headers (from lower-case names to values) and the body: an object, or   *)
(* Malformed for what does not parse to one.                               *)
(***************************************************************************)
EXTENDS Payloads

CONSTANTS
  secrets,      \* the configured secret of each forge, "" where there is none
  maxBodyBytes

-----------------------------------------------------------------------------
(***************************************************************************)
(* Signatures.  GitHub and Gitea send a digest of the body under the       *)
(* secret, GitLab the secret.                                              *)
(***************************************************************************)
SignatureHeaders == <<[name |-> "x-hub-signature-256", forge |-> "github"],
                      [name |-> "x-gitea-signature", forge |-> "gitea"],
                      [name |-> "x-gitlab-token", forge |-> "gitlab"]>>
DeliveryHeader == [github |-> "x-github-delivery", gitea |-> "x-gitea-delivery",
                   gitlab |-> "x-gitlab-event-uuid"]
Unrecognized == "unrecognized"

\* detectForge: the first of the three headers that is there.
DetectForge(headers) ==
  LET there == SelectSeq(SignatureHeaders, LAMBDA h : h.name \in DOMAIN headers)
  IN  IF there = <<>> THEN Unrecognized ELSE Head(there).forge

Digest(secret, body) == <<secret, body>>
VerifyHmacSha256(secret, body, header) ==
  secret # "" /\ header.algorithm = "sha256" /\ header.digest = Digest(secret, body)
VerifyGitLabToken(secret, token) == secret # "" /\ token # "" /\ token = secret

VerifySignature(forge, request) ==
  IF forge = "gitlab"
  THEN VerifyGitLabToken(secrets[forge], request.headers["x-gitlab-token"])
  ELSE VerifyHmacSha256(secrets[forge], request.body,
         request.headers[IF forge = "github" THEN "x-hub-signature-256"
                                             ELSE "x-gitea-signature"])

DeliveryIdFor(forge, headers) ==
  IF DeliveryHeader[forge] \in DOMAIN headers THEN headers[DeliveryHeader[forge]] ELSE ""

-----------------------------------------------------------------------------
(***************************************************************************)
(* readEventIdentity: the repository and the change request of an event.   *)
(***************************************************************************)
GitLabIdentity(payload) ==
  LET attributes == Field(payload, "object_attributes")
  IN  [repo   |-> AsNonEmptyString(Field(Field(payload, "project"), "path_with_namespace")),
       change |-> FirstOf(<<AsIdString(Field(attributes, "iid")),
                            AsIdString(Field(attributes, "id"))>>)]

\* GitHub and Gitea; of a check run's change requests, the first.
GitHubIdentity(payload) ==
  LET linked == Field(Field(payload, "check_run"), "pull_requests")
      first  == IF linked = <<>> THEN Absent ELSE Head(linked)
  IN  [repo   |-> AsNonEmptyString(Field(Field(payload, "repository"), "full_name")),
       change |-> FirstOf(<<AsIdString(Field(Field(payload, "pull_request"), "number")),
                            AsIdString(Field(first, "number")),
                            AsIdString(Field(Field(payload, "issue"), "number"))>>)]

ReadEventIdentity(forge, payload) ==
  IF forge = "gitlab" THEN GitLabIdentity(payload) ELSE GitHubIdentity(payload)

-----------------------------------------------------------------------------
(***************************************************************************)
(* The handler.  Rejection is the status of a request that does not get    *)
(* to the queue, and Unanswered that of one that does: the queue's outcome *)
(* decides it.                                                             *)
(***************************************************************************)
Unanswered == 0
Malformed == [malformed |-> TRUE]

Authentic(request) ==
  LET forge == DetectForge(request.headers)
  IN  forge # Unrecognized /\ VerifySignature(forge, request)

Identified(request) == DeliveryIdFor(DetectForge(request.headers), request.headers) # ""

Rejection(request) ==
  IF request.bytes > maxBodyBytes THEN 413
  ELSE IF request.path = "/healthz" THEN 200
  ELSE IF request.path # "/webhook" THEN 404
  ELSE IF request.method # "POST" THEN 405
  ELSE IF ~Authentic(request) THEN 401
  ELSE IF request.body = Malformed \/ ~Identified(request) THEN 400
  ELSE Unanswered

StatusOf == [accepted |-> 202, duplicate |-> 200, shed |-> 503]

\* A coalesce key without the forge: a faulty variant.
CoalesceKeyOfNumber(forge, identity) == <<identity.repo, identity.change>>

CoalesceKey(forge, identity) == <<forge, identity.repo, identity.change>>

\* What is enqueued: the task's key, its repository and its coalesce key, if it has one.
TaskOf(request, noKey) ==
  LET forge    == DetectForge(request.headers)
      identity == ReadEventIdentity(forge, request.body)
  IN  [key |-> <<forge, identity.repo, DeliveryIdFor(forge, request.headers)>>,
       repo |-> identity.repo,
       coalesceKey |-> IF identity.change = "" THEN noKey ELSE CoalesceKey(forge, identity)]
=============================================================================
