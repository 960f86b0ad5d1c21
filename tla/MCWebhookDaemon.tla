--------------------------- MODULE MCWebhookDaemon ---------------------------
(***************************************************************************)
(* Instances of WebhookDaemon for TLC.  Two forges have a repository of    *)
(* one name, with a change request of one number.                          *)
(***************************************************************************)
EXTENDS WebhookDaemon

MCSecrets == [github |-> "s", gitea |-> "", gitlab |-> "t"]

Text(value) == [text |-> value]
Number(value) == [number |-> value]

Posted(headers, body) ==
  [path |-> "/webhook", method |-> "POST", bytes |-> 1, headers |-> headers, body |-> body]
HubHeaders(id, body) ==
  ("x-hub-signature-256" :> [algorithm |-> "sha256", digest |-> Digest("s", body)])
    @@ ("x-github-delivery" :> id)
LabHeaders(id) == ("x-gitlab-token" :> "t") @@ ("x-gitlab-event-uuid" :> id)

Hub(id, body) == Posted(HubHeaders(id, body), body)
Lab(id, body) == Posted(LabHeaders(id), body)

InRepo(name) == [full_name |-> Text(name)]
PushTo(name) == [repository |-> InRepo(name)]
Change(name, number) ==
  [repository |-> InRepo(name), pull_request |-> [number |-> Number(number)]]
Comment(name, number) ==
  [repository |-> InRepo(name), issue |-> [number |-> Number(number)],
   comment |-> [body |-> Text("@dsr review")]]
Check(name, number) ==
  [repository |-> InRepo(name), check_run |-> [pull_requests |-> <<[number |-> Number(number)]>>]]
MergeRequest(name, id, iid) ==
  [project |-> [path_with_namespace |-> Text(name)],
   object_attributes |-> [id |-> Number(id), iid |-> Number(iid)]]

\* Requests that the handler answers itself.
Refused ==
  [health    |-> [Hub("0", PushTo("a")) EXCEPT !.path = "/healthz"],
   elsewhere |-> [Hub("0", PushTo("a")) EXCEPT !.path = "/"],
   got       |-> [Hub("0", PushTo("a")) EXCEPT !.method = "GET"],
   large     |-> [Hub("0", PushTo("a")) EXCEPT !.bytes = 2],
   bare      |-> Posted(Absent, PushTo("a")),
   altered   |-> Posted(HubHeaders("0", PushTo("a")), PushTo("b")),
   gitea     |-> Posted("x-gitea-signature" :> [algorithm |-> "sha256",
                                                digest |-> Digest("", PushTo("a"))], PushTo("a")),
   malformed |-> Hub("0", Malformed),
   nameless  |-> Hub("", PushTo("a"))]

MCRequests == Refused @@
  [a1 |-> Hub("1", PushTo("a")),
   a2 |-> Hub("2", Change("a", 7)),
   a3 |-> Lab("3", MergeRequest("a", 70, 7)),
   b1 |-> Hub("4", Check("b", 7))]

EvictionRequests ==
  [a1 |-> Hub("1", PushTo("a")), a2 |-> Hub("2", PushTo("a")), b1 |-> Hub("4", PushTo("b"))]
=============================================================================
