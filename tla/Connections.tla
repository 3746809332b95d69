---------------------------- MODULE Connections ----------------------------
(***************************************************************************)
(* One saved MCP connection: its row in mcp_server_connections, its        *)
(* credential in connection_secrets, and the requests that save it, remove *)
(* it, test it, import it to a canvas and run with it.  A request is       *)
(* several statements, and another request can come between any two of     *)
(* them; so can a change of the workspace's members.                       *)
(*                                                                         *)
(* A target is the address of a server, and stands for the tools that the  *)
(* server advertises, so "tools" says whose tools the row caches.          *)
(***************************************************************************)
EXTENDS FiniteSets

CONSTANTS Users,            \* accounts
          Fellows, Admins,  \* those that may be members of the workspace, and administer it
          Targets,          \* addresses of MCP servers
          Credentials,
          Requests,         \* identities of requests, each used once
          Unborn, Gone, None

VARIABLES row,       \* the connection, Unborn before it is created, Gone afterwards
          secret,    \* its credential in connection_secrets, or None
          members,   \* the members of the workspace it may be shared with
          storage,   \* whether CREDENTIAL_ENCRYPTION_KEY is configured
          request,   \* what each request has done so far
          outdated   \* history: the requests whose copy of the row predates its last edit
vars == <<row, secret, members, storage, request, outdated>>

Forms == {f \in [target : Targets, shared : BOOLEAN,
                 credential : Credentials \cup {None}, remove : BOOLEAN] :
            f.remove => f.credential = None}
NoForm == [target |-> None, shared |-> FALSE, credential |-> None, remove |-> FALSE]

Rows == [owner : Users, shared : BOOLEAN, target : Targets,
         status : {"untested", "connected", "failing"}, tools : Targets \cup {None},
         has_credential : BOOLEAN]

ASSUME Distinct ==
  /\ Admins \subseteq Fellows /\ Fellows \subseteq Users
  /\ Unborn # Gone /\ Unborn \notin Rows /\ Gone \notin Rows
  /\ None \notin Targets \cup Credentials

Steps == {"idle", "insert", "update", "delete", "assertCanUse", "upsert", "clear",
          "page", "getConnection", "canRead", "select", "engine", "record", "done"}
Requested == [user : Users \cup {None}, at : Steps, for : {"save", "test", "import", "run"}, form : Forms \cup {NoForm},
              copy : Targets \cup {None}, padlock : BOOLEAN,
              got : Credentials \cup {None}, tools : Targets \cup {None},
              reply : {"none", "ok", "warned", "error"}]
Nothing == [user |-> None, at |-> "idle", for |-> "save", form |-> NoForm, copy |-> None,
            padlock |-> FALSE, got |-> None, tools |-> None, reply |-> "none"]

TypeOK ==
  /\ row \in Rows \cup {Unborn, Gone}
  /\ secret \in Credentials \cup {None}
  /\ members \subseteq Fellows
  /\ storage \in BOOLEAN
  /\ request \in [Requests -> Requested]
  /\ outdated \subseteq Requests

New(u, form) ==
  [owner |-> u, shared |-> form.shared, target |-> form.target,
   status |-> "untested", tools |-> None, has_credential |-> FALSE]

Tested(connection) ==
  [connection EXCEPT !.status = "connected", !.tools = connection.target]

\* There is no connection yet, or one that is new, or one that was tested since.
Init ==
  /\ LET new == {New(u, form) : u \in Fellows, form \in Forms} IN
     row \in {Unborn} \cup new \cup {Tested(connection) : connection \in new}
  /\ secret = None
  /\ members = Fellows /\ storage \in BOOLEAN
  /\ request = [r \in Requests |-> Nothing] /\ outdated = {}

Exists == row \notin {Unborn, Gone}

\* The policy for reading and for updating: one's own, or a fellow member's.
Visible(u) == Exists /\ (row.owner = u \/ (row.shared /\ u \in members))

At(r, step) == request[r].at = step
User(r) == request[r].user
Goes(r, step) == request' = [request EXCEPT ![r].at = step]
Replies(r, reply) == request' = [request EXCEPT ![r].at = "done", ![r].reply = reply]

-----------------------------------------------------------------------------
(* Saving: createConnection and updateConnection. *)

submit(r, u, form) ==
  /\ At(r, "idle")
  /\ row = Unborn => ~form.remove
  /\ request' = [request EXCEPT ![r] =
       [Nothing EXCEPT !.user = u, !.form = form,
                       !.at = IF row = Unborn THEN "insert" ELSE "update"]]
  /\ UNCHANGED <<row, secret, members, storage, outdated>>

\* What a save goes on with once its row is written.
ToCredential(r) ==
  LET form == request[r].form IN
  IF form.remove \/ form.credential # None THEN Goes(r, "assertCanUse") ELSE Replies(r, "ok")

createConnection(r) ==
  LET form == request[r].form IN
  /\ At(r, "insert")
  /\ \/ /\ row = Unborn
        /\ form.shared => User(r) \in members
        /\ row' = New(User(r), form)
        /\ IF form.credential # None /\ ~storage
           THEN Replies(r, "warned")
           ELSE ToCredential(r)
     \/ Replies(r, "error") /\ UNCHANGED row
  /\ UNCHANGED <<secret, members, storage, outdated>>

EditedKeepingHealth(form) ==
  [row EXCEPT !.target = form.target, !.shared = form.shared]

\* Every edit resets what is known of the connection's health.
Edited(form) ==
  [row EXCEPT !.target = form.target, !.shared = form.shared,
              !.status = "untested", !.tools = None]

\* The statement's result when the policy hides the row is no row and no
\* error, and the handler goes on.
updateConnection(r) ==
  LET form == request[r].form IN
  /\ At(r, "update")
  /\ \/ /\ Visible(User(r))
        /\ row.owner = User(r) \/ form.shared
        /\ form.shared => User(r) \in members
        /\ row' = Edited(form)
        /\ outdated' = {q \in Requests : request[q].copy # None}
        /\ ToCredential(r)
     \/ ~Visible(User(r)) /\ ToCredential(r) /\ UNCHANGED <<row, outdated>>
     \/ Replies(r, "error") /\ UNCHANGED <<row, outdated>>
  /\ UNCHANGED <<secret, members, storage>>

mayWriteUnchecked(r) == Exists

\* The check that comes before a statement made with the service key.
mayWrite(r) == Visible(User(r))

assertCanUse(r) ==
  LET form == request[r].form IN
  /\ At(r, "assertCanUse")
  /\ IF ~mayWrite(r) \/ (~form.remove /\ ~storage)
     THEN Replies(r, "warned")
     ELSE Goes(r, IF form.remove THEN "clear" ELSE "upsert")
  /\ UNCHANGED <<row, secret, members, storage, outdated>>

sync_on_write_only ==
  row' = IF Exists THEN [row EXCEPT !.has_credential = TRUE] ELSE row

\* The trigger that keeps the padlock of the row.
sync_connection_has_credential ==
  row' = IF Exists THEN [row EXCEPT !.has_credential = secret' # None] ELSE row

UpsertFailsQuietly(r) == Replies(r, "ok")

\* A statement that fails, or that finds its row gone, is a warning to the
\* user; so is one that is not acknowledged.
UpsertFails(r) == Replies(r, "warned")

setCredential(r) ==
  /\ At(r, "upsert")
  /\ \/ /\ Exists
        /\ secret' = request[r].form.credential
        /\ sync_connection_has_credential
        /\ Replies(r, "ok") \/ Replies(r, "warned")
     \/ UpsertFails(r) /\ UNCHANGED <<row, secret>>
  /\ UNCHANGED <<members, storage, outdated>>

\* The delete's result is not looked at.
clearCredential(r) ==
  /\ At(r, "clear")
  /\ \/ secret' = None /\ sync_connection_has_credential
     \/ UNCHANGED <<row, secret>>
  /\ Replies(r, "ok")
  /\ UNCHANGED <<members, storage, outdated>>

\* on delete cascade
Cascade == None

\* Deleting a shared connection takes an administrator.
deleteConnection(r, u) ==
  /\ At(r, "idle") /\ row # Unborn
  /\ request' = [request EXCEPT ![r] =
       [Nothing EXCEPT !.user = u, !.at = "done", !.reply = "ok"]]
  /\ IF Exists /\ (\/ row.owner = u /\ ~row.shared
                   \/ row.shared /\ u \in members \cap Admins)
     THEN row' = Gone /\ secret' = Cascade
     ELSE UNCHANGED <<row, secret>>
  /\ UNCHANGED <<members, storage, outdated>>

-----------------------------------------------------------------------------
(* Testing.  The page holds a copy of the row from when it was rendered. *)

openPage(r, u) ==
  /\ At(r, "idle") /\ Visible(u)
  /\ request' = [request EXCEPT ![r] =
       [Nothing EXCEPT !.user = u, !.at = "page", !.for = "test", !.copy = row.target,
                       !.padlock = row.has_credential]]
  /\ UNCHANGED <<row, secret, members, storage, outdated>>

\* With a padlock the server makes the test, from a row it reads itself;
\* without one the browser does, from the page's copy.
test(r) ==
  /\ At(r, "page")
  /\ Goes(r, IF request[r].padlock THEN "getConnection" ELSE "engine")
  /\ UNCHANGED <<row, secret, members, storage, outdated>>

run(r, u) ==
  /\ At(r, "idle") /\ row # Unborn
  /\ request' = [request EXCEPT ![r] =
       [Nothing EXCEPT !.user = u, !.at = "getConnection", !.for = "run"]]
  /\ UNCHANGED <<row, secret, members, storage, outdated>>

\* A connection that is not visible is an error to a test, and to a run one
\* server without a credential.
getConnection(r) ==
  /\ At(r, "getConnection")
  /\ IF Visible(User(r))
     THEN /\ request' = [request EXCEPT ![r].at = "canRead", ![r].copy = row.target]
          /\ outdated' = outdated \ {r}
     ELSE /\ Replies(r, IF request[r].for = "run" THEN "ok" ELSE "error")
          /\ UNCHANGED outdated
  /\ UNCHANGED <<row, secret, members, storage>>

\* The second check throws, and neither route catches it.
canRead(r) ==
  /\ At(r, "canRead")
  /\ IF Visible(User(r)) THEN Goes(r, "select") ELSE Replies(r, "error")
  /\ UNCHANGED <<row, secret, members, storage, outdated>>

getCredentialForRequest(r) ==
  /\ At(r, "select")
  /\ \E got \in {IF storage THEN secret ELSE None, None} :
       request' = [request EXCEPT
         ![r].got = got,
         ![r].at = IF request[r].for = "run" THEN "done" ELSE "engine",
         ![r].reply = IF request[r].for = "run" THEN "ok" ELSE "none"]
  /\ UNCHANGED <<row, secret, members, storage, outdated>>

\* The engine lists the tools of the copy's target, or fails: it refuses, it
\* cannot reach the server, or it does not wake in time.
introspect(r) ==
  /\ At(r, "engine")
  /\ \E found \in {request[r].copy, None} :
       request' = [request EXCEPT ![r].at = "record", ![r].tools = found]
  /\ UNCHANGED <<row, secret, members, storage, outdated>>

\* A failure keeps the tools of the last success.
Health(r) ==
  IF request[r].tools # None
  THEN [row EXCEPT !.status = "connected", !.tools = request[r].tools]
  ELSE [row EXCEPT !.status = "failing"]

\* The write's result is not looked at: the row can be hidden by now, the
\* browser's test can be refused by the limiter, the statement can fail.
recordHealth(r) ==
  /\ At(r, "record")
  /\ \/ Visible(User(r)) /\ row' = Health(r)
     \/ UNCHANGED row
  /\ Replies(r, IF request[r].tools # None THEN "ok" ELSE "error")
  /\ UNCHANGED <<secret, members, storage, outdated>>

-----------------------------------------------------------------------------
(* Importing: the page's copy of the address with the tools cached now. *)

loadConnectionTools(r) ==
  /\ At(r, "page")
  /\ IF Visible(User(r)) /\ row.tools # None
     THEN request' = [request EXCEPT ![r].at = "done", ![r].for = "import",
                                     ![r].tools = row.tools, ![r].reply = "ok"]
     ELSE Replies(r, "error")
  /\ UNCHANGED <<row, secret, members, storage, outdated>>

MembersChange(u) ==
  /\ members' = IF u \in members THEN members \ {u} ELSE members \cup {u}
  /\ UNCHANGED <<row, secret, storage, request, outdated>>

Handles(r) ==
  \/ createConnection(r) \/ updateConnection(r) \/ assertCanUse(r)
  \/ setCredential(r) \/ clearCredential(r)
  \/ test(r) \/ getConnection(r) \/ canRead(r) \/ getCredentialForRequest(r)
  \/ introspect(r) \/ recordHealth(r) \/ loadConnectionTools(r)

Next ==
  \/ \E r \in Requests : Handles(r)
  \/ \E r \in Requests, u \in Users :
       \/ \E form \in Forms : submit(r, u, form)
       \/ deleteConnection(r, u) \/ openPage(r, u) \/ run(r, u)
  \/ \E u \in Fellows : MembersChange(u)

Spec == Init /\ [][Next]_vars

-----------------------------------------------------------------------------
(* Properties. *)

\* The padlock of a row tells whether a credential is stored for it, and no
\* credential outlives its connection: the trigger and the cascade keep two
\* tables in step that no request can write together.
PadlockTellsTheTruth ==
  IF Exists THEN row.has_credential = (secret # None) ELSE secret = None

\* A test that reported what it found after the connection was edited under it: it
\* listed the tools at the address it had read before the last edit.
Overtaken(q, found) ==
  /\ q \in outdated /\ At(q, "done") /\ request[q].for = "test"
  /\ found = request[q].tools /\ found = request[q].copy

\* Tools cached with a connection are those of its address, unless such a test is
\* there to answer for them: the reset that every edit makes does not stop it, and
\* then a dot stays next to an address that it is not about (actions.ts:204,
\* "exactly the kind of stale reassurance this status field exists to avoid"). No
\* order of edits, failures and other tests is to blame. A connected one has tools.
CachedAgree ==
  /\ Exists /\ row.tools \notin {None, row.target} =>
       \E q \in Requests : Overtaken(q, row.tools)
  /\ Exists => (row.status = "connected" => row.tools # None)

\* A page that is told its test went well gets the tools of the address it shows, or
\* that its row had when the server read it. A page that imports a server to a canvas
\* does as well, unless it is older than the last edit of the connection, which
\* nothing tells it, or took over what an overtaken test left.
ImportsAgree ==
  \A r \in Requests : At(r, "done") /\ request[r].reply = "ok" =>
    /\ request[r].for = "test" => request[r].tools = request[r].copy
    /\ request[r].for = "import" /\ request[r].tools # request[r].copy =>
         \/ r \in outdated
         \/ \E q \in Requests : Overtaken(q, request[r].tools)

\* Tools go with the address they were listed at, in the row and on the pages; where
\* they do not, one test or one page older than the last edit is the reason.
ToolsAreOfTheTarget == CachedAgree /\ ImportsAgree

StoresWhatItSays(r) ==
  LET form == request[r].form IN
  form.credential # None /\ ~form.remove /\ request'[r].reply = "ok" /\ request[r].reply = "none"
  => secret' = form.credential

\* A save that sets a credential and answers without an error or a warning
\* has just stored that credential.
SavedMeansStored == [][\A r \in Requests : StoresWhatItSays(r)]_vars

\* An account that is not, and never was, a member of the workspace gets to
\* the statements made with the service key only for a connection it created:
\* those statements pass by the policies, and only a check made earlier, on a
\* row that may have changed since, stands in for them.
OutsidersWriteTheirOwn ==
  \A r \in Requests :
    request[r].at \in {"upsert", "clear", "select"} /\ User(r) \notin Fellows
    => row = Gone \/ (Exists /\ row.owner = User(r))
=============================================================================
