------------------------------ MODULE BenchProofs ------------------------------
(* Proofs about Connections, for any number of accounts, addresses,          *)
(* credentials and requests, and about Editor, for any number of editors,    *)
(* ids, servers and tools.                                                   *)
EXTENDS Connections, Editor, TLAPS

-----------------------------------------------------------------------------
(* The connection: the inductive invariant *)

\* What a request holds fits where it is: a test or a run has no form, a copy
\* of the row is there once it was read, and tools come from the copy's address.
FormsFit ==
  \A r \in Requests :
    /\ request[r].at \in {"idle", "page", "getConnection", "canRead", "select", "engine", "record"}
         => request[r].form = NoForm
    /\ At(r, "idle") => request[r] = Nothing
    /\ request[r].at \in {"insert", "update", "assertCanUse", "upsert", "clear"}
         => request[r].for = "save"
    /\ request[r].at \in {"insert", "update", "assertCanUse", "upsert", "clear"}
         => request[r].form \in Forms
    /\ ~At(r, "idle") => request[r].user \in Users
    /\ At(r, "clear") => request[r].form.remove
    /\ At(r, "upsert") => ~request[r].form.remove
    /\ request[r].at \in {"page", "canRead", "select", "engine", "record"} => request[r].copy # None
    /\ request[r].for \in {"test", "import"} => request[r].copy # None
    /\ request[r].for = "import" => At(r, "done")
    /\ request[r].at \in {"page", "engine", "record"} => request[r].for = "test"
    /\ request[r].at \in {"getConnection", "canRead", "select"} => request[r].for \in {"test", "run"}
    /\ At(r, "record") => request[r].tools \in {request[r].copy, None}

\* A copy that is not outdated names the row's address.
CopiesAgree ==
  \A r \in Requests :
    request[r].copy # None => /\ row # Unborn
                              /\ r \notin outdated /\ Exists => request[r].copy = row.target

IInv ==
  /\ TypeOK /\ PadlockTellsTheTruth /\ FormsFit /\ CopiesAgree
  /\ CachedAgree /\ ImportsAgree /\ OutsidersWriteTheirOwn

-----------------------------------------------------------------------------
(* Lemmas *)

\* A new row, an edited one and one whose health was written are rows.
LEMMA RowTypes ==
  ASSUME NEW form \in Forms
  PROVE  /\ \A u \in Users : New(u, form) \in Rows
         /\ row \in Rows => Edited(form) \in Rows
         /\ \A connection \in Rows : Tested(connection) \in Rows
BY DEF New, Edited, Tested, Rows, Forms

\* A request that goes on with its next statement is where it goes, and holds
\* what it held.
LEMMA GoesTo ==
  ASSUME TypeOK, NEW r \in Requests, NEW step \in Steps, Goes(r, step)
  PROVE  /\ request' \in [Requests -> Requested]
         /\ \A q \in Requests : q # r => request'[q] = request[q]
         /\ request'[r].at = step
         /\ request'[r].user = request[r].user /\ request'[r].for = request[r].for
         /\ request'[r].form = request[r].form /\ request'[r].copy = request[r].copy
         /\ request'[r].tools = request[r].tools
         /\ request'[r].reply = request[r].reply
<1>1. request[r] \in Requested /\ [request[r] EXCEPT !.at = step] \in Requested
  BY DEF TypeOK, Requested
<1> QED BY <1>1 DEF TypeOK, Goes, Requested

\* A request that answers is done, and holds what it held.
LEMMA RepliesWith ==
  ASSUME TypeOK, NEW r \in Requests, NEW reply \in {"none", "ok", "warned", "error"},
         Replies(r, reply)
  PROVE  /\ request' \in [Requests -> Requested]
         /\ \A q \in Requests : q # r => request'[q] = request[q]
         /\ request'[r].at = "done" /\ request'[r].reply = reply
         /\ request'[r].user = request[r].user /\ request'[r].for = request[r].for
         /\ request'[r].form = request[r].form /\ request'[r].copy = request[r].copy
         /\ request'[r].tools = request[r].tools
<1>1. "done" \in Steps
  BY DEF Steps
<1>2. /\ request[r] \in Requested
      /\ [request[r] EXCEPT !.at = "done", !.reply = reply] \in Requested
  BY <1>1 DEF TypeOK, Requested
<1> QED BY <1>2 DEF TypeOK, Replies, Requested

\* The trigger touches nothing but the padlock.
LEMMA SyncKeeps ==
  ASSUME TypeOK, sync_connection_has_credential
  PROVE  /\ row' \in Rows \cup {Unborn, Gone}
         /\ Exists' = Exists
         /\ Exists => /\ row'.owner = row.owner /\ row'.shared = row.shared
                      /\ row'.target = row.target /\ row'.status = row.status
                      /\ row'.tools = row.tools
                      /\ row'.has_credential = (secret' # None)
         /\ ~Exists => row' = row
<1>1. CASE Exists
  <2>1. row \in Rows /\ [row EXCEPT !.has_credential = secret' # None] \in Rows
    BY <1>1 DEF TypeOK, Exists, Rows
  <2> QED BY <1>1, <2>1, Distinct DEF sync_connection_has_credential, Exists, Rows
<1>2. CASE ~Exists
  BY <1>2 DEF sync_connection_has_credential, Exists, TypeOK
<1> QED BY <1>1, <1>2

\* An edit keeps the owner and the padlock, and forgets the health.
LEMMA EditKeeps ==
  ASSUME TypeOK, Exists, NEW form \in Forms, row' = Edited(form)
  PROVE  /\ row' \in Rows /\ Exists'
         /\ row'.owner = row.owner /\ row'.has_credential = row.has_credential
         /\ row'.target = form.target /\ row'.status = "untested" /\ row'.tools = None
<1>1. row \in Rows
  BY DEF TypeOK, Exists
<1>2. row' \in Rows
  BY <1>1, RowTypes
<1>3. Exists'
  BY <1>2, Distinct DEF Exists
<1> QED BY <1>1, <1>2, <1>3 DEF Edited, Rows

\* A new row is its creator's, and has no credential and no tools.
LEMMA NewIs ==
  ASSUME NEW u \in Users, NEW form \in Forms, row' = New(u, form)
  PROVE  /\ row' \in Rows /\ Exists'
         /\ row'.owner = u /\ row'.has_credential = FALSE
         /\ row'.target = form.target /\ row'.status = "untested" /\ row'.tools = None
<1>1. row' \in Rows
  BY RowTypes
<1>2. Exists'
  BY <1>1, Distinct DEF Exists
<1> QED BY <1>1, <1>2 DEF New

\* Writing a test's result touches the health alone.
LEMMA HealthKeeps ==
  ASSUME TypeOK, Exists, NEW r \in Requests, row' = Health(r)
  PROVE  /\ row' \in Rows /\ Exists'
         /\ row'.owner = row.owner /\ row'.has_credential = row.has_credential
         /\ row'.target = row.target
         /\ \/ /\ request[r].tools # None /\ row'.status = "connected"
               /\ row'.tools = request[r].tools
            \/ /\ request[r].tools = None /\ row'.status = "failing"
               /\ row'.tools = row.tools
<1>1. row \in Rows /\ request[r].tools \in Targets \cup {None}
  BY DEF TypeOK, Exists, Requested
<1>2. CASE request[r].tools # None
  <2>1. row' = [row EXCEPT !.status = "connected", !.tools = request[r].tools]
    BY <1>2 DEF Health
  <2>2. row' \in Rows
    BY <1>1, <2>1 DEF Rows
  <2> QED BY <1>1, <1>2, <2>1, <2>2, Distinct DEF Rows, Exists
<1>3. CASE request[r].tools = None
  <2>1. row' = [row EXCEPT !.status = "failing"]
    BY <1>3 DEF Health
  <2>2. row' \in Rows
    BY <1>1, <2>1 DEF Rows
  <2> QED BY <1>1, <1>3, <2>1, <2>2, Distinct DEF Rows, Exists
<1> QED BY <1>2, <1>3

\* What a request that saves goes on with once its row is written.
Continues(r) ==
  \/ Goes(r, "assertCanUse")
  \/ Replies(r, "ok") /\ ~request[r].form.remove /\ request[r].form.credential = None

\* Such a request holds what it held, and answers "ok" only if there is no more
\* to do.
HasMoved(r) ==
  /\ request' \in [Requests -> Requested]
  /\ \A q \in Requests : q # r => request'[q] = request[q]
  /\ request'[r].user = request[r].user /\ request'[r].for = request[r].for
  /\ request'[r].form = request[r].form /\ request'[r].copy = request[r].copy
  /\ \/ request'[r].at = "assertCanUse" /\ request'[r].reply = request[r].reply
     \/ request'[r].at = "done" /\ request'[r].reply \in {"warned", "error"}
     \/ /\ request'[r].at = "done" /\ request'[r].reply = "ok"
        /\ ~request[r].form.remove /\ request[r].form.credential = None

LEMMA SaveMoves ==
  ASSUME TypeOK, NEW r \in Requests,
         Continues(r) \/ Replies(r, "warned") \/ Replies(r, "error")
  PROVE  HasMoved(r)
<1> USE DEF HasMoved
<1>1. "assertCanUse" \in Steps
  BY DEF Steps
<1>2. CASE Goes(r, "assertCanUse")
  BY <1>1, <1>2, GoesTo
<1>3. CASE Replies(r, "ok") /\ ~request[r].form.remove /\ request[r].form.credential = None
  BY <1>3, RepliesWith
<1>4. CASE Replies(r, "warned")
  BY <1>4, RepliesWith
<1>5. CASE Replies(r, "error")
  BY <1>5, RepliesWith
<1> QED BY <1>2, <1>3, <1>4, <1>5 DEF Continues

\* A save that creates the connection inserts its row, or answers an error.
LEMMA Creates ==
  ASSUME IInv, NEW r \in Requests, createConnection(r)
  PROVE  /\ At(r, "insert") /\ UNCHANGED <<secret, members, storage, outdated>>
         /\ \/ /\ row = Unborn /\ row' \in Rows /\ Exists'
               /\ row'.owner = request[r].user /\ row'.has_credential = FALSE
               /\ row'.status = "untested" /\ row'.tools = None
            \/ row' = row
         /\ HasMoved(r)
<1>1. request[r].form \in Forms /\ request[r].user \in Users
  BY DEF IInv, FormsFit, createConnection, At
<1>2. Continues(r) \/ Replies(r, "warned") \/ Replies(r, "error")
  BY DEF createConnection, ToCredential, Continues
<1>3. HasMoved(r)
  BY <1>2, SaveMoves DEF IInv
<1>4. CASE row' = New(User(r), request[r].form) /\ row = Unborn
  BY <1>1, <1>3, <1>4, NewIs DEF createConnection, User
<1>5. CASE row' = row
  BY <1>3, <1>5 DEF createConnection
<1> QED BY <1>4, <1>5 DEF createConnection

\* A save that edits the connection writes its row, or finds none to write.
LEMMA Updates ==
  ASSUME IInv, NEW r \in Requests, updateConnection(r)
  PROVE  /\ At(r, "update") /\ UNCHANGED <<secret, members, storage>>
         /\ \/ /\ Exists /\ row' \in Rows /\ Exists'
               /\ row'.owner = row.owner /\ row'.has_credential = row.has_credential
               /\ row'.status = "untested" /\ row'.tools = None
               /\ outdated' = {q \in Requests : request[q].copy # None}
            \/ row' = row /\ outdated' = outdated
         /\ HasMoved(r)
<1>1. request[r].form \in Forms
  BY DEF IInv, FormsFit, updateConnection, At
<1>2. Continues(r) \/ Replies(r, "error")
  BY DEF updateConnection, ToCredential, Continues
<1>3. TypeOK /\ HasMoved(r)
  BY <1>2, SaveMoves DEF IInv
<1>4. CASE /\ Exists /\ row' = Edited(request[r].form)
           /\ outdated' = {q \in Requests : request[q].copy # None}
  BY <1>1, <1>3, <1>4, EditKeeps DEF updateConnection
<1>5. CASE row' = row /\ outdated' = outdated
  BY <1>3, <1>5 DEF updateConnection
<1> QED BY <1>4, <1>5 DEF updateConnection, Visible

\* The credential that is stored is one.
LEMMA Stores ==
  ASSUME IInv, NEW r \in Requests, setCredential(r)
  PROVE  /\ At(r, "upsert") /\ UNCHANGED <<members, storage, outdated>>
         /\ Replies(r, "ok") \/ Replies(r, "warned")
         /\ \/ /\ secret' = request[r].form.credential /\ secret' \in Credentials \cup {None}
               /\ Exists /\ sync_connection_has_credential
            \/ UNCHANGED <<row, secret>> /\ Replies(r, "warned")
<1>1. request[r].form \in Forms
  BY DEF IInv, FormsFit, setCredential, At
<1>2. request[r].form.credential \in Credentials \cup {None}
  BY <1>1 DEF Forms
<1> QED BY <1>2 DEF setCredential, UpsertFails

\* A test or a run that reads the row holds a copy of its address.
LEMMA CopyRead ==
  ASSUME TypeOK, Exists, NEW r \in Requests,
         request' = [request EXCEPT ![r].at = "canRead", ![r].copy = row.target]
  PROVE  /\ request' \in [Requests -> Requested]
         /\ \A q \in Requests : q # r => request'[q] = request[q]
         /\ request'[r].at = "canRead" /\ request'[r].copy = row.target
         /\ request'[r].copy # None
         /\ request'[r].user = request[r].user /\ request'[r].for = request[r].for
         /\ request'[r].form = request[r].form
<1>1. row.target \in Targets /\ request[r] \in Requested /\ "canRead" \in Steps
  BY DEF TypeOK, Exists, Rows, Steps
<1>2. [request[r] EXCEPT !.at = "canRead", !.copy = row.target] \in Requested
  BY <1>1 DEF Requested
<1>3. request' = [request EXCEPT ![r] = [request[r] EXCEPT !.at = "canRead", !.copy = row.target]]
  OBVIOUS
<1> QED BY <1>1, <1>2, <1>3, Distinct DEF TypeOK, Requested

\* A read of the credential touches what was got, and the step and the reply.
LEMMA CredentialGot ==
  ASSUME TypeOK, NEW r \in Requests, getCredentialForRequest(r)
  PROVE  /\ At(r, "select") /\ UNCHANGED <<row, secret, members, storage, outdated>>
         /\ request' \in [Requests -> Requested]
         /\ \A q \in Requests : q # r => request'[q] = request[q]
         /\ request'[r].user = request[r].user /\ request'[r].for = request[r].for
         /\ request'[r].form = request[r].form /\ request'[r].copy = request[r].copy
         /\ \/ request'[r].at = "done" /\ request[r].for = "run"
            \/ request'[r].at = "engine" /\ request[r].for # "run"
<1>1. request[r] \in Requested /\ {"done", "engine"} \subseteq Steps
  BY DEF TypeOK, Steps
<1>2. PICK got \in Credentials \cup {None} :
        request' = [request EXCEPT
          ![r].got = got,
          ![r].at = IF request[r].for = "run" THEN "done" ELSE "engine",
          ![r].reply = IF request[r].for = "run" THEN "ok" ELSE "none"]
  BY DEF getCredentialForRequest, TypeOK
<1>3. At(r, "select") /\ UNCHANGED <<row, secret, members, storage, outdated>>
  BY DEF getCredentialForRequest
<1>4. CASE request[r].for = "run"
  <2>1. [request[r] EXCEPT !.got = got, !.at = "done", !.reply = "ok"] \in Requested
    BY <1>1 DEF Requested
  <2>2. request' = [request EXCEPT ![r] = [request[r] EXCEPT !.got = got, !.at = "done", !.reply = "ok"]]
    BY <1>2, <1>4
  <2> QED BY <1>1, <1>3, <1>4, <2>1, <2>2 DEF TypeOK, Requested
<1>5. CASE request[r].for # "run"
  <2>1. [request[r] EXCEPT !.got = got, !.at = "engine", !.reply = "none"] \in Requested
    BY <1>1 DEF Requested
  <2>2. request' = [request EXCEPT ![r] = [request[r] EXCEPT !.got = got, !.at = "engine", !.reply = "none"]]
    BY <1>2, <1>5
  <2> QED BY <1>1, <1>3, <1>5, <2>1, <2>2 DEF TypeOK, Requested
<1> QED BY <1>4, <1>5

\* The tools that are found are the copy's, or none.
LEMMA ToolsFound ==
  ASSUME TypeOK, NEW r \in Requests, introspect(r)
  PROVE  /\ At(r, "engine") /\ UNCHANGED <<row, secret, members, storage, outdated>>
         /\ request' \in [Requests -> Requested]
         /\ \A q \in Requests : q # r => request'[q] = request[q]
         /\ request'[r].user = request[r].user /\ request'[r].for = request[r].for
         /\ request'[r].form = request[r].form /\ request'[r].copy = request[r].copy
         /\ request'[r].at = "record" /\ request'[r].tools \in {request[r].copy, None}
<1>1. request[r] \in Requested /\ "record" \in Steps
  BY DEF TypeOK, Steps
<1>2. PICK found \in {request[r].copy, None} :
        request' = [request EXCEPT ![r].at = "record", ![r].tools = found]
  BY DEF introspect
<1>3. [request[r] EXCEPT !.at = "record", !.tools = found] \in Requested
  BY <1>1 DEF Requested
<1>4. request' = [request EXCEPT ![r] = [request[r] EXCEPT !.at = "record", !.tools = found]]
  BY <1>2
<1>5. At(r, "engine") /\ UNCHANGED <<row, secret, members, storage, outdated>>
  BY DEF introspect
<1> QED BY <1>1, <1>2, <1>3, <1>4, <1>5 DEF TypeOK, Requested

\* A request's record is replaced, and nothing else.
LEMMA Replaced ==
  ASSUME TypeOK, NEW r \in Requests, NEW x \in Requested, request' = [request EXCEPT ![r] = x]
  PROVE  /\ request' \in [Requests -> Requested] /\ request'[r] = x
         /\ \A q \in Requests : q # r => request'[q] = request[q]
BY DEF TypeOK

\* An import takes the tools the row has.
LEMMA ToolsTaken ==
  ASSUME TypeOK, Exists, NEW r \in Requests,
         request' = [request EXCEPT ![r].at = "done", ![r].for = "import",
                                    ![r].tools = row.tools, ![r].reply = "ok"]
  PROVE  /\ request' \in [Requests -> Requested]
         /\ \A q \in Requests : q # r => request'[q] = request[q]
         /\ request'[r].user = request[r].user /\ request'[r].for = "import"
         /\ request'[r].form = request[r].form /\ request'[r].copy = request[r].copy
         /\ request'[r].at = "done" /\ request'[r].reply = "ok"
         /\ request'[r].tools = row.tools
<1>1. /\ request[r] \in Requested /\ "done" \in Steps
      /\ row.tools \in Targets \cup {None}
  BY DEF TypeOK, Steps, Exists, Rows
<1> DEFINE taken == [request[r] EXCEPT !.at = "done", !.for = "import", !.tools = row.tools,
                                       !.reply = "ok"]
<1>2. taken \in Requested
  BY <1>1 DEF Requested
<1>3. request' = [request EXCEPT ![r] = taken]
  OBVIOUS
<1>4. /\ taken.user = request[r].user /\ taken.for = "import"
      /\ taken.form = request[r].form /\ taken.copy = request[r].copy
      /\ taken.at = "done" /\ taken.reply = "ok"
      /\ taken.tools = row.tools
  BY <1>1 DEF Requested
<1> HIDE DEF taken
<1>5. /\ request' \in [Requests -> Requested] /\ request'[r] = taken
      /\ \A q \in Requests : q # r => request'[q] = request[q]
  BY <1>2, <1>3, Replaced
<1> QED BY <1>4, <1>5

\* An import takes the row's tools, or answers an error.
LEMMA Imports ==
  ASSUME TypeOK, NEW r \in Requests, loadConnectionTools(r)
  PROVE  /\ At(r, "page") /\ UNCHANGED <<row, secret, members, storage, outdated>>
         /\ \/ /\ Exists /\ row.tools # None
               /\ request' \in [Requests -> Requested]
               /\ \A q \in Requests : q # r => request'[q] = request[q]
               /\ request'[r].user = request[r].user /\ request'[r].for = "import"
               /\ request'[r].form = request[r].form /\ request'[r].copy = request[r].copy
               /\ request'[r].at = "done" /\ request'[r].reply = "ok"
               /\ request'[r].tools = row.tools
            \/ Replies(r, "error")
<1>1. At(r, "page") /\ UNCHANGED <<row, secret, members, storage, outdated>>
  BY DEF loadConnectionTools
<1>2. CASE Visible(User(r)) /\ row.tools # None
  <2>1. request' = [request EXCEPT ![r].at = "done", ![r].for = "import",
                                   ![r].tools = row.tools, ![r].reply = "ok"]
    BY <1>2 DEF loadConnectionTools
  <2>2. Exists
    BY <1>2 DEF Visible
  <2> QED BY <1>1, <1>2, <2>1, <2>2, ToolsTaken
<1>3. CASE ~(Visible(User(r)) /\ row.tools # None)
  BY <1>1, <1>3 DEF loadConnectionTools
<1> QED BY <1>2, <1>3

LEMMA InitInv == Init => IInv
<1> SUFFICES ASSUME Init PROVE IInv
  OBVIOUS
<1>1. row \in Rows \cup {Unborn} /\ (row \in Rows => row.has_credential = FALSE)
  <2>1. ASSUME NEW u \in Fellows, NEW form \in Forms
        PROVE  /\ New(u, form) \in Rows /\ Tested(New(u, form)) \in Rows
               /\ New(u, form).has_credential = FALSE
               /\ Tested(New(u, form)).has_credential = FALSE
    BY Distinct, RowTypes DEF New, Tested
  <2>2. CASE row = Unborn
    BY <2>2, Distinct
  <2>3. ASSUME NEW u \in Fellows, NEW form \in Forms,
               row = New(u, form) \/ row = Tested(New(u, form))
        PROVE  row \in Rows /\ row.has_credential = FALSE
    BY <2>1, <2>3
  <2>4. \/ row = Unborn
        \/ \E u \in Fellows, form \in Forms : row = New(u, form) \/ row = Tested(New(u, form))
    BY DEF Init
  <2> QED BY <2>2, <2>3, <2>4
<1>2. TypeOK
  BY <1>1, Distinct DEF Init, TypeOK, Nothing, Requested, Steps
<1>3. PadlockTellsTheTruth
  BY <1>1, Distinct DEF Init, PadlockTellsTheTruth, Exists
<1>4. CachedAgree
  <2>1. ASSUME NEW u \in Fellows, NEW form \in Forms
        PROVE  /\ New(u, form).tools = None /\ New(u, form).status = "untested"
               /\ Tested(New(u, form)).tools = Tested(New(u, form)).target
               /\ Tested(New(u, form)).tools \in Targets
    BY DEF New, Tested, Forms
  <2> QED BY <2>1, Distinct DEF Init, CachedAgree, Exists
<1>5. FormsFit /\ CopiesAgree /\ ImportsAgree /\ OutsidersWriteTheirOwn
  BY DEF Init, FormsFit, CopiesAgree, ImportsAgree, OutsidersWriteTheirOwn, Nothing, At
<1> QED BY <1>2, <1>3, <1>4, <1>5 DEF IInv

\* The statements that write the row or the credential.
LEMMA Writers ==
  ASSUME [Next]_vars
  PROVE  \/ \E r \in Requests : \/ createConnection(r) \/ updateConnection(r)
                                \/ setCredential(r) \/ clearCredential(r) \/ recordHealth(r)
                                \/ \E u \in Users : deleteConnection(r, u)
         \/ UNCHANGED <<row, secret>>
<1>1. ASSUME NEW r \in Requests, Handles(r)
      PROVE  \/ createConnection(r) \/ updateConnection(r) \/ setCredential(r)
             \/ clearCredential(r) \/ recordHealth(r)
             \/ UNCHANGED <<row, secret>>
  BY <1>1 DEF Handles, assertCanUse, test, getConnection, canRead, getCredentialForRequest,
              introspect, loadConnectionTools
<1>2. ASSUME NEW r \in Requests, NEW u \in Users,
             \/ \E form \in Forms : submit(r, u, form)
             \/ deleteConnection(r, u) \/ openPage(r, u) \/ run(r, u)
      PROVE  deleteConnection(r, u) \/ UNCHANGED <<row, secret>>
  BY <1>2 DEF submit, openPage, run
<1>3. ASSUME NEW u \in Fellows, MembersChange(u)
      PROVE  UNCHANGED <<row, secret>>
  BY <1>3 DEF MembersChange
<1>4. CASE UNCHANGED vars
  BY <1>4 DEF vars
<1> QED BY <1>1, <1>2, <1>3, <1>4 DEF Next

\* Type correctness is kept.
LEMMA TypeStep == IInv /\ [Next]_vars => TypeOK'
<1> SUFFICES ASSUME IInv, [Next]_vars PROVE TypeOK'
  OBVIOUS
<1> USE Distinct DEF IInv, TypeOK, At, Steps, User
<1>1. ASSUME NEW r \in Requests, NEW u \in Users, NEW form \in Forms, submit(r, u, form)
      PROVE  TypeOK'
  BY <1>1 DEF submit, Requested, Nothing
<1>2. ASSUME NEW r \in Requests, createConnection(r)
      PROVE  TypeOK'
  BY <1>2, Creates DEF HasMoved
<1>3. ASSUME NEW r \in Requests, updateConnection(r)
      PROVE  TypeOK'
  BY <1>3, Updates DEF HasMoved
<1>4. ASSUME NEW r \in Requests, assertCanUse(r)
      PROVE  TypeOK'
  BY <1>4, GoesTo, RepliesWith DEF assertCanUse
<1>5. ASSUME NEW r \in Requests, setCredential(r)
      PROVE  TypeOK'
  BY <1>5, Stores, GoesTo, RepliesWith, SyncKeeps
<1>6. ASSUME NEW r \in Requests, clearCredential(r)
      PROVE  TypeOK'
  BY <1>6, GoesTo, RepliesWith, SyncKeeps DEF clearCredential
<1>7. ASSUME NEW r \in Requests, NEW u \in Users, deleteConnection(r, u)
      PROVE  TypeOK'
  BY <1>7 DEF deleteConnection, Requested, Cascade, Nothing
<1>8. ASSUME NEW r \in Requests, NEW u \in Users, openPage(r, u)
      PROVE  TypeOK'
  BY <1>8 DEF openPage, Requested, Rows, Exists, Nothing, Visible
<1>9. ASSUME NEW r \in Requests, test(r)
      PROVE  TypeOK'
  BY <1>9, GoesTo, RepliesWith DEF test
<1>10. ASSUME NEW r \in Requests, NEW u \in Users, run(r, u)
       PROVE  TypeOK'
  BY <1>10 DEF run, Requested, Nothing
<1>11. ASSUME NEW r \in Requests, getConnection(r)
       PROVE  TypeOK'
  BY <1>11, GoesTo, RepliesWith, CopyRead DEF getConnection, Visible
<1>12. ASSUME NEW r \in Requests, canRead(r)
       PROVE  TypeOK'
  BY <1>12, GoesTo, RepliesWith DEF canRead
<1>13. ASSUME NEW r \in Requests, getCredentialForRequest(r)
       PROVE  TypeOK'
  BY <1>13, CredentialGot
<1>14. ASSUME NEW r \in Requests, introspect(r)
       PROVE  TypeOK'
  BY <1>14, ToolsFound
<1>15. ASSUME NEW r \in Requests, recordHealth(r)
       PROVE  TypeOK'
  BY <1>15, GoesTo, RepliesWith, HealthKeeps DEF recordHealth, Visible
<1>16. ASSUME NEW r \in Requests, loadConnectionTools(r)
       PROVE  TypeOK'
  BY <1>16, Imports, GoesTo, RepliesWith
<1>17. ASSUME NEW u \in Fellows, MembersChange(u)
       PROVE  TypeOK'
  BY <1>17 DEF MembersChange
<1>18. CASE UNCHANGED vars
  BY <1>18 DEF vars
<1> QED
  BY <1>1, <1>2, <1>3, <1>4, <1>5, <1>6, <1>7, <1>8, <1>9,
     <1>10, <1>11, <1>12, <1>13, <1>14, <1>15, <1>16, <1>17, <1>18
     DEF Next, Handles

\* The trigger and the cascade keep the padlock true.
LEMMA PadlockStep == IInv /\ [Next]_vars => PadlockTellsTheTruth'
<1> SUFFICES ASSUME IInv, [Next]_vars PROVE PadlockTellsTheTruth'
  OBVIOUS
<1> USE Distinct DEF TypeOK, IInv, PadlockTellsTheTruth, Exists, User
<1>1. ASSUME NEW r \in Requests, createConnection(r)
      PROVE  PadlockTellsTheTruth'
  BY <1>1, Creates
<1>2. ASSUME NEW r \in Requests, updateConnection(r)
      PROVE  PadlockTellsTheTruth'
  BY <1>2, Updates
<1>3. ASSUME NEW r \in Requests, setCredential(r)
      PROVE  PadlockTellsTheTruth'
  BY <1>3, Stores, SyncKeeps
<1>4. ASSUME NEW r \in Requests, clearCredential(r)
      PROVE  PadlockTellsTheTruth'
  BY <1>4, SyncKeeps DEF clearCredential
<1>5. ASSUME NEW r \in Requests, recordHealth(r)
      PROVE  PadlockTellsTheTruth'
  BY <1>5, HealthKeeps DEF recordHealth, Visible
<1>6. ASSUME NEW r \in Requests, NEW u \in Users, deleteConnection(r, u)
      PROVE  PadlockTellsTheTruth'
  BY <1>6 DEF deleteConnection, Cascade
<1>7. CASE UNCHANGED <<row, secret>>
  BY <1>7
<1> QED BY Writers, <1>1, <1>2, <1>3, <1>4, <1>5, <1>6, <1>7

\* Every statement leaves a request with what its next one needs.
LEMMA FormsStep == IInv /\ [Next]_vars => FormsFit'
<1> SUFFICES ASSUME IInv, [Next]_vars PROVE FormsFit'
  OBVIOUS
<1> USE Distinct DEF IInv, TypeOK, At, Steps, FormsFit
<1>1. ASSUME NEW r \in Requests, NEW u \in Users, NEW form \in Forms, submit(r, u, form)
      PROVE  FormsFit'
  BY <1>1 DEF submit, Nothing
<1>2. ASSUME NEW r \in Requests, createConnection(r)
      PROVE  FormsFit'
  <2>1. At(r, "insert") /\ HasMoved(r)
    BY <1>2, Creates
  <2> QED BY <2>1 DEF HasMoved
<1>3. ASSUME NEW r \in Requests, updateConnection(r)
      PROVE  FormsFit'
  BY <1>3, Updates DEF HasMoved
<1>4. ASSUME NEW r \in Requests, assertCanUse(r)
      PROVE  FormsFit'
  BY <1>4, GoesTo, RepliesWith DEF assertCanUse
<1>5. ASSUME NEW r \in Requests, setCredential(r)
      PROVE  FormsFit'
  BY <1>5, Stores, GoesTo, RepliesWith
<1>6. ASSUME NEW r \in Requests, clearCredential(r)
      PROVE  FormsFit'
  BY <1>6, GoesTo, RepliesWith DEF clearCredential
<1>7. ASSUME NEW r \in Requests, NEW u \in Users, deleteConnection(r, u)
      PROVE  FormsFit'
  BY <1>7 DEF deleteConnection, Nothing
<1>8. ASSUME NEW r \in Requests, NEW u \in Users, openPage(r, u)
      PROVE  FormsFit'
  BY <1>8 DEF openPage, Exists, Rows, Nothing, Visible
<1>9. ASSUME NEW r \in Requests, test(r)
      PROVE  FormsFit'
  BY <1>9, GoesTo, RepliesWith DEF test
<1>10. ASSUME NEW r \in Requests, NEW u \in Users, run(r, u)
       PROVE  FormsFit'
  BY <1>10 DEF run, Nothing
<1>11. ASSUME NEW r \in Requests, getConnection(r)
       PROVE  FormsFit'
  BY <1>11, GoesTo, RepliesWith, CopyRead DEF getConnection, Visible
<1>12. ASSUME NEW r \in Requests, canRead(r)
       PROVE  FormsFit'
  BY <1>12, GoesTo, RepliesWith DEF canRead
<1>13. ASSUME NEW r \in Requests, getCredentialForRequest(r)
       PROVE  FormsFit'
  BY <1>13, CredentialGot
<1>14. ASSUME NEW r \in Requests, introspect(r)
       PROVE  FormsFit'
  BY <1>14, ToolsFound
<1>15. ASSUME NEW r \in Requests, recordHealth(r)
       PROVE  FormsFit'
  BY <1>15, GoesTo, RepliesWith DEF recordHealth, Visible
<1>16. ASSUME NEW r \in Requests, loadConnectionTools(r)
       PROVE  FormsFit'
  BY <1>16, Imports, GoesTo, RepliesWith
<1>17. ASSUME NEW u \in Fellows, MembersChange(u)
       PROVE  FormsFit'
  BY <1>17 DEF MembersChange
<1>18. CASE UNCHANGED vars
  BY <1>18 DEF vars
<1> QED
  BY <1>1, <1>2, <1>3, <1>4, <1>5, <1>6, <1>7, <1>8, <1>9,
     <1>10, <1>11, <1>12, <1>13, <1>14, <1>15, <1>16, <1>17, <1>18
     DEF Next, Handles

\* An edit outdates every copy, and a read renews the reader's.
LEMMA CopiesStep == IInv /\ [Next]_vars => CopiesAgree'
<1> SUFFICES ASSUME IInv, [Next]_vars PROVE CopiesAgree'
  OBVIOUS
<1> USE Distinct DEF IInv, TypeOK, At, Steps, User, CopiesAgree, Exists
<1>1. ASSUME NEW r \in Requests, NEW u \in Users, NEW form \in Forms, submit(r, u, form)
      PROVE  CopiesAgree'
  BY <1>1 DEF submit, FormsFit, Nothing
<1>2. ASSUME NEW r \in Requests, createConnection(r)
      PROVE  CopiesAgree'
  <2>1. \A q \in Requests : request'[q].copy = request[q].copy
    BY <1>2, Creates DEF HasMoved
  <2>2. outdated' = outdated /\ ((row = Unborn /\ row' \notin {Unborn, Gone}) \/ row' = row)
    BY <1>2, Creates
  <2> QED BY <2>1, <2>2
<1>3. ASSUME NEW r \in Requests, updateConnection(r)
      PROVE  CopiesAgree'
  BY <1>3, Updates DEF HasMoved
<1>4. ASSUME NEW r \in Requests, assertCanUse(r)
      PROVE  CopiesAgree'
  BY <1>4, GoesTo, RepliesWith DEF assertCanUse
<1>5. ASSUME NEW r \in Requests, setCredential(r)
      PROVE  CopiesAgree'
  BY <1>5, Stores, GoesTo, RepliesWith, SyncKeeps
<1>6. ASSUME NEW r \in Requests, clearCredential(r)
      PROVE  CopiesAgree'
  BY <1>6, GoesTo, RepliesWith, SyncKeeps DEF clearCredential
<1>7. ASSUME NEW r \in Requests, NEW u \in Users, deleteConnection(r, u)
      PROVE  CopiesAgree'
  BY <1>7 DEF deleteConnection, Cascade, Nothing
<1>8. ASSUME NEW r \in Requests, NEW u \in Users, openPage(r, u)
      PROVE  CopiesAgree'
  BY <1>8 DEF openPage, FormsFit, Nothing, Visible
<1>9. ASSUME NEW r \in Requests, test(r)
      PROVE  CopiesAgree'
  BY <1>9, GoesTo, RepliesWith DEF test
<1>10. ASSUME NEW r \in Requests, NEW u \in Users, run(r, u)
       PROVE  CopiesAgree'
  BY <1>10 DEF run, Nothing
<1>11. ASSUME NEW r \in Requests, getConnection(r)
       PROVE  CopiesAgree'
  BY <1>11, GoesTo, RepliesWith, CopyRead DEF getConnection, Visible
<1>12. ASSUME NEW r \in Requests, canRead(r)
       PROVE  CopiesAgree'
  BY <1>12, GoesTo, RepliesWith DEF canRead
<1>13. ASSUME NEW r \in Requests, getCredentialForRequest(r)
       PROVE  CopiesAgree'
  BY <1>13, CredentialGot
<1>14. ASSUME NEW r \in Requests, introspect(r)
       PROVE  CopiesAgree'
  BY <1>14, ToolsFound
<1>15. ASSUME NEW r \in Requests, recordHealth(r)
       PROVE  CopiesAgree'
  BY <1>15, GoesTo, RepliesWith, HealthKeeps DEF recordHealth, Visible
<1>16. ASSUME NEW r \in Requests, loadConnectionTools(r)
       PROVE  CopiesAgree'
  BY <1>16, Imports, GoesTo, RepliesWith
<1>17. ASSUME NEW u \in Fellows, MembersChange(u)
       PROVE  CopiesAgree'
  BY <1>17 DEF MembersChange
<1>18. CASE UNCHANGED vars
  BY <1>18 DEF vars
<1> QED
  BY <1>1, <1>2, <1>3, <1>4, <1>5, <1>6, <1>7, <1>8, <1>9,
     <1>10, <1>11, <1>12, <1>13, <1>14, <1>15, <1>16, <1>17, <1>18
     DEF Next, Handles

\* Who is done stays as it is, and stays outdated; so an overtaken test keeps
\* answering for what it found.
LEMMA DoneStays ==
  ASSUME IInv, [Next]_vars, NEW q \in Requests, At(q, "done")
  PROVE  /\ request'[q] = request[q]
         /\ q \in outdated /\ request[q].copy # None => q \in outdated'
<1> USE DEF IInv, TypeOK, At
<1>1. ASSUME NEW r \in Requests, NEW u \in Users, NEW form \in Forms, submit(r, u, form)
      PROVE  request'[q] = request[q] /\ outdated' = outdated
  BY <1>1 DEF submit
<1>2. ASSUME NEW r \in Requests, createConnection(r)
      PROVE  request'[q] = request[q] /\ outdated' = outdated
  BY <1>2, Creates DEF HasMoved
<1>3. ASSUME NEW r \in Requests, updateConnection(r)
      PROVE  /\ request'[q] = request[q]
             /\ outdated' = outdated \/ outdated' = {x \in Requests : request[x].copy # None}
  BY <1>3, Updates DEF HasMoved
<1>4. ASSUME NEW r \in Requests, assertCanUse(r)
      PROVE  request'[q] = request[q] /\ outdated' = outdated
  BY <1>4 DEF assertCanUse, Goes, Replies
<1>5. ASSUME NEW r \in Requests, setCredential(r) \/ clearCredential(r)
      PROVE  request'[q] = request[q] /\ outdated' = outdated
  BY <1>5 DEF setCredential, clearCredential, UpsertFails, Replies
<1>6. ASSUME NEW r \in Requests, NEW u \in Users, deleteConnection(r, u) \/ openPage(r, u) \/ run(r, u)
      PROVE  request'[q] = request[q] /\ outdated' = outdated
  BY <1>6 DEF deleteConnection, openPage, run
<1>7. ASSUME NEW r \in Requests, test(r) \/ canRead(r)
      PROVE  request'[q] = request[q] /\ outdated' = outdated
  BY <1>7 DEF test, canRead, Goes, Replies
<1>8. ASSUME NEW r \in Requests, getConnection(r)
      PROVE  request'[q] = request[q] /\ (q \in outdated => q \in outdated')
  BY <1>8 DEF getConnection, Replies
<1>9. ASSUME NEW r \in Requests, getCredentialForRequest(r) \/ introspect(r)
      PROVE  request'[q] = request[q] /\ outdated' = outdated
  BY <1>9, CredentialGot, ToolsFound
<1>10. ASSUME NEW r \in Requests, recordHealth(r) \/ loadConnectionTools(r)
       PROVE  request'[q] = request[q] /\ outdated' = outdated
  BY <1>10 DEF recordHealth, loadConnectionTools, Replies
<1>11. ASSUME NEW u \in Fellows, MembersChange(u)
       PROVE  request'[q] = request[q] /\ outdated' = outdated
  BY <1>11 DEF MembersChange
<1>12. CASE UNCHANGED vars
  BY <1>12 DEF vars
<1> QED
  BY <1>1, <1>2, <1>3, <1>4, <1>5, <1>6, <1>7, <1>8, <1>9, <1>10, <1>11, <1>12 DEF Next, Handles

\* Who comes to an answer "ok" tests, imports, or does not ask for tools.
LEMMA AnswersOk ==
  ASSUME IInv, [Next]_vars, NEW q \in Requests, ~At(q, "done"),
         request'[q].at = "done", request'[q].reply = "ok"
  PROVE  recordHealth(q) \/ loadConnectionTools(q) \/ request'[q].for \in {"save", "run"}
<1> USE DEF IInv, TypeOK, At
<1> DEFINE Fine == recordHealth(q) \/ loadConnectionTools(q) \/ request'[q].for \in {"save", "run"}
<1>0. ASSUME request'[q] = request[q] PROVE FALSE
  BY <1>0
<1>1. ASSUME NEW r \in Requests, NEW u \in Users, NEW form \in Forms, submit(r, u, form)
      PROVE  Fine
  BY <1>1 DEF submit, Nothing
<1>2. ASSUME NEW r \in Requests, createConnection(r)
      PROVE  Fine
  BY <1>2, <1>0, Creates DEF HasMoved, FormsFit
<1>3. ASSUME NEW r \in Requests, updateConnection(r)
      PROVE  Fine
  BY <1>3, <1>0, Updates DEF HasMoved, FormsFit
<1>4. ASSUME NEW r \in Requests, assertCanUse(r)
      PROVE  Fine
  BY <1>4, <1>0, GoesTo, RepliesWith DEF assertCanUse, FormsFit, Steps
<1>5. ASSUME NEW r \in Requests, setCredential(r) \/ clearCredential(r)
      PROVE  Fine
  BY <1>5, <1>0, Stores, RepliesWith DEF clearCredential, FormsFit
<1>6. ASSUME NEW r \in Requests, NEW u \in Users, deleteConnection(r, u) \/ openPage(r, u) \/ run(r, u)
      PROVE  Fine
  BY <1>6, <1>0 DEF deleteConnection, openPage, run, Nothing
<1>7. ASSUME NEW r \in Requests, test(r)
      PROVE  Fine
  BY <1>7, <1>0, GoesTo DEF test, Steps
<1>8. ASSUME NEW r \in Requests, canRead(r)
      PROVE  Fine
  BY <1>8, <1>0, GoesTo, RepliesWith DEF canRead, Steps
<1>9. ASSUME NEW r \in Requests, getConnection(r)
      PROVE  Fine
  <2>1. r = q
    BY <1>9, <1>0 DEF getConnection, Replies
  <2>2. Replies(q, IF request[q].for = "run" THEN "ok" ELSE "error")
    <3>1. ~Visible(User(q))
      BY <1>9, <2>1, CopyRead DEF getConnection, Visible
    <3> QED BY <3>1, <1>9, <2>1 DEF getConnection
  <2>3. CASE request[q].for = "run"
    BY <2>2, <2>3, RepliesWith
  <2>4. CASE request[q].for # "run"
    BY <2>2, <2>4, RepliesWith
  <2> QED BY <2>3, <2>4
<1>10. ASSUME NEW r \in Requests, getCredentialForRequest(r) \/ introspect(r)
       PROVE  Fine
  BY <1>10, <1>0, CredentialGot, ToolsFound
<1>11. ASSUME NEW r \in Requests, recordHealth(r) \/ loadConnectionTools(r)
       PROVE  Fine
  BY <1>11, <1>0 DEF recordHealth, loadConnectionTools, Replies
<1>12. ASSUME NEW u \in Fellows, MembersChange(u)
       PROVE  Fine
  BY <1>12, <1>0 DEF MembersChange
<1>13. CASE UNCHANGED vars
  BY <1>13, <1>0 DEF vars
<1> QED
  BY <1>1, <1>2, <1>3, <1>4, <1>5, <1>6, <1>7, <1>8, <1>9, <1>10, <1>11, <1>12, <1>13 DEF Next, Handles

\* So an overtaken test keeps answering for what it found.
LEMMA BlameStays ==
  ASSUME IInv, [Next]_vars, \E q \in Requests : Overtaken(q, row.tools),
         NEW r \in Requests, row'.tools = row.tools \/ request'[r].tools = row.tools
  PROVE  /\ row'.tools = row.tools => \E q \in Requests : Overtaken(q, row.tools)'
         /\ request'[r].tools = row.tools => \E q \in Requests : Overtaken(q, request[r].tools)'
<1>1. PICK q \in Requests : Overtaken(q, row.tools)
  OBVIOUS
<1>2. At(q, "done") /\ q \in outdated /\ request[q].copy # None
  BY <1>1 DEF Overtaken, IInv, FormsFit
<1>3. request'[q] = request[q] /\ q \in outdated'
  BY <1>2, DoneStays
<1> QED BY <1>1, <1>3 DEF Overtaken, At

\* An edit forgets the tools; a test that was not overtaken brings the address's own.
LEMMA CachedStep == IInv /\ [Next]_vars => CachedAgree'
<1> SUFFICES ASSUME IInv, [Next]_vars PROVE CachedAgree'
  OBVIOUS
<1>0. ASSUME Exists', row'.status = "connected" => row'.tools # None,
             row'.tools \notin {None, row'.target} =>
               \/ Exists /\ row'.tools = row.tools /\ row'.target = row.target
               \/ \E q \in Requests : Overtaken(q, row.tools)'
      PROVE  CachedAgree'
  <2>1. CASE Exists /\ row'.tools = row.tools /\ row'.target = row.target
    <3>1. CASE row'.tools \in {None, row'.target}
      BY <1>0, <3>1 DEF CachedAgree
    <3>2. CASE row'.tools \notin {None, row'.target}
      <4>1. \E q \in Requests : Overtaken(q, row.tools)
        BY <2>1, <3>2 DEF CachedAgree, IInv
      <4>2. \E q \in Requests : Overtaken(q, row.tools)'
        BY <2>1, <4>1, BlameStays
      <4> QED BY <1>0, <4>2 DEF CachedAgree
    <3> QED BY <3>1, <3>2
  <2> QED BY <1>0, <2>1 DEF CachedAgree
<1>1. ASSUME ~Exists' PROVE CachedAgree'
  BY <1>1 DEF CachedAgree
<1>2. ASSUME UNCHANGED row PROVE CachedAgree'
  BY <1>0, <1>1, <1>2 DEF Exists, IInv, CachedAgree
<1> USE Distinct DEF IInv, TypeOK, At, User, CachedAgree, Exists
<1>3. ASSUME NEW r \in Requests, createConnection(r)
      PROVE  CachedAgree'
  BY <1>2, <1>3, Creates
<1>4. ASSUME NEW r \in Requests, updateConnection(r)
      PROVE  CachedAgree'
  BY <1>2, <1>4, Updates
<1>5. ASSUME sync_connection_has_credential
      PROVE  CachedAgree'
  <2> USE SyncKeeps
  <2>1. CASE Exists
    <3>1. /\ Exists' /\ row'.tools = row.tools /\ row'.target = row.target
          /\ row'.status = row.status
      BY <1>5, <2>1
    <3> HIDE DEF Exists
    <3> QED BY <1>0, <2>1, <3>1
  <2>2. CASE ~Exists
    BY <1>1, <1>5, <2>2
  <2> QED BY <2>1, <2>2
<1>6. ASSUME NEW r \in Requests, setCredential(r) \/ clearCredential(r)
      PROVE  CachedAgree'
  <2>1. sync_connection_has_credential \/ UNCHANGED row
    BY <1>6, Stores DEF clearCredential
  <2> QED BY <1>2, <1>5, <2>1
<1>7. ASSUME NEW r \in Requests, recordHealth(r)
      PROVE  CachedAgree'
  <2>1. CASE UNCHANGED row
    BY <1>2, <2>1
  <2>2. CASE Visible(User(r)) /\ row' = Health(r)
    <3>1. /\ Exists /\ Exists' /\ row'.target = row.target
          /\ \/ /\ request[r].tools # None /\ row'.status = "connected"
                /\ row'.tools = request[r].tools
             \/ row'.status = "failing" /\ row'.tools = row.tools
      BY <2>2, HealthKeeps DEF Visible
    <3>2. ASSUME row'.tools = request[r].tools, request[r].tools # None,
                 row'.tools # row'.target
          PROVE  Overtaken(r, row.tools)'
      <4>1. /\ request[r].tools = request[r].copy /\ request[r].for = "test"
            /\ request[r].copy # None
        BY <1>7, <3>2 DEF recordHealth, FormsFit
      <4>2. r \in outdated /\ outdated' = outdated
        BY <1>7, <3>1, <3>2, <4>1 DEF recordHealth, CopiesAgree
      <4>3. /\ request'[r].at = "done" /\ request'[r].for = "test"
            /\ request'[r].tools = request[r].tools /\ request'[r].copy = request[r].copy
        BY <1>7, <4>1, RepliesWith DEF recordHealth
      <4> QED BY <3>2, <4>1, <4>2, <4>3 DEF Overtaken
    <3> HIDE DEF Exists
    <3> QED BY <1>0, <3>1, <3>2
  <2> QED BY <1>7, <2>1, <2>2 DEF recordHealth
<1>8. ASSUME NEW r \in Requests, NEW u \in Users, deleteConnection(r, u)
      PROVE  CachedAgree'
  BY <1>1, <1>2, <1>8 DEF deleteConnection, Cascade
<1> QED BY Writers, <1>2, <1>3, <1>4, <1>6, <1>7, <1>8

\* Tools reach a page from its own copy, or from the cache.
LEMMA ImportsStep == IInv /\ [Next]_vars => ImportsAgree'
<1> SUFFICES ASSUME IInv, [Next]_vars,
                    NEW r \in Requests, request'[r].at = "done", request'[r].reply = "ok"
             PROVE  /\ request'[r].for = "test" => request'[r].tools = request'[r].copy
                    /\ request'[r].for = "import" /\ request'[r].tools # request'[r].copy =>
                         \/ r \in outdated'
                         \/ \E q \in Requests : Overtaken(q, request[r].tools)'
  BY DEF ImportsAgree, At
<1>1. CASE At(r, "done")
  <2>1. /\ request'[r] = request[r]
        /\ r \in outdated /\ request[r].copy # None => r \in outdated'
    BY <1>1, DoneStays
  <2>2. request[r].for = "import" => request[r].copy # None
    BY DEF IInv, FormsFit
  <2>3. \A q \in Requests : Overtaken(q, request[r].tools) => Overtaken(q, request[r].tools)'
    <3> SUFFICES ASSUME NEW q \in Requests, Overtaken(q, request[r].tools)
                 PROVE  Overtaken(q, request[r].tools)'
      OBVIOUS
    <3>1. At(q, "done") /\ q \in outdated /\ request[q].copy # None
      BY DEF Overtaken, IInv, FormsFit
    <3>2. request'[q] = request[q] /\ q \in outdated'
      BY <3>1, DoneStays
    <3> QED BY <2>1, <3>2 DEF Overtaken, At
  <2> QED BY <1>1, <2>1, <2>2, <2>3 DEF IInv, ImportsAgree, At
<1>2. CASE ~At(r, "done")
  <2>1. \/ recordHealth(r)
        \/ loadConnectionTools(r)
        \/ request'[r].for \in {"save", "run"}
    BY <1>2, AnswersOk
  <2>2. CASE recordHealth(r)
    BY <2>2, RepliesWith DEF recordHealth, IInv, FormsFit
  <2>3. CASE loadConnectionTools(r)
    <3>1. /\ request'[r].for = "import" /\ request'[r].tools = row.tools
          /\ request'[r].copy = request[r].copy /\ request[r].copy # None
          /\ Exists /\ row.tools # None /\ outdated' = outdated
      BY <2>3, Imports, RepliesWith DEF IInv, FormsFit, At
    <3>2. CASE r \in outdated
      BY <3>1, <3>2
    <3>3. CASE r \notin outdated
      <4>1. request[r].copy = row.target
        BY <3>1, <3>3 DEF IInv, CopiesAgree
      <4>2. CASE row.tools = row.target
        BY <3>1, <4>1, <4>2
      <4>3. CASE row.tools # row.target
        <5>1. \E q \in Requests : Overtaken(q, row.tools)
          BY <3>1, <4>3 DEF IInv, CachedAgree
        <5> QED BY <3>1, <5>1, BlameStays
      <4> QED BY <4>2, <4>3
    <3> QED BY <3>2, <3>3
  <2>4. CASE request'[r].for \in {"save", "run"}
    BY <2>4
  <2> QED BY <2>1, <2>2, <2>3, <2>4
<1> QED BY <1>1, <1>2

\* The check lets an outsider by only for a connection it created.
LEMMA OutsiderStep == IInv /\ [Next]_vars => OutsidersWriteTheirOwn'
<1> SUFFICES ASSUME IInv, [Next]_vars PROVE OutsidersWriteTheirOwn'
  OBVIOUS
<1> USE Distinct DEF IInv, TypeOK, At, Steps, User, OutsidersWriteTheirOwn, Exists
<1>1. ASSUME NEW r \in Requests, NEW u \in Users, NEW form \in Forms, submit(r, u, form)
      PROVE  OutsidersWriteTheirOwn'
  BY <1>1 DEF submit, Nothing
<1>2. ASSUME NEW r \in Requests, createConnection(r)
      PROVE  OutsidersWriteTheirOwn'
  <2>1. \A q \in Requests :
          /\ request'[q].user = request[q].user
          /\ request'[q].at \in {"upsert", "clear", "select"} => request'[q].at = request[q].at
    BY <1>2, Creates DEF HasMoved
  <2>2. row = Unborn \/ row' = row
    BY <1>2, Creates
  <2> QED BY <2>1, <2>2, Distinct
<1>3. ASSUME NEW r \in Requests, updateConnection(r)
      PROVE  OutsidersWriteTheirOwn'
  BY <1>3, Updates DEF HasMoved
<1>4. ASSUME NEW r \in Requests, assertCanUse(r)
      PROVE  OutsidersWriteTheirOwn'
  BY <1>4, GoesTo, RepliesWith DEF assertCanUse, mayWrite, Visible
<1>5. ASSUME NEW r \in Requests, setCredential(r)
      PROVE  OutsidersWriteTheirOwn'
  BY <1>5, Stores, GoesTo, RepliesWith, SyncKeeps
<1>6. ASSUME NEW r \in Requests, clearCredential(r)
      PROVE  OutsidersWriteTheirOwn'
  BY <1>6, GoesTo, RepliesWith, SyncKeeps DEF clearCredential
<1>7. ASSUME NEW r \in Requests, NEW u \in Users, deleteConnection(r, u)
      PROVE  OutsidersWriteTheirOwn'
  BY <1>7 DEF deleteConnection, Cascade, Nothing
<1>8. ASSUME NEW r \in Requests, NEW u \in Users, openPage(r, u)
      PROVE  OutsidersWriteTheirOwn'
  BY <1>8 DEF openPage, Nothing, Visible
<1>9. ASSUME NEW r \in Requests, test(r)
      PROVE  OutsidersWriteTheirOwn'
  BY <1>9, GoesTo, RepliesWith DEF test
<1>10. ASSUME NEW r \in Requests, NEW u \in Users, run(r, u)
       PROVE  OutsidersWriteTheirOwn'
  BY <1>10 DEF run, Nothing
<1>11. ASSUME NEW r \in Requests, getConnection(r)
       PROVE  OutsidersWriteTheirOwn'
  BY <1>11, GoesTo, RepliesWith, CopyRead DEF getConnection, Visible
<1>12. ASSUME NEW r \in Requests, canRead(r)
       PROVE  OutsidersWriteTheirOwn'
  BY <1>12, GoesTo, RepliesWith DEF canRead, Visible
<1>13. ASSUME NEW r \in Requests, getCredentialForRequest(r)
       PROVE  OutsidersWriteTheirOwn'
  BY <1>13, CredentialGot
<1>14. ASSUME NEW r \in Requests, introspect(r)
       PROVE  OutsidersWriteTheirOwn'
  BY <1>14, ToolsFound
<1>15. ASSUME NEW r \in Requests, recordHealth(r)
       PROVE  OutsidersWriteTheirOwn'
  BY <1>15, GoesTo, RepliesWith, HealthKeeps DEF recordHealth, Visible
<1>16. ASSUME NEW r \in Requests, loadConnectionTools(r)
       PROVE  OutsidersWriteTheirOwn'
  BY <1>16, Imports, GoesTo, RepliesWith
<1>17. ASSUME NEW u \in Fellows, MembersChange(u)
       PROVE  OutsidersWriteTheirOwn'
  BY <1>17 DEF MembersChange
<1>18. CASE UNCHANGED vars
  BY <1>18 DEF vars
<1> QED
  BY <1>1, <1>2, <1>3, <1>4, <1>5, <1>6, <1>7, <1>8, <1>9,
     <1>10, <1>11, <1>12, <1>13, <1>14, <1>15, <1>16, <1>17, <1>18
     DEF Next, Handles

-----------------------------------------------------------------------------
(* Theorems about the connection *)

\* Whatever the requests on a connection do, and in whatever order, the
\* invariant above holds.
THEOREM Invariance == Spec => []IInv
<1>1. IInv /\ [Next]_vars => IInv'
  BY TypeStep, PadlockStep, FormsStep, CopiesStep, CachedStep, ImportsStep, OutsiderStep
     DEF IInv
<1> QED BY InitInv, <1>1, PTL DEF Spec

\* The variables keep their types.
THEOREM TypeCorrect == Spec => []TypeOK
<1>1. IInv => TypeOK
  BY DEF IInv
<1> QED BY Invariance, <1>1, PTL

\* The padlock of a row tells whether a credential is stored for it, and none is
\* stored for a row that is gone (the trigger of connection_secrets, the cascade).
THEOREM PadlockIsTrue == Spec => []PadlockTellsTheTruth
<1>1. IInv => PadlockTellsTheTruth
  BY DEF IInv
<1> QED BY Invariance, <1>1, PTL

\* Tools go with the address they were listed at, in the row and on the pages, but
\* for what one test that an edit overtook reports and for a page older than the last
\* edit (updateConnection's reset, recordHealth, loadConnectionTools).
THEOREM ToolsGoWithTheAddress == Spec => []ToolsAreOfTheTarget
<1>1. IInv => ToolsAreOfTheTarget
  BY DEF IInv, ToolsAreOfTheTarget
<1> QED BY Invariance, <1>1, PTL

\* An outsider gets to a statement made with the service key only for a
\* connection it created (assertCanUse before it).
THEOREM OutsidersStayWithTheirOwn == Spec => []OutsidersWriteTheirOwn
<1>1. IInv => OutsidersWriteTheirOwn
  BY DEF IInv
<1> QED BY Invariance, <1>1, PTL

\* A save that sets a credential and answers "ok" has just stored it
\* (setCredential and the actions that call it).
THEOREM SavesStore == Spec => SavedMeansStored
<1> DEFINE EachStores == \A r \in Requests : StoresWhatItSays(r)
<1>1. IInv /\ [Next]_vars => EachStores
  <2> SUFFICES ASSUME IInv, [Next]_vars PROVE EachStores
    OBVIOUS
  <2> USE Distinct DEF IInv, At, FormsFit, Steps, NoForm, StoresWhatItSays
  <2>1. ASSUME NEW r \in Requests, NEW u \in Users, NEW form \in Forms, submit(r, u, form)
        PROVE  EachStores
    BY <2>1 DEF submit, Nothing, TypeOK
  <2>2. ASSUME NEW r \in Requests, createConnection(r)
        PROVE  EachStores
    BY <2>2, Creates DEF HasMoved
  <2>3. ASSUME NEW r \in Requests, updateConnection(r)
        PROVE  EachStores
    BY <2>3, Updates DEF HasMoved
  <2>4. ASSUME NEW r \in Requests, assertCanUse(r)
        PROVE  EachStores
    BY <2>4, GoesTo, RepliesWith DEF assertCanUse
  <2>5. ASSUME NEW r \in Requests, setCredential(r)
        PROVE  EachStores
    <3>1. /\ request'[r].form = request[r].form
          /\ \A q \in Requests : q # r => request'[q] = request[q]
      BY <2>5, Stores, RepliesWith
    <3>2. secret' = request[r].form.credential \/ request'[r].reply = "warned"
      BY <2>5, Stores, RepliesWith
    <3> QED BY <3>1, <3>2
  <2>6. ASSUME NEW r \in Requests, clearCredential(r)
        PROVE  EachStores
    BY <2>6, GoesTo, RepliesWith DEF clearCredential
  <2>7. ASSUME NEW r \in Requests, NEW u \in Users, deleteConnection(r, u)
        PROVE  EachStores
    BY <2>7 DEF deleteConnection, Nothing, TypeOK
  <2>8. ASSUME NEW r \in Requests, NEW u \in Users, openPage(r, u)
        PROVE  EachStores
    BY <2>8 DEF openPage, Nothing, TypeOK
  <2>9. ASSUME NEW r \in Requests, test(r)
        PROVE  EachStores
    BY <2>9, GoesTo, RepliesWith DEF test
  <2>10. ASSUME NEW r \in Requests, NEW u \in Users, run(r, u)
         PROVE  EachStores
    BY <2>10 DEF run, Nothing, TypeOK
  <2>11. ASSUME NEW r \in Requests, getConnection(r)
         PROVE  EachStores
    BY <2>11, GoesTo, RepliesWith, CopyRead DEF getConnection, Visible
  <2>12. ASSUME NEW r \in Requests, canRead(r)
         PROVE  EachStores
    BY <2>12, GoesTo, RepliesWith DEF canRead
  <2>13. ASSUME NEW r \in Requests, getCredentialForRequest(r)
         PROVE  EachStores
    BY <2>13, CredentialGot
  <2>14. ASSUME NEW r \in Requests, introspect(r)
         PROVE  EachStores
    BY <2>14, ToolsFound
  <2>15. ASSUME NEW r \in Requests, recordHealth(r)
         PROVE  EachStores
    BY <2>15, GoesTo, RepliesWith DEF recordHealth, Visible
  <2>16. ASSUME NEW r \in Requests, loadConnectionTools(r)
         PROVE  EachStores
    BY <2>16, Imports, GoesTo, RepliesWith
  <2>17. ASSUME NEW u \in Fellows, MembersChange(u)
         PROVE  EachStores
    BY <2>17 DEF MembersChange
  <2>18. CASE UNCHANGED vars
    BY <2>18 DEF vars
  <2> HIDE DEF EachStores, IInv
  <2> QED
    BY <2>1, <2>2, <2>3, <2>4, <2>5, <2>6, <2>7, <2>8, <2>9,
       <2>10, <2>11, <2>12, <2>13, <2>14, <2>15, <2>16, <2>17, <2>18
       DEF Next, Handles
<1> QED BY Invariance, <1>1, PTL DEF Spec, SavedMeansStored

-----------------------------------------------------------------------------
(* The graph: documents *)

LEMMA NodesOf ==
  ASSUME NEW d \in ToolGraphDocument
  PROVE  /\ d.nodes \in [DOMAIN d.nodes -> Node] /\ DOMAIN d.nodes \subseteq Ids
         /\ d.edges \subseteq Edge /\ d.servers \subseteq Servers
<1>1. PICK S \in SUBSET Ids : d.nodes \in [S -> Node]
  BY DEF ToolGraphDocument
<1> QED BY <1>1 DEF ToolGraphDocument

LEMMA ADocument ==
  ASSUME NEW S \in SUBSET Ids, NEW nodes \in [S -> Node],
         NEW edges \in SUBSET Edge, NEW servers \in SUBSET Servers
  PROVE  [nodes |-> nodes, edges |-> edges, servers |-> servers] \in ToolGraphDocument
BY DEF ToolGraphDocument

\* What an editor may hold: a sound document, and tools of its servers.
Holds(d, tools) ==
  /\ d \in ToolGraphDocument /\ Sound(d) /\ tools \subseteq Tools
  /\ \A t \in tools : ServerOf[t] \in d.servers

\* Nodes go with the edges that touch them.
LEMMA WithoutIsSound ==
  ASSUME NEW d \in ToolGraphDocument, Sound(d), NEW doomed
  PROVE  /\ Without(d, doomed) \in ToolGraphDocument /\ Sound(Without(d, doomed))
         /\ Without(d, doomed).servers = d.servers
         /\ DOMAIN Without(d, doomed).nodes = DOMAIN d.nodes \ doomed
         /\ \A n \in DOMAIN d.nodes \ doomed : Without(d, doomed).nodes[n] = d.nodes[n]
<1> DEFINE left == DOMAIN d.nodes \ doomed
           nodes == [n \in left |-> d.nodes[n]]
           edges == {edge \in d.edges : edge.source \notin doomed /\ edge.target \notin doomed}
<1>1. left \in SUBSET Ids /\ nodes \in [left -> Node] /\ edges \in SUBSET Edge
      /\ d.servers \in SUBSET Servers
  BY NodesOf
<1>2. Without(d, doomed) = [nodes |-> nodes, edges |-> edges, servers |-> d.servers]
  BY DEF Without
<1>3. Without(d, doomed) \in ToolGraphDocument
  <2> HIDE DEF left, nodes, edges
  <2> QED BY <1>1, <1>2, ADocument
<1> QED BY <1>2, <1>3 DEF Sound

LEMMA EditHolds ==
  ASSUME NEW e \in Editors, Holds(Document(e), editor[e].tools), Edit(e)
  PROVE  \E d, tools : Holds(d, tools) /\ Edits(e, d, tools)
<1> DEFINE D == Document(e)
           T == editor[e].tools
<1>0. /\ D \in ToolGraphDocument /\ Sound(D) /\ T \subseteq Tools
      /\ \A t \in T : ServerOf[t] \in D.servers
      /\ D.nodes \in [DOMAIN D.nodes -> Node] /\ DOMAIN D.nodes \subseteq Ids
      /\ D.edges \subseteq Edge /\ D.servers \subseteq Servers
  BY NodesOf DEF Holds
<1> HIDE DEF D, T
<1>1. ASSUME NEW s \in Servers, addServer(e, s) PROVE \E d, tools : Holds(d, tools) /\ Edits(e, d, tools)
  <2> DEFINE d == WithServers(D, D.servers \cup {s})
             tools == T \cup {t \in Tools : ServerOf[t] = s}
  <2>1. Edits(e, d, tools)
    BY <1>1 DEF addServer, D, T
  <2>2. d = [nodes |-> D.nodes, edges |-> D.edges, servers |-> D.servers \cup {s}]
    BY DEF WithServers
  <2>3. d \in ToolGraphDocument
    BY <1>0, <2>2, ADocument
  <2>4. d.nodes = D.nodes /\ d.edges = D.edges /\ d.servers = D.servers \cup {s}
    BY <2>2
  <2> HIDE DEF d
  <2>5. Sound(d)
    BY <1>0, <2>4 DEF Sound
  <2>6. tools \subseteq Tools /\ \A t \in tools : ServerOf[t] \in d.servers
    BY <1>0, <2>4
  <2> HIDE DEF tools
  <2> QED BY <2>1, <2>3, <2>5, <2>6 DEF Holds
<1>2. ASSUME NEW s \in Servers, removeServer(e, s) PROVE \E d, tools : Holds(d, tools) /\ Edits(e, d, tools)
  <2> DEFINE w == Without(D, OfServer(D, s))
             d == WithServers(w, D.servers \ {s})
             tools == {t \in T : ServerOf[t] # s}
  <2>1. Edits(e, d, tools)
    BY <1>2 DEF removeServer, D, T
  <2>2. /\ w \in ToolGraphDocument /\ Sound(w) /\ DOMAIN w.nodes = DOMAIN D.nodes \ OfServer(D, s)
        /\ \A n \in DOMAIN w.nodes : w.nodes[n] = D.nodes[n]
    BY <1>0, WithoutIsSound
  <2> HIDE DEF w
  <2>3. d = [nodes |-> w.nodes, edges |-> w.edges, servers |-> D.servers \ {s}]
    BY DEF WithServers
  <2>4. d \in ToolGraphDocument
    <3>1. DOMAIN w.nodes \in SUBSET Ids /\ w.nodes \in [DOMAIN w.nodes -> Node] /\ w.edges \in SUBSET Edge
      BY <2>2, NodesOf
    <3>2. D.servers \ {s} \in SUBSET Servers
      BY <1>0
    <3> QED BY <2>3, <3>1, <3>2, ADocument
  <2>5. \A n \in DOMAIN w.nodes : ServerOf[w.nodes[n].tool] \in D.servers \ {s}
    BY <1>0, <2>2 DEF OfServer, Sound
  <2>6. d.nodes = w.nodes /\ d.edges = w.edges /\ d.servers = D.servers \ {s}
    BY <2>3
  <2> HIDE DEF d
  <2>7. Sound(d)
    BY <2>2, <2>5, <2>6 DEF Sound
  <2>8. tools \subseteq Tools /\ \A t \in tools : ServerOf[t] \in d.servers
    BY <1>0, <2>6
  <2> HIDE DEF tools
  <2> QED BY <2>1, <2>4, <2>7, <2>8 DEF Holds
<1>3. ASSUME NEW t \in Tools, addToolNode(e, t) PROVE \E d, tools : Holds(d, tools) /\ Edits(e, d, tools)
  <2> DEFINE n == makeId
             d == Placed(D, n, t)
             nodes == [k \in DOMAIN D.nodes \cup {n} |->
                         IF k = n THEN [tool |-> t, static |-> {}] ELSE D.nodes[k]]
  <2>1. Edits(e, d, T) /\ t \in T /\ Unused # {}
    BY <1>3 DEF addToolNode, Changes, D, T
  <2>2. n \in Ids
    BY <2>1 DEF makeId, Unused
  <2> HIDE DEF n
  <2>3. d = [nodes |-> nodes, edges |-> D.edges, servers |-> D.servers]
    BY DEF Placed, WithNodes
  <2>4. nodes \in [DOMAIN D.nodes \cup {n} -> Node]
    BY <1>0 DEF Node
  <2>5. d \in ToolGraphDocument
    <3> HIDE DEF nodes, d
    <3> QED BY <1>0, <2>2, <2>3, <2>4, ADocument
  <2>6. Sound(d)
    BY <1>0, <2>1, <2>3 DEF Sound
  <2>7. d.servers = D.servers
    BY <2>3
  <2> HIDE DEF d
  <2> QED BY <1>0, <2>1, <2>5, <2>6, <2>7 DEF Holds
<1>4. ASSUME NEW n \in Ids, removeNode(e, n) PROVE \E d, tools : Holds(d, tools) /\ Edits(e, d, tools)
  <2>1. Edits(e, Without(D, {n}), T)
    BY <1>4 DEF removeNode, Changes, D, T
  <2> QED BY <1>0, <2>1, WithoutIsSound DEF Holds
<1>5. ASSUME NEW n \in Ids, NEW p \in Pointers, setStaticInput(e, n, p)
      PROVE  \E d, tools : Holds(d, tools) /\ Edits(e, d, tools)
  <2> DEFINE nodes == [D.nodes EXCEPT ![n] = Toggled(D.nodes[n], p)]
             d == WithNodes(D, nodes)
  <2>1. Edits(e, d, T) /\ n \in DOMAIN D.nodes
    BY <1>5 DEF setStaticInput, Changes, D, T
  <2>2. Toggled(D.nodes[n], p) \in Node /\ Toggled(D.nodes[n], p).tool = D.nodes[n].tool
    BY <1>0, <2>1 DEF Toggled, Node
  <2>3. nodes \in [DOMAIN D.nodes -> Node] /\ \A k \in DOMAIN D.nodes : nodes[k].tool = D.nodes[k].tool
    BY <1>0, <2>1, <2>2
  <2>4. DOMAIN nodes = DOMAIN D.nodes
    BY <1>0
  <2> HIDE DEF nodes
  <2>5. d = [nodes |-> nodes, edges |-> D.edges, servers |-> D.servers]
    BY DEF WithNodes
  <2>6. d \in ToolGraphDocument
    BY <1>0, <2>3, <2>5, ADocument
  <2>7. Sound(d) /\ d.servers = D.servers
    BY <1>0, <2>3, <2>4, <2>5 DEF Sound
  <2> HIDE DEF d
  <2> QED BY <1>0, <2>1, <2>6, <2>7 DEF Holds
<1>6. ASSUME NEW new \in Edge, tryConnect(e, new) PROVE \E d, tools : Holds(d, tools) /\ Edits(e, d, tools)
  <2> DEFINE edges == OneEdgePerField(D.edges, new) \cup {new}
             d == WithEdges(D, edges)
  <2>1. Edits(e, d, T) /\ {new.source, new.target} \subseteq DOMAIN D.nodes
    BY <1>6 DEF tryConnect, Changes, D, T
  <2>2. d = [nodes |-> D.nodes, edges |-> edges, servers |-> D.servers]
    BY DEF WithEdges
  <2>3. edges \subseteq Edge
    BY <1>0 DEF OneEdgePerField
  <2>4. \A a, b \in edges : a.target = b.target /\ a.targetHandle = b.targetHandle => a = b
    BY <1>0 DEF OneEdgePerField, Sound
  <2>5. \A edge \in edges : {edge.source, edge.target} \subseteq DOMAIN D.nodes
    BY <1>0, <2>1 DEF OneEdgePerField, Sound
  <2> HIDE DEF edges
  <2>6. d \in ToolGraphDocument
    BY <1>0, <2>2, <2>3, ADocument
  <2>7. Sound(d) /\ d.servers = D.servers
    BY <1>0, <2>2, <2>4, <2>5 DEF Sound
  <2> HIDE DEF d
  <2> QED BY <1>0, <2>1, <2>6, <2>7 DEF Holds
<1>7. ASSUME NEW edge \in Edge, onEdgesDelete(e, edge) PROVE \E d, tools : Holds(d, tools) /\ Edits(e, d, tools)
  <2> DEFINE d == WithEdges(D, D.edges \ {edge})
  <2>1. Edits(e, d, T)
    BY <1>7 DEF onEdgesDelete, Changes, D, T
  <2>2. d = [nodes |-> D.nodes, edges |-> D.edges \ {edge}, servers |-> D.servers]
    BY DEF WithEdges
  <2>3. d \in ToolGraphDocument
    BY <1>0, <2>2, ADocument
  <2>4. d.nodes = D.nodes /\ d.edges = D.edges \ {edge} /\ d.servers = D.servers
    BY <2>2
  <2> HIDE DEF d
  <2>5. Sound(d)
    BY <1>0, <2>4 DEF Sound
  <2> QED BY <1>0, <2>1, <2>3, <2>4, <2>5 DEF Holds
<1>8. ASSUME onNodesChange(e) PROVE \E d, tools : Holds(d, tools) /\ Edits(e, d, tools)
  BY <1>8 DEF onNodesChange, Changes
<1> QED BY <1>1, <1>2, <1>3, <1>4, <1>5, <1>6, <1>7, <1>8 DEF Edit
-----------------------------------------------------------------------------
(* What each step makes of the editor it is of *)

Others(e) ==
  /\ editor' \in [Editors -> EditorState]
  /\ \A x \in Editors \ {e} : editor'[x] = editor[x]

LEMMA ShowsADocument ==
  ASSUME NEW page \in {"unopened", "open", "left"}, NEW d \in ToolGraphDocument
  PROVE  /\ Showing(page, d) \in EditorState
         /\ Showing(page, d).page = page /\ Showing(page, d).document = d
         /\ Showing(page, d).tools = {} /\ Showing(page, d).saveState = "idle"
         /\ Showing(page, d).timer = FALSE /\ Showing(page, d).sent = <<>>
         /\ Showing(page, d).written = FALSE /\ Showing(page, d).lost = FALSE
<1>1. <<>> \in Seq(ToolGraphDocument)
  OBVIOUS
<1> QED BY <1>1 DEF Showing, EditorState

LEMMA Loads ==
  ASSUME EditorTypeOK, NEW e \in Editors, loadGraph(e)
  PROVE  /\ Others(e) /\ editor'[e].document = graph /\ editor'[e].tools = {}
         /\ editor'[e].saveState = "idle" /\ editor'[e].timer = FALSE
         /\ editor'[e].sent = <<>> /\ editor'[e].written = FALSE /\ editor'[e].lost = FALSE
<1> DEFINE s == Showing("open", graph)
<1>1. graph \in ToolGraphDocument /\ editor' = [editor EXCEPT ![e] = s]
  BY DEF EditorTypeOK, loadGraph
<1>2. /\ s \in EditorState /\ s.document = graph /\ s.tools = {} /\ s.saveState = "idle"
      /\ s.timer = FALSE /\ s.sent = <<>> /\ s.written = FALSE /\ s.lost = FALSE
  BY <1>1, ShowsADocument, Zenon
<1> HIDE DEF s
<1>3. Others(e) /\ editor'[e] = s
  BY <1>1, <1>2 DEF Others, EditorTypeOK
<1> QED BY <1>2, <1>3

LEMMA Leaves ==
  ASSUME EditorTypeOK, NEW e \in Editors, Leave(e)
  PROVE  /\ Others(e) /\ editor'[e].page = "left" /\ editor'[e].document = editor[e].document
         /\ editor'[e].tools = editor[e].tools /\ editor'[e].sent = editor[e].sent
         /\ editor'[e].written = editor[e].written
<1>1. /\ editor[e] \in EditorState
      /\ [editor[e] EXCEPT !.page = "left", !.timer = FALSE] \in EditorState
  BY DEF EditorTypeOK, EditorState
<1> QED BY <1>1 DEF EditorTypeOK, Leave, Others, EditorState

LEMMA EditsTo ==
  ASSUME EditorTypeOK, NEW e \in Editors, NEW d, NEW tools, Holds(d, tools), Edits(e, d, tools)
  PROVE  /\ Others(e) /\ editor'[e].document = d /\ editor'[e].tools = tools
         /\ editor'[e].saveState = "dirty" /\ editor'[e].timer = TRUE
         /\ editor'[e].sent = editor[e].sent /\ editor'[e].written = editor[e].written
<1>1. /\ editor[e] \in EditorState
      /\ [editor[e] EXCEPT !.document = d, !.tools = tools,
                           !.saveState = "dirty", !.timer = TRUE] \in EditorState
  BY DEF EditorTypeOK, EditorState, Holds
<1> QED BY <1>1 DEF EditorTypeOK, Edits, Others, EditorState

LEMMA Sends ==
  ASSUME EditorTypeOK, NEW e \in Editors, Send(e)
  PROVE  /\ Others(e) /\ editor'[e].page = editor[e].page
         /\ editor'[e].document = editor[e].document /\ editor'[e].tools = editor[e].tools
         /\ editor'[e].saveState = "saving" /\ editor'[e].timer = FALSE
         /\ editor'[e].sent = Append(editor[e].sent, editor[e].document)
         /\ editor'[e].written = editor[e].written
<1> DEFINE s == Append(editor[e].sent, editor[e].document)
<1>1. s \in Seq(ToolGraphDocument) /\ editor[e] \in EditorState
  BY DEF EditorTypeOK, EditorState
<1>2. editor' = [editor EXCEPT ![e].timer = FALSE, ![e].saveState = "saving", ![e].lost = FALSE,
                               ![e].sent = s]
  BY DEF Send, Document
<1> HIDE DEF s
<1>3. [editor[e] EXCEPT !.timer = FALSE, !.saveState = "saving", !.lost = FALSE, !.sent = s]
        \in EditorState
  BY <1>1 DEF EditorState
<1>4. /\ Others(e) /\ editor'[e].page = editor[e].page
      /\ editor'[e].document = editor[e].document /\ editor'[e].tools = editor[e].tools
      /\ editor'[e].saveState = "saving" /\ editor'[e].timer = FALSE
      /\ editor'[e].sent = s /\ editor'[e].written = editor[e].written
  BY <1>1, <1>2, <1>3 DEF EditorTypeOK, Others, EditorState
<1> QED BY <1>4 DEF s

LEMMA Writes ==
  ASSUME EditorTypeOK, NEW e \in Editors, saveGraph(e)
  PROVE  /\ Others(e) /\ editor'[e].page = editor[e].page
         /\ editor'[e].document = editor[e].document /\ editor'[e].tools = editor[e].tools
         /\ editor'[e].saveState = editor[e].saveState /\ editor'[e].timer = editor[e].timer
         /\ editor'[e].sent = editor[e].sent /\ editor'[e].written = TRUE
         /\ editor'[e].lost = editor[e].lost
<1>1. editor[e] \in EditorState /\ [editor[e] EXCEPT !.written = TRUE] \in EditorState
  BY DEF EditorTypeOK, EditorState
<1> QED BY <1>1 DEF EditorTypeOK, saveGraph, Others, EditorState

LEMMA Answers ==
  ASSUME EditorTypeOK, NEW e \in Editors, NEW state \in {"saved", "error"}, editor[e].sent # <<>>,
         Answered(e, state)
  PROVE  /\ Others(e) /\ editor'[e].page = editor[e].page
         /\ editor'[e].document = editor[e].document /\ editor'[e].tools = editor[e].tools
         /\ Open(e) => editor'[e].saveState = state
         /\ editor'[e].timer = editor[e].timer /\ editor'[e].sent = Tail(editor[e].sent)
         /\ editor'[e].written = FALSE /\ editor'[e].lost = editor[e].lost
<1> DEFINE s == Tail(editor[e].sent)
           t == IF Open(e) THEN state ELSE editor[e].saveState
<1>1. s \in Seq(ToolGraphDocument) /\ editor[e] \in EditorState
  BY DEF EditorTypeOK, EditorState
<1>2. editor' = [editor EXCEPT ![e].sent = s, ![e].written = FALSE, ![e].saveState = t]
  BY DEF Answered
<1>3. t \in {"idle", "dirty", "saving", "saved", "error"} /\ (Open(e) => t = state)
  BY <1>1 DEF EditorState
<1> HIDE DEF s, t
<1>4. [editor[e] EXCEPT !.sent = s, !.written = FALSE, !.saveState = t] \in EditorState
  BY <1>1, <1>3 DEF EditorState
<1>5. /\ Others(e) /\ editor'[e].page = editor[e].page
      /\ editor'[e].document = editor[e].document /\ editor'[e].tools = editor[e].tools
      /\ editor'[e].saveState = t /\ editor'[e].timer = editor[e].timer /\ editor'[e].sent = s
      /\ editor'[e].written = FALSE /\ editor'[e].lost = editor[e].lost
  BY <1>1, <1>2, <1>4 DEF EditorTypeOK, Others, EditorState
<1> QED BY <1>3, <1>5 DEF s

LEMMA Loses ==
  ASSUME EditorTypeOK, NEW e \in Editors, connectionLost(e)
  PROVE  /\ Others(e) /\ editor'[e].page = editor[e].page
         /\ editor'[e].document = editor[e].document /\ editor'[e].tools = editor[e].tools
         /\ editor'[e].timer = editor[e].timer /\ editor'[e].sent = Tail(editor[e].sent)
         /\ editor'[e].written = FALSE /\ editor'[e].lost = TRUE
<1> DEFINE s == Tail(editor[e].sent)
<1>1. s \in Seq(ToolGraphDocument) /\ editor[e] \in EditorState
  BY DEF EditorTypeOK, EditorState, connectionLost
<1>2. editor' = [editor EXCEPT ![e].sent = s, ![e].written = FALSE, ![e].lost = TRUE]
  BY DEF connectionLost
<1> HIDE DEF s
<1>4. [editor[e] EXCEPT !.sent = s, !.written = FALSE, !.lost = TRUE] \in EditorState
  BY <1>1 DEF EditorState
<1>5. /\ Others(e) /\ editor'[e].page = editor[e].page
      /\ editor'[e].document = editor[e].document /\ editor'[e].tools = editor[e].tools
      /\ editor'[e].timer = editor[e].timer /\ editor'[e].sent = s
      /\ editor'[e].written = FALSE /\ editor'[e].lost = TRUE
  BY <1>1, <1>2, <1>4 DEF EditorTypeOK, Others, EditorState
<1> QED BY <1>5 DEF s

-----------------------------------------------------------------------------
(* Documents are sound wherever they are *)

AllSound(s) == \A i \in DOMAIN s : Sound(s[i])

StoreIsSound == (graph # Deleted => Sound(graph)) /\ AllSound(versions)

\* What is written is the first document sent.
EditorHolds(x) ==
  Holds(x.document, x.tools) /\ AllSound(x.sent) /\ (x.written => x.sent # <<>>)

DocumentsInv == EditorTypeOK /\ StoreIsSound /\ \A e \in Editors : EditorHolds(editor[e])

LEMMA AppendIsSound ==
  ASSUME NEW s \in Seq(ToolGraphDocument), NEW d \in ToolGraphDocument, AllSound(s), Sound(d)
  PROVE  /\ Append(s, d) \in Seq(ToolGraphDocument) /\ AllSound(Append(s, d))
         /\ Append(s, d) # <<>>
BY DEF AllSound

LEMMA RestIsSound ==
  ASSUME NEW s \in Seq(ToolGraphDocument), s # <<>>, AllSound(s)
  PROVE  /\ Tail(s) \in Seq(ToolGraphDocument) /\ AllSound(Tail(s))
         /\ Head(s) \in ToolGraphDocument /\ Sound(Head(s))
<1>1. 1 \in DOMAIN s /\ Head(s) = s[1] /\ Tail(s) \in Seq(ToolGraphDocument)
  OBVIOUS
<1>2. \A i \in DOMAIN Tail(s) : i + 1 \in DOMAIN s /\ Tail(s)[i] = s[i + 1]
  OBVIOUS
<1>3. s[1] \in ToolGraphDocument
  BY <1>1
<1> QED BY <1>1, <1>2, <1>3 DEF AllSound

\* A step of one editor that leaves the table alone.
LEMMA EditorSteps ==
  ASSUME DocumentsInv, NEW e \in Editors, Others(e), EditorHolds(editor'[e]),
         UNCHANGED <<graph, versions>>, hidden' \subseteq Editors, edits' \in 0..MaxEdits
  PROVE  DocumentsInv'
<1>1. EditorTypeOK'
  BY DEF DocumentsInv, EditorTypeOK, Others
<1>2. StoreIsSound'
  BY DEF DocumentsInv, StoreIsSound
<1>3. ASSUME NEW x \in Editors PROVE EditorHolds(editor'[x])
  BY DEF DocumentsInv, Others
<1> QED BY <1>1, <1>2, <1>3 DEF DocumentsInv

\* What the invariant says of one editor.
LEMMA OfEditor ==
  ASSUME DocumentsInv, NEW e \in Editors
  PROVE  /\ EditorTypeOK /\ editor[e] \in EditorState /\ editor[e].document \in ToolGraphDocument
         /\ Sound(editor[e].document) /\ Holds(editor[e].document, editor[e].tools)
         /\ editor[e].sent \in Seq(ToolGraphDocument) /\ AllSound(editor[e].sent)
         /\ (editor[e].written => editor[e].sent # <<>>)
         /\ hidden \subseteq Editors /\ edits \in 0..MaxEdits
<1>1. EditorTypeOK /\ EditorHolds(editor[e]) /\ editor[e] \in EditorState
  BY DEF DocumentsInv, EditorTypeOK
<1> QED BY <1>1 DEF EditorHolds, Holds, EditorState, EditorTypeOK

LEMMA DocumentsInit == ASSUME EditorInit PROVE DocumentsInv
<1>1. emptyDocument \in ToolGraphDocument /\ Sound(emptyDocument)
  <2> DEFINE none == [n \in {} |-> {}]
  <2>1. {} \in SUBSET Ids /\ none \in [{} -> Node] /\ {} \in SUBSET Edge /\ {} \in SUBSET Servers
    OBVIOUS
  <2>2. emptyDocument = [nodes |-> none, edges |-> {}, servers |-> {}]
    BY DEF emptyDocument
  <2>3. DOMAIN none = {}
    OBVIOUS
  <2> HIDE DEF none
  <2>4. emptyDocument \in ToolGraphDocument
    BY <2>1, <2>2, ADocument
  <2> QED BY <2>2, <2>3, <2>4 DEF Sound
<1> DEFINE s == Showing("unopened", emptyDocument)
<1>2. /\ s \in EditorState /\ s.document = emptyDocument /\ s.tools = {} /\ s.sent = <<>>
      /\ s.written = FALSE
  BY <1>1, ShowsADocument, Zenon
<1>3. editor = [e \in Editors |-> s]
  BY DEF EditorInit
<1> HIDE DEF s
<1>4. EditorHolds(s)
  BY <1>1, <1>2 DEF EditorHolds, Holds, AllSound
<1>5. EditorTypeOK
  <2>1. <<>> \in Seq(ToolGraphDocument)
    OBVIOUS
  <2> QED BY <1>2, <1>3, <2>1, EditorAssumption DEF EditorInit, EditorTypeOK
<1>6. StoreIsSound
  BY EditorAssumption DEF EditorInit, StoreIsSound, AllSound
<1> QED BY <1>3, <1>4, <1>5, <1>6 DEF DocumentsInv

LEMMA DocumentsStep == ASSUME DocumentsInv, [EditorNext]_editorVars PROVE DocumentsInv'
<1>1. ASSUME NEW e \in Editors, loadGraph(e) PROVE DocumentsInv'
  <2>1. Sound(graph) /\ graph \in ToolGraphDocument
    BY <1>1 DEF loadGraph, DocumentsInv, StoreIsSound, EditorTypeOK
  <2>2. /\ Others(e) /\ editor'[e].document = graph /\ editor'[e].tools = {} /\ editor'[e].sent = <<>>
        /\ editor'[e].written = FALSE
    BY <1>1, OfEditor, Loads
  <2>3. EditorHolds(editor'[e])
    BY <2>1, <2>2 DEF EditorHolds, Holds, AllSound
  <2> QED BY <1>1, <2>2, <2>3, OfEditor, EditorSteps DEF loadGraph
<1>2. ASSUME NEW e \in Editors, Leave(e) PROVE DocumentsInv'
  <2>1. EditorHolds(editor'[e]) /\ Others(e)
    BY <1>2, OfEditor, Leaves DEF EditorHolds
  <2> QED BY <1>2, <2>1, OfEditor, EditorSteps DEF Leave
<1>3. ASSUME NEW e \in Editors, Edit(e) PROVE DocumentsInv'
  <2>1. PICK d, tools : Holds(d, tools) /\ Edits(e, d, tools)
    BY <1>3, OfEditor, EditHolds DEF Document
  <2>2. /\ Others(e) /\ editor'[e].document = d /\ editor'[e].tools = tools
        /\ editor'[e].sent = editor[e].sent /\ editor'[e].written = editor[e].written
    <3>1. EditorTypeOK
      BY DEF DocumentsInv
    <3> QED BY <2>1, <3>1, EditsTo
  <2>3. UNCHANGED <<graph, versions, hidden>> /\ edits < MaxEdits /\ edits' = edits + 1
    BY <2>1 DEF Edits
  <2>4. edits' \in 0..MaxEdits
    BY <2>3, OfEditor, EditorAssumption
  <2>5. EditorHolds(editor'[e])
    BY <2>1, <2>2, OfEditor DEF EditorHolds
  <2> QED BY <2>2, <2>3, <2>4, <2>5, OfEditor, EditorSteps
<1>4. ASSUME NEW e \in Editors, Send(e) PROVE EditorHolds(editor'[e]) /\ Others(e)
  BY <1>4, OfEditor, Sends, AppendIsSound DEF EditorHolds
<1>5. ASSUME NEW e \in Editors, autosave(e) PROVE DocumentsInv'
  BY <1>4, <1>5, OfEditor, EditorSteps DEF autosave
<1>6. ASSUME NEW e \in Editors, saveNow(e) PROVE DocumentsInv'
  <2>1. edits' \in 0..MaxEdits /\ Send(e) /\ UNCHANGED <<graph, versions, hidden>>
    BY <1>6, OfEditor, EditorAssumption DEF saveNow
  <2> QED BY <1>4, <2>1, OfEditor, EditorSteps
<1>7. ASSUME NEW e \in Editors, saveGraph(e) PROVE DocumentsInv'
  <2> DEFINE new == Head(editor[e].sent)
  <2>1. new \in ToolGraphDocument /\ Sound(new)
    BY <1>7, OfEditor, RestIsSound DEF saveGraph
  <2>2. Others(e) /\ EditorHolds(editor'[e])
    <3>1. /\ Others(e) /\ editor'[e].document = editor[e].document
          /\ editor'[e].tools = editor[e].tools /\ editor'[e].sent = editor[e].sent
      BY <1>7, OfEditor, Writes
    <3> QED BY <1>7, <3>1, OfEditor DEF EditorHolds, saveGraph
  <2>3. \/ graph' = graph /\ versions' = versions
        \/ graph # Deleted /\ graph' = new /\ versions' = Append(versions, graph)
        \/ graph' = new /\ versions' = versions
    BY <1>7 DEF saveGraph, record_graph_version
  <2>4. /\ graph' \in ToolGraphDocument \cup {Deleted} /\ versions' \in Seq(ToolGraphDocument)
        /\ StoreIsSound'
    <3> HIDE DEF new
    <3>1. AllSound(versions) /\ versions \in Seq(ToolGraphDocument)
          /\ graph \in ToolGraphDocument \cup {Deleted} /\ (graph # Deleted => Sound(graph))
      BY DEF DocumentsInv, StoreIsSound, EditorTypeOK
    <3>2. CASE graph' = graph /\ versions' = versions
      BY <3>1, <3>2 DEF StoreIsSound
    <3>3. CASE graph # Deleted /\ graph' = new /\ versions' = Append(versions, graph)
      BY <2>1, <3>1, <3>3, AppendIsSound DEF StoreIsSound
    <3>4. CASE graph' = new /\ versions' = versions
      BY <2>1, <3>1, <3>4 DEF StoreIsSound
    <3> QED BY <2>3, <3>2, <3>3, <3>4
  <2>5. \A x \in Editors : EditorHolds(editor'[x])
    BY <2>2 DEF Others, DocumentsInv
  <2>6. EditorTypeOK'
    BY <1>7, <2>2, <2>4, OfEditor DEF EditorTypeOK, Others, saveGraph
  <2> QED BY <2>4, <2>5, <2>6 DEF DocumentsInv
<1>8. ASSUME NEW e \in Editors, NEW state \in {"saved", "error"}, editor[e].sent # <<>>,
             Answered(e, state), UNCHANGED <<graph, versions, hidden, edits>>
      PROVE  DocumentsInv'
  <2>1. /\ Others(e) /\ editor'[e].document = editor[e].document
        /\ editor'[e].tools = editor[e].tools /\ editor'[e].sent = Tail(editor[e].sent)
        /\ editor'[e].written = FALSE
    BY <1>8, OfEditor, Answers
  <2>2. EditorHolds(editor'[e])
    BY <1>8, <2>1, OfEditor, RestIsSound DEF EditorHolds
  <2> QED BY <1>8, <2>1, <2>2, OfEditor, EditorSteps
<1>9. ASSUME NEW e \in Editors, connectionLost(e) PROVE DocumentsInv'
  <2>1. /\ Others(e) /\ editor'[e].document = editor[e].document
        /\ editor'[e].tools = editor[e].tools /\ editor'[e].sent = Tail(editor[e].sent)
        /\ editor'[e].written = FALSE
    BY <1>9, OfEditor, Loses
  <2>2. EditorHolds(editor'[e])
    BY <1>9, <2>1, OfEditor, RestIsSound DEF EditorHolds, connectionLost
  <2> QED BY <1>9, <2>1, <2>2, OfEditor, EditorSteps DEF connectionLost
<1>10. ASSUME NEW e \in Editors, losesAccess(e) PROVE DocumentsInv'
  BY <1>10 DEF losesAccess, DocumentsInv, EditorTypeOK, StoreIsSound
<1>11. ASSUME deleteGraph PROVE DocumentsInv'
  <2>1. <<>> \in Seq(ToolGraphDocument) /\ AllSound(<<>>)
    BY DEF AllSound
  <2> QED BY <1>11, <2>1 DEF deleteGraph, DocumentsInv, EditorTypeOK, StoreIsSound
<1>12. ASSUME UNCHANGED editorVars PROVE DocumentsInv'
  BY <1>12 DEF editorVars, DocumentsInv, EditorTypeOK, StoreIsSound
<1>13. ASSUME NEW e \in Editors, saved(e) \/ notSaved(e) PROVE DocumentsInv'
  BY <1>8, <1>13, OfEditor DEF saved, notSaved
<1> QED BY <1>1, <1>2, <1>3, <1>5, <1>6, <1>7, <1>9, <1>13, <1>10, <1>11, <1>12 DEF EditorNext, Save

\* In every document there is, whoever holds it, edges join nodes that are there,
\* no field has two sources and every node's server is listed.
THEOREM DocumentsStaySound == EditorSpec => []DocumentsAreSound
<1>1. EditorInit => DocumentsInv
  BY DocumentsInit
<1>2. DocumentsInv /\ [EditorNext]_editorVars => DocumentsInv'
  BY DocumentsStep
<1>3. DocumentsInv => DocumentsAreSound
  BY DEF DocumentsInv, EditorHolds, Holds, StoreIsSound, AllSound, DocumentsAreSound,
         Documents, Document
<1> QED BY <1>1, <1>2, <1>3, PTL DEF EditorSpec

-----------------------------------------------------------------------------
(* The history *)

\* A step takes the graph away, leaves the history alone, or adds to it a document
\* that differs from the last one (record_graph_version).
LEMMA HistorySteps ==
  ASSUME [EditorNext]_editorVars
  PROVE  \/ graph' = Deleted
         \/ graph # Deleted /\ graph' = graph /\ History' = History
         \/ graph # Deleted /\ graph' # graph /\ History' = Append(History, graph')
<1>1. ASSUME NEW e \in Editors, Edit(e) PROVE UNCHANGED <<graph, versions>>
  BY <1>1 DEF Edit, addServer, removeServer, addToolNode, removeNode, setStaticInput,
              tryConnect, onEdgesDelete, onNodesChange, Changes, Edits
<1>2. ASSUME NEW e \in Editors, saveGraph(e)
      PROVE  \/ UNCHANGED <<graph, versions>>
             \/ graph # Deleted /\ graph' # graph /\ versions' = Append(versions, graph)
  BY <1>2 DEF saveGraph, record_graph_version
<1>3. ASSUME NEW e \in Editors,
             loadGraph(e) \/ Leave(e) \/ saveNow(e) \/ losesAccess(e) \/ autosave(e)
               \/ saved(e) \/ notSaved(e) \/ connectionLost(e)
      PROVE  UNCHANGED <<graph, versions>>
  <2>1. loadGraph(e) => UNCHANGED <<graph, versions>>
    BY DEF loadGraph
  <2>2. Leave(e) => UNCHANGED <<graph, versions>>
    BY DEF Leave
  <2>3. saveNow(e) => UNCHANGED <<graph, versions>>
    BY DEF saveNow
  <2>4. losesAccess(e) => UNCHANGED <<graph, versions>>
    BY DEF losesAccess
  <2>5. autosave(e) => UNCHANGED <<graph, versions>>
    BY DEF autosave
  <2>6. saved(e) \/ notSaved(e) \/ connectionLost(e) => UNCHANGED <<graph, versions>>
    BY DEF saved, notSaved, connectionLost
  <2> QED BY <1>3, <2>1, <2>2, <2>3, <2>4, <2>5, <2>6
<1>4. UNCHANGED editorVars => UNCHANGED <<graph, versions>>
  BY DEF editorVars
<1>5. deleteGraph => graph' = Deleted
  BY DEF deleteGraph
<1>6. \/ graph' = Deleted \/ UNCHANGED <<graph, versions>>
      \/ graph # Deleted /\ graph' # graph /\ versions' = Append(versions, graph)
  BY <1>1, <1>2, <1>3, <1>4, <1>5 DEF EditorNext, Save
<1> QED BY <1>6 DEF History

\* Saving only ever adds to the history of a graph, and only what differs from the last.
THEOREM HistoryGrows == EditorSpec => HistoryOnlyGrows
<1>1. [EditorNext]_editorVars =>
  [graph' = Deleted \/ History' = History
       \/ (History' = Append(History, graph') /\ graph' # graph)]_editorVars
  BY HistorySteps
<1> QED BY <1>1, PTL DEF EditorSpec, HistoryOnlyGrows

-----------------------------------------------------------------------------
(* What is shown as saved is stored *)

Stored(d) == \E i \in DOMAIN History : History[i] = d

\* The last document sent is the editor's unless a save is still to come; what was
\* written for an editor that has access is in the history; and so is what an
\* editor shows as saved.
SavesAreKept(e) ==
  /\ Open(e) /\ ~editor[e].timer /\ editor[e].sent # <<>>
     => editor[e].sent[Len(editor[e].sent)] = editor[e].document
  /\ editor[e].written /\ e \notin hidden /\ graph # Deleted => Stored(Head(editor[e].sent))
  /\ /\ Open(e) /\ editor[e].saveState = "saved"
     /\ ~editor[e].timer /\ editor[e].sent = <<>>
     /\ ~editor[e].lost /\ graph # Deleted /\ e \notin hidden
     => Stored(editor[e].document)

StoredInv == DocumentsInv /\ \A e \in Editors : SavesAreKept(e)

LEMMA StoredStays ==
  ASSUME EditorTypeOK, [EditorNext]_editorVars, graph' # Deleted, NEW d, Stored(d)
  PROVE  Stored(d)'
<1>1. History \in Seq(ToolGraphDocument \cup {Deleted})
  BY DEF EditorTypeOK, History
<1>2. History' = History \/ History' = Append(History, graph')
  BY HistorySteps
<1>3. PICK i \in DOMAIN History : History[i] = d
  BY DEF Stored
<1>4. i \in DOMAIN History' /\ History'[i] = d
  <2> DEFINE h == History
  <2>1. h \in Seq(ToolGraphDocument \cup {Deleted}) /\ i \in DOMAIN h /\ h[i] = d
    BY <1>1, <1>3
  <2>2. History' = h \/ History' = Append(h, graph')
    BY <1>2
  <2> HIDE DEF h
  <2> QED BY <2>1, <2>2
<1> QED BY <1>4 DEF Stored

LEMMA AccessIsOnlyLost == ASSUME [EditorNext]_editorVars PROVE hidden \subseteq hidden'
<1>1. ASSUME NEW e \in Editors, Edit(e) PROVE hidden' = hidden
  BY <1>1 DEF Edit, addServer, removeServer, addToolNode, removeNode, setStaticInput,
              tryConnect, onEdgesDelete, onNodesChange, Changes, Edits
<1>2. ASSUME NEW e \in Editors PROVE losesAccess(e) => hidden \subseteq hidden'
  BY DEF losesAccess
<1>3. ASSUME NEW e \in Editors,
             loadGraph(e) \/ Leave(e) \/ saveNow(e) \/ saveGraph(e) \/ autosave(e)
               \/ saved(e) \/ notSaved(e) \/ connectionLost(e)
      PROVE  hidden' = hidden
  <2>1. loadGraph(e) => hidden' = hidden
    BY DEF loadGraph
  <2>2. Leave(e) => hidden' = hidden
    BY DEF Leave
  <2>3. saveNow(e) => hidden' = hidden
    BY DEF saveNow
  <2>4. saveGraph(e) => hidden' = hidden
    BY DEF saveGraph
  <2>5. autosave(e) => hidden' = hidden
    BY DEF autosave
  <2>6. saved(e) \/ notSaved(e) \/ connectionLost(e) => hidden' = hidden
    BY DEF saved, notSaved, connectionLost
  <2> QED BY <1>3, <2>1, <2>2, <2>3, <2>4, <2>5, <2>6
<1>4. UNCHANGED editorVars \/ deleteGraph => hidden' = hidden
  BY DEF editorVars, deleteGraph
<1> QED BY <1>1, <1>2, <1>3, <1>4 DEF EditorNext, Save

\* An editor that a step does not touch.
LEMMA KeptStays ==
  ASSUME DocumentsInv, [EditorNext]_editorVars, NEW e \in Editors, SavesAreKept(e), editor'[e] = editor[e]
  PROVE  SavesAreKept(e)'
<1>1. EditorTypeOK
  BY DEF DocumentsInv
<1>2. \A d : Stored(d) /\ graph' # Deleted => Stored(d)'
  BY <1>1, StoredStays
<1>3. (graph' # Deleted => graph # Deleted) /\ hidden \subseteq hidden'
  BY HistorySteps, AccessIsOnlyLost
<1> QED BY <1>2, <1>3 DEF SavesAreKept, Open

\* The first and the last of what is sent.
LEMMA Ends ==
  ASSUME NEW s \in Seq(ToolGraphDocument), s # <<>>, NEW d \in ToolGraphDocument
  PROVE  /\ Append(s, d)[Len(Append(s, d))] = d /\ Append(s, d) # <<>>
         /\ Head(Append(s, d)) = Head(s)
         /\ Tail(s) = <<>> => s[Len(s)] = Head(s)
         /\ Tail(s) # <<>> => Tail(s)[Len(Tail(s))] = s[Len(s)]
<1>1. Len(s) \in Nat \ {0} /\ Len(Tail(s)) = Len(s) - 1 /\ Head(s) = s[1]
  OBVIOUS
<1>2. \A i \in 1..Len(s) - 1 : Tail(s)[i] = s[i + 1]
  OBVIOUS
<1>3. Tail(s) = <<>> <=> Len(s) = 1
  <2>1. Tail(s) \in Seq(ToolGraphDocument)
    OBVIOUS
  <2> QED BY <1>1, <2>1
<1>4. Len(Append(s, d)) = Len(s) + 1 /\ Append(s, d)[Len(s) + 1] = d
      /\ Append(s, d)[1] = s[1] /\ Append(s, d) # <<>> /\ Head(Append(s, d)) = Append(s, d)[1]
  BY <1>1
<1> QED BY <1>1, <1>2, <1>3, <1>4

LEMMA StoredStep == ASSUME StoredInv, [EditorNext]_editorVars PROVE StoredInv'
<1>0. /\ DocumentsInv /\ DocumentsInv' /\ EditorTypeOK
      /\ \A x \in Editors : SavesAreKept(x)
  BY DocumentsStep DEF StoredInv, DocumentsInv
<1>1. \A d : Stored(d) /\ graph' # Deleted => Stored(d)'
  BY <1>0, StoredStays
<1>2. (graph' # Deleted => graph # Deleted) /\ hidden \subseteq hidden'
  BY HistorySteps, AccessIsOnlyLost
<1>3. ASSUME NEW e \in Editors, Others(e), SavesAreKept(e)' PROVE StoredInv'
  <2>1. ASSUME NEW x \in Editors, x # e PROVE SavesAreKept(x)'
    BY <1>0, <1>3, <2>1, KeptStays DEF Others
  <2> QED BY <1>0, <1>3, <2>1 DEF StoredInv
<1>4. ASSUME UNCHANGED editor PROVE StoredInv'
  <2>1. ASSUME NEW x \in Editors PROVE SavesAreKept(x)'
    BY <1>0, <1>4, <2>1, KeptStays
  <2> QED BY <1>0, <2>1 DEF StoredInv
<1>5. ASSUME NEW e \in Editors PROVE
      /\ editor[e].sent \in Seq(ToolGraphDocument) /\ editor[e].document \in ToolGraphDocument
      /\ editor[e].written => editor[e].sent # <<>>
  BY <1>0, <1>5, OfEditor
<1>6. ASSUME NEW e \in Editors, loadGraph(e) PROVE StoredInv'
  <2>1. /\ Others(e) /\ editor'[e].saveState = "idle" /\ editor'[e].sent = <<>>
        /\ editor'[e].written = FALSE
    BY <1>0, <1>6, Loads
  <2>2. SavesAreKept(e)'
    BY <2>1 DEF SavesAreKept
  <2> QED BY <1>3, <2>1, <2>2
<1>7. ASSUME NEW e \in Editors, Leave(e) PROVE StoredInv'
  <2>1. /\ Others(e) /\ editor'[e].page = "left" /\ editor'[e].sent = editor[e].sent
        /\ editor'[e].written = editor[e].written
    BY <1>0, <1>7, Leaves
  <2>2. SavesAreKept(e)'
    BY <1>0, <1>1, <1>2, <2>1 DEF SavesAreKept, Open
  <2> QED BY <1>3, <2>1, <2>2
<1>8. ASSUME NEW e \in Editors, Edit(e) PROVE StoredInv'
  <2>1. PICK d, tools : Holds(d, tools) /\ Edits(e, d, tools)
    BY <1>0, <1>8, OfEditor, EditHolds DEF Document
  <2>2. /\ Others(e) /\ editor'[e].saveState = "dirty" /\ editor'[e].timer = TRUE
        /\ editor'[e].sent = editor[e].sent /\ editor'[e].written = editor[e].written
    BY <1>0, <2>1, EditsTo
  <2>3. SavesAreKept(e)'
    BY <1>0, <1>1, <1>2, <2>2 DEF SavesAreKept
  <2> QED BY <1>3, <2>2, <2>3
<1>9. ASSUME NEW e \in Editors, Send(e) PROVE StoredInv'
  <2> DEFINE s == editor[e].sent
             d == editor[e].document
  <2>1. /\ Others(e) /\ editor'[e].document = d /\ editor'[e].saveState = "saving"
        /\ editor'[e].sent = Append(s, d) /\ editor'[e].written = editor[e].written
    BY <1>0, <1>9, Sends
  <2>2. s \in Seq(ToolGraphDocument) /\ d \in ToolGraphDocument /\ (editor[e].written => s # <<>>)
    BY <1>5
  <2>3. editor[e].written /\ e \notin hidden /\ graph # Deleted => Stored(Head(s))
    BY <1>0 DEF SavesAreKept
  <2> HIDE DEF s, d
  <2>4. Append(s, d)[Len(Append(s, d))] = d /\ Append(s, d) # <<>>
    BY <2>2
  <2>5. s # <<>> => Head(Append(s, d)) = Head(s)
    BY <2>2, Ends
  <2>6. SavesAreKept(e)'
    BY <1>1, <1>2, <2>1, <2>2, <2>3, <2>4, <2>5 DEF SavesAreKept
  <2> QED BY <1>3, <2>1, <2>6
<1>10. ASSUME NEW e \in Editors, saveGraph(e) PROVE StoredInv'
  <2>1. /\ Others(e) /\ editor'[e].page = editor[e].page
        /\ editor'[e].document = editor[e].document /\ editor'[e].timer = editor[e].timer
        /\ editor'[e].sent = editor[e].sent /\ editor[e].sent # <<>>
    BY <1>0, <1>10, Writes DEF saveGraph
  <2>2. graph' # Deleted /\ e \notin hidden => graph' = Head(editor[e].sent)
    BY <1>2, <1>10 DEF saveGraph
  <2>3. History' = Append(versions', graph') /\ versions' \in Seq(ToolGraphDocument)
    BY <1>0 DEF History, DocumentsInv, EditorTypeOK
  <2>4. ASSUME NEW d, d = graph' PROVE Stored(d)'
    <3>1. Len(History') \in DOMAIN History' /\ History'[Len(History')] = d
      BY <2>3, <2>4
    <3> QED BY <3>1 DEF Stored
  <2>5. SavesAreKept(e)'
    BY <1>0, <1>2, <2>1, <2>2, <2>4 DEF SavesAreKept, Open
  <2> QED BY <1>3, <2>1, <2>5
<1>11. ASSUME NEW e \in Editors, saved(e) PROVE StoredInv'
  <2> DEFINE s == editor[e].sent
             d == editor[e].document
  <2>0. s \in Seq(ToolGraphDocument) /\ d \in ToolGraphDocument /\ s # <<>> /\ editor[e].written
    BY <1>5, <1>11 DEF saved
  <2>1. /\ Others(e) /\ editor'[e].page = editor[e].page /\ editor'[e].document = d
        /\ editor'[e].timer = editor[e].timer /\ editor'[e].sent = Tail(s)
        /\ editor'[e].written = FALSE
    BY <1>0, <1>11, <2>0, Answers DEF saved
  <2>2. /\ Open(e) /\ ~editor[e].timer => s[Len(s)] = d
        /\ e \notin hidden /\ graph # Deleted => Stored(Head(s))
    BY <1>0, <2>0 DEF SavesAreKept
  <2> HIDE DEF s, d
  <2>3. /\ Tail(s) = <<>> => s[Len(s)] = Head(s)
        /\ Tail(s) # <<>> => Tail(s)[Len(Tail(s))] = s[Len(s)]
    BY <2>0, Ends
  <2>4. SavesAreKept(e)'
    BY <1>1, <1>2, <2>1, <2>2, <2>3 DEF SavesAreKept, Open
  <2> QED BY <1>3, <2>1, <2>4
<1>12. ASSUME NEW e \in Editors, notSaved(e) \/ connectionLost(e) PROVE StoredInv'
  <2> DEFINE s == editor[e].sent
             d == editor[e].document
  <2>0. s \in Seq(ToolGraphDocument) /\ d \in ToolGraphDocument /\ s # <<>>
    BY <1>5, <1>12 DEF notSaved, connectionLost
  <2>1. /\ Others(e) /\ editor'[e].page = editor[e].page /\ editor'[e].document = d
        /\ editor'[e].timer = editor[e].timer /\ editor'[e].sent = Tail(s)
        /\ editor'[e].written = FALSE
        /\ editor'[e].lost = TRUE \/ (Open(e) => editor'[e].saveState = "error")
    BY <1>0, <1>12, <2>0, Answers, Loses DEF notSaved
  <2>2. Open(e) /\ ~editor[e].timer => s[Len(s)] = d
    BY <1>0, <2>0 DEF SavesAreKept
  <2> HIDE DEF s, d
  <2>3. Tail(s) # <<>> => Tail(s)[Len(Tail(s))] = s[Len(s)]
    BY <2>0, Ends
  <2>4. SavesAreKept(e)'
    BY <1>1, <1>2, <2>1, <2>2, <2>3 DEF SavesAreKept, Open
  <2> QED BY <1>3, <2>1, <2>4
<1>13. ASSUME UNCHANGED editorVars \/ deleteGraph \/ \E e \in Editors : losesAccess(e) PROVE StoredInv'
  BY <1>4, <1>13 DEF editorVars, deleteGraph, losesAccess
<1>14. ASSUME NEW e \in Editors, autosave(e) \/ saveNow(e) PROVE StoredInv'
  BY <1>9, <1>14 DEF autosave, saveNow
<1> HIDE DEF StoredInv
<1> QED BY <1>6, <1>7, <1>8, <1>10, <1>11, <1>12, <1>13, <1>14 DEF EditorNext, Save

\* Documents are sound wherever they are, and what an editor shows as saved, with
\* nothing on its way and no edit waiting for the timer, is in the table or in the
\* history, as long as the graph is there and open to the account and every call was
\* answered (useGraphEditor.ts, GraphEditor.tsx).
THEOREM SavesAreStored == EditorSpec => []DocumentsAreStored
<1>1. EditorInit => StoredInv
  <2>1. ASSUME EditorInit, NEW e \in Editors PROVE SavesAreKept(e)
    BY <2>1 DEF EditorInit, Showing, SavesAreKept
  <2> QED BY <2>1, DocumentsInit DEF StoredInv
<1>2. StoredInv /\ [EditorNext]_editorVars => StoredInv'
  BY StoredStep
<1>3. StoredInv => SavedIsStored
  BY DEF StoredInv, SavesAreKept, SavedIsStored, Stored, Document
<1> QED BY <1>1, <1>2, <1>3, DocumentsStaySound, PTL DEF EditorSpec, DocumentsAreStored

=============================================================================
