# Toolgraph, specified

Toolgraph is a visual editor for graphs of MCP tool calls. A graph is edited and
test-run in the browser, run step by step by an engine, exported as code, shared in
workspaces and paid for with on-chain transfers. This directory holds TLA+ models of
the parts whose correctness depends on order, failure, concurrency or on the corner
cases of an algorithm, the TLC configurations that check them, and proofs that TLAPS
checks.

`PROJECT.json` lists the components, the runs, the source lines each definition stands
for, the hazards of the code and the properties that cover them, and the theorems.
In this file `engine/` is `src/apps/engine/src/`, `web/` is `src/apps/web/src/`,
`sql/` is `src/supabase/migrations/`, and `core/`, `codegen/` and `mcp/` are the `src`
directories of `src/packages/schema-core`, `codegen` and `mcp-client`.

To run: `tlc -config MCBilling_replay.cfg MCBilling`, `tlapm BillingProofs.tla`.

## 1. The system

| Component | State it keeps | Operations | Hard behaviour | Correct when |
|---|---|---|---|---|
| **Engine run** `engine/routes/run.ts`, `lib/executor.ts` | one run: order, results, outputs, failed flag, connections by server, abort signal, the open response | order the graph, step through it, stream events, close connections, record the row | servers that hang, a browser that leaves, a failure in the middle, a time budget | every tool is fed, reported and recorded consistently; connections are closed; the run ends |
| **MCP client** `mcp/` and **introspection** `engine/routes/introspect.ts` | one connection, a timer per await | vet, connect, list, call, close | timers racing answers, redirects, spellings of addresses | a timeout bounds each await on the server; every transport is closed; every hop is vetted |
| **Run hook** `web/components/run/useGraphRun.ts` | phase, steps, error, `abortRef`, cold-start timer | start, cancel, apply an event, end of stream | runs that overlap, streams that end early, unmounting | what is shown is what the engine said |
| **Billing** `web/app/api/billing/submit`, `web/lib/billing` | `payment_submissions`, `subscriptions` | claim, reopen, verify, judge, activate, read the entitlement | concurrent submissions, lost acknowledgements, crashes, retries | one payment, one grant, to who filed it, and only if paid |
| **Price feed** `web/lib/billing/price.ts` | cached rates, request in flight | quote | callers that join a request, late and partial answers | rates are recent and asked for once |
| **Workspaces** `sql/20260201000000_workspaces.sql`, `web/app/settings/workspaces/actions.ts` | workspaces, members, invitations | create, invite, accept, change a role, remove, transfer, delete | statements of several users interleave inside a transfer | one owner; nobody in without an invitation |
| **Account deletion** `web/lib/account/delete.ts` | none of its own | preview, delete with cascades | membership changes in between | nobody loses a workspace he shared when the deletion looked |
| **Connections** and **run proxy** `web/app/connections`, `web/lib/connections`, `web/app/api/run` | a row, a sealed credential, cached tools | save, test, import, run, remove | several statements per request, some of them past every policy | the padlock tells the truth, tools go with their address, credentials stay with who may use them |
| **Graphs and editor** `web/hooks/useGraphEditor.ts`, `web/app/graphs` | the document, its versions, save state, timer | edit, autosave, save, delete | saves overtaking edits, two editors | no dangling edge is stored; what is shown as saved is stored |
| **Schema compatibility** `core/` | none | list fields, resolve pointers, compare | recursion and work limits, unions | "compatible" implies that what is compared fits; a refusal is justified |
| **Code generation** `codegen/` | none | order, plan, name, type, print | overlapping writes, names that collide, models stricter than the tool | the program sends what the engine would |
| **Rate limiters** `web/lib/rate-limit.ts`, `engine/lib/rate-limit.ts` | map of recent hits | admit | the full map, a Redis that fails | never more than the limit in a window |
| **Panels** billing page, export dialog, connect dialog | a choice, requests on their way, what is on show | choose, submit, refresh, close | answers that overtake each other | what is on show is what the server said of what is chosen |
| **Authentication and settings** `web/app/auth`, `web/app/settings` | accounts, sessions, the browser's cookie | sign up, in, out, change the password, delete | several calls per action, responses that carry a session | only who knows the password changes it |
| Account export, profiles, email, server start-up, pages | — | — | — | not modelled, see section 7 |

**Interactions.** The browser starts a run with a POST and reads the answer as an
event stream; the engine's only way to notice that nobody reads is the `close` event
of that request. What a connection draws is judged by the compatibility checker, what
is stored by the document schema, what runs by the engine and what is exported by the
generator: `MCDesign` compares them on the same documents. Billing reads
`can_administer_workspace`, which workspaces decide. Account deletion reads memberships
and then lets foreign keys remove everything. A panel shows copies of what a server
answered, so its model has one record for the server and requests under way.

## 2. Plan

The order of work was the order of what goes wrong at the highest price: money
(`Billing`), the run, from the order of a graph to the panel (`Topology`, `Executor`,
`GraphRun`, `SseFrames`), who may do what (`Workspaces`, `Connections`, `Sessions`), what
is lost (`Editor`), the pure algorithms (`Compat`, `Codegen` and below), and the parts of
one screen or one cache. What the plan has left:

1. **Composition**: `Billing` over `Workspaces`, so that `administers` is decided by
   membership. That a Team row holds the deletion of its workspace back is in
   `Workspaces` already.
2. **Editor**: creating, renaming and moving graphs.

## 3. The modules

| Module | Models | Composed with |
|---|---|---|
| `Billing` | `POST /api/billing/submit`, any number of requests at a time | implements `PaymentLedger` |
| `PaymentLedger` | what billing promises of a payment: first claim wins, settled once, credited once | |
| `BillingProofs` | theorems about `Billing`: grants, rows, answers, periods | extends `Billing` |
| `ChainLookup` | what is made of a blockchain node's answer | |
| `Topology` | `topologicalOrder` of the executor | used by `Executor`, `Codegen` |
| `RunEvents` | the events of a run and how they may follow each other | used by `RunStream`, `GraphRun` |
| `RunStream` | the promise the stream makes to its reader | |
| `Executor` | `POST /run`, `executeGraph`, `createInvoker`, `withTimeout` | extends `Topology`, implements `RunStream` |
| `ExecutorProofs` | theorems about `Topology` and `Executor` | extends `Executor`, `RecursionProofs` |
| `GraphRun` | `useGraphRun` over several runs of one panel | reads any stream `RunEvents` allows |
| `RunsProofs` | theorems about `GraphRun` | extends `MCRuns`, `RecursionProofs` |
| `SseFrames` | `send` of the engine, `takeFrames` and `parseFrame` of the browser | |
| `FramesProofs` | theorems about `SseFrames` | extends `MCParts`, `RecursionProofs` |
| `Workspaces` | policies, functions and foreign keys, and `deleteAccount` | |
| `WorkspacesProofs` | theorems about `Workspaces` | extends `MCWorkspaces` |
| `Connections` | a saved connection, its credential and the requests on them | |
| `Editor` | one graph, its history and the editors that have it open | |
| `BenchProofs` | theorems about both | extends `Connections`, `Editor` |
| `JsonPointer`, `SchemaFields`, `Compat` | `core/pointer.ts`, `fields.ts`, `compat.ts` | each extends the one before |
| `GeneratedModels` | what the exported zod schemas and Pydantic models make of a value | extends `JsonPointer` |
| `Identifiers` | the names, literals and accesses an export prints, as what they read | |
| `Codegen` | order, assignments, argument objects and names of an export, and the engine's `buildStepInput` beside them | extends `Topology` |
| `RateLimiter`, `PriceFeed`, `Introspection`, `Addresses` | the two limiters, the price cache, `/introspect` with guarded fetch, `ssrf.ts` | |
| `BillingPanel`, `ExportPanel`, `ServerDialog`, `Sessions` | the billing page, the export dialog, the connect dialog, accounts and sessions | |
| `MCBilling`, `MCExecutor`, `MCGraphRun`, `MCWorkspaces` | instances of one module | |
| `MCCompat`, `MCDocuments`, `MCDesign` | small schemas, small documents, and both | `Compat` and `GeneratedModels`; `Codegen` |
| `MCRuns`, `MCBench`, `MCParts` | several modules side by side, a behaviour being one of one of them; so the runs of a part share a run, and its states are their sum | see their headers |
| `PartsProofs` | theorems about the other parts of `MCParts` | extends `MCParts`, `RecursionProofs` |
| `Filters` | a sequence restricted to a set, as a recursive function | used by `RateLimiter`, `SseFrames`, `GraphRun`, `ChainLookup` |
| `RecursionProofs` | lemmas about recursive functions over numbers, and about `Filter` | extends `Filters` |

### Billing

One process per request, one action per `await`: `Submit`, `InsertClaim`
(`claimSubmission`), `SelectExisting`, `reopenSubmission`, `Verify`, `Judge`,
`MarkRejected`, `markSubscriptionPending`, `MarkVerified`, and the two halves of
`activateSubscription`, `ReadPeriod` and `Upsert`. `readEnd` and `newEnd` are its
locals: what it read stays what it writes from. A statement sent to Postgres ends
`ok`, `failed` (not executed) or `lost` (executed, not acknowledged). `Crash` stops a
request anywhere. Beside the requests the clock moves, the chain advances and roles
change. `granted` and `faults` are history variables: the requests
whose activation committed, and the statements that failed or were not acknowledged, by
which `AnswersAreTrue` tells a rejection that was not written from one that was.

Abstracted: a hash with its currency is one model value; a transaction is its
recipient, success and worth in dollars; a lookup may come back empty whatever the
chain says; a quote is there or not (`PriceFeed` has its cache). The clock counts days
and both plan intervals are constants.

### Topology and Executor

`Topology` is Kahn's algorithm as a recursive function with the code's queue, its
in-degrees counted over live edges only. `Executor` has one action per step of the
loop and one at each end of an `await`. A run works at one node at a time, so `pc` and
`i` are enough. `Tick` passes time only in an `await`. Values are abstracted to the
nodes they came from: `fed` remembers which sources contributed to a call. A write
through a key like `__proto__` throws; `unsafe` and `forbidden` mark where a document
has one. The name lookup before a connection is inside `ConnectLimit`. `Leave` and
`Closed` are separate: the listener for `close` is attached late, so the signal may
never fire.

### GraphRun and SseFrames

A run of the panel is an async function; several share the hook's state, `abortRef`
and the timer. An aborted `fetch` or read is rejected before the page handles
another event (`Settled`). The engine at the far end writes any stream `RunEvents`
allows, at most `MaxUnread` events ahead, and the connection may end at any
point, as a clean end of the body or as an error. `speaker` is a history variable: the
run that set the phase. Left out: `reset`, which nothing calls, and the analytics
event. `SseFrames` has characters as field names, line feeds and pieces of payload;
network chunks end between any two. A payload is a piece other than a line feed, for
`JSON.stringify` writes one line, and other than the word that stands for a keepalive.

### Workspaces

One statement is one step. `transfer_workspace_ownership` is two, its checks and its
writes, since under READ COMMITTED the checks lock nothing. The unique index on the
owner role is evaluated when the writes are made and rolls them back. `deleteAccount`
is two, the preview and the deletion. `Visible` is what the select policy lets
through; the preview reads as many of these rows as its limit allows, any of them.
`InTurn` says that the transfers of one workspace come one after the other. `billed`
has the payment and Team rows that name a workspace: `on delete set null` meets the
check that a Team row has a workspace, so such a row holds its deletion back, and with
it that of its owner's account (`HeldBack`); an account's own payment rows go before
its workspaces do. A read of the preview may fail (`previewFails`), which the
code takes for no members. Two history variables say whom a deletion can hit: `since`,
who came to share an owned workspace after a complete preview looked, and `blind`, the
accounts whose preview was not complete, because a read failed, the rows were cut or a
workspace had no row of its owner. Left out: names and slugs. The preview is one snapshot
although it is three reads.

### Connections

A request is an account, a form and where it is among its statements; `copy` is what
it read of the row, and later statements go on from it. Statements by the scoped client
see what the policies let them (`Visible`); those by the service key (`setCredential`,
`clearCredential`, the read of a credential) see everything and rest on the check made
before. `sync_connection_has_credential` is part of the statement that fires it. A
target is an address and stands for the tools listed there. `outdated` is a history variable: the requests
whose copy of the row predates its last edit. A mismatch of tools and address has to be
accounted for by one of them: by a test that was overtaken (`Overtaken`) and reported the
tools it found at the address it had read, or by a page that was already out of date.

### Editor

An editor is its copy of the document, the save state it shows, its autosave timer and
the documents it has sent. The canvas rewrites edges in its handlers, so those are part
of the action; `saveGraph` validates and writes in one step, and
`record_graph_version` is part of that write. Layout is left out. `lost` remembers that a call got no answer
since the last document was sent: nobody catches one, and the save state stays.

### Schemas and documents

A schema is a function from the keywords it carries to their values. `isSubschema` is a
recursive operator that carries the work left, as the code's context object does.
`MCCompat` grows pairs of schemas construct by construct and has its own reading of JSON
Schema, a predicate on small values, as the reference. `Uncompared` lists the
seven things `isSubschema` does not compare (section 6), as a predicate on a value: what
is let through wrongly must have one of them in it. `Codegen` yields argument objects
rather than text: a function from pointers to expressions for the TypeScript tree, the
Python statements and the engine's `setAtPointer`. `MCDocuments` grows documents edge by
edge and lists of tools name by name.

### Parts

`RateLimiter` has an honest clock and a map of times; `PriceFeed` a request in flight
that callers join; `Introspection` timers, a transport and its hops; `ChainLookup` every transaction with every
answer a node may give of it, so its part takes no steps (a node may leave out the status or a
recipient); a feed answers `PriceFeed` for all currencies, for some or for none;
`Addresses` has bytes of two bits, so that every address has every spelling, in one to
four parts that are each written in one of three radixes. In the panels a request is a
record on its way and its answer an action, so answers come in any order; an export's
answer may have a body that cannot be read, and the clipboard may refuse. `Sessions` has
Supabase's sessions as the code uses them, and a browser that takes the session of a
response when it arrives.

## 4. What the runs check

| Run | Instance | Shows |
|---|---|---|
| `replay` | 2 accounts, 3 requests, 1 payment, 2 faults | One grant per payment, whoever submits it and whatever is not acknowledged; verified, pending, rejected and conflict agree with the rows, but for a rejection that was not written; what is settled stays settled; every request is answered; `PaymentLedger` is implemented |
| `grants` | 2 accounts, 1 workspace, 3 payments, 2 requests, 2 days | Entitlement and seats come from a grant that runs; a final refusal has a reason; only what was paid is granted, never a reverted USDT transfer; paid time is lost only by a stale read or an outage |
| `clobber` (violated) | 1 account, 2 payments | See section 6 |
| `design` | pairs of schemas of 2 constructs; documents of 4 nodes and 4 edges; names of 3 characters | "Compatible" means assignable but for what is not compared, an error is real or one of two named kinds, listed fields can be reached, generated types keep the calls, orders exist exactly for acyclic graphs and the engine and the export agree on them, an export feeds its tools as the engine would, or says so |
| `exports` (violated) | 1 small document | See section 6 |
| `runs` | 10 documents, 2 servers, 3 steps, a budget of 3 ticks; a panel of 2 runs | Tools are fed by all their sources; results, last event and recorded row tell one story; nothing is left open or started after the end is known; `RunStream` is implemented; every run ends; the panel says what the engine said |
| `cut` (violated) | 1 run | See section 6 |
| `roles` | 1 workspace; 3 users, or 2 with overlapping transfers, or 2 with Team payments and previews that fail | The two records of ownership agree; nobody gets in without an open invitation and no role is taken by who may not; a deletion takes a workspace only from who came to share it after a complete preview looked; one is complete if no read failed, no row was cut and the owner has a row |
| `ownerless` (violated) | 2 users, 1 transfer | See section 6 |
| `bench` | 2 members, an outsider, 2 requests; 2 editors, 2 edits | Padlock and credential agree; tools go with their address, or one overtaken test or older page accounts for it; an outsider only writes its own; a save that says so has stored; documents are sound wherever they are; what is shown as saved is stored; history only grows |
| `parts` | one small instance for each of ten parts | Events are read whole and in order; limits hold and a wait as told is enough; rates are recent and a chain is not read backwards, but for what is refused for want of a status or recipient; introspection closes and vets; spelling does not matter to the address rules; panels show answers to what is chosen unless answers cross; accounts go by the hand of their holders |
| `unknown` (violated) | 1 page | See section 6 |

**Bounds.** *Billing*: three requests are the fewest with a filer, whose row was
rejected, and two that race to reopen it; two payments are the fewest that can race for
one period, a third, in USDT and to us, was reverted; two accounts for a stolen hash or a contested
workspace. `MaxFaults` bounds failing and unacknowledged statements, `MaxNow` the days:
intervals of one and two let a period run out and let a longer one be extended. In
`grants` accounts and requests are symmetric; `replay` has a liveness property and no
symmetry.
*Topology*: four nodes have a diamond, a cycle behind a free node, a duplicate and a
stale edge; when one edge feeds a field or is a loop there are three. *Schemas*: a pair
grows by two constructs, one once it is odd (a reference that leads nowhere, a bound
that contradicts another); limits of depth and work are small enough to be met.
*Executor*: the documents of `MCExecutor` are a chain, a join, a fork, boundary nodes
and one for each way to refuse or throw; limits of one and two ticks against a budget of
three let it run out before, in and after a call. *GraphRun*: two runs overlap in every
way one can outlast the next. *Workspaces*: a third user is needed for an administrator
who is neither owner nor target, overlapping transfers need two; `PreviewRows` two is
below and above the rows that three members have. *Bench*: two requests are the fewest
that overlap, and so are two editors; an edit, a save and another editor's save take two
edits; ids run out after two nodes were added. *Parts*: two callers, three writes, two
redirects and three answers on their way are the fewest at which an order can be wrong,
and two outputs or logs the fewest of which one can be left out;
accounts and requests are symmetric. Bytes have two bits, so an address has 256 values.

`CHECK_DEADLOCK FALSE` is given where the system stops by itself: requests, runs, writes
and accounts are finite.

**Fairness.** *Billing*: a submitted request keeps taking steps. Lookups are aborted
after six seconds and statements are answered or their connection fails. *Executor*: the
engine's own code, the clock and timers. No server has to answer and the `close` event
need not come. *GraphRun*: a run in the browser and the engine's side of an answered
request go on; that the engine ends each is `EngineEnds`. `MCRuns` asks only that some
run of the panel goes on while one can: runs are finite, so each does. Nothing is
assumed of users, networks and chains. Where no liveness property is checked the
specification is `Spec`.

**Mutants.** Next to the definitions stand variants named as mutants of them: the bugs
each property is there to catch. They are in no specification.

## 5. What is proved

Every theorem is for any number of users, requests, documents, servers and so on, from
the assumption its module states of its constants.

| Module | From | Theorems |
|---|---|---|
| `BillingProofs` | `BillingAssumption`: offers and transactions are typed, intervals positive, sentinels no values | `TypeCorrect`, `Invariance` (`IInv`), `NoPaymentGrantsTwice` (`OneGrantPerPayment`), `GrantsFindTheirFiler`, `NothingGrantedUnpaid` (`GrantedWasPaid`), `SettledStaysSettled` (`SettledForGood`), `BillingImplementsLedger` (`LedgerSpec`), `AnswersRest`, `AnswersTellTheTruth` (`AnswersAreTrue`), `NoRefusalWithoutAReason` (`RejectedForAReason`), `PeriodsRest`, `EntitledByPaying` (`EntitlementIsEarned`), `PaidTimeStays` (`PaidTimeIsKept`) |
| `ExecutorProofs` | nothing but distinct nodes | `OrderIsSound`, `OrderIsComplete`, `OrdersDocuments` |
| the same | `ExecutorAssumption`: typed documents that list a node once, limits | `ConnectionsAreClosed` (`NothingLeftOpen`), `RunsStop` (`RunStopsInTime`), `ToolsAreFed` (`FedByEverySource`), `RunsAreToldInOrder` (`StreamSpec`), `RunsAreToldOnce` (`RunIsToldOnce`) |
| `RunsProofs` | nothing | `PanelIsTrueToItsRun` (`PanelFollowsItsRun`) |
| `WorkspacesProofs` | `WorkspacesAssumption`: finitely many users and workspaces, sentinels no users | `TablesHold`, `NeverTwoOwners`, `RecordsAgreeInTurn`, `OwnersStayInStep` (`OwnersAgree`), `RolesStayLawful` (`RolesAreGiven`), `DeletionsAreCareful` (`DeletionsSpareOthers`) |
| `BenchProofs` | `Distinct`: administrators are members, sentinels no values | `TypeCorrect`, `Invariance` (`IInv`), `PadlockIsTrue`, `ToolsGoWithTheAddress`, `OutsidersStayWithTheirOwn`, `SavesStore` |
| the same | `EditorAssumption`: what the table holds to begin with is typed and sound | `DocumentsStaySound`, `SavesAreStored` (`DocumentsAreStored`), `HistoryGrows` (`HistoryOnlyGrows`) |
| `PartsProofs` | `PartsAssumption`: limits are numbers, the price cache lasts, `None` is no account, verdict or time, a payload no line feed | `IntrospectionAlwaysLetsGo` (`IntrospectionLetsGo`), `AccountsAreTheirHolders` (`HoldersOnly`), `PanelsAlwaysFollow` (`PanelsFollowTheirAnswers`), `RatesStayRecent`, `LimiterIsAlwaysHonest` (`LimiterIsHonest`), and with `ChainAssumption` (what a node says of a transaction is no malformed value) `PaymentsAreAlwaysReadRight` (`PaymentsAreReadRight`) |
| `FramesProofs` | the same | `FramesAreRead` (`EventsAreRead`) |

**Billing.** `OneGrantPerPayment` is not inductive: nothing in it forbids two requests
about to upsert the same hash. Its cause is that a claim is a lock (`ClaimIsALock`): of
the requests between the claim and the last write at most one is at any hash, and the
row is `pending` while it decides and `verified` while it activates. A request gets in by
the insert, which needs an absent row, or by the reopening, which needs a rejected one,
and a held row is neither. `GrantsComeLast` adds that a held row has no grant yet,
`ReopensOwnRow` that only the filer reopens, `VerdictsStand` that what the verifier found
stays true (blocks are not undone). Together with the types and the goals they are
`IInv`. The proof has one step per action; steps that leave the rows alone share the
lemma `QuietStep`. `RowStep` summarises what any step does to rows and grants, and both
the action property and the refinement follow from it.

On top of it stand two more invariants. `AnswersInv` says what a request about to answer
has found in the tables and that an answer is the end of its request: that a row once
there stays (`FoundIsThere`), that a pending row nobody decides on was let go by somebody
who said so, died or had a statement fail (`PendingIsLetGo`), and that a fault is of a
request that has begun (`FaultsHaveBegun`). It rests on the lemma that one request moves
at a time (`KeptOrMoves`). `PeriodsInv` says that an active
status is backed by the grant that wrote its row, and that an upsert under way extends
what its request read: where the row was written since is where a stale read shortens.

**Recursion.** The models write what the code does in a loop as a recursive function.
Induction over its argument goes by least elements of sets of numbers (`Least`, `UpTo`):
the least argument at which something fails has a predecessor at which it holds.
`Recursion` gives such a function the equations it is written with; the lemmas on
`Filter` say what it keeps, in which order, and that it commutes with an append.

**Topology.** The invariant of the queue is that the in-degree of a node is the number of edges it still
waits for (`wait`), zero exactly when it is ordered or in the queue, and that ordered
nodes come after their sources. Hence an order that is returned is one, and for
completeness: of the nodes of an ordered document the first one left out would wait for
nothing. `OrdersDocuments` puts both in the operator that run `design` evaluates on its
documents: there is an order exactly when no cycle of live edges is, for any list of
distinct nodes.

**Executor.** `ClientsInv`, `TimeInv`, `FedInv`, `StreamInv`, `ResultsInv` and `EndInv`
are proved one on top of the other. `FedInv` needs the order to be one: that what was
passed includes every source of the node at hand is `OrderIsSound`. `ResultsInv` has the
results list exactly the tools that were passed, `EndInv` the one end of the stream that
agrees with them and with the row; `StreamInv` has the last event, which decides what may
come next, and gives the refinement of `RunStream` step by step.

**Panel of a run.** `PanelFollowsItsRun` speaks of the one run that set the phase, but any
number of them write it. `PanelInv` adds, run by run: the stream was written in the
engine's order, so that nothing follows its closing event and a success follows no failure
(`StreamsInv`); runs that go on beside each other have `crossed`, and a success that
crossed none has nobody beside it (`AloneInv`); a run read to its close is not waited for
(`CloseInv`); and the phase is what the last event its speaker read says (`SaidInv`).

**Workspaces.** `TablesInv` (types, members have accounts, at most one owner row) holds
however transfers overlap, for the unique index undoes the second one. That the owner row
and `workspaces.owner` agree needs transfers of one workspace in turn, and the invariant
that a transfer between its checks and its writes names the present owner (`OwnersInv`);
`OwnersStayInStep` puts both together for the settings of run `roles`. `RolesAreGiven` goes by
the statement that makes the step. `DeletionsSpareOthers` needs `NewcomersInv`: while a
deletion that saw everything is on its way, whoever shares one of its workspaces is in
`since`, for the preview found nobody and a transfer or an invitation adds to `since`
whom it brings.

**Connections.** `IInv` joins the three properties with `FormsFit` (what a request holds
fits the statement it is at), `CopiesAgree` (a copy that is not outdated names the row's
address), and tools in the row and on the pages, where an edit that resets the row makes
witnesses of the requests it overtakes: the test that then writes what it found is the
one `Overtaken` names, and it stays to be named because an answered request keeps what
it found.

**Editor.** Every edit takes a sound document and tools of its servers to the like
(`EditHolds`); each step changes one editor, by the fields its lemma names. `DocumentsInv`
is that every editor holds such a document and has sent sound ones, and that the table
has them; `SavesAreKept` adds that the last document sent is the editor's unless a save is
still to come, that what was written is in the history as long as the graph is there, and
that so is what is shown as saved.

**Parts.** The introspection holds a transport exactly while it asks a server
(`TransportInv`), races a timer that ends within what is left (`ClockInv`), and has
vetted the address it is about to dial (`HopsInv`). A request for an account has proved
what its step needs (`Proved`): the property speaks of the password at the write, which
may have changed since the check, so what is kept is that the password checked is among
those the account had while the request ran (`known`). Sessions are made in order, so one
to come is newer than any sign-out (`MintInv`). `ExportInv` is that the newest request is
for what is chosen (`RequestsInv`) and what is on show is what the answers heard since
add up to (`HeardInv`), `VerdictInv` that the verdict and the status read beside it agree,
`DialogInv` that a dialog not closed over a request waits for one at most. `PriceInv` says
of the one open request how long it may still be, hence how old a rate can get. `LimitInv` is that a caller's hits are the last of its
admissions, in order, no more than the limit, and that the admissions before them that
were not forgotten are older than a window: hence so many admissions lie a window apart,
and what a refused caller is told is enough, because the oldest hit is the first to go.

**Chain.** For each currency a lemma says what the verdict is, in terms of what was found among
the movements the answer tells (`BitcoinJudged`, `EtherJudged`, `UsdtJudged`). What is found
is what the transaction moved to us, and its sum what that is worth (`FoundIsReceived`,
`SumIsWorth`): the property counts the worth movement by movement, the code sums what it
filtered. So nothing is accepted beyond it, and what is refused for good moved nothing
to us or was reverted, which no later answer changes; but for an answer without a
recipient or without the status of a token transfer (`TakenForWrong`), where the code
refuses for good what a full answer may show to be a payment. The other half of
`PaymentsAreReadRight`, the rate a payment is judged by, is `RatesStayRecent`.

**Frames.** `FramesInv` is that some number of whole writes has been read: their events are
applied, and the browser's buffer with what is on its way is the frames of the rest, of
which the buffer holds none whole. A frame has its blank line at its end only, so what a
chunk completes is what `takeFrames` cuts off, one frame a turn (`OneTaken`), and what it
leaves is again no whole frame. At the end of the stream the buffer may be a frame that
lacks part of its blank line, which parses as the event it is, or less, which does not
parse (`TailParsed`): so no event is read that was not sent, none twice or in part, and a
stream that was not cut is read to its end.

**Only model-checked.** `SpellingDoesNotMatter`: with bytes of two bits TLC goes through
every address and spelling; for bytes of any width it is about powers of two, of which the
prover knows nothing. Run `design`: `Compat`, `SchemaFields`, `Codegen` and the modules over
them have `RECURSIVE` operators, for which the prover has no arithmetic; of its
properties `OrdersExactlyTheAcyclic` alone is covered, as far as `Topology` states it, by
`OrdersDocuments`, whose module does without them. And all liveness
(`EveryRequestAnswered`, `EngineEnds`, `RunSettles`): it handles neither fairness nor
`ENABLED`.

## 6. Where the code and its comments part

Each of these runs is expected to find its property violated.

- `clobber`: with the price feed down at a renewal the handler sets the account to
  `pending` (`web/app/api/billing/submit/route.ts:478`); entitlement needs `active`, so the
  paid period stops counting. Line 476 says "Our price feed being down is our problem,
  not the payer's."
- `cut`: a stream that ends early is turned into success
  (`web/components/run/useGraphRun.ts:291`) and the panel says "Every step succeeded".
- `ownerless`: a transfer whose new owner leaves between its check and its writes
  leaves no owner row (`sql/20260201000000_workspaces.sql:493`); line 31 says a workspace
  always has exactly one owner.
- `exports`: a Python program reads a field of a step's output with `.get`, which the
  model it reads has not (`codegen/python.ts:613`, `codegen/graph.ts:251`).
- `unknown`: a subscription that cannot be read is answered as none
  (`web/lib/billing/subscription.ts:94`); `web/app/billing/page.tsx:95` says that a page
  about somebody's money must not print the one when it means the other.

Met while modelling, with no run of their own:

*Billing.*
- `activateSubscription` reads the period's end and upserts later: of two activations
  of one account at once, one period is lost (`web/lib/billing/subscription.ts:176`).
  `PaidTimeIsKept` shows that nothing else shortens paid time.
- A resubmission is judged by the new request's plan while the row keeps the old one
  (`submit/route.ts:323`; `sql/20260201000300_billing_plans.sql:86` says otherwise).
- The result of marking a row rejected is not looked at (`submit/route.ts:445`): the
  row may stay pending while the payer is told to try again, and the retry is a conflict,
  although line 442 says that a rejected row can be resubmitted. `AnswersAreTrue` names
  this exception and no other.
- `verifyEther` never looks at the receipt's status (`web/lib/billing/verify.ts:289`), so one
  that failed is granted: `GrantedWasPaid` demands success of USDT alone. A
  receipt without a readable status, or a transaction without a readable recipient, is
  refused for good although the node merely said too little (354, 300), against the
  header's rule (17-23); amounts that cannot be read count as nothing.
- `clearPriceCache` has no caller, and an answer in part is kept as it is for the whole
  period (`web/lib/billing/price.ts:105`): a currency it left out is unknown that long.
- A status read sent before a payment can put the card back below "Payment verified";
  of two quick choices the second link drops the first.

*Runs.*
- Ties of the order are broken by who became free first, not by the document
  (`engine/lib/executor.ts:101`, comment at 71). Node ids are taken to be distinct
  (76 maps by id); the editor never makes others.
- The budget is compared before steps only (196, comment at 25): a run outlasts it by
  one step at most.
- A run that returns clears `abortRef` also when it holds a later run's controller
  (`useGraphRun.ts:308`), and its end turns that run's phase into success (291). So a run
  cancelled before its request was sent, returning late, leaves Cancel nothing to abort
  the second run with, and a third one is started beside it: `PanelFollowsItsRun` sets
  these two aside (`crossed`). The same outcome twice in a row is reported once (313).
- "Every await is bounded" (`mcp/client.ts`), but not the lookup of a name nor the close.

*Workspaces.*
- A second acceptance of an invitation fails (`workspaces.sql:404`, comment at 412); an
  accepted row blocks inviting a former member again
  (`web/app/settings/workspaces/actions.ts:146`).
- Any Team subscription or payment that names a workspace, a rejected one too, makes its
  deletion fail, and that of its owner's account when the row is somebody else's.
- `listWorkspaces` shows a workspace once per member, with that member's role
  (`web/lib/workspaces/store.ts:65`), so the billing page can offer a plain member
  workspaces he does not administer (`web/app/billing/page.tsx:108`).
- Who joins between the preview and the deletion of an account loses the workspace
  with it; the preview reads 50 rows of all members at most, and a read that fails counts
  as no members, nor is a workspace seen whose owner has no row
  (`web/lib/account/delete.ts:134`, `:66`). Line 21 says deletion is "REFUSED while such a
  workspace has other members", which is not so in these cases: `DeletionsSpareOthers`
  shows that there are no others.

*Connections and editor.*
- `clearCredential`'s error is ignored and an update of no rows answers ok; interleaved
  edits can pair one edit's URL with another's credential; a row that goes between two
  reads refuses a run with 500 (`web/app/api/run/route.ts:106`).
- A test that was begun before an edit leaves its dot beside the new URL, which
  `web/app/connections/actions.ts:204` calls "exactly the kind of stale reassurance" to
  avoid, and the tools it found beside the new URL; a page older than an edit imports the
  old tools. `ToolsAreOfTheTarget` shows that nothing else mixes them up.
- Saving a graph that is deleted or hidden answers ok, and "Saved" is shown; a call that
  rejects is caught by nobody; an edit during a save is shown as saved until its timer
  fires. More than 100 nodes never save, and opening a graph marks it dirty.
- Escape closes the connect dialog over a request whose answer still adds the server,
  closes a dialog opened since and clears its form; the first of two timers leaks.

*Schemas and exports.*
- `core/compat.ts:186` says that an empty list means fully compatible. Not compared are
  an integer against the bounds of a number (or the reverse), a required key without a
  property, keys that only the target's `additionalProperties` describes, keywords beside
  the `anyOf` of a target, elements the source does not describe, for a tuple, what a list
  gets from a tuple beyond its first position, and parts that do not resolve.
  `CleanIsAssignable` shows that a wrong value without one of these seven is not let through.
- A source that may be shorter than a tuple is refused (`core/compat.ts:543-560`) although
  JSON Schema takes short tuples, and a chain of more `$ref`s than are followed counts as
  one that does not resolve: `ErrorIsReal` has both as kinds of their own.
- A value that is whole and fed in fields as well loses the whole in an export; the
  engine lays the one over the other. Python takes only the first assignment of an output
  and ignores its pointer (`codegen/plan.ts:1`), and merges inputs with one label.
- Tools named as a helper or a reserved word, field names that collide, a key whose first
  word begins with a digit (`codegen/python.ts:210`) and position steps of a list break
  the program. `exclude_none` drops nulls that were given; a tuple of zod has an exact length.

*The rest.*
- The map of hits is cleared for everybody when it is full, a refused caller of a cleared
  map loses its hits as well, and a Redis that fails lets everybody in.
- A response that carries a session can sign a browser in again that was signed out
  meanwhile; the password is checked and changed by two calls.
- Of two exports on their way the older can be shown last, under the other's extension; an
  answer that is OK and whose body cannot be read shows neither code nor an error
  (`web/components/export/ExportPanel.tsx:191`, 202).

## 7. Not modelled

`Billing` over `Workspaces` (in `Billing` roles change freely); creating, renaming and
moving graphs, renaming workspaces, display names, the reset of a forgotten password.
Left aside for good: account export (read-only), profiles (single rows), email (I/O whose
result is ignored), sealing of credentials (read back as stored), connections over stdio
(stored alike), server start-up and configuration, analytics, pages and rendering, and
the text that code generation prints.
