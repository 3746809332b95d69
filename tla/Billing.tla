------------------------------- MODULE Billing -------------------------------
(***************************************************************************)
(* Claiming a subscription with an on-chain payment:                       *)
(* POST /api/billing/submit, the payment_submissions and subscriptions     *)
(* tables, and the entitlement read back from them.                        *)
(*                                                                         *)
(* A request is one run of the route handler.  Each await in the handler   *)
(* (a statement sent to Postgres, a lookup on a chain or at the price      *)
(* feed) is a step of its own, so that any number of requests interleave   *)
(* there.  A statement sent to Postgres is acknowledged ("ok"), is not     *)
(* executed ("failed"), or commits and loses its acknowledgement ("lost"). *)
(* A request may also be killed between two steps (Crash).                 *)
(***************************************************************************)
EXTENDS Integers, FiniteSets

CONSTANTS
    Users, Workspaces, NoWorkspace, Nobody,
    Hashes,      \* the (currency, tx_hash) pairs somebody may submit
    Requests,    \* one run of the handler each
    Tx,          \* what each hash is on its chain, see TxType
    Offers,      \* the purchases a request may ask for
    MonthlyDays, AnnualDays,   \* PLAN_INTERVAL_DAYS, ANNUAL_INTERVAL_DAYS
    MaxNow,      \* bound on the clock, in days
    MaxFaults    \* bound on statements that fail, or are not acknowledged

Plans == [pro  |-> [monthlyUsd |-> 15, annualUsd |-> 150, minSeats |-> 1, maxSeats |-> 1],
          team |-> [monthlyUsd |-> 12, annualUsd |-> 120, minSeats |-> 2, maxSeats |-> 50]]

Purchases == [plan : {"pro", "team"}, interval : {"monthly", "annual"},
              seats : 1..200, workspace : Workspaces \cup {NoWorkspace}]

TxType == [currency : {"BTC", "ETH", "USDT"}, toUs : BOOLEAN,
           succeeded : BOOLEAN, usd : Nat]

ASSUME BillingAssumption ==
    /\ NoWorkspace \notin Workspaces
    /\ Nobody \notin Users
    /\ Offers \subseteq Purchases
    /\ Tx \in [Hashes -> TxType]
    /\ MonthlyDays \in Nat \ {0} /\ AnnualDays \in Nat \ {0}
    /\ MaxNow \in Nat /\ MaxFaults \in Nat

VARIABLES
    stage,        \* how far each transaction got on its chain
    administers,  \* the <<user, workspace>> pairs can_administer_workspace accepts
    now,          \* the clock, in days
    faults,       \* history: the statements that went wrong, whose, where and how
    status, owner, filed,          \* payment_submissions, one row per hash
    subStatus, periodEnd, bought,  \* subscriptions, one row per user (0: a null end)
    pc, job,      \* where each request is, and what it asked for
    readEnd, newEnd,               \* locals of activateSubscription
    reply,        \* the answer each request was given
    granted       \* history: the requests whose activation of a hash committed

submissions   == <<status, owner, filed>>
subscriptions == <<subStatus, periodEnd, bought>>
locals        == <<job, readEnd, newEnd>>
world         == <<stage, administers, now>>
vars == <<stage, administers, now, faults, status, owner, filed, subStatus,
          periodEnd, bought, pc, job, readEnd, newEnd, reply, granted>>

\* A statement sent to Postgres, and how it ends.
Statement(r, o) ==
    /\ o # "ok" => Cardinality(faults) < MaxFaults
    /\ faults' = IF o = "ok" THEN faults ELSE faults \cup {<<r, pc[r], o>>}
Outcomes == {"ok", "failed", "lost"}
Commits(o) == o # "failed"

NoPurchase == [plan |-> "free", interval |-> "monthly", seats |-> 1,
               workspace |-> NoWorkspace]

-----------------------------------------------------------------------------
(* Prices and the shape of a claim *)

intervalDays(interval) == IF interval = "annual" THEN AnnualDays ELSE MonthlyDays

priceUsd(p) ==
    p.seats * (IF p.interval = "annual" THEN Plans[p.plan].annualUsd
                                        ELSE Plans[p.plan].monthlyUsd)

bodySchema(p) ==
    /\ p.seats \in Plans[p.plan].minSeats .. Plans[p.plan].maxSeats
    /\ p.plan = "team" <=> p.workspace # NoWorkspace

\* PRICE_TOLERANCE: two per cent below the price is still the price.
Sufficient(usd, p) == usd * 100 >= priceUsd(p) * 98

-----------------------------------------------------------------------------
(* What the verifier makes of a transaction: "paid", or a failure that is  *)
(* worth a retry or not.                                                    *)

\* Mutant of verifyBitcoin: a payment still in the mempool is given up on.
verifyBitcoinOnce(tx, at) == IF at = "mined" /\ tx.toUs THEN "paid" ELSE "never"
verifyBitcoin(tx, at) ==
    CASE at = "unseen"  -> "retry"
      [] at # "unseen" /\ ~tx.toUs -> "never"
      [] at = "mempool" /\ tx.toUs -> "retry"
      [] OTHER -> "paid"

\* The receipt is never asked for: a mined transaction counts as it stands.
verifyEther(tx, at) ==
    CASE at = "unseen"  -> "retry"
      [] at # "unseen" /\ ~tx.toUs -> "never"
      [] at = "mempool" /\ tx.toUs -> "retry"
      [] OTHER -> "paid"

\* Mutant of verifyUsdt: the recipient and the status of the receipt are skipped.
verifyUsdtAnyLog(tx, at) == IF at = "mined" THEN "paid" ELSE "retry"
\* There is no receipt, and so nothing to find, before the block.
verifyUsdt(tx, at) ==
    CASE at # "mined" -> "retry"
      [] at = "mined" /\ ~(tx.succeeded /\ tx.toUs) -> "never"
      [] OTHER -> "paid"

verifyPayment(h) ==
    CASE Tx[h].currency = "BTC"  -> verifyBitcoin(Tx[h], stage[h])
      [] Tx[h].currency = "ETH"  -> verifyEther(Tx[h], stage[h])
      [] Tx[h].currency = "USDT" -> verifyUsdt(Tx[h], stage[h])

-----------------------------------------------------------------------------
(* The entitlement, as it is read *)

\* Mutant of ActiveNow: the stored status is believed.
StoredActive(u) == subStatus[u] = "active"
ActiveNow(u) == subStatus[u] = "active" /\ periodEnd[u] > now

getSubscriptionState(u) ==
    [status |-> IF subStatus[u] = "active" /\ ~ActiveNow(u) THEN "expired"
                                                            ELSE subStatus[u],
     plan   |-> IF ActiveNow(u) THEN bought[u].plan ELSE "free"]

Entitled(u) == getSubscriptionState(u).plan # "free"

\* The team rows whose seats a workspace may use at this moment, by their user.
workspace_paid_seats(w) ==
    {v \in Users : /\ bought[v].workspace = w
                   /\ bought[v].plan = "team"
                   /\ ActiveNow(v)}

-----------------------------------------------------------------------------
StageType   == {"unseen", "mempool", "mined"}
RowStatus   == {"absent", "pending", "verified", "rejected"}
SubStatus   == {"none", "pending", "active"}
PCType      == {"idle", "insert", "select", "reopen", "verify", "judge", "quote",
                "rejectRetry", "rejectFinal", "setPending", "markVerified",
                "read", "upsert", "done", "dead"}
ReplyType   == {"none", "error", "conflict", "rejectedRetry", "rejectedFinal",
                "pending", "verified"}

\* A request past the claim and before its verdict is recorded owns the row.
Deciding == {"verify", "judge", "quote", "rejectRetry", "rejectFinal",
             "setPending", "markVerified"}
\* One past the verdict "verified" is switching the subscription on.
Activating == {"read", "upsert"}

NoJob == [user |-> Nobody, hash |-> Nobody, want |-> NoPurchase]

Init ==
    /\ stage = [h \in Hashes |-> "unseen"]
    /\ administers \in SUBSET (Users \X Workspaces)
    /\ now = 1
    /\ faults = {}
    /\ status = [h \in Hashes |-> "absent"]
    /\ owner = [h \in Hashes |-> Nobody]
    /\ filed = [h \in Hashes |-> NoPurchase]
    /\ subStatus = [u \in Users |-> "none"]
    /\ periodEnd = [u \in Users |-> 0]
    /\ bought = [u \in Users |-> NoPurchase]
    /\ pc = [r \in Requests |-> "idle"]
    /\ job = [r \in Requests |-> NoJob]
    /\ readEnd = [r \in Requests |-> 0]
    /\ newEnd = [r \in Requests |-> 0]
    /\ reply = [r \in Requests |-> "none"]
    /\ granted = [h \in Hashes |-> {}]

Goto(r, l) == pc' = [pc EXCEPT ![r] = l] /\ UNCHANGED reply
Answer(r, a) == pc' = [pc EXCEPT ![r] = "done"] /\ reply' = [reply EXCEPT ![r] = a]

-----------------------------------------------------------------------------
(* The request, up to the claim *)

\* Origin, session, rate limit and body are behind; the price is computed.
Submit(r, u, h, p) ==
    /\ pc[r] = "idle"
    /\ bodySchema(p)
    /\ job' = [job EXCEPT ![r] = [user |-> u, hash |-> h, want |-> p]]
    /\ Goto(r, "insert")
    /\ UNCHANGED <<world, faults, submissions, subscriptions, readEnd, newEnd, granted>>

\* payment_submissions_insert_own, the policy the insert is subject to.
MayFile(u, p) == p.workspace = NoWorkspace \/ <<u, p.workspace>> \in administers

InsertClaim(r, o) ==
    LET u == job[r].user  h == job[r].hash  p == job[r].want IN
    /\ pc[r] = "insert"
    /\ Statement(r, o)
    /\ IF Commits(o) /\ MayFile(u, p) /\ status[h] = "absent"
       THEN /\ status' = [status EXCEPT ![h] = "pending"]
            /\ owner' = [owner EXCEPT ![h] = u]
            /\ filed' = [filed EXCEPT ![h] = p]
       ELSE UNCHANGED submissions
    /\ CASE o # "ok" \/ ~MayFile(u, p) -> Answer(r, "error")
         [] o = "ok" /\ MayFile(u, p) /\ status[h] = "absent" -> Goto(r, "verify")
         [] OTHER -> Goto(r, "select")
    /\ UNCHANGED <<world, subscriptions, locals, granted>>

\* RLS: the caller only ever sees a row of their own.
Visible(u, h) == owner[h] = u

\* Mutant of SelectExisting: the 409 at the end is missing.
SelectRejectedOnly(r, o) ==
    /\ pc[r] = "select" /\ Statement(r, o)
    /\ owner[job[r].hash] = job[r].user /\ status[job[r].hash] = "rejected"
    /\ Goto(r, "reopen")
    /\ UNCHANGED <<world, submissions, subscriptions, locals, granted>>
SelectExisting(r, o) ==
    /\ pc[r] = "select"
    /\ Statement(r, o)
    /\ IF o = "ok" /\ Visible(job[r].user, job[r].hash) /\ status[job[r].hash] = "rejected"
       THEN Goto(r, "reopen")
       ELSE Answer(r, "conflict")
    /\ UNCHANGED <<world, submissions, subscriptions, locals, granted>>

\* Mutant of Reopenable: the update matches on the id alone.
ReopenableById(h) == status[h] # "absent"
\* The predicate of the update, evaluated under the row lock.
Reopenable(h) == status[h] = "rejected"

reopenSubmission(r, o) ==
    LET h == job[r].hash IN
    /\ pc[r] = "reopen"
    /\ Statement(r, o)
    /\ status' = IF Commits(o) /\ Reopenable(h)
                 THEN [status EXCEPT ![h] = "pending"] ELSE status
    /\ IF o = "ok" /\ Reopenable(h) THEN Goto(r, "verify") ELSE Answer(r, "conflict")
    /\ UNCHANGED <<world, owner, filed, subscriptions, locals, granted>>

-----------------------------------------------------------------------------
(* The verdict *)

\* The lookup may also come back empty-handed, whatever the chain says; a
\* verifier that throws ends the same way.  The rate is known or not.
Verify(r) ==
    /\ pc[r] = "verify"
    /\ \/ Goto(r, "rejectRetry")
       \/ verifyPayment(job[r].hash) = "retry" /\ Goto(r, "rejectRetry")
       \/ verifyPayment(job[r].hash) = "never" /\ Goto(r, "rejectFinal")
       \/ /\ verifyPayment(job[r].hash) = "paid"
          /\ \E l \in {"judge", "quote"} : Goto(r, l)
    /\ UNCHANGED <<world, faults, submissions, subscriptions, locals, granted>>

\* A second chance at the rate; without it nobody judges the amount.
Judge(r) ==
    /\ \/ pc[r] = "quote" /\ Goto(r, "setPending")
       \/ /\ pc[r] \in {"judge", "quote"}
          /\ Goto(r, IF Sufficient(Tx[job[r].hash].usd, job[r].want)
                     THEN "markVerified" ELSE "rejectFinal")
    /\ UNCHANGED <<world, faults, submissions, subscriptions, locals, granted>>

\* What markSubmission reports is not looked at here.
MarkRejected(r, o) ==
    /\ pc[r] \in {"rejectRetry", "rejectFinal"}
    /\ Statement(r, o)
    /\ status' = IF Commits(o) THEN [status EXCEPT ![job[r].hash] = "rejected"] ELSE status
    /\ Answer(r, IF pc[r] = "rejectRetry" THEN "rejectedRetry" ELSE "rejectedFinal")
    /\ UNCHANGED <<world, owner, filed, subscriptions, locals, granted>>

\* setSubscriptionStatus(user, 'pending'): only the status column is written.
markSubscriptionPending(r, o) ==
    /\ pc[r] = "setPending"
    /\ Statement(r, o)
    /\ subStatus' = IF Commits(o) THEN [subStatus EXCEPT ![job[r].user] = "pending"]
                                  ELSE subStatus
    /\ Answer(r, "pending")
    /\ UNCHANGED <<world, submissions, periodEnd, bought, locals, granted>>

MarkVerified(r, o) ==
    /\ pc[r] = "markVerified"
    /\ Statement(r, o)
    /\ status' = IF Commits(o) THEN [status EXCEPT ![job[r].hash] = "verified"] ELSE status
    /\ IF o = "ok" THEN Goto(r, "read") ELSE Answer(r, "pending")
    /\ UNCHANGED <<world, owner, filed, subscriptions, locals, granted>>

-----------------------------------------------------------------------------
(* activateSubscription: a read, and an upsert computed from it *)

Larger(a, b) == IF a >= b THEN a ELSE b
\* Mutant of ExtendFrom: what is left of the period is dropped.
FromToday(end) == now
ExtendFrom(end) == Larger(now, end)

ReadPeriod(r, o) ==
    LET u == job[r].user IN
    /\ pc[r] = "read"
    /\ Statement(r, o)
    /\ IF o = "ok"
       THEN /\ readEnd' = [readEnd EXCEPT ![r] = periodEnd[u]]
            /\ newEnd' = [newEnd EXCEPT ![r] =
                            ExtendFrom(periodEnd[u]) + intervalDays(job[r].want.interval)]
            /\ Goto(r, "upsert")
       ELSE Answer(r, "pending") /\ UNCHANGED <<readEnd, newEnd>>
    /\ UNCHANGED <<world, submissions, subscriptions, job, granted>>

\* subscriptions_workspace_key: one subscription per workspace.
WorkspaceFree(u, p) ==
    p.workspace # NoWorkspace =>
        \A v \in Users \ {u} : bought[v].workspace # p.workspace

\* Mutant of Acked: the error of the upsert is swallowed.
AckedQuietly(o) == TRUE
Acked(o) == o = "ok"

Upsert(r, o) ==
    LET u == job[r].user  p == job[r].want  h == job[r].hash IN
    /\ pc[r] = "upsert"
    /\ Statement(r, o)
    /\ IF Commits(o) /\ WorkspaceFree(u, p)
       THEN /\ subStatus' = [subStatus EXCEPT ![u] = "active"]
            /\ periodEnd' = [periodEnd EXCEPT ![u] = newEnd[r]]
            /\ bought' = [bought EXCEPT ![u] = p]
            /\ granted' = [granted EXCEPT ![h] = @ \cup {r}]
       ELSE UNCHANGED <<subscriptions, granted>>
    /\ Answer(r, IF Acked(o) /\ WorkspaceFree(u, p) THEN "verified" ELSE "pending")
    /\ UNCHANGED <<world, submissions, locals>>

-----------------------------------------------------------------------------
(* The process may die; the world moves on *)

Crash(r) ==
    /\ pc[r] \notin {"idle", "done", "dead"}
    /\ pc' = [pc EXCEPT ![r] = "dead"]
    /\ UNCHANGED <<world, faults, submissions, subscriptions, locals, reply, granted>>

Requested == <<faults, submissions, subscriptions, pc, locals, reply, granted>>

Tick ==
    /\ now < MaxNow
    /\ now' = now + 1
    /\ UNCHANGED <<stage, administers, Requested>>

ChainAdvances(h) ==
    /\ \/ stage[h] = "unseen" /\ stage' = [stage EXCEPT ![h] = "mempool"]
       \/ stage[h] = "mempool" /\ stage' = [stage EXCEPT ![h] = "mined"]
    /\ UNCHANGED <<administers, now, Requested>>

\* A role granted or taken away meanwhile (see Workspaces).
RoleChanges(u, w) ==
    /\ administers' = IF <<u, w>> \in administers THEN administers \ {<<u, w>>}
                                                  ELSE administers \cup {<<u, w>>}
    /\ UNCHANGED <<stage, now, Requested>>

\* Everything a running request does next, once it has been submitted.
Step(r) ==
    \/ Verify(r) \/ Judge(r)
    \/ \E o \in Outcomes :
          \/ InsertClaim(r, o) \/ SelectExisting(r, o) \/ reopenSubmission(r, o)
          \/ MarkRejected(r, o) \/ markSubscriptionPending(r, o)
          \/ MarkVerified(r, o) \/ ReadPeriod(r, o) \/ Upsert(r, o)

Next ==
    \/ \E r \in Requests, u \in Users, h \in Hashes, p \in Offers : Submit(r, u, h, p)
    \/ \E r \in Requests : Step(r) \/ Crash(r)
    \/ Tick
    \/ \E h \in Hashes : ChainAdvances(h)
    \/ \E u \in Users, w \in Workspaces : RoleChanges(u, w)

Spec == Init /\ [][Next]_vars

\* Every await in the handler returns: chain and price lookups are aborted
\* after six seconds, and Postgres answers or the connection fails.
FairSpec == Spec /\ \A r \in Requests : WF_vars(Step(r))

-----------------------------------------------------------------------------
(* Properties *)

JobType == [user : Users, hash : Hashes, want : Purchases]

\* Every variable keeps to the columns and locals of the code.
TypeOK ==
    /\ stage \in [Hashes -> StageType]
    /\ administers \subseteq Users \X Workspaces
    /\ now \in Nat /\ faults \subseteq Requests \X PCType \X Outcomes
    /\ status \in [Hashes -> RowStatus]
    /\ owner \in [Hashes -> Users \cup {Nobody}]
    /\ filed \in [Hashes -> Purchases \cup {NoPurchase}]
    /\ subStatus \in [Users -> SubStatus]
    /\ periodEnd \in [Users -> Nat]
    /\ bought \in [Users -> Purchases \cup {NoPurchase}]
    /\ pc \in [Requests -> PCType]
    /\ job \in [Requests -> JobType \cup {NoJob}]
    /\ readEnd \in [Requests -> Nat] /\ newEnd \in [Requests -> Nat]
    /\ reply \in [Requests -> ReplyType]
    /\ granted \in [Hashes -> SUBSET Requests]

\* A request that was submitted has a job (the locals of the handler are set).
HasJob == \A r \in Requests : pc[r] # "idle" => job[r] \in JobType

\* The claim is a lock: a row is being decided on by at most one request, and
\* stays pending while it is; one switching a subscription on holds a verified
\* row alone.  Rejecting and reopening hands the lock over
\* (submit/route.ts, claimSubmission and reopenSubmission).
ClaimIsALock ==
    \A r, s \in Requests :
        (pc[r] \in Deciding \cup Activating) =>
            /\ status[job[r].hash] = IF pc[r] \in Deciding THEN "pending" ELSE "verified"
            /\ owner[job[r].hash] = job[r].user
            /\ (pc[s] \in Deciding \cup Activating /\ s # r) => job[s].hash # job[r].hash

\* One real payment grants one period: whoever submits a hash, and however
\* often, at most one request's activation is ever written for it
\* (the replay guard, 20260103000000_subscriptions.sql).
OneGrantPerPayment == \A h \in Hashes : \A r, s \in granted[h] : r = s

\* A grant goes to the account that filed the hash, and the row says verified.
GrantsGoToTheFiler ==
    \A h \in Hashes : \A r \in granted[h] :
        /\ job[r].hash = h /\ job[r].user = owner[h] /\ status[h] = "verified"

\* The payment was made, as far as the chain is asked.  One in USDT has not been
\* reverted; nobody looks for the receipt of an ether transaction, which may have
\* been, and a bitcoin transaction in a block cannot be.
Settled(h) ==
    /\ stage[h] = "mined" /\ Tx[h].toUs
    /\ Tx[h].currency = "USDT" => Tx[h].succeeded

\* What was granted was paid for: the transaction is in a block, pays our
\* address, did not fail on chain (verify.ts:354; an ether transaction that did
\* is granted all the same, verify.ts:289), and is worth the price of what this
\* request asked for.
GrantedWasPaid ==
    \A h \in Hashes : \A r \in granted[h] :
        /\ Settled(h)
        /\ Tx[h].usd * 100 >= priceUsd(job[r].want) * 98

\* Entitlement only ever comes from a grant that has not run out, never from a
\* claim: of the plan that is reported, and of the seats a workspace is told.
EntitledByAGrant ==
    \A u \in Users : Entitled(u) =>
        \E h \in Hashes : \E r \in granted[h] :
            /\ job[r].user = u /\ job[r].want = bought[u]
            /\ newEnd[r] = periodEnd[u] /\ newEnd[r] > now

\* The seats of a workspace are never ambiguous: one paying row at most.
SeatsUnambiguous ==
    \A w \in Workspaces : \A u, v \in workspace_paid_seats(w) : u = v

\* A request that left its row pending without saying so: the claim or the
\* reopening was written and not acknowledged, or the rejection was answered and
\* not written.
LeftPending(r) ==
    \/ \E l \in {"insert", "reopen"} : <<r, l, "lost">> \in faults
    \/ \E l \in {"rejectRetry", "rejectFinal"} : <<r, l, "failed">> \in faults

\* Why a row is pending: r decides on it, died, said so or left it.
Explains(r, h) ==
    /\ job[r].hash = h
    /\ pc[r] \in Deciding \cup {"dead"} \/ reply[r] = "pending" \/ LeftPending(r)

\* "verified" is only answered once the subscription is on by this payment.
VerifiedReplyIsTrue ==
    \A r \in Requests : reply[r] = "verified" => r \in granted[job[r].hash]

\* Who is told that the payment is recorded, and not to send it again, has a row
\* that no retry reopens or refuses, and nobody else was granted anything for it.
PendingReplyIsTrue ==
    \A r \in Requests : reply[r] = "pending" =>
        LET h == job[r].hash IN
        status[h] \in {"pending", "verified"} /\ owner[h] = job[r].user /\ granted[h] \subseteq {r}

\* Who is told "rejected" was granted nothing by that request, and can submit the
\* hash again unless somebody else holds its row; the one exception is a
\* rejection that could not be written, after which the row stays pending and the
\* retry that was suggested is a conflict (route.ts:442, "a rejected row is one
\* the user can resubmit": what markSubmission reports is not looked at).
RejectedReplyIsTrue ==
    \A r \in Requests : reply[r] \in {"rejectedRetry", "rejectedFinal"} =>
        LET h == job[r].hash IN
        /\ r \notin granted[h] /\ status[h] # "absent"
        /\ status[h] = "pending" => LeftPending(r) \/ \E s \in Requests \ {r} : Explains(s, h)

\* A conflict is about a row that is there.
ConflictReplyIsTrue ==
    \A r \in Requests : reply[r] = "conflict" => status[job[r].hash] # "absent"

Refusable(r) ==
    LET tx == Tx[job[r].hash] IN
    \/ ~tx.toUs \/ ~tx.succeeded
    \/ tx.usd * 100 < priceUsd(job[r].want) * 98

\* A payment that arrived is refused as too small only when it is: an outage
\* of the price feed never rejects it for good (price.ts, the contract).
RejectedForAReason == \A r \in Requests : reply[r] = "rejectedFinal" => Refusable(r)

\* A verified row is settled: no later request reopens, refiles or rejects it.
SettledForGood ==
    [][\A h \in Hashes : status[h] = "verified" =>
          /\ status'[h] = "verified"
          /\ owner'[h] = owner[h] /\ filed'[h] = filed[h]]_vars

\* Paid time is shortened by nothing but an upsert whose read of the period
\* end is stale: renewing early extends the period (activateSubscription).
OnlyAStaleReadShortens ==
    [][\A u \in Users : periodEnd'[u] < periodEnd[u] =>
          \E r \in Requests : /\ pc[r] = "upsert" /\ job[r].user = u
                              /\ readEnd[r] # periodEnd[u]]_vars

\* While the clock stands, who is entitled only stops being so by a payment of
\* their own: one whose price could not be fetched, or whose activation rests on
\* a stale read (setSubscriptionStatus, activateSubscription).
OnlyAnOutageSuspends ==
    [][\A u \in Users : Entitled(u) /\ now' = now /\ ~Entitled(u)' =>
          \E r \in Requests : /\ job[r].user = u
                              /\ \/ pc[r] = "setPending"
                                 \/ pc[r] = "upsert" /\ readEnd[r] # periodEnd[u]]_vars

\* A row nobody is deciding on is left pending, out of reach of a retry, by a
\* process that died, a statement about it that went wrong or an answer that says
\* so, and by nothing else (markSubmission, reopenSubmission).
PendingIsExplained ==
    \A h \in Hashes : status[h] = "pending" => \E r \in Requests : Explains(r, h)

\* The plan in force and the seats a workspace is told both come from a grant.
EntitlementIsEarned == EntitledByAGrant /\ SeatsUnambiguous

\* What a payer is told agrees with the tables, and stays so, and so does what is
\* left unsaid; a rejection that could not be written is the exception.
AnswersAreTrue ==
    /\ VerifiedReplyIsTrue /\ PendingReplyIsTrue
    /\ RejectedReplyIsTrue /\ ConflictReplyIsTrue /\ PendingIsExplained

\* Paid time is lost by a stale read or by an outage, and by nothing else.
PaidTimeIsKept == OnlyAStaleReadShortens /\ OnlyAnOutageSuspends

\* What a request has found out about its transaction stays true of it.
VerdictsStand ==
    \A r \in Requests :
        LET h == job[r].hash IN
        /\ pc[r] \in {"judge", "quote", "markVerified"} \cup Activating =>
              Settled(h)
        /\ pc[r] \in {"markVerified"} \cup Activating =>
              Tx[h].usd * 100 >= priceUsd(job[r].want) * 98

\* A row nobody has settled was never granted anything, nor one whose holder
\* is still at work; what is granted was granted by a request now finished.
GrantsComeLast ==
    /\ \A r \in Requests :
          pc[r] \in Deciding \cup Activating => granted[job[r].hash] = {}
    /\ \A h \in Hashes : \A r \in granted[h] : pc[r] = "done"
    /\ \A h \in Hashes : status[h] = "absent" <=> owner[h] = Nobody

\* Only the caller's own row is ever reopened.
ReopensOwnRow ==
    \A r \in Requests : pc[r] = "reopen" => owner[job[r].hash] = job[r].user

\* The inductive invariant behind the safety properties above.
IInv ==
    /\ TypeOK /\ HasJob /\ ClaimIsALock /\ VerdictsStand
    /\ GrantsComeLast /\ ReopensOwnRow
    /\ OneGrantPerPayment /\ GrantsGoToTheFiler /\ GrantedWasPaid

\* An answer ends its request.
AnsweredIsDone == \A r \in Requests : reply[r] # "none" => pc[r] = "done"

\* What a request is about to be refused for stands.
RefusalsStand == \A r \in Requests : pc[r] = "rejectFinal" => Refusable(r)

\* Who finds a row has a row.
FoundIsThere ==
    \A r \in Requests : pc[r] \in {"select", "reopen"} => status[job[r].hash] # "absent"

\* A row whose request was answered "pending" is held by nobody any more.
PendingIsLetGo ==
    \A r, s \in Requests :
        reply[r] = "pending" /\ pc[s] \in Deciding \cup Activating => job[s].hash # job[r].hash

\* A statement that went wrong is of a request that was submitted.
FaultsHaveBegun == \A f \in faults : pc[f[1]] # "idle"

\* What the answers rest on, besides IInv.
AnswersInv ==
    /\ AnsweredIsDone /\ RefusalsStand /\ FoundIsThere /\ PendingIsLetGo /\ FaultsHaveBegun
    /\ RejectedForAReason /\ AnswersAreTrue

\* A status that says active is backed by the grant that wrote its row, whether
\* or not the period is over.
ActiveIsBacked ==
    \A u \in Users : subStatus[u] = "active" =>
        \E h \in Hashes : \E r \in granted[h] :
            job[r].user = u /\ job[r].want = bought[u] /\ newEnd[r] = periodEnd[u]

\* No two rows are about one workspace, paying or not.
OneRowPerWorkspace ==
    \A u, v \in Users : u # v /\ bought[u].workspace = bought[v].workspace =>
        bought[u].workspace = NoWorkspace

\* An upsert under way extends the period it has read.
UpsertExtends == \A r \in Requests : pc[r] = "upsert" => newEnd[r] > readEnd[r]

\* What an entitlement rests on, besides IInv.
PeriodsInv == ActiveIsBacked /\ OneRowPerWorkspace /\ UpsertExtends

\* Every request is answered, or its process has died.
EveryRequestAnswered ==
    \A r \in Requests : pc[r] = "insert" ~> pc[r] \in {"done", "dead"}

\* Seen from outside, the table is the ledger of PaymentLedger: a hash belongs
\* to who claimed it first, is settled once and credited once.
Ledger == INSTANCE PaymentLedger WITH
              claimant <- owner,
              settled  <- [h \in Hashes |-> status[h] = "verified"],
              credits  <- granted
LedgerSpec == Ledger!Spec

-----------------------------------------------------------------------------
(* What the repository says and the code does not do *)

\* submit/route.ts:476: "Our price feed being down is our problem, not the
\* payer's"; subscription.ts:211: "an existing period survives a status change".
\* Who is entitled stays so while the clock stands.
PeriodSurvivesStatusChange ==
    [][\A u \in Users : Entitled(u) /\ now' = now => Entitled(u)']_vars

=============================================================================
