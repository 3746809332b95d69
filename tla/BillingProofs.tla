---------------------------- MODULE BillingProofs ----------------------------
(* Proofs about Billing, for any number of users, hashes and requests: who   *)
(* holds a row, then what is answered and the time that is paid for.         *)
EXTENDS Billing, TLAPS

-----------------------------------------------------------------------------
(* Lemmas *)

\* What a claim asks for has buys at least one day.
LEMMA DaysType ==
    ASSUME NEW i
    PROVE  intervalDays(i) \in Nat \ {0}
BY BillingAssumption DEF intervalDays

-----------------------------------------------------------------------------
(* Type correctness *)

TypeInv == TypeOK /\ HasJob

LEMMA InitType == Init => TypeInv
BY BillingAssumption
   DEF Init, TypeInv, TypeOK, HasJob, StageType, RowStatus, SubStatus, PCType, ReplyType

LEMMA StepType ==
    ASSUME TypeInv, [Next]_vars
    PROVE  TypeInv'
<1> USE DEF TypeInv, TypeOK, HasJob, StageType, RowStatus, SubStatus, PCType,
            ReplyType
<1>1. ASSUME NEW r \in Requests, NEW u \in Users, NEW h \in Hashes,
             NEW p \in Offers, Submit(r, u, h, p)
      PROVE  TypeInv'
  BY <1>1, BillingAssumption
     DEF Submit, Goto, JobType, world, submissions, subscriptions
<1>2. ASSUME NEW r \in Requests, NEW o \in Outcomes, InsertClaim(r, o)
      PROVE  TypeInv'
  <2>1. job[r] \in JobType
    BY <1>2 DEF InsertClaim
  <2>2. job[r].user \in Users /\ job[r].hash \in Hashes /\ job[r].want \in Purchases
    BY <2>1 DEF JobType
  <2> QED BY <1>2, <2>2
     DEF InsertClaim, Statement, Goto, Answer, world, submissions, subscriptions, locals
<1>3. ASSUME NEW r \in Requests, NEW o \in Outcomes, SelectExisting(r, o)
      PROVE  TypeInv'
  BY <1>3 DEF SelectExisting, Statement, Goto, Answer, world, submissions,
              subscriptions, locals
<1>4. ASSUME NEW r \in Requests, NEW o \in Outcomes, reopenSubmission(r, o)
      PROVE  TypeInv'
  <2>1. status' \in [Hashes -> RowStatus]
    BY <1>4 DEF reopenSubmission
  <2>2. faults' \subseteq Requests \X PCType \X Outcomes
    BY <1>4 DEF reopenSubmission, Statement
  <2>3. pc' \in [Requests -> PCType] /\ reply' \in [Requests -> ReplyType]
        /\ \A s \in Requests : pc'[s] # "idle" => pc[s] # "idle"
    BY <1>4 DEF reopenSubmission, Goto, Answer
  <2> QED BY <1>4, <2>1, <2>2, <2>3
     DEF reopenSubmission, world, subscriptions, locals
<1>5. ASSUME NEW r \in Requests, Verify(r)
      PROVE  TypeInv'
  BY <1>5 DEF Verify, Goto, world, submissions, subscriptions, locals
<1>6. ASSUME NEW r \in Requests, Judge(r)
      PROVE  TypeInv'
  BY <1>6 DEF Judge, Goto, world, submissions, subscriptions, locals
<1>7. ASSUME NEW r \in Requests, NEW o \in Outcomes, MarkRejected(r, o)
      PROVE  TypeInv'
  <2>1. status' \in [Hashes -> RowStatus]
    BY <1>7 DEF MarkRejected
  <2>2. faults' \subseteq Requests \X PCType \X Outcomes
    BY <1>7 DEF MarkRejected, Statement
  <2>3. pc' \in [Requests -> PCType] /\ reply' \in [Requests -> ReplyType]
        /\ \A s \in Requests : pc'[s] # "idle" => pc[s] # "idle"
    BY <1>7 DEF MarkRejected, Answer
  <2> QED BY <1>7, <2>1, <2>2, <2>3
     DEF MarkRejected, world, subscriptions, locals
<1>8. ASSUME NEW r \in Requests, NEW o \in Outcomes, markSubscriptionPending(r, o)
      PROVE  TypeInv'
  <2>1. subStatus' \in [Users -> SubStatus]
    BY <1>8 DEF markSubscriptionPending
  <2>2. faults' \subseteq Requests \X PCType \X Outcomes
    BY <1>8 DEF markSubscriptionPending, Statement
  <2>3. pc' \in [Requests -> PCType] /\ reply' \in [Requests -> ReplyType]
        /\ \A s \in Requests : pc'[s] # "idle" => pc[s] # "idle"
    BY <1>8 DEF markSubscriptionPending, Answer
  <2> QED BY <1>8, <2>1, <2>2, <2>3
     DEF markSubscriptionPending, world, submissions, locals
<1>9. ASSUME NEW r \in Requests, NEW o \in Outcomes, MarkVerified(r, o)
      PROVE  TypeInv'
  <2>1. status' \in [Hashes -> RowStatus]
    BY <1>9 DEF MarkVerified
  <2>2. faults' \subseteq Requests \X PCType \X Outcomes
    BY <1>9 DEF MarkVerified, Statement
  <2>3. pc' \in [Requests -> PCType] /\ reply' \in [Requests -> ReplyType]
        /\ \A s \in Requests : pc'[s] # "idle" => pc[s] # "idle"
    BY <1>9 DEF MarkVerified, Goto, Answer
  <2> QED BY <1>9, <2>1, <2>2, <2>3
     DEF MarkVerified, world, subscriptions, locals
<1>10. ASSUME NEW r \in Requests, NEW o \in Outcomes, ReadPeriod(r, o)
       PROVE  TypeInv'
  <2>1. job[r] \in JobType /\ job[r].user \in Users
    BY <1>10 DEF ReadPeriod, JobType
  <2>2. periodEnd[job[r].user] \in Nat
    BY <2>1
  <2>3. ExtendFrom(periodEnd[job[r].user]) + intervalDays(job[r].want.interval) \in Nat
    <3>1. intervalDays(job[r].want.interval) \in Nat
      BY DaysType
    <3>2. ExtendFrom(periodEnd[job[r].user]) \in Nat
      BY <2>2 DEF ExtendFrom, Larger
    <3> QED BY <3>1, <3>2
  <2>4. readEnd' \in [Requests -> Nat] /\ newEnd' \in [Requests -> Nat]
    BY <1>10, <2>2, <2>3 DEF ReadPeriod
  <2>5. faults' \subseteq Requests \X PCType \X Outcomes
    BY <1>10 DEF ReadPeriod, Statement
  <2>6. pc' \in [Requests -> PCType] /\ reply' \in [Requests -> ReplyType]
        /\ \A s \in Requests : pc'[s] # "idle" => pc[s] # "idle"
    BY <1>10 DEF ReadPeriod, Goto, Answer
  <2> QED BY <1>10, <2>4, <2>5, <2>6
     DEF ReadPeriod, world, submissions, subscriptions
<1>11. ASSUME NEW r \in Requests, NEW o \in Outcomes, Upsert(r, o)
       PROVE  TypeInv'
  <2>1. job[r] \in JobType
    BY <1>11 DEF Upsert
  <2>2. job[r].user \in Users /\ job[r].hash \in Hashes /\ job[r].want \in Purchases
    BY <2>1 DEF JobType
  <2>3. /\ subStatus' \in [Users -> SubStatus] /\ periodEnd' \in [Users -> Nat]
        /\ bought' \in [Users -> Purchases \cup {NoPurchase}]
        /\ granted' \in [Hashes -> SUBSET Requests]
    BY <1>11, <2>2 DEF Upsert, subscriptions
  <2>4. faults' \subseteq Requests \X PCType \X Outcomes
    BY <1>11 DEF Upsert, Statement
  <2>5. pc' \in [Requests -> PCType] /\ reply' \in [Requests -> ReplyType]
        /\ \A s \in Requests : pc'[s] # "idle" => pc[s] # "idle"
    BY <1>11 DEF Upsert, Answer
  <2> QED BY <1>11, <2>3, <2>4, <2>5
     DEF Upsert, world, submissions, locals
<1>12. ASSUME NEW r \in Requests, Crash(r)
       PROVE  TypeInv'
  BY <1>12 DEF Crash, world, submissions, subscriptions, locals
<1>13. CASE Tick
  BY <1>13 DEF Tick, Requested, submissions, subscriptions, locals
<1>14. ASSUME NEW h \in Hashes, ChainAdvances(h)
       PROVE  TypeInv'
  BY <1>14 DEF ChainAdvances, Requested, submissions, subscriptions, locals
<1>15. ASSUME NEW u \in Users, NEW w \in Workspaces, RoleChanges(u, w)
       PROVE  TypeInv'
  BY <1>15 DEF RoleChanges, Requested, submissions, subscriptions, locals
<1>16. CASE UNCHANGED vars
  BY <1>16 DEF vars
<1> QED
  BY <1>1, <1>2, <1>3, <1>4, <1>5, <1>6, <1>7, <1>8, <1>9, <1>10, <1>11, <1>12,
     <1>13, <1>14, <1>15, <1>16 DEF Next, Step

\* Every variable keeps to the columns and locals of the code, and every
\* request past its submission has the locals the handler set.
THEOREM TypeCorrect == Spec => []TypeOK
<1>1. Init => TypeInv
  BY InitType
<1>2. TypeInv /\ [Next]_vars => TypeInv'
  BY StepType
<1>3. TypeInv => TypeOK
  BY DEF TypeInv
<1> QED BY <1>1, <1>2, <1>3, PTL DEF Spec

-----------------------------------------------------------------------------
(* The claim is a lock *)

Held == Deciding \cup Activating

\* What the inductive step needs to know of the row a running request is at.
LockInv ==
    /\ ClaimIsALock /\ VerdictsStand /\ GrantsComeLast /\ ReopensOwnRow
    /\ OneGrantPerPayment /\ GrantsGoToTheFiler /\ GrantedWasPaid

LEMMA InitLock == Init => LockInv
BY BillingAssumption
   DEF Init, LockInv, ClaimIsALock, VerdictsStand, GrantsComeLast,
       ReopensOwnRow, OneGrantPerPayment, GrantsGoToTheFiler, GrantedWasPaid, Deciding, Activating

\* The verifier only says "paid" of a mined transaction to our address, which
\* succeeded if its receipt was read.
LEMMA PaidIsMined ==
    ASSUME TypeOK, NEW h \in Hashes, verifyPayment(h) = "paid"
    PROVE  Settled(h)
<1>1. Tx[h] \in TxType /\ stage[h] \in StageType
  BY BillingAssumption DEF TypeOK
<1> QED
  BY <1>1 DEF Settled, verifyPayment, verifyBitcoin, verifyEther, verifyUsdt, StageType, TxType

\* A step that leaves the rows, the grants and the chain alone, and takes no
\* request into the holding states, keeps the invariant.
LEMMA QuietStep ==
    ASSUME TypeInv, LockInv, NEW r \in Requests,
           UNCHANGED <<status, owner, granted, stage, job>>,
           \A s \in Requests \ {r} : pc'[s] = pc[s],
           pc[r] # "done",
           pc'[r] = "reopen" => owner[job[r].hash] = job[r].user,
           \/ pc'[r] \notin Held
           \/ pc[r] \in Deciding /\ pc'[r] \in Deciding \ {"judge", "quote", "markVerified"}
    PROVE  LockInv'
<1> USE DEF TypeInv, LockInv, Settled
<1>1. ClaimIsALock'
  BY DEF ClaimIsALock, Held, Deciding, Activating
<1>2. VerdictsStand'
  BY DEF VerdictsStand, Held, Deciding, Activating
<1>3. GrantsComeLast'
  BY DEF GrantsComeLast, Held, Deciding, Activating, TypeOK
<1>4. OneGrantPerPayment' /\ GrantsGoToTheFiler' /\ GrantedWasPaid'
  BY DEF OneGrantPerPayment, GrantsGoToTheFiler, GrantedWasPaid
<1>5. ReopensOwnRow'
  BY DEF ReopensOwnRow
<1> QED BY <1>1, <1>2, <1>3, <1>4, <1>5

LEMMA StepLock ==
    ASSUME TypeInv, LockInv, [Next]_vars
    PROVE  LockInv'
<1> USE DEF TypeInv, LockInv, Settled
<1> DEFINE Grants == OneGrantPerPayment /\ GrantsGoToTheFiler /\ GrantedWasPaid
<1>0. \A s \in Requests : pc[s] \in Held => job[s].hash \in Hashes
  BY DEF HasJob, JobType, Held, Deciding, Activating
<1>1. ASSUME NEW r \in Requests, NEW u \in Users, NEW h \in Hashes,
             NEW p \in Offers, Submit(r, u, h, p)
      PROVE  LockInv'
  <2>1. ClaimIsALock'
    BY <1>1 DEF Submit, Goto, submissions, ClaimIsALock, Deciding, Activating, TypeOK
  <2>2. VerdictsStand'
    BY <1>1 DEF Submit, Goto, world, VerdictsStand, Deciding, Activating, TypeOK
  <2>3. GrantsComeLast'
    BY <1>1 DEF Submit, Goto, submissions, GrantsComeLast, Deciding, Activating, TypeOK
  <2>4. Grants'
    <3>1. \A g \in Hashes : \A s \in granted[g] : job'[s] = job[s]
      BY <1>1 DEF Submit, GrantsComeLast, TypeOK
    <3> QED BY <1>1, <3>1 DEF Submit, submissions, world, OneGrantPerPayment,
                            GrantsGoToTheFiler, GrantedWasPaid
  <2>5. ReopensOwnRow'
    BY <1>1 DEF Submit, Goto, submissions, ReopensOwnRow, TypeOK
  <2> QED BY <2>1, <2>2, <2>3, <2>4, <2>5
<1>2. ASSUME NEW r \in Requests, NEW o \in Outcomes, InsertClaim(r, o)
      PROVE  LockInv'
  <2> DEFINE h == job[r].hash
  <2>0. job[r] \in JobType /\ h \in Hashes /\ job[r].user \in Users
        /\ job[r].user # Nobody
    BY <1>2, BillingAssumption DEF InsertClaim, HasJob, JobType
  <2>1. CASE Commits(o) /\ MayFile(job[r].user, job[r].want) /\ status[h] = "absent"
    <3>1. /\ status' = [status EXCEPT ![h] = "pending"]
          /\ owner' = [owner EXCEPT ![h] = job[r].user]
          /\ UNCHANGED <<job, granted, stage>>
      BY <1>2, <2>1 DEF InsertClaim, locals, world
    <3>2. pc' = [pc EXCEPT ![r] = pc'[r]] /\ pc'[r] \in {"done", "verify"}
      BY <1>2, <2>1 DEF InsertClaim, Goto, Answer, TypeOK, Commits
    <3>3. \A s \in Requests : pc[s] \in Held => job[s].hash # h
      BY <2>1 DEF ClaimIsALock, Held
    <3>4. granted[h] = {}
      BY <2>0, <2>1 DEF GrantsGoToTheFiler
    <3>5. ClaimIsALock'
      BY <2>0, <3>1, <3>2, <3>3 DEF ClaimIsALock, Deciding, Activating, Held, TypeOK
    <3>6. VerdictsStand'
      BY <3>1, <3>2 DEF VerdictsStand, Deciding, Activating, TypeOK
    <3>7. GrantsComeLast'
      BY <1>2, <2>0, <3>1, <3>2, <3>4 DEF InsertClaim, GrantsComeLast, Deciding, Activating, TypeOK
    <3>8. Grants'
      BY <3>1, <3>4 DEF OneGrantPerPayment, GrantsGoToTheFiler, GrantedWasPaid, TypeOK
    <3>9. ReopensOwnRow'
      <4>1. \A s \in Requests : pc[s] = "reopen" => job[s].hash # h
        BY <2>0, <2>1, BillingAssumption DEF ReopensOwnRow, GrantsComeLast, HasJob, JobType
      <4> QED BY <2>0, <3>1, <3>2, <4>1 DEF ReopensOwnRow, TypeOK
    <3> QED BY <3>5, <3>6, <3>7, <3>8, <3>9
  <2>2. CASE ~(Commits(o) /\ MayFile(job[r].user, job[r].want) /\ status[h] = "absent")
    <3>1. UNCHANGED <<status, owner, granted, stage, job>>
      BY <1>2, <2>2 DEF InsertClaim, submissions, locals, world
    <3>2. pc[r] = "insert" /\ pc'[r] \in {"done", "select"}
          /\ \A s \in Requests \ {r} : pc'[s] = pc[s]
      BY <1>2, <2>2 DEF InsertClaim, Goto, Answer, TypeOK, Commits
    <3> QED BY <3>1, <3>2, QuietStep DEF Held, Deciding, Activating
  <2> QED BY <2>1, <2>2
<1>3. ASSUME NEW r \in Requests, NEW o \in Outcomes, SelectExisting(r, o)
      PROVE  LockInv'
  <2>1. /\ UNCHANGED <<status, owner, granted, stage, job>>
        /\ pc[r] = "select" /\ pc'[r] \in {"done", "reopen"}
        /\ \A s \in Requests \ {r} : pc'[s] = pc[s]
    BY <1>3 DEF SelectExisting, Goto, Answer, TypeOK, submissions, locals, world
  <2>2. pc'[r] = "reopen" => owner[job[r].hash] = job[r].user
    BY <1>3 DEF SelectExisting, Goto, Answer, TypeOK, Visible
  <2> QED BY <2>1, <2>2, QuietStep DEF Held, Deciding, Activating
<1>4. ASSUME NEW r \in Requests, NEW o \in Outcomes, reopenSubmission(r, o)
      PROVE  LockInv'
  <2> DEFINE h == job[r].hash
  <2>0. h \in Hashes /\ pc[r] = "reopen"
    BY <1>4 DEF reopenSubmission, HasJob, JobType
  <2>1. CASE Commits(o) /\ Reopenable(h)
    <3>1. /\ status' = [status EXCEPT ![h] = "pending"] /\ status[h] = "rejected"
          /\ UNCHANGED <<job, owner, granted, stage>>
      BY <1>4, <2>1 DEF reopenSubmission, Reopenable, locals, world
    <3>2. pc' = [pc EXCEPT ![r] = pc'[r]] /\ pc'[r] \in {"done", "verify"}
      BY <1>4, <2>1 DEF reopenSubmission, Goto, Answer, TypeOK
    <3>3. \A s \in Requests : pc[s] \in Held => job[s].hash # h
      BY <3>1 DEF ClaimIsALock, Held
    <3>4. granted[h] = {}
      BY <2>0, <3>1 DEF GrantsGoToTheFiler
    <3>5. ClaimIsALock'
      <4>1. owner[h] = job[r].user
        BY <2>0 DEF ReopensOwnRow
      <4> QED BY <2>0, <3>1, <3>2, <3>3, <4>1 DEF ClaimIsALock, Deciding, Activating, Held, TypeOK
    <3>6. VerdictsStand'
      BY <3>1, <3>2 DEF VerdictsStand, Deciding, Activating, TypeOK
    <3>7. GrantsComeLast'
      <4>1. \A s \in Requests : pc'[s] \in Held => granted'[job'[s].hash] = {}
        BY <3>1, <3>2, <3>4 DEF GrantsComeLast, Deciding, Activating, Held, TypeOK
      <4>2. \A g \in Hashes : \A s \in granted'[g] : pc'[s] = "done"
        BY <2>0, <3>1, <3>2 DEF GrantsComeLast, TypeOK
      <4>3. \A g \in Hashes : status'[g] = "absent" <=> owner'[g] = Nobody
        BY <2>0, <3>1 DEF GrantsComeLast, TypeOK
      <4> QED BY <4>1, <4>2, <4>3 DEF GrantsComeLast, Held
    <3>8. Grants'
      BY <3>1, <3>4 DEF OneGrantPerPayment, GrantsGoToTheFiler, GrantedWasPaid, TypeOK
    <3>9. ReopensOwnRow'
      BY <3>1, <3>2 DEF ReopensOwnRow, TypeOK
    <3> QED BY <3>5, <3>6, <3>7, <3>8, <3>9
  <2>2. CASE ~(Commits(o) /\ Reopenable(h))
    <3>1. UNCHANGED <<status, owner, granted, stage, job>>
      BY <1>4, <2>2 DEF reopenSubmission, locals, world
    <3>2. pc'[r] = "done" /\ \A s \in Requests \ {r} : pc'[s] = pc[s]
      BY <1>4, <2>2 DEF reopenSubmission, Goto, Answer, TypeOK, Commits
    <3> QED BY <2>0, <3>1, <3>2, QuietStep DEF Held, Deciding, Activating
  <2> QED BY <2>1, <2>2
<1>5. ASSUME NEW r \in Requests, Verify(r)
      PROVE  LockInv'
  <2> DEFINE h == job[r].hash
  <2>0. h \in Hashes /\ pc[r] = "verify"
    BY <1>5 DEF Verify, HasJob, JobType
  <2>1. /\ UNCHANGED <<status, owner, granted, stage, job>>
        /\ \A s \in Requests \ {r} : pc'[s] = pc[s]
    BY <1>5 DEF Verify, Goto, TypeOK, submissions, locals, world
  <2>2. CASE pc'[r] \in {"rejectRetry", "rejectFinal"}
    BY <2>0, <2>1, <2>2, QuietStep DEF Held, Deciding, Activating
  <2>3. CASE pc'[r] \in {"judge", "quote"} /\ verifyPayment(h) = "paid"
    <3>1. Settled(h)
      BY <2>0, <2>3, PaidIsMined
    <3>2. ClaimIsALock'
      BY <2>0, <2>1, <2>3 DEF ClaimIsALock, Deciding, Activating, Held
    <3>3. VerdictsStand'
      BY <2>0, <2>1, <2>3, <3>1 DEF VerdictsStand, Deciding, Activating
    <3>4. GrantsComeLast' /\ ReopensOwnRow'
      BY <2>0, <2>1, <2>3 DEF GrantsComeLast, ReopensOwnRow, Deciding, Activating, TypeOK
    <3>5. Grants'
      BY <2>1 DEF OneGrantPerPayment, GrantsGoToTheFiler, GrantedWasPaid
    <3> QED BY <3>2, <3>3, <3>4, <3>5
  <2> QED BY <1>5, <2>2, <2>3 DEF Verify, Goto, TypeOK
<1>6. ASSUME NEW r \in Requests, Judge(r)
      PROVE  LockInv'
  <2> DEFINE h == job[r].hash
  <2>0. h \in Hashes /\ pc[r] \in {"judge", "quote"}
    BY <1>6 DEF Judge, HasJob, JobType
  <2>1. /\ UNCHANGED <<status, owner, granted, stage, job>>
        /\ \A s \in Requests \ {r} : pc'[s] = pc[s]
    BY <1>6 DEF Judge, Goto, TypeOK, submissions, locals, world
  <2>2. CASE pc'[r] \in {"setPending", "rejectFinal"}
    BY <2>0, <2>1, <2>2, QuietStep DEF Held, Deciding, Activating
  <2>3. CASE pc'[r] = "markVerified" /\ Sufficient(Tx[h].usd, job[r].want)
    <3>1. ClaimIsALock'
      BY <2>0, <2>1, <2>3 DEF ClaimIsALock, Deciding, Activating, Held
    <3>2. VerdictsStand'
      BY <2>0, <2>1, <2>3 DEF VerdictsStand, Deciding, Activating, Sufficient
    <3>3. GrantsComeLast' /\ ReopensOwnRow'
      BY <2>0, <2>1, <2>3 DEF GrantsComeLast, ReopensOwnRow, Deciding, Activating, TypeOK
    <3>4. Grants'
      BY <2>1 DEF OneGrantPerPayment, GrantsGoToTheFiler, GrantedWasPaid
    <3> QED BY <3>1, <3>2, <3>3, <3>4
  <2> QED BY <1>6, <2>2, <2>3 DEF Judge, Goto, TypeOK
<1>7. ASSUME NEW r \in Requests, NEW o \in Outcomes, MarkRejected(r, o)
      PROVE  LockInv'
  <2> DEFINE h == job[r].hash
  <2>0. h \in Hashes /\ pc[r] \in Deciding
    BY <1>7 DEF MarkRejected, HasJob, JobType, Deciding
  <2>1. /\ UNCHANGED <<owner, granted, stage, job>>
        /\ pc' = [pc EXCEPT ![r] = "done"]
        /\ status' \in {status, [status EXCEPT ![h] = "rejected"]}
    BY <1>7 DEF MarkRejected, Answer, locals, world
  <2>2. status[h] = "pending" /\ granted[h] = {}
        /\ \A s \in Requests : s # r /\ pc[s] \in Held => job[s].hash # h
    BY <2>0 DEF ClaimIsALock, GrantsComeLast, Held
  <2>3. ClaimIsALock'
    BY <1>0, <2>0, <2>1, <2>2 DEF ClaimIsALock, Held, Deciding, Activating, TypeOK
  <2>4. VerdictsStand'
    BY <2>1 DEF VerdictsStand, Deciding, Activating, TypeOK
  <2>5. GrantsComeLast'
    BY <2>0, <2>1, <2>2 DEF GrantsComeLast, Deciding, Activating, TypeOK
  <2>6. Grants' /\ ReopensOwnRow'
    BY <2>1, <2>2 DEF OneGrantPerPayment, GrantsGoToTheFiler, GrantedWasPaid,
                      ReopensOwnRow, TypeOK
  <2> QED BY <2>3, <2>4, <2>5, <2>6
<1>8. ASSUME NEW r \in Requests, NEW o \in Outcomes, markSubscriptionPending(r, o)
      PROVE  LockInv'
  <2>1. /\ UNCHANGED <<status, owner, granted, stage, job>>
        /\ pc[r] = "setPending" /\ pc'[r] = "done"
        /\ \A s \in Requests \ {r} : pc'[s] = pc[s]
    BY <1>8 DEF markSubscriptionPending, Answer, TypeOK, submissions, locals, world
  <2> QED BY <2>1, QuietStep DEF Held, Deciding, Activating
<1>9. ASSUME NEW r \in Requests, NEW o \in Outcomes, MarkVerified(r, o)
      PROVE  LockInv'
  <2> DEFINE h == job[r].hash
  <2>0. h \in Hashes /\ pc[r] = "markVerified"
    BY <1>9 DEF MarkVerified, HasJob, JobType
  <2>1. /\ UNCHANGED <<owner, granted, stage, job>>
        /\ pc' = [pc EXCEPT ![r] = pc'[r]]
        /\ \/ status' = [status EXCEPT ![h] = "verified"] /\ pc'[r] \in {"done", "read"}
           \/ status' = status /\ pc'[r] = "done"
    BY <1>9 DEF MarkVerified, Goto, Answer, locals, world, Commits, TypeOK
  <2>2. status[h] = "pending" /\ granted[h] = {} /\ owner[h] = job[r].user
        /\ \A s \in Requests : s # r /\ pc[s] \in Held => job[s].hash # h
    BY <2>0 DEF ClaimIsALock, GrantsComeLast, Held, Deciding
  <2>3. ClaimIsALock'
    BY <1>0, <2>0, <2>1, <2>2 DEF ClaimIsALock, Held, Deciding, Activating, TypeOK
  <2>4. VerdictsStand'
    BY <2>0, <2>1 DEF VerdictsStand, Deciding, Activating, TypeOK
  <2>5. GrantsComeLast'
    BY <2>0, <2>1, <2>2 DEF GrantsComeLast, Deciding, Activating, TypeOK
  <2>6. Grants' /\ ReopensOwnRow'
    BY <2>1, <2>2 DEF OneGrantPerPayment, GrantsGoToTheFiler, GrantedWasPaid,
                      ReopensOwnRow, TypeOK
  <2> QED BY <2>3, <2>4, <2>5, <2>6
<1>10. ASSUME NEW r \in Requests, NEW o \in Outcomes, ReadPeriod(r, o)
       PROVE  LockInv'
  <2>1. /\ UNCHANGED <<status, owner, granted, stage, job>>
        /\ pc[r] = "read" /\ pc' = [pc EXCEPT ![r] = pc'[r]]
        /\ pc'[r] \in {"done", "upsert"}
    BY <1>10 DEF ReadPeriod, Goto, Answer, TypeOK, submissions, world
  <2>2. ClaimIsALock'
    BY <2>1 DEF ClaimIsALock, Deciding, Activating, TypeOK
  <2>3. VerdictsStand'
    BY <2>1 DEF VerdictsStand, Deciding, Activating, TypeOK
  <2>4. GrantsComeLast' /\ ReopensOwnRow'
    BY <2>1 DEF GrantsComeLast, ReopensOwnRow, Deciding, Activating, TypeOK
  <2>5. Grants'
    BY <2>1 DEF OneGrantPerPayment, GrantsGoToTheFiler, GrantedWasPaid
  <2> QED BY <2>2, <2>3, <2>4, <2>5
<1>11. ASSUME NEW r \in Requests, NEW o \in Outcomes, Upsert(r, o)
       PROVE  LockInv'
  <2> DEFINE h == job[r].hash
  <2>0. h \in Hashes /\ pc[r] = "upsert"
    BY <1>11 DEF Upsert, HasJob, JobType
  <2>1. /\ UNCHANGED <<status, owner, stage, job>>
        /\ pc' = [pc EXCEPT ![r] = "done"]
        /\ granted' \in {granted, [granted EXCEPT ![h] = @ \cup {r}]}
    BY <1>11 DEF Upsert, Answer, submissions, locals, world
  <2>2. /\ status[h] = "verified" /\ granted[h] = {} /\ owner[h] = job[r].user
        /\ Settled(h)
        /\ Tx[h].usd * 100 >= priceUsd(job[r].want) * 98
        /\ \A s \in Requests : s # r /\ pc[s] \in Held => job[s].hash # h
    BY <2>0 DEF ClaimIsALock, GrantsComeLast, VerdictsStand, Held, Deciding, Activating
  <2>3. ClaimIsALock'
    BY <2>0, <2>1 DEF ClaimIsALock, Deciding, Activating, TypeOK
  <2>4. VerdictsStand'
    BY <2>1 DEF VerdictsStand, Deciding, Activating, TypeOK
  <2>5. GrantsComeLast'
    <3>1. \A s \in Requests : pc'[s] \in Held => granted'[job'[s].hash] = {}
      <4> SUFFICES ASSUME NEW s \in Requests, pc'[s] \in Held
                   PROVE  granted'[job[s].hash] = {}
        BY <2>1
      <4>1. s # r /\ pc[s] \in Held
        BY <2>1 DEF TypeOK, Held, Deciding, Activating
      <4> QED BY <1>0, <2>0, <2>1, <2>2, <4>1 DEF GrantsComeLast, Held, TypeOK
    <3>2. \A g \in Hashes : \A s \in granted'[g] : pc'[s] = "done"
      BY <2>0, <2>1 DEF GrantsComeLast, TypeOK
    <3> QED BY <2>1, <3>1, <3>2 DEF GrantsComeLast, Held
  <2>6. OneGrantPerPayment' /\ GrantsGoToTheFiler'
    BY <2>0, <2>1, <2>2 DEF OneGrantPerPayment, GrantsGoToTheFiler, TypeOK
  <2>7. GrantedWasPaid'
    <3>1. \A g \in Hashes : \A s \in granted'[g] : s \in granted[g] \/ (g = h /\ s = r)
      BY <2>0, <2>1 DEF TypeOK
    <3> QED BY <2>1, <2>2, <3>1 DEF GrantedWasPaid
  <2>8. ReopensOwnRow'
    BY <2>1 DEF ReopensOwnRow, TypeOK
  <2> QED BY <2>3, <2>4, <2>5, <2>6, <2>7, <2>8
<1>12. ASSUME NEW r \in Requests, Crash(r)
       PROVE  LockInv'
  <2>1. /\ UNCHANGED <<status, owner, granted, stage, job>>
        /\ pc[r] # "done" /\ pc'[r] = "dead"
        /\ \A s \in Requests \ {r} : pc'[s] = pc[s]
    BY <1>12 DEF Crash, TypeOK, submissions, locals, world
  <2> QED BY <2>1, QuietStep DEF Held, Deciding, Activating
<1>13. CASE Tick \/ UNCHANGED vars \/ \E u \in Users, w \in Workspaces : RoleChanges(u, w)
  <2>1. UNCHANGED <<status, owner, granted, stage, job, pc>>
    BY <1>13 DEF Tick, RoleChanges, Requested, submissions, locals, vars
  <2> QED BY <2>1 DEF ClaimIsALock, VerdictsStand, GrantsComeLast, ReopensOwnRow,
                      OneGrantPerPayment, GrantsGoToTheFiler, GrantedWasPaid
<1>14. ASSUME NEW h \in Hashes, ChainAdvances(h)
       PROVE  LockInv'
  <2>1. UNCHANGED <<status, owner, granted, job, pc>>
    BY <1>14 DEF ChainAdvances, Requested, submissions, locals
  <2>2. \A g \in Hashes : stage[g] = "mined" => stage'[g] = "mined"
    BY <1>14 DEF ChainAdvances, TypeOK
  <2>3. \A s \in Requests : pc[s] # "idle" => job[s].hash \in Hashes
    BY DEF HasJob, JobType
  <2>4. VerdictsStand'
    BY <2>1, <2>2, <2>3 DEF VerdictsStand, Activating
  <2>5. GrantedWasPaid'
    BY <2>1, <2>2 DEF GrantedWasPaid
  <2> QED BY <2>1, <2>4, <2>5 DEF ClaimIsALock, GrantsComeLast, ReopensOwnRow,
                      OneGrantPerPayment, GrantsGoToTheFiler
<1> QED
  BY <1>1, <1>2, <1>3, <1>4, <1>5, <1>6, <1>7, <1>8, <1>9, <1>10, <1>11, <1>12,
     <1>13, <1>14 DEF Next, Step

\* The inductive invariant of Billing: the claim is a lock.
THEOREM Invariance == Spec => []IInv
<1>1. Init => TypeInv /\ LockInv
  BY InitType, InitLock
<1>2. TypeInv /\ LockInv /\ [Next]_vars => TypeInv' /\ LockInv'
  BY StepType, StepLock
<1>3. TypeInv /\ LockInv <=> IInv
  BY DEF TypeInv, LockInv, IInv
<1> QED BY <1>1, <1>2, <1>3, PTL DEF Spec

\* One real payment grants one period, whoever submits its hash and however
\* often, whatever fails in between.
THEOREM NoPaymentGrantsTwice == Spec => []OneGrantPerPayment
BY Invariance, PTL DEF IInv

\* The grant goes to the account that filed the hash.
THEOREM GrantsFindTheirFiler == Spec => []GrantsGoToTheFiler
BY Invariance, PTL DEF IInv

\* Nothing is granted that the chain does not show to be paid for: mined, to our
\* address, of the price that was asked, and not failed; whether a transaction of
\* ether failed is not asked, and not said here.
THEOREM NothingGrantedUnpaid == Spec => []GrantedWasPaid
BY Invariance, PTL DEF IInv

-----------------------------------------------------------------------------
(* What a step may do to the ledger *)

\* What a step does to the rows and the grants, of any hash.
LEMMA RowStep ==
    ASSUME IInv, [Next]_vars
    PROVE  \/ UNCHANGED <<owner, status, filed, granted>>
           \/ \E h \in Hashes, u \in Users :
                 /\ status[h] = "absent" /\ owner[h] = Nobody
                 /\ status' = [status EXCEPT ![h] = "pending"]
                 /\ owner' = [owner EXCEPT ![h] = u]
                 /\ \A g \in Hashes \ {h} : filed'[g] = filed[g]
                 /\ granted' = granted
           \/ \E h \in Hashes, x \in RowStatus \ {"absent"} :
                 /\ status[h] \notin {"absent", "verified"} /\ owner[h] # Nobody
                 /\ status' = [status EXCEPT ![h] = x]
                 /\ UNCHANGED <<owner, filed, granted>>
           \/ \E h \in Hashes, r \in Requests :
                 /\ status[h] = "verified" /\ granted[h] = {}
                 /\ granted' = [granted EXCEPT ![h] = {r}]
                 /\ UNCHANGED <<owner, status, filed>>
<1> USE DEF IInv
<1>1. ASSUME NEW r \in Requests, NEW o \in Outcomes, InsertClaim(r, o)
      PROVE  \/ UNCHANGED <<owner, status, filed, granted>>
             \/ \E h \in Hashes, u \in Users :
                   /\ status[h] = "absent" /\ owner[h] = Nobody
                   /\ status' = [status EXCEPT ![h] = "pending"]
                   /\ owner' = [owner EXCEPT ![h] = u]
                   /\ \A g \in Hashes \ {h} : filed'[g] = filed[g]
                   /\ granted' = granted
  <2>1. job[r].hash \in Hashes /\ job[r].user \in Users
    BY <1>1 DEF InsertClaim, HasJob, JobType
  <2> QED BY <1>1, <2>1 DEF InsertClaim, submissions, GrantsComeLast, TypeOK
<1>2. ASSUME NEW r \in Requests, NEW o \in Outcomes,
             reopenSubmission(r, o) \/ MarkRejected(r, o) \/ MarkVerified(r, o)
      PROVE  \/ UNCHANGED <<owner, status, filed, granted>>
             \/ \E h \in Hashes, x \in RowStatus \ {"absent"} :
                   /\ status[h] \notin {"absent", "verified"} /\ owner[h] # Nobody
                   /\ status' = [status EXCEPT ![h] = x]
                   /\ UNCHANGED <<owner, filed, granted>>
  <2> DEFINE h == job[r].hash
  <2>1. h \in Hashes
    BY <1>2 DEF reopenSubmission, MarkRejected, MarkVerified, HasJob, JobType
  <2>2. pc[r] \in Deciding => status[h] = "pending"
    BY DEF ClaimIsALock
  <2>3. /\ UNCHANGED <<owner, filed, granted>>
        /\ \/ status' = status
           \/ /\ status[h] \in {"pending", "rejected"}
              /\ \E x \in RowStatus \ {"absent"} : status' = [status EXCEPT ![h] = x]
    BY <1>2, <2>2 DEF reopenSubmission, MarkRejected, MarkVerified, Reopenable,
                      Deciding, RowStatus
  <2>4. status[h] # "absent" => owner[h] # Nobody
    BY <2>1 DEF GrantsComeLast
  <2> QED BY <2>1, <2>3, <2>4
<1>3. ASSUME NEW r \in Requests, NEW o \in Outcomes, Upsert(r, o)
      PROVE  \/ UNCHANGED <<owner, status, filed, granted>>
             \/ \E h \in Hashes :
                   /\ status[h] = "verified" /\ granted[h] = {}
                   /\ granted' = [granted EXCEPT ![h] = {r}]
                   /\ UNCHANGED <<owner, status, filed>>
  <2> DEFINE h == job[r].hash
  <2>1. h \in Hashes /\ pc[r] = "upsert"
    BY <1>3 DEF Upsert, HasJob, JobType
  <2>2. status[h] = "verified" /\ granted[h] = {}
    BY <2>1 DEF ClaimIsALock, GrantsComeLast, Deciding, Activating
  <2> QED BY <1>3, <2>1, <2>2 DEF Upsert, submissions, TypeOK
<1>4. ASSUME NEW r \in Requests,
             \/ Verify(r) \/ Judge(r) \/ Crash(r)
             \/ \E u \in Users, h \in Hashes, p \in Offers : Submit(r, u, h, p)
             \/ \E o \in Outcomes : SelectExisting(r, o) \/ ReadPeriod(r, o)
                                    \/ markSubscriptionPending(r, o)
      PROVE  UNCHANGED <<owner, status, filed, granted>>
  BY <1>4 DEF Verify, Judge, Crash, Submit, SelectExisting, ReadPeriod,
              markSubscriptionPending, submissions
<1>5. CASE \/ Tick \/ UNCHANGED vars \/ \E h \in Hashes : ChainAdvances(h)
           \/ \E u \in Users, w \in Workspaces : RoleChanges(u, w)
  BY <1>5 DEF Tick, ChainAdvances, RoleChanges, Requested, submissions, vars
<1> QED BY <1>1, <1>2, <1>3, <1>4, <1>5 DEF Next, Step

\* A verified row is settled: no later request reopens, refiles or rejects it.
THEOREM SettledStaysSettled == Spec => SettledForGood
<1>1. IInv /\ [Next]_vars =>
        [\A h \in Hashes : status[h] = "verified" =>
            /\ status'[h] = "verified"
            /\ owner'[h] = owner[h] /\ filed'[h] = filed[h]]_vars
  BY RowStep DEF IInv, TypeOK
<1> QED BY <1>1, Invariance, PTL DEF Spec, SettledForGood

\* The table, seen from outside, is the ledger: first claim wins, settled at
\* most once, credited at most once.
THEOREM BillingImplementsLedger == Spec => LedgerSpec
<1>1. Init => Ledger!Init
  BY DEF Init, Ledger!Init
<1>2. IInv /\ [Next]_vars => [Ledger!Next]_(Ledger!vars)
  <2> SUFFICES ASSUME IInv, [Next]_vars, ~UNCHANGED <<owner, status, granted>>
               PROVE  Ledger!Next \/ UNCHANGED Ledger!vars
    BY DEF Ledger!vars
  <2>1. ASSUME NEW h \in Hashes, NEW u \in Users,
               status[h] = "absent", owner[h] = Nobody,
               status' = [status EXCEPT ![h] = "pending"],
               owner' = [owner EXCEPT ![h] = u], granted' = granted
        PROVE  Ledger!Claim(h, u)
    BY <2>1 DEF Ledger!Claim, IInv, TypeOK
  <2>2. ASSUME NEW h \in Hashes, NEW x \in RowStatus \ {"absent"},
               status[h] \notin {"absent", "verified"}, owner[h] # Nobody,
               status' = [status EXCEPT ![h] = x], UNCHANGED <<owner, granted>>
        PROVE  Ledger!Settle(h) \/ UNCHANGED Ledger!vars
    BY <2>2 DEF Ledger!Settle, Ledger!vars, IInv, TypeOK
  <2>3. ASSUME NEW h \in Hashes, NEW r \in Requests,
               status[h] = "verified", granted[h] = {},
               granted' = [granted EXCEPT ![h] = {r}], UNCHANGED <<owner, status>>
        PROVE  Ledger!Credit(h, r)
    BY <2>3 DEF Ledger!Credit
  <2> QED BY <2>1, <2>2, <2>3, RowStep DEF Ledger!Next
<1> QED BY <1>1, <1>2, Invariance, PTL DEF Spec, LedgerSpec, Ledger!Spec

-----------------------------------------------------------------------------
(* One request moves at a time *)

Kept(s) == /\ pc'[s] = pc[s] /\ job'[s] = job[s] /\ reply'[s] = reply[s]
           /\ readEnd'[s] = readEnd[s] /\ newEnd'[s] = newEnd[s]

Moves(s) == \/ \E u \in Users, h \in Hashes, p \in Offers : Submit(s, u, h, p)
            \/ Step(s) \/ Crash(s)

\* What a request does leaves the others as they are.
LEMMA OthersAreKept ==
    ASSUME TypeInv, NEW s \in Requests, NEW r \in Requests, r # s, Moves(r)
    PROVE  Kept(s)
<1> USE DEF TypeInv, TypeOK, Kept
<1>1. ASSUME NEW u \in Users, NEW h \in Hashes, NEW p \in Offers, Submit(r, u, h, p)
      PROVE  Kept(s)
  BY <1>1 DEF Submit, Goto
<1>2. ASSUME Verify(r) \/ Judge(r) \/ Crash(r)
      PROVE  Kept(s)
  BY <1>2 DEF Verify, Judge, Crash, Goto, locals
<1>3. ASSUME NEW o \in Outcomes,
             \/ InsertClaim(r, o) \/ SelectExisting(r, o) \/ reopenSubmission(r, o)
             \/ MarkRejected(r, o)
      PROVE  Kept(s)
  BY <1>3 DEF InsertClaim, SelectExisting, reopenSubmission, MarkRejected, Goto, Answer, locals
<1>4. ASSUME NEW o \in Outcomes,
             \/ markSubscriptionPending(r, o) \/ MarkVerified(r, o) \/ ReadPeriod(r, o)
             \/ Upsert(r, o)
      PROVE  Kept(s)
  BY <1>4 DEF markSubscriptionPending, MarkVerified, ReadPeriod, Upsert, Goto, Answer, locals
<1> QED BY <1>1, <1>2, <1>3, <1>4 DEF Moves, Step

\* A step is one request's, or leaves them all as they are.
LEMMA MoveOrWorld ==
    ASSUME [Next]_vars
    PROVE  \/ \E r \in Requests : Moves(r)
           \/ \A s \in Requests : Kept(s)
<1>1. CASE \/ Tick \/ UNCHANGED vars \/ \E h \in Hashes : ChainAdvances(h)
           \/ \E u \in Users, w \in Workspaces : RoleChanges(u, w)
  BY <1>1 DEF Tick, ChainAdvances, RoleChanges, Requested, locals, vars, Kept
<1> QED BY <1>1 DEF Next, Moves

\* A step leaves a request as it is, unless it is that request's own.
LEMMA KeptOrMoves ==
    ASSUME TypeInv, [Next]_vars, NEW s \in Requests
    PROVE  Kept(s) \/ Moves(s)
BY MoveOrWorld, OthersAreKept

\* At most one request moves.
LEMMA OneMoves ==
    ASSUME TypeInv, [Next]_vars, NEW r \in Requests, NEW s \in Requests, s # r, ~Kept(r)
    PROVE  Kept(s)
BY MoveOrWorld, OthersAreKept

\* The handler's locals are set once, when the request is read.
LEMMA JobStays ==
    ASSUME TypeInv, [Next]_vars, NEW s \in Requests, pc[s] # "idle"
    PROVE  job'[s] = job[s]
<1>1. CASE Moves(s)
  BY <1>1 DEF Moves, Step, Submit, Crash, Verify, Judge, InsertClaim, SelectExisting,
              reopenSubmission, MarkRejected, markSubscriptionPending, MarkVerified,
              ReadPeriod, Upsert, locals
<1> QED BY <1>1, KeptOrMoves DEF Kept

\* A request that has begun is not undone.
LEMMA BegunStays ==
    ASSUME TypeInv, [Next]_vars, NEW s \in Requests, pc[s] # "idle"
    PROVE  pc'[s] # "idle"
<1> USE DEF TypeInv, TypeOK
<1>1. ASSUME NEW o \in Outcomes,
             \/ InsertClaim(s, o) \/ SelectExisting(s, o) \/ reopenSubmission(s, o)
             \/ MarkRejected(s, o) \/ markSubscriptionPending(s, o)
      PROVE  pc'[s] # "idle"
  BY <1>1 DEF InsertClaim, SelectExisting, reopenSubmission, MarkRejected,
              markSubscriptionPending, Goto, Answer
<1>2. ASSUME NEW o \in Outcomes, MarkVerified(s, o) \/ ReadPeriod(s, o) \/ Upsert(s, o)
      PROVE  pc'[s] # "idle"
  BY <1>2 DEF MarkVerified, ReadPeriod, Upsert, Goto, Answer
<1>3. CASE \/ Verify(s) \/ Judge(s) \/ Crash(s)
           \/ \E u \in Users, h \in Hashes, p \in Offers : Submit(s, u, h, p)
  BY <1>3 DEF Verify, Judge, Crash, Submit, Goto
<1> QED BY <1>1, <1>2, <1>3, KeptOrMoves DEF Kept, Moves, Step

\* A request that has ended stays as it ended.
LEMMA EndedStays ==
    ASSUME TypeInv, [Next]_vars, NEW s \in Requests, pc[s] \in {"done", "dead"}
    PROVE  Kept(s)
<1>1. ~Moves(s)
  BY DEF Moves, Step, Submit, Crash, Verify, Judge, InsertClaim, SelectExisting,
         reopenSubmission, MarkRejected, markSubscriptionPending, MarkVerified,
         ReadPeriod, Upsert
<1> QED BY <1>1, KeptOrMoves

\* A grant is never taken back.
LEMMA GrantsStay ==
    ASSUME IInv, [Next]_vars, NEW h \in Hashes
    PROVE  granted[h] \subseteq granted'[h]
BY RowStep DEF IInv, TypeOK

-----------------------------------------------------------------------------
(* What is answered *)

\* What a request does when it answers.
LEMMA AnswerStep ==
    ASSUME IInv, [Next]_vars, NEW s \in Requests, reply'[s] # reply[s]
    PROVE  /\ pc[s] # "idle" /\ pc'[s] = "done"
           /\ reply'[s] = "verified" => s \in granted'[job[s].hash]
           /\ reply'[s] = "rejectedFinal" => pc[s] = "rejectFinal"
<1> USE DEF IInv, TypeOK
<1>1. Moves(s)
  BY KeptOrMoves DEF Kept, TypeInv
<1>2. ~(Verify(s) \/ Judge(s) \/ Crash(s)
         \/ \E u \in Users, h \in Hashes, p \in Offers : Submit(s, u, h, p))
  BY DEF Verify, Judge, Crash, Submit, Goto
<1>3. ASSUME NEW o \in Outcomes, InsertClaim(s, o)
      PROVE  pc[s] = "insert" /\ pc'[s] = "done" /\ reply'[s] \notin {"verified", "rejectedFinal"}
  BY <1>3 DEF InsertClaim, Goto, Answer
<1>4. ASSUME NEW o \in Outcomes, SelectExisting(s, o) \/ reopenSubmission(s, o)
      PROVE  pc[s] # "idle" /\ pc'[s] = "done" /\ reply'[s] \notin {"verified", "rejectedFinal"}
  BY <1>4 DEF SelectExisting, reopenSubmission, Goto, Answer
<1>5. ASSUME NEW o \in Outcomes, MarkRejected(s, o)
      PROVE  /\ pc[s] # "idle" /\ pc'[s] = "done" /\ reply'[s] # "verified"
             /\ reply'[s] = "rejectedFinal" => pc[s] = "rejectFinal"
  BY <1>5 DEF MarkRejected, Answer
<1>6. ASSUME NEW o \in Outcomes,
             markSubscriptionPending(s, o) \/ MarkVerified(s, o) \/ ReadPeriod(s, o)
      PROVE  pc[s] # "idle" /\ pc'[s] = "done" /\ reply'[s] \notin {"verified", "rejectedFinal"}
  BY <1>6 DEF markSubscriptionPending, MarkVerified, ReadPeriod, Goto, Answer
<1>7. ASSUME NEW o \in Outcomes, Upsert(s, o)
      PROVE  /\ pc[s] # "idle" /\ pc'[s] = "done" /\ reply'[s] # "rejectedFinal"
             /\ reply'[s] = "verified" => s \in granted'[job[s].hash]
  <2>1. pc[s] = "upsert" /\ job[s].hash \in Hashes
    BY <1>7 DEF Upsert, HasJob, JobType
  <2> QED BY <1>7, <2>1 DEF Upsert, Answer, Acked, Commits
<1> QED BY <1>1, <1>2, <1>3, <1>4, <1>5, <1>6, <1>7 DEF Moves, Step

\* The verifier gives a transaction up only when it did not succeed or pays
\* somebody else.
LEMMA NeverIsRefusable ==
    ASSUME TypeOK, NEW s \in Requests, job[s].hash \in Hashes,
           verifyPayment(job[s].hash) = "never"
    PROVE  Refusable(s)
<1>1. Tx[job[s].hash] \in TxType /\ stage[job[s].hash] \in StageType
  BY BillingAssumption DEF TypeOK
<1> QED
  BY <1>1 DEF verifyPayment, verifyBitcoin, verifyEther, verifyUsdt, Refusable, StageType, TxType

\* A price is a natural number.
LEMMA PriceType ==
    ASSUME NEW p \in Purchases
    PROVE  priceUsd(p) \in Nat
BY DEF priceUsd, Purchases, Plans

\* A request decides to refuse for good what may be refused.
LEMMA RefusalStep ==
    ASSUME IInv, [Next]_vars, NEW s \in Requests,
           pc[s] # "rejectFinal", pc'[s] = "rejectFinal"
    PROVE  pc[s] # "idle" /\ Refusable(s)
<1> USE DEF IInv, TypeOK
<1>1. Moves(s)
  BY KeptOrMoves DEF Kept, TypeInv
<1>2. ASSUME NEW o \in Outcomes
      PROVE  ~(InsertClaim(s, o) \/ SelectExisting(s, o) \/ reopenSubmission(s, o))
  BY DEF InsertClaim, SelectExisting, reopenSubmission, Goto, Answer
<1>3. ASSUME NEW o \in Outcomes
      PROVE  ~(MarkRejected(s, o) \/ markSubscriptionPending(s, o) \/ MarkVerified(s, o)
                \/ ReadPeriod(s, o) \/ Upsert(s, o))
  BY DEF MarkRejected, markSubscriptionPending, MarkVerified, ReadPeriod, Upsert, Goto, Answer
<1>4. ~(Crash(s) \/ \E u \in Users, h \in Hashes, p \in Offers : Submit(s, u, h, p))
  BY DEF Crash, Submit, Goto
<1>5. CASE Verify(s)
  <2>1. pc[s] = "verify" /\ verifyPayment(job[s].hash) = "never"
    BY <1>5 DEF Verify, Goto
  <2>2. job[s].hash \in Hashes
    BY <2>1 DEF HasJob, JobType
  <2> QED BY <2>1, <2>2, NeverIsRefusable
<1>6. CASE Judge(s)
  <2>1. pc[s] \in {"judge", "quote"} /\ ~Sufficient(Tx[job[s].hash].usd, job[s].want)
    BY <1>6 DEF Judge, Goto
  <2>2. job[s].hash \in Hashes /\ job[s].want \in Purchases
    BY <2>1 DEF HasJob, JobType
  <2>3. Tx[job[s].hash].usd \in Nat /\ priceUsd(job[s].want) \in Nat
    BY <2>2, PriceType, BillingAssumption DEF TxType
  <2> QED BY <2>1, <2>3 DEF Refusable, Sufficient
<1> QED BY <1>1, <1>2, <1>3, <1>4, <1>5, <1>6 DEF Moves, Step

\* A statement that went wrong is never forgotten, and is of a request under way.
LEMMA FaultsStay ==
    ASSUME IInv, FaultsHaveBegun, [Next]_vars
    PROVE  faults \subseteq faults' /\ FaultsHaveBegun'
<1> DEFINE GrowsBy(r) == /\ pc[r] # "idle" /\ faults \subseteq faults'
                         /\ \A f \in faults' : f \in faults \/ f[1] = r
<1>1. ASSUME NEW r \in Requests, NEW o, pc[r] # "idle", Statement(r, o)
      PROVE  GrowsBy(r)
  BY <1>1 DEF Statement
<1>2. ASSUME NEW r \in Requests, NEW o \in Outcomes,
             \/ InsertClaim(r, o) \/ SelectExisting(r, o) \/ reopenSubmission(r, o)
             \/ MarkRejected(r, o) \/ markSubscriptionPending(r, o)
             \/ MarkVerified(r, o) \/ ReadPeriod(r, o) \/ Upsert(r, o)
      PROVE  pc[r] # "idle" /\ Statement(r, o)
  BY <1>2 DEF InsertClaim, SelectExisting, reopenSubmission,
       MarkRejected, markSubscriptionPending, MarkVerified, ReadPeriod, Upsert
<1>3. ASSUME NEW r \in Requests, Verify(r) \/ Judge(r) \/ Crash(r)
      PROVE  faults' = faults
  BY <1>3 DEF Verify, Judge, Crash
<1>4. ASSUME NEW r \in Requests, NEW u \in Users, NEW h \in Hashes, NEW p \in Offers,
             Submit(r, u, h, p)
      PROVE  faults' = faults
  BY <1>4 DEF Submit
<1>5. ASSUME \/ Tick \/ UNCHANGED vars \/ \E h \in Hashes : ChainAdvances(h)
             \/ \E u \in Users, w \in Workspaces : RoleChanges(u, w)
      PROVE  faults' = faults
  BY <1>5 DEF Tick, ChainAdvances, RoleChanges, Requested, vars
<1>6. faults' = faults \/ \E r \in Requests : GrowsBy(r)
  <2>1. ASSUME NEW r \in Requests, NEW o \in Outcomes,
               \/ InsertClaim(r, o) \/ SelectExisting(r, o) \/ reopenSubmission(r, o)
               \/ MarkRejected(r, o) \/ markSubscriptionPending(r, o)
               \/ MarkVerified(r, o) \/ ReadPeriod(r, o) \/ Upsert(r, o)
        PROVE  GrowsBy(r)
    <3>1. pc[r] # "idle" /\ Statement(r, o)
      BY <1>2, <2>1
    <3> QED BY <1>1, <3>1
  <2> HIDE DEF GrowsBy
  <2>2. ASSUME NEW r \in Requests, Step(r)
        PROVE  faults' = faults \/ GrowsBy(r)
    BY <1>3, <2>1, <2>2 DEF Step
  <2> QED BY <1>3, <1>4, <1>5, <2>2 DEF Next
<1>7. \A f \in faults : f[1] \in Requests
  BY DEF IInv, TypeOK
<1>8. \A s \in Requests : pc[s] # "idle" => pc'[s] # "idle"
  BY BegunStays DEF IInv, TypeInv
<1> QED BY <1>6, <1>7, <1>8 DEF FaultsHaveBegun

\* Whoever left a row pending did so for good.
LEMMA LeftStays ==
    ASSUME IInv, FaultsHaveBegun, [Next]_vars, NEW s \in Requests, LeftPending(s)
    PROVE  pc[s] # "idle" /\ LeftPending(s)'
<1>1. pc[s] # "idle"
  BY DEF LeftPending, FaultsHaveBegun
<1> QED BY <1>1, FaultsStay DEF LeftPending

\* Whoever explains why a row is pending goes on doing so until it is decided.
LEMMA ExplanationStays ==
    ASSUME IInv, AnsweredIsDone, FaultsHaveBegun, [Next]_vars,
           NEW s \in Requests, NEW h \in Hashes,
           Explains(s, h), status'[h] = "pending"
    PROVE  Explains(s, h)'
<1> USE DEF IInv, TypeOK
<1>0. CASE LeftPending(s)
  <2>1. pc[s] # "idle" /\ LeftPending(s)'
    BY <1>0, LeftStays
  <2>2. job'[s] = job[s]
    BY <2>1, JobStays DEF TypeInv
  <2> QED BY <2>1, <2>2 DEF Explains
<1>1. CASE ~LeftPending(s) /\ pc[s] \notin Deciding
  <2>1. pc[s] \in {"done", "dead"}
    BY <1>1 DEF Explains, AnsweredIsDone, ReplyType
  <2> QED BY <1>1, <2>1, EndedStays DEF Explains, Kept, TypeInv
<1>2. CASE pc[s] \in Deciding
  <2>1. job'[s] = job[s] /\ job[s].hash = h
    BY <1>2, JobStays DEF Explains, TypeInv, Deciding
  <2>2. CASE Kept(s)
    BY <1>2, <2>1, <2>2 DEF Explains, Kept
  <2>3. CASE Verify(s) \/ Judge(s) \/ Crash(s)
    BY <1>2, <2>1, <2>3 DEF Explains, Verify, Judge, Crash, Goto, Deciding
  <2>4. ASSUME NEW o \in Outcomes, markSubscriptionPending(s, o)
        PROVE  Explains(s, h)'
    BY <2>1, <2>4 DEF Explains, markSubscriptionPending, Answer
  <2>5. ASSUME NEW o \in Outcomes, MarkRejected(s, o)
        PROVE  Explains(s, h)'
    <3>1. o = "failed"
      BY <2>1, <2>5 DEF MarkRejected, Commits
    <3>2. <<s, pc[s], "failed">> \in faults' /\ pc[s] \in {"rejectRetry", "rejectFinal"}
      BY <2>5, <3>1 DEF MarkRejected, Statement
    <3>3. LeftPending(s)'
      BY <3>2 DEF LeftPending
    <3> QED BY <2>1, <3>3 DEF Explains
  <2>6. ASSUME NEW o \in Outcomes, MarkVerified(s, o)
        PROVE  Explains(s, h)'
    <3>1. o = "failed"
      BY <2>1, <2>6 DEF MarkVerified, Commits
    <3> QED BY <2>1, <2>6, <3>1 DEF MarkVerified, Answer, Explains
  <2>7. ASSUME NEW o \in Outcomes
        PROVE  ~(InsertClaim(s, o) \/ SelectExisting(s, o) \/ reopenSubmission(s, o)
                  \/ ReadPeriod(s, o) \/ Upsert(s, o))
    BY <1>2 DEF InsertClaim, SelectExisting, reopenSubmission, ReadPeriod, Upsert, Deciding
  <2>8. ~\E u \in Users, g \in Hashes, p \in Offers : Submit(s, u, g, p)
    BY <1>2 DEF Submit, Deciding
  <2> QED BY <2>2, <2>3, <2>4, <2>5, <2>6, <2>7, <2>8, KeptOrMoves DEF Moves, Step, TypeInv
<1> QED BY <1>0, <1>1, <1>2

\* A row that becomes pending was taken by a request that had not ended, which
\* decides on it or was not told that it may.
LEMMA PendingIsTaken ==
    ASSUME IInv, [Next]_vars, NEW h \in Hashes,
           status[h] # "pending", status'[h] = "pending"
    PROVE  \E s \in Requests : pc[s] # "done" /\ Explains(s, h)'
<1> USE DEF IInv, TypeOK
<1>1. ASSUME NEW r \in Requests, NEW o \in Outcomes, InsertClaim(r, o)
      PROVE  pc[r] # "done" /\ Explains(r, h)'
  <2>1. /\ job[r].hash = h /\ MayFile(job[r].user, job[r].want) /\ status[h] = "absent"
        /\ o \in {"ok", "lost"} /\ pc[r] = "insert" /\ job' = job
    BY <1>1 DEF InsertClaim, submissions, Commits, Outcomes, locals
  <2>2. CASE o = "ok"
    <3>1. pc' = [pc EXCEPT ![r] = "verify"]
      BY <1>1, <2>1, <2>2 DEF InsertClaim, Goto
    <3> QED BY <2>1, <3>1 DEF Explains, Deciding
  <2>3. CASE o = "lost"
    <3>1. <<r, "insert", "lost">> \in faults'
      BY <1>1, <2>1, <2>3 DEF InsertClaim, Statement
    <3> QED BY <2>1, <3>1 DEF Explains, LeftPending
  <2> QED BY <2>1, <2>2, <2>3
<1>2. ASSUME NEW r \in Requests, NEW o \in Outcomes, reopenSubmission(r, o)
      PROVE  pc[r] # "done" /\ Explains(r, h)'
  <2>1. /\ job[r].hash = h /\ Reopenable(h)
        /\ o \in {"ok", "lost"} /\ pc[r] = "reopen" /\ job' = job
    BY <1>2 DEF reopenSubmission, Commits, Outcomes, locals
  <2>2. CASE o = "ok"
    <3>1. pc' = [pc EXCEPT ![r] = "verify"]
      BY <1>2, <2>1, <2>2 DEF reopenSubmission, Goto
    <3> QED BY <2>1, <3>1 DEF Explains, Deciding
  <2>3. CASE o = "lost"
    <3>1. <<r, "reopen", "lost">> \in faults'
      BY <1>2, <2>1, <2>3 DEF reopenSubmission, Statement
    <3> QED BY <2>1, <3>1 DEF Explains, LeftPending
  <2> QED BY <2>1, <2>2, <2>3
<1>3. ASSUME NEW r \in Requests, NEW o \in Outcomes
      PROVE  ~(MarkRejected(r, o) \/ MarkVerified(r, o))
  BY DEF MarkRejected, MarkVerified
<1>4. ASSUME NEW r \in Requests,
             \/ Verify(r) \/ Judge(r) \/ Crash(r)
             \/ \E u \in Users, g \in Hashes, p \in Offers : Submit(r, u, g, p)
             \/ \E o \in Outcomes : \/ SelectExisting(r, o) \/ ReadPeriod(r, o) \/ Upsert(r, o)
                                    \/ markSubscriptionPending(r, o)
      PROVE  FALSE
  BY <1>4 DEF Verify, Judge, Crash, Submit, SelectExisting, ReadPeriod, Upsert,
              markSubscriptionPending, submissions
<1>5. CASE \/ Tick \/ UNCHANGED vars \/ \E g \in Hashes : ChainAdvances(g)
           \/ \E u \in Users, w \in Workspaces : RoleChanges(u, w)
  BY <1>5 DEF Tick, ChainAdvances, RoleChanges, Requested, submissions, vars
<1> QED BY <1>1, <1>2, <1>3, <1>4, <1>5 DEF Next, Step

\* A row that is there stays there, and a settled one stays settled.
LEMMA RowsStay ==
    ASSUME IInv, [Next]_vars, NEW h \in Hashes, status[h] # "absent"
    PROVE  /\ status'[h] # "absent" /\ owner'[h] = owner[h]
           /\ status[h] = "verified" => status'[h] = "verified"
BY RowStep DEF IInv, TypeOK

\* Who switches a subscription on holds the row.
LEMMA GrantStep ==
    ASSUME IInv, [Next]_vars, NEW h \in Hashes, NEW r \in granted'[h], r \notin granted[h]
    PROVE  pc[r] = "upsert" /\ job[r].hash = h
<1> USE DEF IInv, TypeOK
<1>1. ASSUME NEW s \in Requests, NEW o \in Outcomes, Upsert(s, o)
      PROVE  pc[r] = "upsert" /\ job[r].hash = h
  BY <1>1 DEF Upsert
<1>2. ASSUME NEW s \in Requests,
             \/ Verify(s) \/ Judge(s) \/ Crash(s)
             \/ \E u \in Users, g \in Hashes, p \in Offers : Submit(s, u, g, p)
             \/ \E o \in Outcomes :
                   \/ InsertClaim(s, o) \/ reopenSubmission(s, o) \/ MarkRejected(s, o)
                   \/ MarkVerified(s, o) \/ SelectExisting(s, o) \/ ReadPeriod(s, o)
                   \/ markSubscriptionPending(s, o)
      PROVE  granted' = granted
  BY <1>2 DEF Verify, Judge, Crash, Submit, InsertClaim, reopenSubmission, MarkRejected,
              MarkVerified, SelectExisting, ReadPeriod, markSubscriptionPending
<1>3. CASE \/ Tick \/ UNCHANGED vars \/ \E g \in Hashes : ChainAdvances(g)
           \/ \E u \in Users, w \in Workspaces : RoleChanges(u, w)
  BY <1>3 DEF Tick, ChainAdvances, RoleChanges, Requested, vars
<1> QED BY <1>1, <1>2, <1>3 DEF Next, Step

\* A pending row is decided by the request that holds it.
LEMMA PendingStep ==
    ASSUME IInv, [Next]_vars, NEW h \in Hashes, status[h] = "pending", status'[h] # "pending"
    PROVE  \E s \in Requests : pc[s] \in Deciding /\ job[s].hash = h
<1> USE DEF IInv, TypeOK
<1>1. ASSUME NEW s \in Requests, NEW o \in Outcomes, MarkRejected(s, o) \/ MarkVerified(s, o)
      PROVE  pc[s] \in Deciding /\ job[s].hash = h
  BY <1>1 DEF MarkRejected, MarkVerified, Deciding
<1>2. ASSUME NEW s \in Requests, NEW o \in Outcomes, InsertClaim(s, o) \/ reopenSubmission(s, o)
      PROVE  FALSE
  BY <1>2 DEF InsertClaim, reopenSubmission, submissions
<1>3. ASSUME NEW s \in Requests,
             \/ Verify(s) \/ Judge(s) \/ Crash(s)
             \/ \E u \in Users, g \in Hashes, p \in Offers : Submit(s, u, g, p)
             \/ \E o \in Outcomes : \/ SelectExisting(s, o) \/ ReadPeriod(s, o) \/ Upsert(s, o)
                                    \/ markSubscriptionPending(s, o)
      PROVE  FALSE
  BY <1>3 DEF Verify, Judge, Crash, Submit, SelectExisting, ReadPeriod, Upsert,
              markSubscriptionPending, submissions
<1>4. CASE \/ Tick \/ UNCHANGED vars \/ \E g \in Hashes : ChainAdvances(g)
           \/ \E u \in Users, w \in Workspaces : RoleChanges(u, w)
  BY <1>4 DEF Tick, ChainAdvances, RoleChanges, Requested, submissions, vars
<1> QED BY <1>1, <1>2, <1>3, <1>4 DEF Next, Step

\* A request takes hold of a row that is new, or that it reopens.
LEMMA HoldStep ==
    ASSUME IInv, [Next]_vars, NEW s \in Requests, pc[s] \notin Held, pc'[s] \in Held
    PROVE  /\ pc[s] \in {"insert", "reopen"}
           /\ status[job[s].hash] \in {"absent", "rejected"}
<1> USE DEF IInv, TypeOK, Held, Deciding, Activating
<1>1. Moves(s)
  BY KeptOrMoves DEF Kept, TypeInv
<1>2. ASSUME NEW o \in Outcomes, InsertClaim(s, o)
      PROVE  pc[s] = "insert" /\ status[job[s].hash] = "absent"
  BY <1>2 DEF InsertClaim, Goto, Answer
<1>3. ASSUME NEW o \in Outcomes, reopenSubmission(s, o)
      PROVE  pc[s] = "reopen" /\ status[job[s].hash] = "rejected"
  BY <1>3 DEF reopenSubmission, Reopenable, Goto, Answer
<1>4. ASSUME NEW o \in Outcomes
      PROVE  ~SelectExisting(s, o)
  BY DEF SelectExisting, Goto, Answer
<1>5. ASSUME NEW o \in Outcomes
      PROVE  ~(MarkRejected(s, o) \/ markSubscriptionPending(s, o) \/ MarkVerified(s, o)
                \/ ReadPeriod(s, o) \/ Upsert(s, o))
  BY DEF MarkRejected, markSubscriptionPending, MarkVerified, ReadPeriod, Upsert
<1>6. ~(Verify(s) \/ Judge(s) \/ Crash(s)
         \/ \E u \in Users, h \in Hashes, p \in Offers : Submit(s, u, h, p))
  BY DEF Verify, Judge, Crash, Submit, Goto
<1> QED BY <1>1, <1>2, <1>3, <1>4, <1>5, <1>6 DEF Moves, Step

\* Who finds a row of its own hash finds one that is there.
LEMMA FindStep ==
    ASSUME IInv, [Next]_vars, NEW s \in Requests,
           pc[s] \notin {"select", "reopen"}, pc'[s] \in {"select", "reopen"}
    PROVE  pc[s] # "idle" /\ job[s].hash \in Hashes /\ status[job[s].hash] # "absent"
<1> USE DEF IInv, TypeOK
<1>1. Moves(s)
  BY KeptOrMoves DEF Kept, TypeInv
<1>2. ASSUME NEW o \in Outcomes, InsertClaim(s, o)
      PROVE  pc[s] # "idle" /\ job[s].hash \in Hashes /\ status[job[s].hash] # "absent"
  BY <1>2 DEF InsertClaim, Goto, Answer, HasJob, JobType
<1>3. ASSUME NEW o \in Outcomes
      PROVE  ~(SelectExisting(s, o) \/ reopenSubmission(s, o))
  BY DEF SelectExisting, reopenSubmission
<1>4. ASSUME NEW o \in Outcomes
      PROVE  ~(MarkRejected(s, o) \/ markSubscriptionPending(s, o) \/ MarkVerified(s, o)
                \/ ReadPeriod(s, o) \/ Upsert(s, o))
  BY DEF MarkRejected, markSubscriptionPending, MarkVerified, ReadPeriod, Upsert, Goto, Answer
<1>5. ~(Verify(s) \/ Judge(s) \/ Crash(s)
         \/ \E u \in Users, h \in Hashes, p \in Offers : Submit(s, u, h, p))
  BY DEF Verify, Judge, Crash, Submit, Goto
<1> QED BY <1>1, <1>2, <1>3, <1>4, <1>5 DEF Moves, Step

\* What answers "pending", and what the row is then.
LEMMA PendingAnswer ==
    ASSUME IInv, [Next]_vars, NEW s \in Requests,
           reply[s] # "pending", reply'[s] = "pending"
    PROVE  /\ pc[s] \in Held /\ job[s].hash \in Hashes
           /\ status'[job[s].hash] \in {"pending", "verified"}
           /\ owner'[job[s].hash] = job[s].user
           /\ granted'[job[s].hash] \subseteq {s}
<1> USE DEF IInv, TypeOK
<1> DEFINE h == job[s].hash
<1>1. Moves(s)
  BY KeptOrMoves DEF Kept, TypeInv
<1>2. ASSUME pc[s] \in {"setPending", "markVerified", "read", "upsert"}
      PROVE  /\ h \in Hashes /\ status[h] \in {"pending", "verified"}
             /\ owner[h] = job[s].user /\ granted[h] = {} /\ pc[s] \in Held
  BY <1>2 DEF ClaimIsALock, GrantsComeLast, Deciding, Activating, Held, HasJob, JobType
<1>3. ASSUME NEW o \in Outcomes, markSubscriptionPending(s, o) \/ ReadPeriod(s, o)
      PROVE  pc[s] \in {"setPending", "read"} /\ UNCHANGED <<status, owner, granted>>
  BY <1>3 DEF markSubscriptionPending, ReadPeriod, submissions
<1>4. ASSUME NEW o \in Outcomes, MarkVerified(s, o)
      PROVE  /\ pc[s] = "markVerified" /\ UNCHANGED <<owner, granted>>
             /\ status' \in {status, [status EXCEPT ![h] = "verified"]}
  BY <1>4 DEF MarkVerified
<1>5. ASSUME NEW o \in Outcomes, Upsert(s, o)
      PROVE  /\ pc[s] = "upsert" /\ UNCHANGED <<status, owner>>
             /\ granted' \in {granted, [granted EXCEPT ![h] = @ \cup {s}]}
  BY <1>5 DEF Upsert, submissions
<1>6. ASSUME NEW o \in Outcomes
      PROVE  ~(InsertClaim(s, o) \/ SelectExisting(s, o) \/ reopenSubmission(s, o)
                \/ MarkRejected(s, o))
  BY DEF InsertClaim, SelectExisting, reopenSubmission, MarkRejected, Goto, Answer
<1>7. ~(Verify(s) \/ Judge(s) \/ Crash(s)
         \/ \E u \in Users, g \in Hashes, p \in Offers : Submit(s, u, g, p))
  BY DEF Verify, Judge, Crash, Submit, Goto
<1>8. \/ pc[s] \in {"setPending", "read"} /\ UNCHANGED <<status, owner, granted>>
      \/ /\ pc[s] = "markVerified" /\ UNCHANGED <<owner, granted>>
         /\ status' \in {status, [status EXCEPT ![h] = "verified"]}
      \/ /\ pc[s] = "upsert" /\ UNCHANGED <<status, owner>>
         /\ granted' \in {granted, [granted EXCEPT ![h] = @ \cup {s}]}
  BY <1>1, <1>3, <1>4, <1>5, <1>6, <1>7 DEF Moves, Step
<1> QED BY <1>2, <1>8

\* What answers "rejected": it is written, or known to have failed.
LEMMA RejectedAnswer ==
    ASSUME IInv, [Next]_vars, NEW s \in Requests, reply'[s] # reply[s],
           reply'[s] \in {"rejectedRetry", "rejectedFinal"}
    PROVE  /\ pc[s] \in Deciding /\ job[s].hash \in Hashes
           /\ granted'[job[s].hash] = {} /\ status'[job[s].hash] # "absent"
           /\ status'[job[s].hash] = "pending" => LeftPending(s)'
<1> USE DEF IInv, TypeOK
<1> DEFINE h == job[s].hash
<1>1. Moves(s)
  BY KeptOrMoves DEF Kept, TypeInv
<1>2. ASSUME NEW o \in Outcomes, MarkRejected(s, o)
      PROVE  /\ pc[s] \in {"rejectRetry", "rejectFinal"} /\ granted' = granted
             /\ \/ status' = status /\ <<s, pc[s], "failed">> \in faults'
                \/ status' = [status EXCEPT ![h] = "rejected"]
  BY <1>2 DEF MarkRejected, Statement, Commits
<1>3. ASSUME NEW o \in Outcomes
      PROVE  ~(InsertClaim(s, o) \/ SelectExisting(s, o) \/ reopenSubmission(s, o))
  BY DEF InsertClaim, SelectExisting, reopenSubmission, Goto, Answer
<1>4. ASSUME NEW o \in Outcomes
      PROVE  ~(markSubscriptionPending(s, o) \/ MarkVerified(s, o) \/ ReadPeriod(s, o)
                \/ Upsert(s, o))
  BY DEF markSubscriptionPending, MarkVerified, ReadPeriod, Upsert, Goto, Answer
<1>5. ~(Verify(s) \/ Judge(s) \/ Crash(s)
         \/ \E u \in Users, g \in Hashes, p \in Offers : Submit(s, u, g, p))
  BY DEF Verify, Judge, Crash, Submit, Goto
<1>6. /\ pc[s] \in {"rejectRetry", "rejectFinal"} /\ granted' = granted
      /\ \/ status' = status /\ <<s, pc[s], "failed">> \in faults'
         \/ status' = [status EXCEPT ![h] = "rejected"]
  BY <1>1, <1>2, <1>3, <1>4, <1>5 DEF Moves, Step
<1>7. h \in Hashes /\ status[h] = "pending" /\ granted[h] = {} /\ pc[s] \in Deciding
  BY <1>6 DEF ClaimIsALock, GrantsComeLast, Deciding, HasJob, JobType
<1> QED BY <1>6, <1>7 DEF LeftPending

\* What answers "conflict".
LEMMA ConflictAnswer ==
    ASSUME IInv, [Next]_vars, NEW s \in Requests, reply[s] # "conflict", reply'[s] = "conflict"
    PROVE  pc[s] \in {"select", "reopen"} /\ job[s].hash \in Hashes
<1> USE DEF IInv, TypeOK
<1>1. Moves(s)
  BY KeptOrMoves DEF Kept, TypeInv
<1>2. ASSUME NEW o \in Outcomes, SelectExisting(s, o) \/ reopenSubmission(s, o)
      PROVE  pc[s] \in {"select", "reopen"} /\ job[s].hash \in Hashes
  BY <1>2 DEF SelectExisting, reopenSubmission, HasJob, JobType
<1>3. ASSUME NEW o \in Outcomes
      PROVE  ~(InsertClaim(s, o) \/ MarkRejected(s, o) \/ markSubscriptionPending(s, o))
  BY DEF InsertClaim, MarkRejected, markSubscriptionPending, Goto, Answer
<1>4. ASSUME NEW o \in Outcomes
      PROVE  ~(MarkVerified(s, o) \/ ReadPeriod(s, o) \/ Upsert(s, o))
  BY DEF MarkVerified, ReadPeriod, Upsert, Goto, Answer
<1>5. ~(Verify(s) \/ Judge(s) \/ Crash(s)
         \/ \E u \in Users, g \in Hashes, p \in Offers : Submit(s, u, g, p))
  BY DEF Verify, Judge, Crash, Submit, Goto
<1> QED BY <1>1, <1>2, <1>3, <1>4, <1>5 DEF Moves, Step

LEMMA StepAnswers ==
    ASSUME IInv, AnswersInv, [Next]_vars
    PROVE  AnswersInv'
<1> USE DEF AnswersInv
<1>0. TypeInv
  BY DEF IInv, TypeInv
<1>1. AnsweredIsDone'
  BY <1>0, AnswerStep, EndedStays DEF AnsweredIsDone, Kept
<1>2. RefusalsStand'
  <2> SUFFICES ASSUME NEW s \in Requests, pc'[s] = "rejectFinal"
               PROVE  Refusable(s)'
    BY DEF RefusalsStand
  <2>1. pc[s] # "idle" /\ Refusable(s)
    BY RefusalStep DEF RefusalsStand
  <2> QED BY <1>0, <2>1, JobStays DEF Refusable
<1>3. RejectedForAReason'
  <2> SUFFICES ASSUME NEW s \in Requests, reply'[s] = "rejectedFinal"
               PROVE  Refusable(s)'
    BY DEF RejectedForAReason
  <2>1. pc[s] # "idle" /\ Refusable(s)
    BY AnswerStep DEF RejectedForAReason, RefusalsStand, AnsweredIsDone
  <2> QED BY <1>0, <2>1, JobStays DEF Refusable
<1>4. VerifiedReplyIsTrue'
  <2> SUFFICES ASSUME NEW s \in Requests, reply'[s] = "verified"
               PROVE  s \in granted'[job'[s].hash]
    BY DEF VerifiedReplyIsTrue
  <2>1. pc[s] # "idle"
    BY AnswerStep DEF AnsweredIsDone
  <2>2. job'[s] = job[s] /\ job[s].hash \in Hashes
    BY <1>0, <2>1, JobStays DEF IInv, HasJob, JobType
  <2>3. reply[s] = "verified" => s \in granted'[job[s].hash]
    BY <2>2, GrantsStay DEF AnswersAreTrue, VerifiedReplyIsTrue
  <2> QED BY <2>2, <2>3, AnswerStep
<1>5. PendingIsExplained'
  <2> SUFFICES ASSUME NEW h \in Hashes, status'[h] = "pending"
               PROVE  \E s \in Requests : Explains(s, h)'
    BY DEF PendingIsExplained, Explains, LeftPending
  <2>1. CASE status[h] # "pending"
    BY <2>1, PendingIsTaken
  <2>2. CASE status[h] = "pending"
    BY <2>2, ExplanationStays DEF AnswersAreTrue, PendingIsExplained
  <2> QED BY <2>1, <2>2
<1>6. FaultsHaveBegun'
  BY FaultsStay
<1>7. FoundIsThere'
  <2> SUFFICES ASSUME NEW s \in Requests, pc'[s] \in {"select", "reopen"}
               PROVE  status'[job'[s].hash] # "absent"
    BY DEF FoundIsThere
  <2>1. pc[s] # "idle" /\ job[s].hash \in Hashes /\ status[job[s].hash] # "absent"
    BY FindStep DEF FoundIsThere, IInv, HasJob, JobType
  <2> QED BY <1>0, <2>1, JobStays, RowsStay
<1>8. PendingIsLetGo'
  <2> SUFFICES ASSUME NEW r \in Requests, NEW s \in Requests,
                      reply'[r] = "pending", pc'[s] \in Held
               PROVE  job'[s].hash # job'[r].hash
    BY DEF PendingIsLetGo, Held
  <2>1. pc[r] # "idle" /\ pc'[r] = "done"
    BY AnswerStep, <1>1 DEF AnsweredIsDone
  <2>2. pc[s] # "idle"
    BY HoldStep DEF Held, Deciding, Activating
  <2>3. job'[r] = job[r] /\ job'[s] = job[s]
    BY <1>0, <2>1, <2>2, JobStays
  <2>4. CASE reply[r] = "pending" /\ pc[s] \in Held
    BY <2>3, <2>4 DEF PendingIsLetGo, Held
  <2>5. CASE reply[r] = "pending" /\ pc[s] \notin Held
    BY <2>3, <2>5, HoldStep DEF AnswersAreTrue, PendingReplyIsTrue
  <2>6. CASE reply[r] # "pending"
    <3>1. pc[r] \in Held /\ s # r
      BY <2>1, <2>6, PendingAnswer DEF Held, Deciding, Activating
    <3>2. Moves(r) /\ pc[s] = pc'[s]
      BY <1>0, <2>6, <3>1, KeptOrMoves, OneMoves DEF Kept
    <3> QED BY <2>3, <3>1, <3>2 DEF IInv, ClaimIsALock, Held
  <2> QED BY <2>4, <2>5, <2>6
<1>9. PendingReplyIsTrue'
  <2> SUFFICES ASSUME NEW r \in Requests, reply'[r] = "pending"
               PROVE  /\ status'[job'[r].hash] \in {"pending", "verified"}
                      /\ owner'[job'[r].hash] = job'[r].user
                      /\ granted'[job'[r].hash] \subseteq {r}
    BY DEF PendingReplyIsTrue
  <2> DEFINE h == job[r].hash
  <2>1. pc[r] # "idle"
    BY AnswerStep DEF AnsweredIsDone
  <2>2. job'[r] = job[r] /\ h \in Hashes
    BY <1>0, <2>1, JobStays DEF IInv, HasJob, JobType
  <2>3. CASE reply[r] # "pending"
    BY <2>2, <2>3, PendingAnswer
  <2>4. CASE reply[r] = "pending"
    <3>1. /\ status[h] \in {"pending", "verified"} /\ owner[h] = job[r].user
          /\ granted[h] \subseteq {r}
      BY <2>4 DEF AnswersAreTrue, PendingReplyIsTrue
    <3>2. \A s \in Requests : pc[s] \in Held => job[s].hash # h
      BY <2>4 DEF PendingIsLetGo, Held
    <3>3. status'[h] = status[h] /\ owner'[h] = owner[h]
      BY <2>2, <3>1, <3>2, PendingStep, RowsStay DEF Held
    <3>4. granted'[h] \subseteq granted[h]
      <4> SUFFICES ASSUME NEW x \in granted'[h], x \notin granted[h]
                   PROVE  FALSE
        OBVIOUS
      <4>1. TypeOK'
        BY <1>0, StepType DEF TypeInv
      <4>2. x \in Requests
        BY <2>2, <4>1 DEF TypeOK
      <4>3. pc[x] = "upsert" /\ job[x].hash = h
        BY <2>2, GrantStep
      <4> QED BY <3>2, <4>2, <4>3 DEF Held, Activating
    <3> QED BY <2>2, <3>1, <3>3, <3>4
  <2> QED BY <2>3, <2>4
<1>10. RejectedReplyIsTrue'
  <2> SUFFICES ASSUME NEW r \in Requests, reply'[r] \in {"rejectedRetry", "rejectedFinal"}
               PROVE  /\ r \notin granted'[job'[r].hash] /\ status'[job'[r].hash] # "absent"
                      /\ status'[job'[r].hash] = "pending" =>
                            LeftPending(r)' \/ \E s \in Requests \ {r} : Explains(s, job[r].hash)'
    <3>1. \A r \in Requests : pc[r] # "idle" => job'[r] = job[r]
      BY <1>0, JobStays
    <3>2. \A r \in Requests : reply'[r] \in {"rejectedRetry", "rejectedFinal"} => pc[r] # "idle"
      BY AnswerStep DEF AnsweredIsDone
    <3> QED BY <3>1, <3>2 DEF RejectedReplyIsTrue, Explains, LeftPending
  <2> DEFINE h == job[r].hash
  <2>1. pc[r] # "idle"
    BY AnswerStep DEF AnsweredIsDone
  <2>2. job'[r] = job[r] /\ h \in Hashes
    BY <1>0, <2>1, JobStays DEF IInv, HasJob, JobType
  <2>3. CASE reply'[r] # reply[r]
    BY <2>2, <2>3, RejectedAnswer
  <2>4. CASE reply'[r] = reply[r]
    <3>1. /\ r \notin granted[h] /\ status[h] # "absent"
          /\ status[h] = "pending" => LeftPending(r) \/ \E s \in Requests \ {r} : Explains(s, h)
      BY <2>4 DEF AnswersAreTrue, RejectedReplyIsTrue
    <3>2. pc[r] = "done"
      BY <2>4 DEF AnsweredIsDone
    <3>3. r \notin granted'[h] /\ status'[h] # "absent"
      BY <2>2, <3>1, <3>2, GrantStep, RowsStay
    <3>4. ASSUME status'[h] = "pending", status[h] # "pending"
          PROVE  \E s \in Requests \ {r} : Explains(s, h)'
      BY <2>2, <3>2, <3>4, PendingIsTaken
    <3>5. ASSUME status'[h] = "pending", status[h] = "pending"
          PROVE  LeftPending(r)' \/ \E s \in Requests \ {r} : Explains(s, h)'
      BY <2>2, <3>1, <3>5, LeftStays, ExplanationStays
    <3> QED BY <2>2, <3>3, <3>4, <3>5
  <2> QED BY <2>3, <2>4
<1>11. ConflictReplyIsTrue'
  <2> SUFFICES ASSUME NEW s \in Requests, reply'[s] = "conflict"
               PROVE  status'[job'[s].hash] # "absent"
    BY DEF ConflictReplyIsTrue
  <2>1. pc[s] # "idle"
    BY AnswerStep DEF AnsweredIsDone
  <2>2. job'[s] = job[s] /\ job[s].hash \in Hashes
    BY <1>0, <2>1, JobStays DEF IInv, HasJob, JobType
  <2>3. status[job[s].hash] # "absent"
    BY ConflictAnswer DEF AnswersAreTrue, ConflictReplyIsTrue, FoundIsThere
  <2> QED BY <2>2, <2>3, RowsStay
<1> QED BY <1>1, <1>2, <1>3, <1>4, <1>5, <1>6, <1>7, <1>8, <1>9, <1>10, <1>11 DEF AnswersAreTrue

LEMMA InitAnswers == Init => AnswersInv
BY BillingAssumption
   DEF Init, AnswersInv, AnsweredIsDone, RefusalsStand, RejectedForAReason, FoundIsThere,
       PendingIsLetGo, FaultsHaveBegun, AnswersAreTrue, VerifiedReplyIsTrue,
       PendingReplyIsTrue, RejectedReplyIsTrue, ConflictReplyIsTrue, PendingIsExplained,
       Deciding, Activating

\* What the answers rest on holds of every reachable state.
THEOREM AnswersRest == Spec => []AnswersInv
<1>1. Init => AnswersInv
  BY InitAnswers
<1>2. IInv /\ AnswersInv /\ [Next]_vars => AnswersInv'
  BY StepAnswers
<1> QED BY <1>1, <1>2, Invariance, PTL DEF Spec

\* Whoever is told "verified" was switched on by that payment; whoever is told
\* "pending" has a row that no retry reopens or refuses; whoever is told
\* "rejected" was granted nothing by it and can submit it again, except when the
\* rejection could not be written, or somebody else holds the row; and a row
\* left pending was left by who died, said so, or had a statement go wrong.
THEOREM AnswersTellTheTruth == Spec => []AnswersAreTrue
<1>1. AnswersInv => AnswersAreTrue
  BY DEF AnswersInv
<1> QED BY <1>1, AnswersRest, PTL

\* Nobody is refused for good whose payment succeeded, was to us, and covers
\* the price: whatever the price feed and the chains answered on the way.
THEOREM NoRefusalWithoutAReason == Spec => []RejectedForAReason
<1>1. AnswersInv => RejectedForAReason
  BY DEF AnswersInv
<1> QED BY <1>1, AnswersRest, PTL

-----------------------------------------------------------------------------
(* What is paid for *)

Suspends(r) ==
    /\ pc[r] = "setPending"
    /\ subStatus' = [subStatus EXCEPT ![job[r].user] = "pending"]
    /\ UNCHANGED <<periodEnd, bought, granted>>

Activates(r) ==
    /\ pc[r] = "upsert" /\ WorkspaceFree(job[r].user, job[r].want)
    /\ subStatus' = [subStatus EXCEPT ![job[r].user] = "active"]
    /\ periodEnd' = [periodEnd EXCEPT ![job[r].user] = newEnd[r]]
    /\ bought' = [bought EXCEPT ![job[r].user] = job[r].want]
    /\ granted' = [granted EXCEPT ![job[r].hash] = @ \cup {r}]
    /\ newEnd' = newEnd

\* The two statements that write a subscription.
LEMMA SubscriptionStep ==
    ASSUME IInv, [Next]_vars
    PROVE  \/ UNCHANGED subscriptions
           \/ \E r \in Requests : Suspends(r) \/ Activates(r)
<1>1. ASSUME NEW r \in Requests, NEW o \in Outcomes, Upsert(r, o)
      PROVE  UNCHANGED subscriptions \/ Activates(r)
  BY <1>1 DEF Upsert, Activates, subscriptions, locals
<1>2. ASSUME NEW r \in Requests, NEW o \in Outcomes, markSubscriptionPending(r, o)
      PROVE  UNCHANGED subscriptions \/ Suspends(r)
  BY <1>2 DEF markSubscriptionPending, Suspends, subscriptions
<1>3. ASSUME NEW r \in Requests,
             \/ Verify(r) \/ Judge(r) \/ Crash(r)
             \/ \E u \in Users, h \in Hashes, p \in Offers : Submit(r, u, h, p)
             \/ \E o \in Outcomes : \/ InsertClaim(r, o) \/ SelectExisting(r, o)
                                    \/ reopenSubmission(r, o) \/ MarkRejected(r, o)
                                    \/ MarkVerified(r, o) \/ ReadPeriod(r, o)
      PROVE  UNCHANGED subscriptions
  BY <1>3 DEF Verify, Judge, Crash, Submit, InsertClaim, SelectExisting, reopenSubmission,
              MarkRejected, MarkVerified, ReadPeriod, subscriptions
<1>4. CASE \/ Tick \/ UNCHANGED vars \/ \E h \in Hashes : ChainAdvances(h)
           \/ \E u \in Users, w \in Workspaces : RoleChanges(u, w)
  BY <1>4 DEF Tick, ChainAdvances, RoleChanges, Requested, subscriptions, vars
<1> QED BY <1>1, <1>2, <1>3, <1>4 DEF Next, Step

\* The locals of an activation are set when it starts.
LEMMA ReadStep ==
    ASSUME IInv, [Next]_vars, NEW s \in Requests, pc'[s] = "upsert"
    PROVE  \/ pc[s] = "upsert" /\ Kept(s)
           \/ newEnd'[s] > readEnd'[s]
<1> USE DEF IInv, TypeOK
<1>1. CASE Kept(s)
  BY <1>1 DEF Kept
<1>2. ASSUME NEW o \in Outcomes, ReadPeriod(s, o)
      PROVE  newEnd'[s] > readEnd'[s]
  <2> DEFINE end == periodEnd[job[s].user]
  <2>1. job[s].user \in Users
    BY <1>2 DEF ReadPeriod, HasJob, JobType
  <2>2. /\ readEnd'[s] = end
        /\ newEnd'[s] = ExtendFrom(end) + intervalDays(job[s].want.interval)
    BY <1>2 DEF ReadPeriod, Answer
  <2>3. end \in Nat /\ ExtendFrom(end) \in Nat /\ ExtendFrom(end) >= end
    BY <2>1 DEF ExtendFrom, Larger
  <2>4. intervalDays(job[s].want.interval) \in Nat \ {0}
    BY DaysType
  <2> QED
    <3> HIDE DEF end
    <3> QED BY <2>2, <2>3, <2>4
<1>3. ASSUME NEW o \in Outcomes
      PROVE  ~(InsertClaim(s, o) \/ SelectExisting(s, o) \/ reopenSubmission(s, o))
  BY DEF InsertClaim, SelectExisting, reopenSubmission, Goto, Answer
<1>4. ASSUME NEW o \in Outcomes
      PROVE  ~(MarkRejected(s, o) \/ markSubscriptionPending(s, o) \/ MarkVerified(s, o)
                \/ Upsert(s, o))
  BY DEF MarkRejected, markSubscriptionPending, MarkVerified, Upsert, Goto, Answer
<1>5. ~(Verify(s) \/ Judge(s) \/ Crash(s)
         \/ \E u \in Users, h \in Hashes, p \in Offers : Submit(s, u, h, p))
  BY DEF Verify, Judge, Crash, Submit, Goto
<1> QED BY <1>1, <1>2, <1>3, <1>4, <1>5, KeptOrMoves DEF Kept, Moves, Step, TypeInv

LEMMA InitPeriods == Init => PeriodsInv
BY DEF Init, PeriodsInv, ActiveIsBacked, OneRowPerWorkspace, UpsertExtends, NoPurchase

LEMMA StepPeriods ==
    ASSUME IInv, PeriodsInv, [Next]_vars
    PROVE  PeriodsInv'
<1> USE DEF PeriodsInv
<1>0. TypeInv /\ TypeOK
  BY DEF IInv, TypeInv
<1>1. ASSUME NEW r \in Requests, Activates(r)
      PROVE  job[r].user \in Users /\ job[r].hash \in Hashes /\ job[r].want \in Purchases
  BY <1>1 DEF Activates, IInv, HasJob, JobType
\* A grant, once made, keeps the locals it was made with.
<1>2. ASSUME NEW h \in Hashes, NEW r \in granted[h]
      PROVE  r \in Requests /\ r \in granted'[h] /\ Kept(r)
  BY <1>0, <1>2, GrantsStay, EndedStays DEF IInv, GrantsComeLast, TypeOK
<1>3. ActiveIsBacked'
  <2> SUFFICES ASSUME NEW u \in Users, subStatus'[u] = "active"
               PROVE  \E h \in Hashes : \E r \in granted'[h] :
                          /\ job'[r].user = u /\ job'[r].want = bought'[u]
                          /\ newEnd'[r] = periodEnd'[u]
    BY DEF ActiveIsBacked
  <2>1. CASE /\ subStatus'[u] = subStatus[u] /\ periodEnd'[u] = periodEnd[u]
             /\ bought'[u] = bought[u]
    <3>1. PICK h \in Hashes : \E r \in granted[h] :
              job[r].user = u /\ job[r].want = bought[u] /\ newEnd[r] = periodEnd[u]
      BY <2>1 DEF ActiveIsBacked
    <3>2. PICK r \in granted[h] :
              job[r].user = u /\ job[r].want = bought[u] /\ newEnd[r] = periodEnd[u]
      BY <3>1
    <3> QED BY <1>2, <2>1, <3>2 DEF Kept
  <2>2. ASSUME NEW r \in Requests, Activates(r), job[r].user = u
        PROVE  \E h \in Hashes : r \in granted'[h] /\ job'[r].user = u
                    /\ job'[r].want = bought'[u] /\ newEnd'[r] = periodEnd'[u]
    <3>1. job'[r] = job[r]
      BY <1>0, <2>2, JobStays DEF Activates
    <3> QED BY <1>0, <1>1, <2>2, <3>1 DEF Activates, TypeOK
  <2> QED BY <1>0, <1>1, <2>1, <2>2, SubscriptionStep
          DEF subscriptions, Suspends, Activates, TypeOK
<1>4. OneRowPerWorkspace'
  <2>1. ASSUME NEW r \in Requests, Activates(r)
        PROVE  OneRowPerWorkspace'
    BY <1>0, <1>1, <2>1 DEF Activates, WorkspaceFree, OneRowPerWorkspace, TypeOK
  <2> QED BY <2>1, SubscriptionStep DEF subscriptions, Suspends, OneRowPerWorkspace
<1>5. UpsertExtends'
  BY ReadStep DEF UpsertExtends, Kept
<1> QED BY <1>3, <1>4, <1>5

\* What an entitlement rests on holds of every reachable state.
THEOREM PeriodsRest == Spec => []PeriodsInv
<1>1. Init => PeriodsInv
  BY InitPeriods
<1>2. IInv /\ PeriodsInv /\ [Next]_vars => PeriodsInv'
  BY StepPeriods
<1> QED BY <1>1, <1>2, Invariance, PTL DEF Spec

\* Somebody is entitled to a plan only by a grant of it that has not run out,
\* and a workspace has one paying row at most.
THEOREM EntitledByPaying == Spec => []EntitlementIsEarned
<1>1. TypeOK /\ PeriodsInv => EntitledByAGrant
  BY DEF PeriodsInv, ActiveIsBacked, EntitledByAGrant, Entitled, getSubscriptionState,
         ActiveNow, TypeOK
<1>2. PeriodsInv => SeatsUnambiguous
  BY BillingAssumption
     DEF PeriodsInv, OneRowPerWorkspace, SeatsUnambiguous, workspace_paid_seats
<1> QED BY <1>1, <1>2, TypeCorrect, PeriodsRest, PTL DEF EntitlementIsEarned

\* Paid time is shortened only by an upsert that rests on a stale read, and an
\* entitlement that has not run out is only lost to one or to an outage.
THEOREM PaidTimeStays == Spec => PaidTimeIsKept
<1> DEFINE Shortens(u) == \E r \in Requests : /\ pc[r] = "upsert" /\ job[r].user = u
                                             /\ readEnd[r] # periodEnd[u]
           Outage(u) == \E r \in Requests : pc[r] = "setPending" /\ job[r].user = u
<1>1. ASSUME IInv, PeriodsInv, [Next]_vars, NEW u \in Users, periodEnd'[u] < periodEnd[u]
      PROVE  Shortens(u)
  <2>1. PICK r \in Requests : Activates(r) /\ job[r].user = u
    BY <1>1, SubscriptionStep DEF subscriptions, Suspends, Activates, IInv, TypeOK
  <2>2. pc[r] = "upsert" /\ periodEnd'[u] = newEnd[r] /\ newEnd[r] > readEnd[r]
    BY <1>1, <2>1 DEF Activates, IInv, TypeOK, PeriodsInv, UpsertExtends
  <2> QED BY <1>1, <2>1, <2>2 DEF IInv, TypeOK
<1>2. ASSUME IInv, PeriodsInv, [Next]_vars, NEW u \in Users,
             Entitled(u), now' = now, ~Entitled(u)'
      PROVE  Shortens(u) \/ Outage(u)
  <2>0. subStatus[u] = "active" /\ periodEnd[u] > now
    BY <1>2 DEF Entitled, getSubscriptionState, ActiveNow
  <2>1. \/ subStatus'[u] # subStatus[u] \/ periodEnd'[u] # periodEnd[u] \/ bought'[u] # bought[u]
    BY <1>2 DEF Entitled, getSubscriptionState, ActiveNow
  <2>2. ASSUME NEW r \in Requests, Suspends(r)
        PROVE  Outage(u)
    BY <2>1, <2>2 DEF Suspends, IInv, TypeOK
  <2>3. ASSUME NEW r \in Requests, Activates(r)
        PROVE  Shortens(u)
    <3>1. job[r].user = u /\ pc[r] = "upsert" /\ job[r].want \in Purchases
      BY <1>2, <2>1, <2>3 DEF Activates, IInv, TypeOK, HasJob, JobType
    <3>2. subStatus'[u] = "active" /\ periodEnd'[u] = newEnd[r] /\ bought'[u].plan # "free"
      BY <1>2, <2>3, <3>1 DEF Activates, IInv, TypeOK, Purchases
    <3>3. ~(newEnd[r] > now)
      BY <1>2, <3>2 DEF Entitled, getSubscriptionState, ActiveNow
    <3>4. newEnd[r] > readEnd[r]
      BY <1>2, <3>1 DEF PeriodsInv, UpsertExtends
    <3> QED BY <1>2, <2>0, <3>1, <3>3, <3>4 DEF IInv, TypeOK
  <2> QED BY <1>2, <2>1, <2>2, <2>3, SubscriptionStep DEF subscriptions
<1>3. Spec => OnlyAStaleReadShortens
  <2>1. IInv /\ PeriodsInv /\ [Next]_vars =>
       [\A u \in Users : periodEnd'[u] < periodEnd[u] =>
          \E r \in Requests : /\ pc[r] = "upsert" /\ job[r].user = u
                              /\ readEnd[r] # periodEnd[u]]_vars
    BY <1>1
  <2> QED BY <2>1, Invariance, PeriodsRest, PTL DEF Spec, OnlyAStaleReadShortens
<1>4. Spec => OnlyAnOutageSuspends
  <2>1. IInv /\ PeriodsInv /\ [Next]_vars =>
       [\A u \in Users : Entitled(u) /\ now' = now /\ ~Entitled(u)' =>
          \E r \in Requests : /\ job[r].user = u
                              /\ \/ pc[r] = "setPending"
                                 \/ pc[r] = "upsert" /\ readEnd[r] # periodEnd[u]]_vars
    BY <1>2
  <2> QED BY <2>1, Invariance, PeriodsRest, PTL DEF Spec, OnlyAnOutageSuspends
<1> QED BY <1>3, <1>4 DEF PaidTimeIsKept

=============================================================================
