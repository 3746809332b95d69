----------------------------- MODULE BillingPanel -----------------------------
(***************************************************************************)
(* The billing page in one browser: the choice of what to buy, which lives *)
(* in the URL, and the panel below it, which submits a transaction, shows  *)
(* the verdict and a card with the subscription.  The server's side is     *)
(* Billing; here it is one record that its answers are taken from.         *)
(*                                                                         *)
(* A parameter that is absent, or is no such value, is None.               *)
(***************************************************************************)
EXTENDS Naturals

CONSTANTS Workspaces,
          MaxSeats,     \* of a team
          MaxClicks,    \* bound: what the user does, and what changes elsewhere
          None

VARIABLES params,       \* of the URL on show, None before the first page
          navigating,   \* of the page asked for, or None
          card,         \* the panel's copy of the subscription; Unread when the page could not tell
          result,       \* the verdict on show, or None
          administered, \* the workspaces the account can buy a team's seats for
          submission, statusRead,   \* the requests on their way, or None
          sub,          \* the subscription on the server
          clicks,
          actives,      \* history: what the server has ever had active
          crossed       \* history: a status read came after a verdict it was sent before
billingVars == <<params, navigating, card, result, submission, statusRead, sub, clicks, actives, crossed, administered>>

minSeats == [pro |-> 1, team |-> 2]
maxSeats == [pro |-> 1, team |-> MaxSeats]
clamp(n, plan) ==
  IF n < minSeats[plan] THEN minSeats[plan] ELSE IF n > maxSeats[plan] THEN maxSeats[plan] ELSE n

\* What the server reads of the parameters and hands to chooser and panel.
readSelection(p) ==
  LET plan == IF p.plan = "team" THEN "team" ELSE "pro" IN
  [plan |-> plan,
   interval |-> IF p.interval = "annual" THEN "annual" ELSE "monthly",
   seats |-> IF p.seats = None THEN minSeats[plan] ELSE clamp(p.seats, plan),
   workspaceId |-> IF plan = "pro" \/ administered = {} THEN None
                   ELSE IF p.workspace \in administered THEN p.workspace
                   ELSE CHOOSE w \in administered : TRUE]
selection == readSelection(params)
\* A team is bought for a workspace; without one there is no panel.
Panel(p) == ~(p.plan = "team" /\ administered = {})
Mounted == params # None /\ Panel(params)

\* The page is told "none" when the subscription cannot be read.
NoSub == [status |-> "none", bought |-> None]
Unread == [status |-> "unknown", bought |-> None]
getSubscriptionState == {sub, NoSub}

Init ==
  /\ params = None /\ administered \in SUBSET Workspaces
  /\ navigating = [plan |-> None, interval |-> None, seats |-> None, workspace |-> None]
  /\ sub \in {NoSub, [status |-> "pending", bought |-> None],
              [status |-> "active", bought |-> readSelection(navigating)]}
  /\ card = Unread
  /\ result = None /\ submission = None /\ statusRead = None /\ clicks = 0 /\ crossed = FALSE
  /\ actives = IF sub.status = "active" THEN {sub.bought} ELSE {}

Clicks == clicks < MaxClicks /\ clicks' = clicks + 1
panelState == <<card, result, submission, statusRead, crossed>>
server == <<sub, actives, administered>>

-----------------------------------------------------------------------------
(* The choice *)

\* A link, or replace: one parameter changed of the URL on show, not of the one
\* that is being gone to, which it takes the place of.
hrefWith(patched) ==
  /\ Clicks /\ navigating' = patched
  /\ UNCHANGED <<params, panelState, server>>
choosePlan == params # None /\ (
  \/ hrefWith([params EXCEPT !.plan = "pro", !.seats = None])
  \/ hrefWith([params EXCEPT !.plan = "team", !.seats = minSeats["team"]]))
chooseInterval == params # None /\ \E interval \in {"monthly", "annual"} : hrefWith([params EXCEPT !.interval = interval])
chooseSeats ==
  /\ params # None /\ selection.plan = "team"
  /\ \E typed \in 0..(MaxSeats + 1) :
       /\ clamp(typed, "team") # selection.seats
       /\ hrefWith([params EXCEPT !.seats = clamp(typed, "team")])
chooseWorkspace ==
  params # None /\ selection.plan = "team" /\ \E w \in administered : hrefWith([params EXCEPT !.workspace = w])

\* The page arrives. A panel that stays keeps its state; a new one is given the
\* subscription as it was read for the page, and one that goes takes the answers
\* it was waiting for with it.
BillingPage ==
  /\ navigating # None
  /\ params' = navigating /\ navigating' = None
  /\ IF Mounted /\ Panel(navigating) THEN UNCHANGED panelState
     ELSE /\ card' \in IF Panel(navigating) THEN getSubscriptionState ELSE {Unread}
          /\ result' = None /\ submission' = None /\ statusRead' = None /\ crossed' = FALSE
  /\ UNCHANGED <<server, clicks>>

-----------------------------------------------------------------------------
(* Submitting *)

\* The form, or "Try again" under a rejection.
submit ==
  /\ Mounted /\ submission = None /\ Clicks
  /\ submission' = [body |-> selection, verdict |-> None]
  /\ result' = None /\ crossed' = FALSE
  /\ UNCHANGED <<params, navigating, card, statusRead, server>>

Verdicts == {"verified", "pending", "rejected", "retryable", "duplicate", "rate_limited", "error"}
Becomes(s) == UNCHANGED administered /\ sub' = s /\ actives' = actives \cup (IF s.status = "active" THEN {s.bought} ELSE {})
Active(body) == [status |-> "active", bought |-> body]

\* An answer that is an error, or pending, can follow a change that was made.
submissionHandled ==
  /\ submission # None /\ submission.verdict = None
  /\ \E verdict \in Verdicts :
       /\ submission' = [submission EXCEPT !.verdict = verdict]
       /\ \/ verdict \in {"verified", "error"} /\ Becomes(Active(submission.body))
          \/ verdict \in {"pending", "error"} /\ Becomes([status |-> "pending", bought |-> None])
          \/ verdict # "verified" /\ UNCHANGED server
  /\ UNCHANGED <<params, navigating, card, result, statusRead, clicks, crossed>>

\* Mutant of CardAfter: the card takes the plan that is chosen by now.
CardAfterNow(verdict) ==
  CASE verdict = "verified" -> Active(selection)
    [] verdict = "pending"  -> [card EXCEPT !.status = "pending"]
    [] OTHER -> card
\* The card takes what was bought over from the submission; a claim buys nothing.
CardAfter(verdict) ==
  CASE verdict = "verified" -> Active(submission.body)
    [] verdict = "pending"  -> [card EXCEPT !.status = "pending"]
    [] OTHER -> card

\* The response arrives, or the connection drops.
submissionAnswered ==
  /\ submission # None /\ submission.verdict # None
  /\ \E verdict \in {submission.verdict, "error"} :
       /\ result' = verdict /\ card' = CardAfter(verdict)
       /\ statusRead' = IF statusRead # None /\ verdict = "verified"
                        THEN [statusRead EXCEPT !.behind = TRUE] ELSE statusRead
  /\ submission' = None
  /\ UNCHANGED <<params, navigating, server, clicks, crossed>>

-----------------------------------------------------------------------------
(* "Check again" *)

refreshStatus ==
  /\ Mounted /\ result = "pending" /\ statusRead = None /\ Clicks
  /\ statusRead' = [got |-> Unread, behind |-> FALSE]   \* behind: history, see crossed
  /\ UNCHANGED <<params, navigating, card, result, submission, server, crossed>>

\* GET /api/billing/status.
statusHandled ==
  /\ statusRead # None /\ statusRead.got = Unread
  /\ \E got \in getSubscriptionState : statusRead' = [statusRead EXCEPT !.got = got]
  /\ UNCHANGED <<params, navigating, card, result, submission, server, clicks, crossed>>

\* Refused, unreadable or lost, it leaves the card as it is.
statusAnswered ==
  /\ statusRead # None
  /\ \/ /\ statusRead.got # Unread
        /\ card' = statusRead.got /\ crossed' = (crossed \/ statusRead.behind)
     \/ UNCHANGED <<card, crossed>>
  /\ statusRead' = None
  /\ UNCHANGED <<params, navigating, result, submission, server, clicks>>

\* Another tab, an operator, or time.
Elsewhere ==
  /\ Clicks
  /\ \/ \E interval \in {"monthly", "annual"} :
          Becomes(Active([plan |-> "pro", interval |-> interval, seats |-> 1, workspaceId |-> None]))
     \/ sub.status = "active" /\ Becomes([status |-> "expired", bought |-> None])
  /\ UNCHANGED <<params, navigating, panelState>>

Next ==
  \/ choosePlan \/ chooseInterval \/ chooseSeats \/ chooseWorkspace \/ BillingPage
  \/ submit \/ submissionHandled \/ submissionAnswered
  \/ refreshStatus \/ statusHandled \/ statusAnswered \/ Elsewhere
Spec == Init /\ [][Next]_billingVars

-----------------------------------------------------------------------------

\* What the badge of the card says.
statusView(state) ==
  CASE state.status = "unknown" -> "Unknown"
    [] state.status = "active"  -> "Active"
    [] state.status = "pending" -> "Pending"
    [] state.status = "expired" -> "Expired"
    [] OTHER -> "Free"

\* The card says "Active" only of a purchase that the server has had active,
\* whatever was chosen or answered in between; and below "Payment verified" it
\* says so, unless a status read that was sent before the payment came after it.
CardSpeaksForTheServer ==
  /\ statusView(card) = "Active" => card.bought \in actives
  /\ Mounted /\ result = "verified" /\ statusView(card) # "Active" => crossed

\* app/billing/page.tsx:95: "'Unknown' and 'none' are different answers, and a
\* page about somebody's money must not print the second when it means the first."
\* The code does not keep this: the read it asks answers "none" when it fails.
NoneIsNotUnknown == [][~Mounted /\ Mounted' /\ card' = NoSub => sub = NoSub]_billingVars

=============================================================================
