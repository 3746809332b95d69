------------------------------ MODULE Workspaces ------------------------------
(***************************************************************************)
(* Shared workspaces: who is in them, in which role, how one gets in and   *)
(* out, and what the deletion of an account takes with it.  The rules are  *)
(* Postgres's: row-level security, three functions and the foreign keys.   *)
(*                                                                         *)
(* One statement is one step.  transfer_workspace_ownership is two, its    *)
(* checks and its writes: under READ COMMITTED nothing the checks read is  *)
(* locked.  deleteAccount is two as well, the preview and the deletion.    *)
(***************************************************************************)
EXTENDS Naturals, FiniteSets

CONSTANTS
    Users, Spaces, Nobody, Gone,
    PreviewRows,    \* the limit on the membership rows a preview reads
    MaxTransfers    \* bound on transfers in flight at one time

ASSUME WorkspacesAssumption ==
    /\ Nobody \notin Users /\ Gone \notin Users /\ Nobody # Gone
    /\ IsFiniteSet(Users) /\ IsFiniteSet(Spaces)
    /\ PreviewRows \in Nat

VARIABLES
    accounts,    \* auth.users
    owner,       \* workspaces.owner; Nobody before a workspace is created, Gone after
    role,        \* workspace_members: the role of each user in each workspace
    invite,      \* workspace_invitations: the row of each user's address
    billed,      \* the accounts with a payment or subscription row that names it
    transfers,   \* transfers that passed their checks and wrote nothing yet
    deleting,    \* accounts whose preview found nothing in the way
    blind,       \* history: those of them whose preview did not see all they own
    since        \* history: who shares a workspace of the others only since then, as
                 \* <<account, workspace, member>>

vars == <<accounts, owner, role, invite, billed, transfers, deleting, blind, since>>
rows == <<accounts, owner, role, invite, billed>>
jobs == <<transfers, deleting, blind>>

Roles == {"none", "member", "admin", "owner"}
NoInvite == [state |-> "none", role |-> "member", by |-> Nobody]
Transfer == [space : Spaces, from : Users, to : Users]

Members(w) == {u \in Users : role[w][u] # "none"}
Exists(w) == owner[w] \in Users
can_administer_workspace(u, w) == role[w][u] \in {"owner", "admin"}

Init ==
    /\ accounts \in SUBSET Users \ {{}}
    /\ owner = [w \in Spaces |-> Nobody]
    /\ role = [w \in Spaces |-> [u \in Users |-> "none"]]
    /\ invite = [w \in Spaces |-> [u \in Users |-> NoInvite]]
    /\ billed = [w \in Spaces |-> {}]
    /\ transfers = {} /\ deleting = {} /\ blind = {} /\ since = {}

-----------------------------------------------------------------------------
(* Creating and deleting a workspace *)

\* The insert, and the trigger that makes its owner a member.
createWorkspace(u, w) ==
    /\ u \in accounts /\ owner[w] = Nobody
    /\ owner' = [owner EXCEPT ![w] = u]
    /\ role' = [role EXCEPT ![w][u] = "owner"]
    /\ UNCHANGED <<accounts, invite, billed, jobs>>

\* A Team payment names the workspace it is for, and its row stays whatever
\* becomes of the payment (payment_submissions_insert_own).
payForTeam(u, w) ==
    /\ can_administer_workspace(u, w)
    /\ billed' = [billed EXCEPT ![w] = @ \cup {u}]
    /\ UNCHANGED <<accounts, owner, role, invite, jobs>>

\* Mutant of HeldBack: the rows go with the workspace.
HeldBackByNone(w, u) == FALSE
\* The foreign key sets a row's workspace to null, which the Team check of the
\* row refuses: the deletion fails.  u's own rows are gone with u's account.
HeldBack(w, u) == billed[w] \ {u} # {}

deleteWorkspace(u, w) ==
    /\ owner[w] = u /\ ~HeldBack(w, Nobody)
    /\ owner' = [owner EXCEPT ![w] = Gone]
    /\ role' = [role EXCEPT ![w] = [v \in Users |-> "none"]]
    /\ invite' = [invite EXCEPT ![w] = [v \in Users |-> NoInvite]]
    /\ billed' = [billed EXCEPT ![w] = {}]
    /\ UNCHANGED <<accounts, jobs>>

-----------------------------------------------------------------------------
(* Invitations: one row per workspace and address *)

inviteMember(a, w, v, r) ==
    /\ can_administer_workspace(a, w)
    /\ invite[w][v].state = "none"      \* else: already invited
    /\ invite' = [invite EXCEPT ![w][v] = [state |-> "open", role |-> r, by |-> a]]
    /\ UNCHANGED <<accounts, owner, role, billed, jobs>>

Marked(row, state) == [state |-> state, role |-> row.role, by |-> row.by]

\* expires_at comes.
Expire(w, v) ==
    /\ invite[w][v].state = "open"
    /\ invite' = [invite EXCEPT ![w][v] = Marked(@, "expired")]
    /\ UNCHANGED <<accounts, owner, role, billed, jobs>>

\* What the settings page offers to withdraw.
Listed(w, v) == invite[w][v].state \in {"open", "expired"}

\* Withdrawn by an administrator, or declined.
revokeInvitation(a, w, v) ==
    /\ can_administer_workspace(a, w) \/ (a = v /\ a \in accounts)
    /\ Listed(w, v)
    /\ invite' = [invite EXCEPT ![w][v] = NoInvite]
    /\ UNCHANGED <<accounts, owner, role, billed, jobs>>

\* Mutant of IsOpen: an invitation that was used still counts.
IsThere(w, v) == invite[w][v].state # "none"
IsOpen(w, v) == invite[w][v].state = "open"

\* accept_workspace_invitation: a member's role is not touched by it.
RoleOnAccept(w, v) == IF role[w][v] = "none" THEN invite[w][v].role ELSE role[w][v]

acceptInvitation(v, w) ==
    /\ v \in accounts /\ IsOpen(w, v)
    /\ role' = [role EXCEPT ![w][v] = RoleOnAccept(w, v)]
    /\ invite' = [invite EXCEPT ![w][v] = Marked(@, "accepted")]
    /\ UNCHANGED <<accounts, owner, billed, jobs>>

-----------------------------------------------------------------------------
(* Members *)

\* The owner's row is out of reach of both policies.
Touchable(w, v) == role[w][v] \in {"admin", "member"}

changeMemberRole(a, w, v, r) ==
    /\ can_administer_workspace(a, w) /\ Touchable(w, v)
    /\ role' = [role EXCEPT ![w][v] = r]
    /\ UNCHANGED <<accounts, owner, invite, billed, jobs>>

\* removeMember, and leaveWorkspace when a is v.
removeMember(a, w, v) ==
    /\ Touchable(w, v)
    /\ can_administer_workspace(a, w) \/ a = v
    /\ role' = [role EXCEPT ![w][v] = "none"]
    /\ UNCHANGED <<accounts, owner, invite, billed, jobs>>

\* The membership rows u can read: all rows of every workspace u is in.
Visible(u) == {row \in Spaces \X Users : {u, row[2]} \subseteq Members(row[1])}

-----------------------------------------------------------------------------
(* transfer_workspace_ownership *)

transferChecks(a, w, v) ==
    /\ Cardinality(transfers) < MaxTransfers
    /\ owner[w] = a /\ v \in Members(w)
    /\ transfers' = transfers \cup {[space |-> w, from |-> a, to |-> v]}
    /\ UNCHANGED <<rows, deleting, blind>>

\* The two updates of workspace_members: each touches a row that is there.
Demoted(t) == [role[t.space] EXCEPT ![t.from] = IF @ = "none" THEN @ ELSE "admin"]
Promoted(t) == [Demoted(t) EXCEPT ![t.to] = IF @ = "none" THEN @ ELSE "owner"]

\* workspace_members_single_owner_idx.
SingleOwner(roles) == \A u, v \in Users : roles[u] = "owner" /\ roles[v] = "owner" => u = v

\* Mutant of NewOwner: workspaces.owner is left to the freeze trigger.
FrozenOwner(t) == owner[t.space]
NewOwner(t) == IF Exists(t.space) THEN t.to ELSE owner[t.space]

\* Transfers of one workspace come one after the other.
InTurn == \A s, t \in transfers : s.space = t.space => s = t

transferWrites(t) ==
    /\ t \in transfers
    /\ transfers' = transfers \ {t}
    /\ IF SingleOwner(Promoted(t)) /\ (Exists(t.space) => t.to \in accounts)
       THEN /\ role' = [role EXCEPT ![t.space] = Promoted(t)]
            /\ owner' = [owner EXCEPT ![t.space] = NewOwner(t)]
       ELSE UNCHANGED <<role, owner>>      \* rolled back
    /\ UNCHANGED <<accounts, invite, billed, deleting, blind>>

-----------------------------------------------------------------------------
(* deleteAccount *)

Owned(u) == {w \in Spaces : owner[w] = u}

\* Mutant of Blockers: one other member is let go.
BlockersAboveTwo(u) == {w \in Owned(u) : Cardinality(Members(w)) > 2}
Blockers(u) == {w \in Owned(u) : Members(w) \ {u} # {}}

\* The preview reads some of the rows, as many as its limit lets through: the
\* query has no order.
RowsRead(u) ==
    LET all == Cardinality(Visible(u)) IN IF all <= PreviewRows THEN all ELSE PreviewRows
MayMissBlockers(u) ==
    Cardinality({row \in Visible(u) : row[1] \notin Blockers(u)}) >= RowsRead(u)

SeesAll(u) == Cardinality(Visible(u)) <= PreviewRows /\ \A w \in Owned(u) : u \in Members(w)

previewDeletion(u) ==
    /\ u \in accounts \ deleting /\ MayMissBlockers(u)
    /\ deleting' = deleting \cup {u}
    /\ blind' = IF SeesAll(u) THEN blind ELSE blind \cup {u}
    /\ UNCHANGED <<rows, transfers>>

\* A read that fails has no error looked at: no rows, or no count, which is
\* taken for one member.
previewFails(u) ==
    /\ u \in accounts \ deleting
    /\ deleting' = deleting \cup {u} /\ blind' = blind \cup {u}
    /\ UNCHANGED <<rows, transfers>>

\* auth.users and everything that references it.
Cascade(u) ==
    /\ accounts' = accounts \ {u}
    /\ owner' = [w \in Spaces |-> IF owner[w] = u THEN Gone ELSE owner[w]]
    /\ role' = [w \in Spaces |-> [v \in Users |->
                   IF owner[w] = u \/ v = u THEN "none" ELSE role[w][v]]]
    /\ invite' = [w \in Spaces |-> [v \in Users |->
                   IF owner[w] = u \/ invite[w][v].by = u THEN NoInvite ELSE invite[w][v]]]
    /\ billed' = [w \in Spaces |-> IF owner[w] = u THEN {} ELSE billed[w] \ {u}]

\* admin.deleteUser may fail, and then nothing is removed.
deleteUser(u) ==
    /\ u \in deleting
    /\ deleting' = deleting \ {u} /\ blind' = blind \ {u}
    /\ \/ Cascade(u) /\ \A w \in Owned(u) : ~HeldBack(w, u)
       \/ UNCHANGED rows
    /\ UNCHANGED transfers

\* Who is in a workspace that is somebody else's.
Sharing == {x \in Users \X Spaces \X Users :
              owner[x[2]] = x[1] /\ x[3] \in Members(x[2]) \ {x[1]}}

Statement ==
    \/ \E u \in Users : previewDeletion(u) \/ previewFails(u) \/ deleteUser(u)
    \/ \E u \in Users, w \in Spaces :
          \/ createWorkspace(u, w) \/ deleteWorkspace(u, w) \/ payForTeam(u, w)
          \/ acceptInvitation(u, w) \/ Expire(w, u)
    \/ \E a, v \in Users, w \in Spaces :
          \/ removeMember(a, w, v) \/ revokeInvitation(a, w, v) \/ transferChecks(a, w, v)
          \/ \E r \in {"admin", "member"} : changeMemberRole(a, w, v, r) \/ inviteMember(a, w, v, r)
    \/ \E t \in transfers : transferWrites(t)

Next ==
    /\ Statement
    /\ since' = {x \in Sharing' : x[1] \in (deleting \cap deleting') \ blind'
                                 /\ (x \in Sharing => x \in since)}

Spec == Init /\ [][Next]_vars

-----------------------------------------------------------------------------
(* Properties *)

\* The tables hold what their columns allow, and a workspace that is not
\* there has neither members nor invitations.
TypeOK ==
    /\ accounts \subseteq Users /\ deleting \subseteq accounts /\ blind \subseteq deleting
    /\ since \subseteq (deleting \ blind) \X Spaces \X Users
    /\ owner \in [Spaces -> accounts \cup {Nobody, Gone}]
    /\ role \in [Spaces -> [Users -> Roles]]
    /\ invite \in [Spaces -> [Users -> [state : {"none", "open", "expired", "accepted"},
                                        role : {"member", "admin"},
                                        by : accounts \cup {Nobody}]]]
    /\ billed \in [Spaces -> SUBSET accounts]
    /\ transfers \subseteq Transfer
    /\ \A w \in Spaces : ~Exists(w) => /\ Members(w) = {} /\ billed[w] = {}
                                      /\ \A v \in Users : invite[w][v] = NoInvite

\* The two records of ownership agree: who carries the owner role is
\* workspaces.owner.  transfer_workspace_ownership moves both, whatever
\* removals and deletions come between its checks and its writes.  It takes
\* one transfer at a time: two that overlap can leave the column behind.
OwnerRowIsTheOwner ==
    \A w \in Spaces, u \in Users : role[w][u] = "owner" => owner[w] = u

\* Two owner rows are never in one workspace.
AtMostOneOwner ==
    \A w \in Spaces : Cardinality({u \in Users : role[w][u] = "owner"}) <= 1

\* Nobody gets into a workspace that exists but through an invitation that
\* is open at that moment, and each opens the door once: who left or was
\* removed stays out until invited again.
MembersCameByInvitation ==
    [][\A w \in Spaces, u \in Users :
          Exists(w) /\ role[w][u] = "none" /\ role'[w][u] # "none" =>
             invite[w][u].state = "open" /\ invite'[w][u].state = "accepted"]_vars

\* The owner of a workspace loses that role only by a transfer of their own,
\* with the workspace or with the account: no administrator demotes or
\* removes an owner.
OwnerNeverStripped ==
    [][\A w \in Spaces, u \in Users :
          role[w][u] = "owner" /\ role'[w][u] # "owner" =>
             \/ owner'[w] = Gone \/ u \notin accounts'
             \/ \E t \in transfers \ transfers' : t.space = w /\ t.from = u]_vars

\* A member's role comes from an administrator or a transfer: accepting an
\* invitation again, one for another role, changes nothing.
AcceptingKeepsTheRole ==
    [][\A w \in Spaces, u \in Users :
          invite[w][u].state = "open" /\ invite'[w][u].state = "accepted" /\ u \in Members(w)
             => role'[w][u] = role[w][u]]_vars

\* Migration 20260201000000_workspaces.sql:31: a workspace has exactly one
\* owner, "a foreign key, not a query".  That owner is one of its members.
ExactlyOneOwner ==
    \A w \in Spaces : Exists(w) => role[w][owner[w]] = "owner"

\* Whoever loses a workspace to the deletion of somebody else's account came into
\* it, or saw it handed over to that account, after the deletion looked: who was
\* there before is seen, whatever joins, leaves and transfers go on. But for a
\* preview a read of which failed, that had more rows to read than its limit, or
\* that was of an owner without a membership row. In these cases, and for those who
\* come after it looked, delete.ts:21 ("deletion is REFUSED while such a workspace
\* has other members") is not kept.
OnlyNewcomersLose ==
    [][\A u \in accounts \ accounts' : u \notin blind =>
          \A x \in Sharing : x[1] = u => x \in since]_vars

\* No deletion, of a workspace or of an account with all it owns, takes along
\* the record of what somebody else paid (20260201000300_billing_plans.sql:34,
\* "deleting a workspace must not silently delete the record of money someone
\* paid").
PaymentsAreKept ==
    [][\A w \in Spaces : billed[w] \ billed'[w] \subseteq accounts \ accounts']_vars

\* Roles are given by invitation, and taken from an owner by nobody else
\* (the policies of workspace_members and workspace_invitations).
RolesAreGiven == MembersCameByInvitation /\ AcceptingKeepsTheRole /\ OwnerNeverStripped

\* A deletion takes a workspace from nobody it could see, and no record of what
\* somebody else paid (delete.ts, 20260201000300_billing_plans.sql).
DeletionsSpareOthers == OnlyNewcomersLose /\ PaymentsAreKept

=============================================================================
