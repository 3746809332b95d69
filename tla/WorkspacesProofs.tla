--------------------------- MODULE WorkspacesProofs ---------------------------
(* Proofs about Workspaces, for any users, workspaces and transfers in flight, *)
(* and about the instance of it that MCWorkspaces checks.                      *)
EXTENDS MCWorkspaces, FiniteSetTheorems, TLAPS

-----------------------------------------------------------------------------
(* The statements *)

LEMMA Cases ==
  ASSUME [Next]_vars
  PROVE  \/ \E u \in Users : previewDeletion(u)
         \/ \E u \in Users : previewFails(u)
         \/ \E u \in Users : deleteUser(u)
         \/ \E u \in Users, w \in Spaces : createWorkspace(u, w)
         \/ \E u \in Users, w \in Spaces : deleteWorkspace(u, w)
         \/ \E u \in Users, w \in Spaces : payForTeam(u, w)
         \/ \E u \in Users, w \in Spaces : acceptInvitation(u, w)
         \/ \E u \in Users, w \in Spaces : Expire(w, u)
         \/ \E a, v \in Users, w \in Spaces : removeMember(a, w, v)
         \/ \E a, v \in Users, w \in Spaces : revokeInvitation(a, w, v)
         \/ \E a, v \in Users, w \in Spaces : transferChecks(a, w, v)
         \/ \E a, v \in Users, w \in Spaces, r \in {"admin", "member"} : changeMemberRole(a, w, v, r)
         \/ \E a, v \in Users, w \in Spaces, r \in {"admin", "member"} : inviteMember(a, w, v, r)
         \/ \E t \in transfers : transferWrites(t)
         \/ UNCHANGED vars
BY DEF Next, Statement

-----------------------------------------------------------------------------
(* The tables *)

\* Members have accounts, and no workspace has two owner rows.
TablesInv ==
  /\ TypeOK
  /\ \A w \in Spaces : Members(w) \subseteq accounts /\ SingleOwner(role[w])

LEMMA SinceIsOfTheDeleting ==
  ASSUME [Next]_vars, since \subseteq (deleting \ blind) \X Spaces \X Users
  PROVE  since' \subseteq (deleting' \ blind') \X Spaces \X Users
BY DEF Next, Sharing, vars

LEMMA InitTables == Init => TablesInv
BY WorkspacesAssumption
   DEF Init, TablesInv, TypeOK, Members, SingleOwner, Exists, NoInvite, Roles

LEMMA StepTables ==
  ASSUME TablesInv, [Next]_vars
  PROVE  TablesInv'
<1>0. since' \subseteq (deleting' \ blind') \X Spaces \X Users
  BY SinceIsOfTheDeleting DEF TablesInv, TypeOK
<1> USE WorkspacesAssumption, <1>0 DEF TablesInv, TypeOK, Members, SingleOwner, Exists, NoInvite, Roles
<1>1. ASSUME NEW u \in Users, previewDeletion(u) PROVE TablesInv'
  BY <1>1 DEF previewDeletion, rows
<1>2. ASSUME NEW u \in Users, previewFails(u) PROVE TablesInv'
  BY <1>2 DEF previewFails, rows
<1>3. ASSUME NEW u \in Users, deleteUser(u) PROVE TablesInv'
  <2>1. CASE UNCHANGED rows
    BY <1>3, <2>1 DEF deleteUser, rows
  <2>2. CASE Cascade(u)
    <3>1. /\ u \in accounts /\ accounts' = accounts \ {u} /\ transfers' = transfers
          /\ deleting' = deleting \ {u} /\ blind' = blind \ {u}
      BY <1>3, <2>2 DEF deleteUser, Cascade
    <3>2. owner' \in [Spaces -> accounts' \cup {Nobody, Gone}]
      BY <2>2, <3>1 DEF Cascade
    <3>3. role' \in [Spaces -> [Users -> Roles]] /\ billed' \in [Spaces -> SUBSET accounts']
      BY <2>2, <3>1 DEF Cascade
    <3>4. invite' \in [Spaces -> [Users -> [state : {"none", "open", "expired", "accepted"},
                                            role : {"member", "admin"},
                                            by : accounts' \cup {Nobody}]]]
      <4>1. ASSUME NEW w \in Spaces, NEW v \in Users, invite[w][v].by # u
            PROVE  invite[w][v] \in [state : {"none", "open", "expired", "accepted"},
                                     role : {"member", "admin"}, by : accounts' \cup {Nobody}]
        BY <3>1, <4>1
      <4> QED BY <2>2, <4>1 DEF Cascade
    <3>5. ASSUME NEW w \in Spaces
          PROVE  Members(w)' \subseteq accounts' /\ SingleOwner(role[w])'
      BY <2>2, <3>1 DEF Cascade
    <3>6. ASSUME NEW w \in Spaces, ~Exists(w)'
          PROVE  /\ Members(w)' = {} /\ billed'[w] = {}
                 /\ \A v \in Users : invite'[w][v] = NoInvite
      BY <2>2, <3>1, <3>6 DEF Cascade
    <3> QED BY <3>1, <3>2, <3>3, <3>4, <3>5, <3>6
  <2> QED BY <1>3, <2>1, <2>2 DEF deleteUser
<1>4. ASSUME NEW u \in Users, NEW w \in Spaces, createWorkspace(u, w) PROVE TablesInv'
  BY <1>4 DEF createWorkspace, jobs
<1>5. ASSUME NEW u \in Users, NEW w \in Spaces, deleteWorkspace(u, w) PROVE TablesInv'
  BY <1>5 DEF deleteWorkspace, jobs
<1>6. ASSUME NEW u \in Users, NEW w \in Spaces, payForTeam(u, w) PROVE TablesInv'
  BY <1>6 DEF payForTeam, jobs, can_administer_workspace
<1>7. ASSUME NEW u \in Users, NEW w \in Spaces, acceptInvitation(u, w) PROVE TablesInv'
  BY <1>7 DEF acceptInvitation, jobs, RoleOnAccept, IsOpen, Marked
<1>8. ASSUME NEW u \in Users, NEW w \in Spaces, Expire(w, u) PROVE TablesInv'
  BY <1>8 DEF Expire, jobs, Marked
<1>9. ASSUME NEW a \in Users, NEW v \in Users, NEW w \in Spaces, removeMember(a, w, v)
      PROVE  TablesInv'
  BY <1>9 DEF removeMember, jobs, Touchable
<1>10. ASSUME NEW a \in Users, NEW v \in Users, NEW w \in Spaces, revokeInvitation(a, w, v)
       PROVE  TablesInv'
  BY <1>10 DEF revokeInvitation, jobs
<1>11. ASSUME NEW a \in Users, NEW v \in Users, NEW w \in Spaces, transferChecks(a, w, v)
       PROVE  TablesInv'
  BY <1>11 DEF transferChecks, rows, Transfer
<1>12. ASSUME NEW a \in Users, NEW v \in Users, NEW w \in Spaces, NEW r \in {"admin", "member"},
              changeMemberRole(a, w, v, r)
       PROVE  TablesInv'
  BY <1>12 DEF changeMemberRole, jobs, Touchable
<1>13. ASSUME NEW a \in Users, NEW v \in Users, NEW w \in Spaces, NEW r \in {"admin", "member"},
              inviteMember(a, w, v, r)
       PROVE  TablesInv'
  BY <1>13 DEF inviteMember, jobs, can_administer_workspace
<1>14. ASSUME NEW t \in transfers, transferWrites(t) PROVE TablesInv'
  <2>1. /\ t \in Transfer /\ t.space \in Spaces /\ t.from \in Users /\ t.to \in Users
        /\ role[t.space] \in [Users -> Roles]
    BY <1>14 DEF Transfer
  <2>2. /\ Promoted(t) \in [Users -> Roles]
        /\ \A u \in Users : Promoted(t)[u] # "none" <=> role[t.space][u] # "none"
    BY <2>1 DEF Promoted, Demoted
  <2>3. CASE UNCHANGED <<role, owner>>
    BY <1>14, <2>3 DEF transferWrites
  <2>4. CASE /\ SingleOwner(Promoted(t)) /\ (Exists(t.space) => t.to \in accounts)
             /\ role' = [role EXCEPT ![t.space] = Promoted(t)]
             /\ owner' = [owner EXCEPT ![t.space] = NewOwner(t)]
    <3>1. /\ UNCHANGED <<accounts, invite, billed, deleting, blind>>
          /\ transfers' \subseteq transfers
      BY <1>14 DEF transferWrites
    <3>2. owner' \in [Spaces -> accounts' \cup {Nobody, Gone}]
      BY <2>1, <2>4, <3>1 DEF NewOwner
    <3>3. role' \in [Spaces -> [Users -> Roles]]
      BY <2>2, <2>4
    <3>4. \A w \in Spaces : Exists(w)' <=> Exists(w)
      BY <2>1, <2>4 DEF NewOwner
    <3>5. \A w \in Spaces : Members(w)' = Members(w) /\ SingleOwner(role[w])'
      BY <2>1, <2>2, <2>4
    <3> QED BY <3>1, <3>2, <3>3, <3>4, <3>5
  <2> QED BY <1>14, <2>3, <2>4 DEF transferWrites
<1>15. CASE UNCHANGED vars
  BY <1>15 DEF vars
<1> HIDE DEF TablesInv, TypeOK, Members, SingleOwner, Exists, NoInvite, Roles
<1> QED BY <1>1, <1>2, <1>3, <1>4, <1>5, <1>6, <1>7, <1>8, <1>9, <1>10, <1>11, <1>12,
           <1>13, <1>14, <1>15, Cases
\* Type correctness, and what keeps it inductive.
THEOREM TablesHold == Spec => []TablesInv
BY InitTables, StepTables, PTL DEF Spec

-----------------------------------------------------------------------------
(* Owners *)

LEMMA OneOwner ==
  ASSUME TablesInv
  PROVE  AtMostOneOwner
<1>1. ASSUME NEW w \in Spaces PROVE Cardinality({u \in Users : role[w][u] = "owner"}) <= 1
  <2> DEFINE S == {u \in Users : role[w][u] = "owner"}
  <2>1. \A u, v \in S : u = v
    BY DEF TablesInv, SingleOwner
  <2>2. CASE S = {}
    <3>1. Cardinality(S) = 0
      BY <2>2, FS_EmptySet
    <3> QED BY <3>1
  <2>3. CASE S # {}
    <3>1. PICK u \in S : TRUE
      BY <2>3
    <3>2. S = {u}
      BY <2>1, <3>1
    <3>3. Cardinality(S) = 1
      BY <3>2, FS_Singleton
    <3> QED BY <3>3
  <2> QED BY <2>2, <2>3
<1> QED BY <1>1 DEF AtMostOneOwner

\* However transfers overlap, no workspace has two owner rows.
THEOREM NeverTwoOwners == Spec => []AtMostOneOwner
BY OneOwner, TablesHold, PTL

\* Whose transfer passed its checks owns the workspace until it is written.
OwnersInv ==
  /\ OwnerRowIsTheOwner
  /\ \A t \in transfers : owner[t.space] \in {t.from, Gone}

LEMMA InitOwners == Init => OwnersInv
BY DEF Init, OwnersInv, OwnerRowIsTheOwner

LEMMA StepOwners ==
  ASSUME TablesInv, OwnersInv, InTurn, [Next]_vars
  PROVE  OwnersInv'
<1> USE WorkspacesAssumption DEF OwnersInv, OwnerRowIsTheOwner, TablesInv, TypeOK, Members, Exists, Roles, Transfer
<1>1. ASSUME UNCHANGED <<owner, role, transfers>> PROVE OwnersInv'
  BY <1>1
<1>2. ASSUME NEW u \in Users, deleteUser(u) PROVE OwnersInv'
  <2>1. CASE Cascade(u)
    <3>1. owner' = [w \in Spaces |-> IF owner[w] = u THEN Gone ELSE owner[w]]
      BY <2>1 DEF Cascade
    <3>2. transfers' = transfers
      BY <1>2 DEF deleteUser
    <3>3. \A t \in transfers' : owner'[t.space] \in {t.from, Gone}
      BY <3>1, <3>2
    <3>4. ASSUME NEW w \in Spaces, NEW v \in Users, role'[w][v] = "owner" PROVE owner'[w] = v
      BY <2>1, <3>1, <3>4 DEF Cascade
    <3> QED BY <3>3, <3>4
  <2>2. CASE UNCHANGED rows
    BY <1>2, <2>2 DEF deleteUser, rows
  <2> QED BY <1>2, <2>1, <2>2 DEF deleteUser
<1>3. ASSUME NEW u \in Users, NEW w \in Spaces, createWorkspace(u, w) PROVE OwnersInv'
  BY <1>3 DEF createWorkspace, jobs
<1>4. ASSUME NEW u \in Users, NEW w \in Spaces, deleteWorkspace(u, w) PROVE OwnersInv'
  BY <1>4 DEF deleteWorkspace, jobs
<1>5. ASSUME NEW u \in Users, NEW w \in Spaces, acceptInvitation(u, w) PROVE OwnersInv'
  <2>1. invite[w][u].role \in {"member", "admin"} /\ role[w][u] \in Roles
    BY <1>5
  <2>2. /\ role' = [role EXCEPT ![w] = [role[w] EXCEPT ![u] = RoleOnAccept(w, u)]]
        /\ UNCHANGED <<owner, transfers>>
    BY <1>5 DEF acceptInvitation, jobs
  <2>3. RoleOnAccept(w, u) = "owner" => role[w][u] = "owner"
    BY <2>1 DEF RoleOnAccept
  <2> QED BY <2>2, <2>3
<1>6. ASSUME NEW a \in Users, NEW v \in Users, NEW w \in Spaces, removeMember(a, w, v)
      PROVE  OwnersInv'
  BY <1>6 DEF removeMember, jobs
<1>7. ASSUME NEW a \in Users, NEW v \in Users, NEW w \in Spaces, NEW r \in {"admin", "member"},
             changeMemberRole(a, w, v, r)
      PROVE  OwnersInv'
  BY <1>7 DEF changeMemberRole, jobs
<1>8. ASSUME NEW a \in Users, NEW v \in Users, NEW w \in Spaces, transferChecks(a, w, v)
      PROVE  OwnersInv'
  BY <1>8 DEF transferChecks, rows
<1>9. ASSUME NEW t \in transfers, transferWrites(t) PROVE OwnersInv'
  <2>1. /\ t.space \in Spaces /\ t.from \in Users /\ t.to \in Users
        /\ role[t.space] \in [Users -> Roles] /\ transfers' = transfers \ {t}
        /\ owner[t.space] \in {t.from, Gone}
    BY <1>9 DEF transferWrites
  <2>2. CASE UNCHANGED <<role, owner>>
    BY <2>1, <2>2
  <2>3. CASE /\ role' = [role EXCEPT ![t.space] = Promoted(t)]
             /\ owner' = [owner EXCEPT ![t.space] = NewOwner(t)]
    <3>1. ASSUME NEW s \in transfers' PROVE owner'[s.space] \in {s.from, Gone}
      <4>1. s \in transfers /\ s.space # t.space
        BY <2>1, <3>1 DEF InTurn
      <4> QED BY <2>3, <4>1
    <3>2. ASSUME NEW w \in Spaces, NEW u \in Users, role'[w][u] = "owner"
          PROVE  owner'[w] = u
      <4>1. CASE w # t.space
        BY <2>3, <3>2, <4>1
      <4>2. CASE w = t.space
        <5>1. Promoted(t)[u] = "owner"
          BY <2>1, <2>3, <3>2, <4>2
        <5>2. role[w][u] # "none" /\ Exists(w) /\ owner[w] = t.from
          BY <2>1, <4>2, <5>1 DEF Promoted, Demoted
        <5>3. u = t.to
          BY <2>1, <4>2, <5>1, <5>2 DEF Promoted, Demoted
        <5> QED BY <2>1, <2>3, <4>2, <5>2, <5>3 DEF NewOwner
      <4> QED BY <4>1, <4>2
    <3> QED BY <3>1, <3>2
  <2> QED BY <1>9, <2>2, <2>3 DEF transferWrites
<1> HIDE DEF OwnersInv, TablesInv, TypeOK, Exists
<1>10. \/ UNCHANGED <<owner, role, transfers>>
       \/ \E u \in Users : deleteUser(u)
       \/ \E u \in Users, w \in Spaces :
             createWorkspace(u, w) \/ deleteWorkspace(u, w) \/ acceptInvitation(u, w)
       \/ \E a, v \in Users, w \in Spaces :
             \/ removeMember(a, w, v) \/ transferChecks(a, w, v)
             \/ \E r \in {"admin", "member"} : changeMemberRole(a, w, v, r)
       \/ \E t \in transfers : transferWrites(t)
  BY Cases DEF previewDeletion, previewFails, payForTeam, Expire, revokeInvitation,
               inviteMember, rows, jobs, vars
<1> QED BY <1>1, <1>2, <1>3, <1>4, <1>5, <1>6, <1>7, <1>8, <1>9, <1>10

\* As long as the transfers of one workspace come one after the other, the
\* owner row and workspaces.owner agree, whatever removals, deletions and
\* departures come between the checks of a transfer and its writes.
THEOREM RecordsAgreeInTurn == Init /\ [][Next /\ InTurn']_vars => []OwnerRowIsTheOwner
<1>1. Init => TablesInv /\ OwnersInv /\ InTurn
  BY InitTables, InitOwners DEF Init, InTurn
<1>2. TablesInv /\ OwnersInv /\ InTurn /\ [Next /\ InTurn']_vars
        => TablesInv' /\ OwnersInv' /\ InTurn'
  BY StepTables, StepOwners DEF InTurn, vars
<1>3. OwnersInv => OwnerRowIsTheOwner
  BY DEF OwnersInv
<1> QED BY <1>1, <1>2, <1>3, PTL

\* Both together, for the settings the run checks (OwnersAgree).
THEOREM OwnersStayInStep == SmallSpec => []OwnersAgree
<1> DEFINE J == TablesInv /\ (setting # "overlap" => OwnersInv /\ InTurn)
<1>1. SmallInit => J
  BY InitTables, InitOwners DEF SmallInit, Init, InTurn
<1>2. J /\ [SmallNext]_<<vars, setting>> => J'
  <2>1. TablesInv /\ [SmallNext]_<<vars, setting>> => TablesInv'
    BY StepTables DEF SmallNext
  <2>2. ASSUME J, SmallNext, setting' # "overlap" PROVE OwnersInv' /\ InTurn'
    BY <2>2, StepOwners DEF SmallNext
  <2>3. ASSUME J, UNCHANGED <<vars, setting>>, setting' # "overlap"
        PROVE  OwnersInv' /\ InTurn'
    <3>1. UNCHANGED vars /\ OwnersInv /\ InTurn
      BY <2>3
    <3>2. OwnersInv'
      BY <2>3, <3>1, StepOwners
    <3> QED BY <3>1, <3>2 DEF vars, InTurn
  <2> QED BY <2>1, <2>2, <2>3
<1>3. J => OwnersAgree
  BY OneOwner DEF OwnersAgree, OwnerRowIsTheOwnerInTurn, OwnersInv
<1> QED BY <1>1, <1>2, <1>3, PTL DEF SmallSpec

-----------------------------------------------------------------------------
(* Roles *)

\* What a statement may do to a role: the three action properties, for one step.
Enters(w, u) == Exists(w) /\ role[w][u] = "none" /\ role'[w][u] # "none"
Accepted(w, u) == invite[w][u].state = "open" /\ invite'[w][u].state = "accepted"
Stripped(w, u) == role[w][u] = "owner" /\ role'[w][u] # "owner"
Lawful(w, u) ==
  /\ Enters(w, u) => Accepted(w, u)
  /\ Accepted(w, u) /\ u \in Members(w) => role'[w][u] = role[w][u]
  /\ Stripped(w, u) => \/ owner'[w] = Gone \/ u \notin accounts'
                      \/ \E t \in transfers \ transfers' : t.space = w /\ t.from = u

LEMMA StepRoles ==
  ASSUME TablesInv, [Next]_vars, NEW x \in Spaces, NEW y \in Users
  PROVE  Lawful(x, y)
<1> USE WorkspacesAssumption
    DEF Lawful, Enters, Accepted, Stripped, TablesInv, TypeOK, Members, Roles
<1>1. ASSUME role' = role, invite'[x][y] = invite[x][y] PROVE Lawful(x, y)
  BY <1>1
<1>2. ASSUME NEW u \in Users, deleteUser(u) PROVE Lawful(x, y)
  <2>1. CASE Cascade(u)
    <3>1. invite'[x][y] \in {NoInvite, invite[x][y]} /\ accounts' = accounts \ {u}
      BY <2>1 DEF Cascade
    <3>2. /\ owner[x] = u => owner'[x] = Gone
          /\ role'[x][y] = IF owner[x] = u \/ y = u THEN "none" ELSE role[x][y]
      BY <2>1 DEF Cascade
    <3> QED BY <3>1, <3>2 DEF NoInvite
  <2>2. CASE UNCHANGED rows
    BY <2>2 DEF rows
  <2> QED BY <1>2, <2>1, <2>2 DEF deleteUser
<1>3. ASSUME NEW u \in Users, NEW w \in Spaces, createWorkspace(u, w) PROVE Lawful(x, y)
  BY <1>3 DEF createWorkspace, jobs, Exists
<1>4. ASSUME NEW u \in Users, NEW w \in Spaces, deleteWorkspace(u, w) PROVE Lawful(x, y)
  <2>1. CASE x = w
    <3>1. invite'[x][y] = NoInvite /\ owner'[x] = Gone /\ role'[x][y] = "none"
      BY <1>4, <2>1 DEF deleteWorkspace
    <3> QED BY <3>1 DEF NoInvite
  <2>2. CASE x # w
    BY <1>4, <2>2 DEF deleteWorkspace
  <2> QED BY <2>1, <2>2
<1>5. ASSUME NEW u \in Users, NEW w \in Spaces, acceptInvitation(u, w) PROVE Lawful(x, y)
  <2>1. invite[w][u].state = "open" /\ invite'[w][u].state = "accepted"
    BY <1>5 DEF acceptInvitation, IsOpen, Marked
  <2>2. role'[w][u] = RoleOnAccept(w, u)
    BY <1>5 DEF acceptInvitation
  <2>3. role[w][u] # "none" => role'[w][u] = role[w][u]
    BY <2>2 DEF RoleOnAccept
  <2>4. CASE x = w /\ y = u
    BY <2>1, <2>3, <2>4
  <2>5. CASE ~(x = w /\ y = u)
    <3>1. role'[x][y] = role[x][y] /\ invite'[x][y] = invite[x][y]
      BY <1>5, <2>5 DEF acceptInvitation
    <3> QED BY <3>1
  <2> QED BY <2>4, <2>5
<1>6. ASSUME NEW u \in Users, NEW w \in Spaces, Expire(w, u) PROVE Lawful(x, y)
  BY <1>6 DEF Expire, Marked
<1>7. ASSUME NEW a \in Users, NEW v \in Users, NEW w \in Spaces,
             removeMember(a, w, v) \/ \E r \in {"admin", "member"} : changeMemberRole(a, w, v, r)
      PROVE  Lawful(x, y)
  <2>1. PICK r \in {"none", "admin", "member"} :
           /\ role[w][v] \in {"admin", "member"}
           /\ role' = [role EXCEPT ![w] = [role[w] EXCEPT ![v] = r]]
           /\ UNCHANGED <<owner, invite>>
    BY <1>7 DEF removeMember, changeMemberRole, Touchable
  <2> QED BY <2>1
<1>8. ASSUME NEW a \in Users, NEW v \in Users, NEW w \in Spaces,
             \/ revokeInvitation(a, w, v)
             \/ \E r \in {"admin", "member"} : inviteMember(a, w, v, r)
      PROVE  Lawful(x, y)
  <2>1. PICK i : /\ i.state # "accepted" /\ role' = role
                 /\ invite' = [invite EXCEPT ![w] = [invite[w] EXCEPT ![v] = i]]
    BY <1>8 DEF revokeInvitation, inviteMember, NoInvite
  <2> QED BY <2>1
<1>9. ASSUME NEW t \in transfers, transferWrites(t) PROVE Lawful(x, y)
  <2>1. /\ t.space \in Spaces /\ t.from \in Users /\ t.to \in Users
        /\ role[t.space] \in [Users -> Roles] /\ t \in transfers \ transfers'
        /\ invite' = invite
    BY <1>9 DEF transferWrites, Transfer
  <2>2. CASE role' = role
    BY <2>1, <2>2
  <2>3. CASE role' = [role EXCEPT ![t.space] = Promoted(t)]
    <3>1. x # t.space => role'[x][y] = role[x][y]
      BY <2>1, <2>3
    <3>2. x = t.space => role'[x][y] = Promoted(t)[y]
      BY <2>1, <2>3
    <3>3. /\ role[t.space][y] = "none" => Promoted(t)[y] = "none"
          /\ role[t.space][y] = "owner" /\ y # t.from => Promoted(t)[y] = "owner"
      BY <2>1 DEF Promoted, Demoted
    <3> QED BY <2>1, <3>1, <3>2, <3>3
  <2> QED BY <1>9, <2>2, <2>3 DEF transferWrites
<1> HIDE DEF Lawful, Enters, Accepted, Stripped, TablesInv, TypeOK, Members, Roles
<1>10. \/ role' = role /\ invite'[x][y] = invite[x][y]
       \/ \E u \in Users : deleteUser(u)
       \/ \E u \in Users, w \in Spaces :
             \/ createWorkspace(u, w) \/ deleteWorkspace(u, w)
             \/ acceptInvitation(u, w) \/ Expire(w, u)
       \/ \E a, v \in Users, w \in Spaces :
             \/ removeMember(a, w, v) \/ revokeInvitation(a, w, v)
             \/ \E r \in {"admin", "member"} : changeMemberRole(a, w, v, r)
             \/ \E r \in {"admin", "member"} : inviteMember(a, w, v, r)
       \/ \E t \in transfers : transferWrites(t)
  BY Cases DEF previewDeletion, previewFails, payForTeam, transferChecks, rows, jobs, vars
<1> QED BY <1>1, <1>2, <1>3, <1>4, <1>5, <1>6, <1>7, <1>8, <1>9, <1>10

\* Nobody gets into a workspace but through an open invitation, which it uses
\* up; accepting one changes no role; and no administrator strips an owner.
THEOREM RolesStayLawful == Spec => RolesAreGiven
<1>1. TablesInv /\ [Next]_vars =>
        [\A w \in Spaces, u \in Users :
          Exists(w) /\ role[w][u] = "none" /\ role'[w][u] # "none" =>
             invite[w][u].state = "open" /\ invite'[w][u].state = "accepted"]_vars
  BY StepRoles DEF Lawful, Enters, Accepted
<1>2. TablesInv /\ [Next]_vars =>
        [\A w \in Spaces, u \in Users :
          role[w][u] = "owner" /\ role'[w][u] # "owner" =>
             \/ owner'[w] = Gone \/ u \notin accounts'
             \/ \E t \in transfers \ transfers' : t.space = w /\ t.from = u]_vars
  BY StepRoles DEF Lawful, Stripped
<1>3. TablesInv /\ [Next]_vars =>
        [\A w \in Spaces, u \in Users :
          invite[w][u].state = "open" /\ invite'[w][u].state = "accepted" /\ u \in Members(w)
             => role'[w][u] = role[w][u]]_vars
  BY StepRoles DEF Lawful, Accepted
<1> QED BY <1>1, <1>2, <1>3, TablesHold, PTL
        DEF Spec, RolesAreGiven, MembersCameByInvitation, AcceptingKeepsTheRole,
            OwnerNeverStripped

-----------------------------------------------------------------------------
(* Deletions *)

\* A preview that reads every row it may see, of an owner who has one in every
\* workspace, passes none that is shared.
LEMMA PreviewReadsAll ==
  ASSUME TablesInv, NEW u \in Users, previewDeletion(u), SeesAll(u),
         NEW x \in Sharing
  PROVE  x[1] # u
<1> SUFFICES ASSUME x[1] = u PROVE FALSE
  OBVIOUS
<1> DEFINE All == Visible(u)
           Clear == {row \in Visible(u) : row[1] \notin Blockers(u)}
           w == x[2]
<1>1. IsFiniteSet(All)
  <2>1. IsFiniteSet(Spaces \X Users)
    BY WorkspacesAssumption, FS_Product
  <2>2. All \in SUBSET (Spaces \X Users)
    BY DEF Visible
  <2> QED BY <2>1, <2>2, FS_Subset
<1>2. Cardinality(All) \in Nat
  BY <1>1, FS_CardinalityType
<1>3. Cardinality(Clear) >= Cardinality(All)
  BY <1>2, WorkspacesAssumption DEF previewDeletion, MayMissBlockers, RowsRead, SeesAll
<1>4. Clear \in SUBSET All
  OBVIOUS
<1>5. Clear = All
  <2> HIDE DEF All, Clear
  <2>1. /\ Cardinality(Clear) \in Nat /\ Cardinality(Clear) <= Cardinality(All)
        /\ Cardinality(Clear) = Cardinality(All) => Clear = All
    BY <1>1, <1>4, FS_Subset, FS_CardinalityType
  <2> QED BY <1>2, <1>3, <2>1
<1>6. w \in Owned(u) /\ w \in Spaces /\ x[3] \in Members(w) \ {u}
  BY DEF Sharing, Owned
<1>7. u \in Members(w)
  BY <1>6 DEF SeesAll
<1>8. <<w, u>> \in Visible(u)
  BY <1>6, <1>7 DEF Visible
<1>9. w \notin Blockers(u)
  BY <1>5, <1>8
<1> QED BY <1>6, <1>9 DEF Blockers

\* Who shares a workspace of an account that is about to go, and whose preview saw
\* all it owns, came to share it since.
NewcomersInv == \A x \in Sharing : x[1] \in deleting \ blind => x \in since

\* A deletion gets under way by a preview, and stays as blind as that was.
LEMMA StepPreviews ==
  ASSUME TablesInv, [Next]_vars, NEW u \in deleting' \ blind'
  PROVE  /\ u \in deleting => u \notin blind
         /\ u \notin deleting => /\ u \in Users /\ previewDeletion(u) /\ SeesAll(u)
                               /\ Sharing' = Sharing
<1> USE DEF TablesInv, TypeOK
<1>1. ASSUME NEW x \in Users, previewDeletion(x)
      PROVE  /\ u \in deleting => u \notin blind
             /\ u \notin deleting => u = x /\ SeesAll(u) /\ Sharing' = Sharing
  <2>1. Sharing' = Sharing
    BY <1>1 DEF previewDeletion, rows, Sharing, Members
  <2> QED BY <1>1, <2>1 DEF previewDeletion
<1>2. ASSUME NEW x \in Users, previewFails(x) PROVE u \in deleting /\ u \notin blind
  BY <1>2 DEF previewFails
<1>3. ASSUME NEW x \in Users, deleteUser(x) PROVE u \in deleting /\ u \notin blind
  BY <1>3 DEF deleteUser
<1>4. ASSUME UNCHANGED <<deleting, blind>> PROVE u \in deleting /\ u \notin blind
  BY <1>4
<1>5. \/ \E x \in Users : previewDeletion(x) \/ previewFails(x) \/ deleteUser(x)
      \/ UNCHANGED <<deleting, blind>>
  BY Cases DEF createWorkspace, deleteWorkspace, payForTeam, acceptInvitation, Expire,
       removeMember, revokeInvitation, transferChecks, changeMemberRole, inviteMember,
       transferWrites, jobs, vars
<1> QED BY <1>1, <1>2, <1>3, <1>4, <1>5

LEMMA StepNewcomers ==
  ASSUME TablesInv, NewcomersInv, [Next]_vars
  PROVE  NewcomersInv'
<1> SUFFICES ASSUME NEW x \in Sharing', x[1] \in deleting' \ blind' PROVE x \in since'
  BY DEF NewcomersInv
<1>1. CASE UNCHANGED vars
  BY <1>1 DEF vars, NewcomersInv, Sharing, Members
<1>2. CASE Next
  <2>1. CASE x[1] \in deleting
    <3>1. x \in Sharing => x[1] \notin blind
      BY <2>1, StepPreviews
    <3> QED BY <1>2, <2>1, <3>1 DEF Next, NewcomersInv
  <2>2. CASE x[1] \notin deleting
    <3>1. x[1] \in Users /\ previewDeletion(x[1]) /\ SeesAll(x[1]) /\ Sharing' = Sharing
      BY <2>2, StepPreviews
    <3> QED BY <3>1, PreviewReadsAll
  <2> QED BY <2>1, <2>2
<1> QED BY <1>1, <1>2

LEMMA StepPayments ==
  ASSUME TablesInv, [Next]_vars, NEW w \in Spaces
  PROVE  billed[w] \ billed'[w] \subseteq accounts \ accounts'
<1> USE DEF TablesInv, TypeOK, HeldBack
<1>1. ASSUME NEW u \in Users, NEW x \in Spaces, deleteWorkspace(u, x)
      PROVE  billed[w] \subseteq billed'[w]
  BY <1>1, WorkspacesAssumption DEF deleteWorkspace
<1>2. ASSUME NEW u \in Users, deleteUser(u)
      PROVE  billed[w] \ billed'[w] \subseteq accounts \ accounts'
  <2>1. CASE Cascade(u) /\ \A x \in Owned(u) : ~HeldBack(x, u)
    <3>1. billed'[w] = IF owner[w] = u THEN {} ELSE billed[w] \ {u}
      BY <2>1 DEF Cascade
    <3>2. owner[w] = u => billed[w] \subseteq {u}
      BY <2>1 DEF Owned
    <3>3. billed[w] \ billed'[w] \subseteq {u}
      BY <3>1, <3>2
    <3>4. u \in accounts /\ accounts' = accounts \ {u}
      BY <1>2, <2>1 DEF deleteUser, Cascade
    <3> QED BY <3>3, <3>4
  <2>2. CASE UNCHANGED rows
    BY <2>2 DEF rows
  <2> QED BY <1>2, <2>1, <2>2 DEF deleteUser
<1>3. ASSUME NEW u \in Users, NEW x \in Spaces, payForTeam(u, x)
      PROVE  billed[w] \subseteq billed'[w]
  BY <1>3 DEF payForTeam
<1>4. \/ \E u \in Users, x \in Spaces : deleteWorkspace(u, x) \/ payForTeam(u, x)
      \/ \E u \in Users : deleteUser(u)
      \/ billed' = billed
  BY Cases DEF previewDeletion, previewFails, createWorkspace, acceptInvitation, Expire,
       removeMember, revokeInvitation, transferChecks, changeMemberRole, inviteMember,
       transferWrites, rows, jobs, vars
<1> QED BY <1>1, <1>2, <1>3, <1>4

\* An account goes only by a deletion under way.
LEMMA StepGoes ==
  ASSUME TablesInv, [Next]_vars, NEW u \in accounts \ accounts'
  PROVE  u \in deleting
<1> USE DEF TablesInv, TypeOK
<1>1. \/ \E x \in Users : deleteUser(x)
      \/ UNCHANGED accounts
  BY Cases DEF previewDeletion, previewFails, createWorkspace, deleteWorkspace, payForTeam,
       acceptInvitation, Expire, removeMember, revokeInvitation, transferChecks,
       changeMemberRole, inviteMember, transferWrites, rows, jobs, vars
<1> QED BY <1>1 DEF deleteUser, Cascade, rows

\* A deletion whose preview saw all the account owns takes a workspace from none who
\* was in it then, however many join, leave and hand over in between, and no deletion
\* takes along what somebody else paid. Those who come after the preview, and
\* a preview that failed, was cut, or was of an owner without a row, are not covered.
THEOREM DeletionsAreCareful == Spec => DeletionsSpareOthers
<1>1. Init => NewcomersInv
  BY DEF Init, NewcomersInv
<1>2. TablesInv /\ NewcomersInv /\ [Next]_vars => NewcomersInv'
  BY StepNewcomers
<1>3. TablesInv /\ NewcomersInv /\ [Next]_vars =>
        [\A u \in accounts \ accounts' : u \notin blind =>
          \A x \in Sharing : x[1] = u => x \in since]_vars
  BY StepGoes DEF NewcomersInv
<1>4. TablesInv /\ [Next]_vars =>
        [\A w \in Spaces : billed[w] \ billed'[w] \subseteq accounts \ accounts']_vars
  BY StepPayments
<1> QED BY <1>1, <1>2, <1>3, <1>4, TablesHold, PTL
        DEF Spec, DeletionsSpareOthers, OnlyNewcomersLose, PaymentsAreKept

=============================================================================
