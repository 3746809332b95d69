----------------------------- MODULE MCWorkspaces ----------------------------
(* One workspace: a crowd of three users who transfer it in turn, two whose *)
(* transfers overlap, or two who pay for it and whose previews may fail; in *)
(* a crowd, one deletes an account at a time.  Users are interchangeable.   *)
EXTENDS Workspaces, TLC

VARIABLE setting
SmallInit ==
    /\ Init /\ Cardinality(accounts) > 1
    /\ setting \in IF accounts = Users THEN {"crowd"} ELSE {"overlap", "money"}
SmallNext ==
    /\ Next /\ UNCHANGED setting
    /\ setting # "overlap" => InTurn'
    /\ setting = "crowd" => Cardinality(deleting') <= 1
    /\ setting # "money" => UNCHANGED billed /\ ~\E u \in Users : previewFails(u)
SmallSpec == SmallInit /\ [][SmallNext]_<<vars, setting>>

\* While transfers are made in turn, both records of ownership agree
\* (transfer_workspace_ownership).
OwnerRowIsTheOwnerInTurn == setting # "overlap" => OwnerRowIsTheOwner
\* And no workspace ever has two owners (transfer_workspace_ownership).
OwnersAgree == OwnerRowIsTheOwnerInTurn /\ AtMostOneOwner

Alike == Permutations(Users)
=============================================================================
