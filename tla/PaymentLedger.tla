---------------------------- MODULE PaymentLedger ----------------------------
(***************************************************************************)
(* What billing promises of a payment, with no request, no retry and no    *)
(* database in sight: a hash is claimed by one account for good, its claim *)
(* is settled at most once, and a settled claim is credited at most once.  *)
(***************************************************************************)
CONSTANTS Hashes, Users, Nobody, Requests

VARIABLES claimant, settled, credits
vars == <<claimant, settled, credits>>

Init ==
    /\ claimant = [h \in Hashes |-> Nobody]
    /\ settled = [h \in Hashes |-> FALSE]
    /\ credits = [h \in Hashes |-> {}]

Claim(h, u) ==
    /\ claimant[h] = Nobody
    /\ claimant' = [claimant EXCEPT ![h] = u]
    /\ UNCHANGED <<settled, credits>>

Settle(h) ==
    /\ claimant[h] # Nobody /\ ~settled[h]
    /\ settled' = [settled EXCEPT ![h] = TRUE]
    /\ UNCHANGED <<claimant, credits>>

Credit(h, r) ==
    /\ settled[h] /\ credits[h] = {}
    /\ credits' = [credits EXCEPT ![h] = {r}]
    /\ UNCHANGED <<claimant, settled>>

Next ==
    \E h \in Hashes :
        \/ \E u \in Users : Claim(h, u)
        \/ Settle(h)
        \/ \E r \in Requests : Credit(h, r)

Spec == Init /\ [][Next]_vars

=============================================================================
