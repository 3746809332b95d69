------------------------------ MODULE MCBilling ------------------------------
(* Small instances of Billing.                                              *)
EXTENDS Billing, TLC

CONSTANTS alice, bob, w1, h1, h2, h3, q1, q2, q3

proMonthly == [plan |-> "pro", interval |-> "monthly", seats |-> 1, workspace |-> NoWorkspace]
proAnnual  == [plan |-> "pro", interval |-> "annual", seats |-> 1, workspace |-> NoWorkspace]
teamOfTwo  == [plan |-> "team", interval |-> "monthly", seats |-> 2, workspace |-> w1]

transfer(c, usd) == [currency |-> c, toUs |-> TRUE, succeeded |-> TRUE, usd |-> usd]

\* A payment that is good, submitted by several.
OneTx     == [h \in {h1} |-> transfer("USDT", 15)]
TwoTx     == [h \in {h1, h2} |-> transfer("USDT", 15)]
ProOnly   == {proMonthly}

\* One worth a team's month and not a year, one two per cent short of the
\* annual price, and one to us that was reverted.
GrantTx   == [h \in {h1, h2, h3} |->
                CASE h = h1 -> transfer("ETH", 100)
                  [] h = h2 -> transfer("BTC", 147)
                  [] h = h3 -> [transfer("USDT", 150) EXCEPT !.succeeded = FALSE]]
TeamOrYear == {teamOfTwo, proAnnual}

\* Accounts and requests are interchangeable (where nothing must happen in the end).
Alike == Permutations(Users) \cup Permutations(Requests)
=============================================================================
