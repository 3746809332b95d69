------------------------------ MODULE ChainLookup ------------------------------
(***************************************************************************)
(* What verify.ts makes of the answer of a blockchain node.  Billing works *)
(* with its three outcomes; this module reads them out of an answer, be it *)
(* late, an error, or short of a field.                                    *)
(*                                                                         *)
(* An answer has a status and a body. A JSON object is a record of the     *)
(* fields it carries (one that is null is left out), Malformed a value of  *)
(* the wrong type. An address has an owner and a spelling, an amount is in *)
(* base units.                                                             *)
(***************************************************************************)
EXTENDS Filters, SequencesExt

CONSTANTS MaxMoves, MaxAmount,   \* of a transaction
          Malformed

Has(object, field) == object # Malformed /\ field \in DOMAIN object
List(object, field) == IF Has(object, field) THEN object[field] ELSE Malformed

fail(retryable) == [ok |-> FALSE, retryable |-> retryable, amount |-> 0]
paid(amount) == [ok |-> TRUE, retryable |-> FALSE, amount |-> amount]

-----------------------------------------------------------------------------
(* Transport *)

unavailable == [kind |-> "unavailable"]
notFound == [kind |-> "notFound"]
json(body) == [kind |-> "json", body |-> body]

requestJson(response) ==
    IF ~response.reached THEN unavailable
    ELSE IF response.status = 404 THEN notFound
    ELSE IF response.status = 200 /\ response.parses THEN json(response.body)
    ELSE unavailable

rpcCall(response) ==
    LET got == requestJson(response) IN
    IF got.kind # "json" THEN got
    ELSE IF got.body = Malformed \/ Has(got.body, "error") THEN unavailable
    ELSE IF Has(got.body, "result") THEN json(got.body.result)
    ELSE notFound

-----------------------------------------------------------------------------
(* The three currencies *)

sameAddress(a, b) == a.of = b.of
ours == [of |-> "us", capitals |-> FALSE]
PaysUs(object) == List(object, "to") # Malformed /\ sameAddress(object.to, ours)

\* An amount that cannot be read counts as nothing.
amountOf(p) == IF List(p, "amount") = Malformed THEN 0 ELSE p.amount
\* Mutant of Sum: the first match is taken for the payment.
SumOfFirst(payments) == IF payments = <<>> THEN 0 ELSE amountOf(payments[1])
Sum(payments) ==
    LET upTo[k \in 0..Len(payments)] == IF k = 0 THEN 0 ELSE upTo[k - 1] + amountOf(payments[k])
    IN  upTo[Len(payments)]

verifyBitcoin(got) ==
    LET outputs == Filter(got.body.vout, {o \in Range(got.body.vout) : PaysUs(o)})
    IN  IF got.kind # "json" THEN fail(TRUE)
        ELSE IF List(got.body, "vout") = Malformed THEN fail(TRUE)
        ELSE IF outputs = <<>> THEN fail(FALSE)
        ELSE IF ~Has(got.body, "confirmed") THEN fail(TRUE)
        ELSE paid(Sum(outputs))

verifyEther(got) ==
    IF got.kind # "json" THEN fail(TRUE)
    ELSE IF got.body = Malformed THEN fail(TRUE)
    ELSE IF ~PaysUs(got.body) THEN fail(FALSE)
    ELSE IF ~Has(got.body, "blockNumber") THEN fail(TRUE)
    ELSE IF List(got.body, "amount") = Malformed THEN fail(TRUE)
    ELSE paid(got.body.amount)

Transfers(logs) ==
    {log \in Range(logs) : /\ Has(log, "event") /\ log.event = "Transfer"
                           /\ log.contract = "usdt" /\ PaysUs(log)}
verifyUsdt(got) ==
    LET matched == Filter(got.body.logs, Transfers(got.body.logs))
    IN  IF got.kind # "json" THEN fail(TRUE)
        ELSE IF got.body = Malformed THEN fail(TRUE)
        ELSE IF ~(Has(got.body, "status") /\ got.body.status = 1) THEN fail(FALSE)
        ELSE IF List(got.body, "logs") = Malformed THEN fail(TRUE)
        ELSE IF matched = <<>> THEN fail(FALSE)
        ELSE paid(Sum(matched))

verifyPayment(currency, response) ==
    IF currency = "BTC" THEN verifyBitcoin(requestJson(response))
    ELSE IF currency = "ETH" THEN verifyEther(rpcCall(response))
    ELSE verifyUsdt(rpcCall(response))

-----------------------------------------------------------------------------
(* The node: a transaction and what may be wrong with the answer about it. *)

Recipients == {[of |-> "us", capitals |-> TRUE], ours, [of |-> "them", capitals |-> FALSE]}
Outputs == [to : Recipients, amount : 0..MaxAmount]
Logs == [event : {"Transfer", "Approval"}, contract : {"usdt", "other"}, to : Recipients,
         amount : 1..MaxAmount]
Transactions ==
    [currency : {"BTC"}, moves : SeqOf(Outputs, MaxMoves), succeeded : {TRUE}]
      \cup [currency : {"ETH"}, moves : {<<o>> : o \in Outputs}, succeeded : BOOLEAN]
      \cup [currency : {"USDT"}, moves : SeqOf(Logs, MaxMoves), succeeded : BOOLEAN]
Stages == {"unseen", "mempool", "mined"}
Deaf == {"unreached", "busy", "garbled", "list", "error"}   \* nothing is said of the transaction
\* It is described without its outputs or logs, without the amounts or the
\* recipients in them, or without the field that says what became of it.
Missing == {"moves", "amounts", "recipients", "status"}
Faults == {"none"} \cup Deaf \cup Missing

MovesOf(tx, fault) ==
    IF fault = "amounts"
    THEN [i \in DOMAIN tx.moves |-> [tx.moves[i] EXCEPT !.amount = Malformed]]
    ELSE IF fault = "recipients"
    THEN [i \in DOMAIN tx.moves |-> [tx.moves[i] EXCEPT !.to = Malformed]]
    ELSE tx.moves
Described(tx, at, fault) ==
    LET moves == MovesOf(tx, fault)
        happened == IF tx.succeeded THEN moves ELSE <<>>
        told == IF fault = "moves" THEN Malformed ELSE happened
        included == at = "mined" /\ fault # "status"
    IN  IF tx.currency = "BTC" THEN
             IF included THEN [vout |-> told, confirmed |-> TRUE] ELSE [vout |-> told]
        ELSE IF tx.currency = "ETH" THEN
             IF included
             THEN [to |-> moves[1].to, amount |-> moves[1].amount, blockNumber |-> 7]
             ELSE moves[1]
        ELSE IF fault = "status" THEN [logs |-> told]
        ELSE [status |-> IF tx.succeeded THEN 1 ELSE 0, logs |-> told]

Known(tx, at) == at = "mined" \/ (at = "mempool" /\ tx.currency # "USDT")
bodyOf(tx, at, fault) ==
    IF fault = "error" THEN [error |-> 1]
    ELSE IF fault = "list" THEN Malformed
    ELSE IF tx.currency = "BTC" THEN Described(tx, at, fault)
    ELSE IF Known(tx, at) THEN [result |-> Described(tx, at, fault)]
    ELSE <<>>
respond(tx, at, fault) ==
    [reached |-> fault # "unreached", parses |-> fault # "garbled", body |-> bodyOf(tx, at, fault),
     status |-> IF fault = "busy" THEN 429
                ELSE IF tx.currency = "BTC" /\ ~Known(tx, at) THEN 404
                ELSE 200]

\* What Malformed is told apart from: objects, lists and what is in them.
Distinguished(tx, at, fault) ==
    LET described == Described(tx, at, fault)
        moves == MovesOf(tx, fault) IN
    /\ Malformed # described /\ Malformed # [result |-> described]
    /\ Malformed # [error |-> 1] /\ Malformed # <<>>
    /\ Malformed # moves /\ \A i \in DOMAIN moves : Malformed # moves[i]
    /\ fault # "recipients" => \A i \in DOMAIN moves : Malformed # moves[i].to

-----------------------------------------------------------------------------
(* Properties *)

Received(tx) ==
    {i \in 1..Len(tx.moves) :
        LET m == tx.moves[i] IN
        m.to.of = "us" /\ (tx.currency = "USDT" => m.event = "Transfer" /\ m.contract = "usdt")}
Worth(tx) ==
    LET upTo[k \in 0..Len(tx.moves)] ==
            IF k = 0 THEN 0
            ELSE IF k \in Received(tx) THEN upTo[k - 1] + tx.moves[k].amount
            ELSE upTo[k - 1]
    IN  upTo[Len(tx.moves)]

\* Where a node that says too little makes the code say never: a recipient it
\* leaves out is somebody else (verify.ts:256, 301, 381), a status it leaves out
\* is a failure (348).
TakenForWrong(tx, fault) == fault = "recipients" \/ (fault = "status" /\ tx.currency = "USDT")

\* "Getting this backwards means either telling someone their real payment is
\* invalid, or spinning forever on one that never was" (verify.ts:22): a payment
\* is accepted when and only when the node shows it settled, for all that
\* arrived; what the node does not say is no payment, and is asked for again
\* when it says nothing; a settled transaction it describes in full has an
\* answer; and a refusal for good is one at every later stage too, but for what
\* is TakenForWrong: there a real payment is told that it is invalid, against
\* the quoted lines. Whether ether moved is not asked: its transaction has no
\* receipt here.
NothingReadBackwards(tx, at, fault) ==
    LET outcome == verifyPayment(tx.currency, respond(tx, at, fault))
        settled == at = "mined" /\ Received(tx) # {} /\ (tx.currency = "USDT" => tx.succeeded)
    IN  /\ outcome.ok => settled /\ outcome.amount <= Worth(tx)
        /\ fault = "none" => /\ outcome.ok <=> settled
                             /\ outcome.ok => outcome.amount = Worth(tx)
                             /\ at = "mined" => ~outcome.retryable
        /\ fault \in Deaf => outcome.retryable
        /\ ~outcome.ok /\ ~outcome.retryable /\ ~TakenForWrong(tx, fault) =>
             \A later \in {at, "mined"} :
                 ~verifyPayment(tx.currency, respond(tx, later, "none")).ok

=============================================================================
