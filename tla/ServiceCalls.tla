---------------------------- MODULE ServiceCalls ----------------------------
(***************************************************************************)
(* What the services of the product, application, tenant and access        *)
(* control modules share.  A request calls one service operation after     *)
(* another; an operation answers with a value or with an error, and a      *)
(* mutating operation is keyed: the first call with an idempotency key     *)
(* stores its answer beside the key in the transaction of its effect, a    *)
(* later call with the same key and the same request is given the stored   *)
(* answer, and one with another request is refused.                        *)
(*                                                                         *)
(* A receipt is only ever seen complete: the row is inserted "pending" and *)
(* completed by one transaction, so no other transaction reads it pending. *)
(***************************************************************************)
EXTENDS Naturals, Sequences, FiniteSets

VARIABLES
    attempt,    \* attempt[r]: how many times r has been sent
    result,     \* result[r]: what the last operation r called answered
    now         \* the clock of the server and of the database

None == << >>                   \* an absent identifier
NewId(r) == <<r, attempt[r]>>   \* identifiers are drawn anew on each attempt

\* A table with a new row, and one with a row written over the one there may be.
Added(table, id, row) ==
    [x \in DOMAIN table \cup {id} |-> IF x \in DOMAIN table THEN table[x] ELSE row]
Put(table, id, row) ==
    [x \in DOMAIN table \cup {id} |-> IF x = id THEN row ELSE table[x]]

\* The fields of two commands or answers, where both have one that of the first.
Joined(f, g) == [x \in DOMAIN f \cup DOMAIN g |-> IF x \in DOMAIN f THEN f[x] ELSE g[x]]

NoResult == [kind |-> "none"]
Answer(v) == [kind |-> "ok", value |-> v]
Error(e) == [kind |-> "error", error |-> e]

Returns(r, v) == result' = [result EXCEPT ![r] = Answer(v)]
Refuses(r, e) == result' = [result EXCEPT ![r] = Error(e)]

Accepted == "accepted"      \* no reason to refuse

\* A call that changes nothing: its key's receipt answers, with the stored
\* response or with a conflict, or the operation refuses it.
Settled(r, receipts, idem, refusal) ==
    \/ /\ idem.key \in DOMAIN receipts
       /\ IF receipts[idem.key].request = idem.request
          THEN Returns(r, receipts[idem.key].response)
          ELSE Refuses(r, "idempotency_conflict")
    \/ /\ idem.key \notin DOMAIN receipts
       /\ refusal # Accepted
       /\ Refuses(r, refusal)

\* A call that has its effect, and stores its receipt with it.
Proceeds(receipts, idem, refusal) ==
    /\ idem.key \notin DOMAIN receipts
    /\ refusal = Accepted

Receipted(receipts, idem, response) ==
    Added(receipts, idem.key, [request |-> idem.request, response |-> response])

\* The key of an operation: its name, its actor, its scope, the caller's key.
Idempotency(operation, actor, scope, key, request) ==
    [key |-> <<operation, actor, scope, key>>, request |-> request]
=============================================================================
