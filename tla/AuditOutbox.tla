----------------------------- MODULE AuditOutbox -----------------------------
(***************************************************************************)
(* The delivery of audit events from one module's transactional outbox to  *)
(* the audit log: each server process has a dispatcher per outbox, which   *)
(* claims a batch of rows, appends each to the log and marks its row.      *)
(*                                                                         *)
(* A claim keeps a row from other dispatchers for 30 seconds only, so a    *)
(* slow dispatcher may still work on rows that another has claimed again.  *)
(* The six outboxes are alike except for what Source records, and share    *)
(* only the log, where their events have different identifiers.            *)
(* MaxFaults bounds the failures of all kinds.                             *)
(***************************************************************************)
EXTENDS Integers, FiniteSets

CONSTANTS Events,      \* events in the order of their time, 1 the oldest
          Dispatchers, \* one per server process
          BatchSize,   \* rows per claim: 50
          Limit,       \* attempts after which a failing event is dead: 10
          MaxFaults

ASSUME OutboxAssumption ==
    /\ Events \subseteq Nat
    /\ BatchSize \in Nat \ {0} /\ Limit \in Nat \ {0} /\ MaxFaults \in Nat

\* How an outbox differs from the others: a claim tells the dispatcher the number of
\* attempts with or without the new one, an event is dead when a failed attempt
\* was told this number, and a failure is recorded of a published row or not.
Source == [told: {0, 1}, dead: Nat, reopens: BOOLEAN]

assembly            == [told |-> 1, dead |-> Limit, reopens |-> FALSE]
access_control      == [told |-> 1, dead |-> Limit, reopens |-> FALSE]
product_application == [told |-> 1, dead |-> Limit, reopens |-> FALSE]
product             == [told |-> 0, dead |-> Limit, reopens |-> FALSE]
tenant              == [told |-> 0, dead |-> Limit, reopens |-> FALSE]
identity            == [told |-> 0, dead |-> Limit - 1, reopens |-> TRUE]

VARIABLES source,   \* the outbox, one of the six
          rows,     \* outbox_events, of the events that have happened
          log,      \* per event, its rows in audit.events
          batch,    \* per dispatcher, the claimed rows it has yet to deal with
          step,     \* per dispatcher, what it does next with the first of them
          faults

vars == <<source, rows, log, batch, step, faults>>

\* `due': next_attempt_at has passed.
Row == [state: {"none", "pending", "published", "dead"}, attempts: Nat, due: BOOLEAN]

Claimed == [event: Events, told: Nat]

TypeOK ==
    /\ source \in Source
    /\ rows \in [Events -> Row]
    /\ log \in [Events -> Nat]
    /\ batch \in [Dispatchers -> SUBSET Claimed]
    /\ step \in [Dispatchers -> {"append", "publish", "fail"}]
    /\ faults \in 0..MaxFaults

Init ==
    /\ source \in {assembly, access_control, product_application, product, tenant, identity}
    /\ rows = [e \in Events |-> [state |-> "none", attempts |-> 0, due |-> FALSE]]
    /\ log = [e \in Events |-> 0]
    /\ batch = [d \in Dispatchers |-> {}]
    /\ step = [d \in Dispatchers |-> "append"]
    /\ faults = 0

Fault == faults < MaxFaults /\ faults' = faults + 1

\* A module's transaction inserts the event of what it did.
insertOutbox(e) ==
    /\ rows[e].state = "none"
    /\ rows' = [rows EXCEPT ![e].state = "pending", ![e].due = TRUE]
    /\ UNCHANGED <<source, log, batch, step, faults>>

\* next_attempt_at passes.
BecomesDue(e) ==
    /\ rows[e].state = "pending" /\ ~rows[e].due
    /\ rows' = [rows EXCEPT ![e].due = TRUE]
    /\ UNCHANGED <<source, log, batch, step, faults>>

Claimable == {e \in Events : rows[e].state = "pending" /\ rows[e].due}

\* The oldest claimable rows, at most BatchSize of them.
Oldest == {e \in Claimable : Cardinality({f \in Claimable : f < e}) < BatchSize}

\* (Here and in other modules, a definition marked `instead' is a variant that
\* the properties must tell from the code; nothing uses it.)
\* Instead: a claimed row has a status that no claim looks for.
ProcessingRow(row) == [row EXCEPT !.attempts = @ + 1, !.state = "processing", !.due = FALSE]
ClaimedRow(row) == [row EXCEPT !.attempts = @ + 1, !.due = FALSE]

\* The transaction of ClaimOutbox; a dispatcher claims when it has dealt with
\* its last batch.
ClaimOutbox(d) ==
    /\ batch[d] = {}
    /\ Claimable # {}
    /\ batch' = [batch EXCEPT ![d] =
          {[event |-> e, told |-> rows[e].attempts + source.told] : e \in Oldest}]
    /\ rows' = [e \in Events |-> IF e \in Oldest THEN ClaimedRow(rows[e]) ELSE rows[e]]
    /\ UNCHANGED <<source, log, step, faults>>

\* The dispatcher deals with its rows in the order of their time.
First(d, item) == item \in batch[d] /\ \A other \in batch[d] : item.event <= other.event

Goes(d, next) == step' = [step EXCEPT ![d] = next]

\* The rows of the log after an event is appended: its identifier is unique there.
\* Instead: there is no such conflict.
AppendedTwice(e) == [log EXCEPT ![e] = @ + 1]
Appended(e) == [log EXCEPT ![e] = 1]

\* AppendAuditEvent.  A failed append may have reached the log.
Append(d) ==
    /\ step[d] = "append"
    /\ \E item \in batch[d] :
          /\ First(d, item)
          /\ \/ log' = Appended(item.event) /\ Goes(d, "publish") /\ UNCHANGED faults
             \/ log' \in {log, Appended(item.event)} /\ Goes(d, "fail") /\ Fault
    /\ UNCHANGED <<source, rows, batch>>

\* The dispatcher goes on to its next row, whether or not the mark was made.
Marks(d, item, row) ==
    /\ batch' = [batch EXCEPT ![d] = @ \ {item}]
    /\ Goes(d, "append")
    /\ \/ rows' = [rows EXCEPT ![item.event] = row] /\ UNCHANGED faults
       \/ UNCHANGED rows /\ Fault
    /\ UNCHANGED <<source, log>>

MarkOutboxPublished(d) ==
    /\ step[d] = "publish"
    /\ \E item \in batch[d] :
          First(d, item) /\ Marks(d, item, [rows[item.event] EXCEPT !.state = "published"])

\* The dispatcher decides by what its claim told it.
Dead(item) == item.told >= source.dead

\* The row of a failed event: it is tried again later, unless it is dead.  A row
\* that another dispatcher has published in between is left alone.
\* Instead: it is not.
ReopenedRow(item) ==
    [rows[item.event] EXCEPT !.state = IF Dead(item) THEN "dead" ELSE "pending", !.due = FALSE]
FailedRow(item) ==
    IF rows[item.event].state = "published" /\ ~source.reopens
    THEN rows[item.event]
    ELSE ReopenedRow(item)

MarkOutboxFailed(d) ==
    /\ step[d] = "fail"
    /\ \E item \in batch[d] : First(d, item) /\ Marks(d, item, FailedRow(item))

\* The process ends or is told to: what it has claimed is left to others.
Stop(d) ==
    /\ batch[d] # {}
    /\ Fault
    /\ batch' = [batch EXCEPT ![d] = {}]
    /\ Goes(d, "append")
    /\ UNCHANGED <<source, rows, log>>

Dispatch(d) == ClaimOutbox(d) \/ Append(d) \/ MarkOutboxPublished(d) \/ MarkOutboxFailed(d)

Next ==
    \/ \E e \in Events : insertOutbox(e) \/ BecomesDue(e)
    \/ \E d \in Dispatchers : Dispatch(d) \/ Stop(d)

Spec == Init /\ [][Next]_vars

\* Time passes, and a running process's dispatcher works.
FairSpec ==
    /\ Spec
    /\ \A e \in Events : WF_vars(BecomesDue(e))
    /\ \A d \in Dispatchers : WF_vars(Dispatch(d))

-----------------------------------------------------------------------------
(* Properties.                                                             *)

\* An event that is published is in the log, and no event is in the log twice,
\* however often it is delivered and whatever failed.  (dispatch, Append)
PublishedIsLogged ==
    \A e \in Events : log[e] <= 1 /\ (rows[e].state = "published" => log[e] = 1)

\* No event is given up before it was tried Limit times, although a dispatcher
\* decides by the attempt of its own claim.  (fail, ClaimOutbox of each module)
DeadWasTried ==
    \A e \in Events : rows[e].state = "dead" => rows[e].attempts >= Limit

\* A published event is never delivered again, although a slower dispatcher may
\* report a failure of it; except by Identity's outbox, which overwrites the
\* status.  (MarkOutboxFailed)
PublishedStays ==
    [][\A e \in Events :
          (~source.reopens /\ rows[e].state = "published") => rows'[e].state = "published"]_vars

Settled(e) == rows[e].state \in {"published", "dead"}

\* Every event is in the end published or dead and stays so: no crash between a
\* claim and a mark loses it, no failing event keeps it from its turn.
EventSettles == \A e \in Events : rows[e].state # "none" ~> []Settled(e)
=============================================================================
