-------------------------- MODULE AuditOutboxProofs --------------------------
(***************************************************************************)
(* Proofs about AuditOutbox: what is published is in the audit log once,   *)
(* no event is given up too early, and a published event stays published,  *)
(* for any number of events, server processes, batch sizes and failures.   *)
(***************************************************************************)
EXTENDS AuditOutbox, TLAPS

USE OutboxAssumption

\* A dispatcher without rows is about to claim some.
StepInv == \A d \in Dispatchers : batch[d] = {} => step[d] = "append"

\* A dispatcher that is about to mark a row published has its event in the log.
LogInv ==
    /\ PublishedIsLogged
    /\ \A d \in Dispatchers : \A item \in batch[d] :
          (step[d] = "publish" /\ First(d, item)) => log[item.event] = 1

\* The dispatchers were told of no attempt that the row does not count.
AttemptInv ==
    /\ DeadWasTried
    /\ \A d \in Dispatchers : \A item \in batch[d] :
          item.told + 1 <= rows[item.event].attempts + source.told
    /\ source.dead + 1 >= Limit + source.told

IInv == TypeOK /\ StepInv /\ LogInv /\ AttemptInv

-----------------------------------------------------------------------------
\* The six outboxes are outboxes, and none gives up before Limit attempts.
LEMMA SixSources ==
    \A s \in {assembly, access_control, product_application, product, tenant, identity} :
        s \in Source /\ s.dead + 1 >= Limit + s.told
<1>1. Limit \in Nat /\ Limit - 1 \in Nat
    OBVIOUS
<1>2. assembly \in Source /\ assembly.dead = Limit /\ assembly.told = 1
    BY <1>1 DEF Source, assembly
<1>3. access_control \in Source /\ access_control.dead = Limit /\ access_control.told = 1
    BY <1>1 DEF Source, access_control
<1>4. product_application \in Source /\ product_application.dead = Limit /\ product_application.told = 1
    BY <1>1 DEF Source, product_application
<1>5. product \in Source /\ product.dead = Limit /\ product.told = 0
    BY <1>1 DEF Source, product
<1>6. tenant \in Source /\ tenant.dead = Limit /\ tenant.told = 0
    BY <1>1 DEF Source, tenant
<1>7. identity \in Source /\ identity.dead = Limit - 1 /\ identity.told = 0
    BY <1>1 DEF Source, identity
<1> QED BY <1>1, <1>2, <1>3, <1>4, <1>5, <1>6, <1>7

\* A fault is counted within its bound.
LEMMA FaultBounded == (faults \in 0..MaxFaults /\ Fault) => faults' \in 0..MaxFaults
BY DEF Fault

\* Initially no event has happened.
LEMMA InitHolds == Init => IInv
<1> SUFFICES ASSUME Init PROVE IInv
    OBVIOUS
<1>1. source \in Source /\ source.dead + 1 >= Limit + source.told
    BY SixSources DEF Init
<1>2. TypeOK
    BY <1>1 DEF Init, TypeOK, Row
<1>3. StepInv
    BY DEF Init, StepInv
<1>4. LogInv
    BY DEF Init, LogInv, PublishedIsLogged
<1>5. AttemptInv
    BY <1>1 DEF Init, AttemptInv, DeadWasTried
<1> QED BY <1>2, <1>3, <1>4, <1>5 DEF IInv

\* The dispatcher's first row is one of the oldest it holds: two first rows are of one event.
LEMMA FirstIsOneEvent ==
    ASSUME TypeOK, NEW d \in Dispatchers, NEW a, NEW b, First(d, a), First(d, b)
    PROVE  a.event = b.event
<1>1. a.event <= b.event /\ b.event <= a.event
    BY DEF First
<1>2. a \in Claimed /\ b \in Claimed
    <2>1. batch[d] \subseteq Claimed
        BY DEF TypeOK
    <2> QED BY <2>1 DEF First
<1>3. a.event \in Nat /\ b.event \in Nat
    BY <1>2 DEF Claimed
<1> QED BY <1>1, <1>3

\* A new event keeps the invariant.
LEMMA InsertKeeps == ASSUME IInv, NEW e \in Events, insertOutbox(e) PROVE IInv'
<1>1. rows' \in [Events -> Row]
    BY DEF insertOutbox, IInv, TypeOK, Row
<1>2. \A f \in Events : rows'[f].attempts = rows[f].attempts
         /\ (rows'[f].state \in {"published", "dead"} => rows'[f].state = rows[f].state)
    BY DEF insertOutbox, IInv, TypeOK, Row
<1>3. TypeOK' /\ StepInv'
    BY <1>1 DEF insertOutbox, IInv, TypeOK, StepInv
<1>4. LogInv'
    BY <1>2 DEF insertOutbox, IInv, LogInv, PublishedIsLogged, First
<1>5. AttemptInv'
    BY <1>2 DEF insertOutbox, IInv, TypeOK, AttemptInv, DeadWasTried, Claimed
<1> QED BY <1>3, <1>4, <1>5 DEF IInv

\* So does the passing of time.
LEMMA DueKeeps == ASSUME IInv, NEW e \in Events, BecomesDue(e) PROVE IInv'
<1>1. rows' \in [Events -> Row]
    BY DEF BecomesDue, IInv, TypeOK, Row
<1>2. \A f \in Events : rows'[f].attempts = rows[f].attempts /\ rows'[f].state = rows[f].state
    BY DEF BecomesDue, IInv, TypeOK, Row
<1>3. TypeOK' /\ StepInv'
    BY <1>1 DEF BecomesDue, IInv, TypeOK, StepInv
<1>4. LogInv'
    BY <1>2 DEF BecomesDue, IInv, LogInv, PublishedIsLogged, First
<1>5. AttemptInv'
    BY <1>2 DEF BecomesDue, IInv, TypeOK, AttemptInv, DeadWasTried, Claimed
<1> QED BY <1>3, <1>4, <1>5 DEF IInv

\* A claimed row counts one more attempt.
LEMMA ClaimedRowCounts ==
    ASSUME NEW row \in Row
    PROVE  /\ ClaimedRow(row) \in Row
           /\ ClaimedRow(row).state = row.state
           /\ ClaimedRow(row).attempts = row.attempts + 1
<1>1. row.attempts + 1 \in Nat
    BY DEF Row
<1>2. /\ ClaimedRow(row).state = row.state
      /\ ClaimedRow(row).attempts = row.attempts + 1
    BY DEF ClaimedRow, Row
<1>3. ClaimedRow(row) \in Row
    BY <1>1 DEF ClaimedRow, Row
<1> QED BY <1>2, <1>3

\* A claim counts the attempt that it tells of.
LEMMA ClaimKeeps == ASSUME IInv, NEW d \in Dispatchers, ClaimOutbox(d) PROVE IInv'
<1> USE DEF IInv
<1>1. \A e \in Events :
         /\ rows'[e] = IF e \in Oldest THEN ClaimedRow(rows[e]) ELSE rows[e]
         /\ e \in Oldest => rows[e].state = "pending"
    BY DEF ClaimOutbox, Oldest, Claimable
<1>2. \A e \in Events :
         /\ rows'[e] \in Row
         /\ rows'[e].state = rows[e].state
         /\ rows'[e].attempts = IF e \in Oldest THEN rows[e].attempts + 1 ELSE rows[e].attempts
    <2> SUFFICES ASSUME NEW e \in Events
                 PROVE  /\ rows'[e] \in Row
                        /\ rows'[e].state = rows[e].state
                        /\ rows'[e].attempts =
                              IF e \in Oldest THEN rows[e].attempts + 1 ELSE rows[e].attempts
        OBVIOUS
    <2>1. rows[e] \in Row
        BY DEF TypeOK
    <2> QED BY <1>1, <2>1, ClaimedRowCounts
<1>3. rows' \in [Events -> Row]
    BY <1>2 DEF ClaimOutbox
<1>4. \A item \in batch'[d] : \E e \in Events :
         e \in Oldest /\ item = [event |-> e, told |-> rows[e].attempts + source.told]
    BY DEF ClaimOutbox, TypeOK, Oldest, Claimable
<1>5. batch'[d] \in SUBSET Claimed
    BY <1>4 DEF TypeOK, Row, Claimed, Source
<1>6. \A c \in Dispatchers : c # d => batch'[c] = batch[c]
    BY DEF ClaimOutbox, TypeOK
<1>7. TypeOK'
    BY <1>3, <1>5, <1>6 DEF ClaimOutbox, TypeOK
<1>8. step[d] = "append"
    BY DEF ClaimOutbox, StepInv
<1>9. StepInv'
    BY <1>6, <1>8 DEF ClaimOutbox, StepInv
<1>10. LogInv'
    <2>1. PublishedIsLogged'
        BY <1>2 DEF ClaimOutbox, LogInv, PublishedIsLogged
    <2>2. ASSUME NEW c \in Dispatchers, NEW item \in batch'[c],
                 step'[c] = "publish", First(c, item)'
          PROVE  log'[item.event] = 1
        <3>1. c # d
            BY <1>8, <2>2 DEF ClaimOutbox
        <3> QED BY <1>6, <2>2, <3>1 DEF ClaimOutbox, LogInv, First
    <2> QED BY <2>1, <2>2 DEF LogInv
<1>11. AttemptInv'
    <2>3. \A e \in Events : rows[e].attempts \in Nat /\ rows'[e].attempts >= rows[e].attempts
        BY <1>2 DEF TypeOK, Row
    <2>1. DeadWasTried'
        <3> SUFFICES ASSUME NEW e \in Events, rows'[e].state = "dead"
                     PROVE  rows'[e].attempts >= Limit
            BY DEF DeadWasTried
        <3>1. rows[e].attempts >= Limit
            BY <1>2 DEF AttemptInv, DeadWasTried
        <3>2. rows'[e].attempts \in Nat
            BY <1>2 DEF Row
        <3> QED BY <2>3, <3>1, <3>2
    <2>2. ASSUME NEW c \in Dispatchers, NEW item \in batch'[c]
          PROVE  item.told + 1 <= rows'[item.event].attempts + source'.told
        <3>1. CASE c = d
            BY <1>2, <1>4, <3>1 DEF ClaimOutbox, TypeOK, Row, Source
        <3>2. CASE c # d
            <4>1. /\ item \in Claimed
                  /\ item.told + 1 <= rows[item.event].attempts + source.told
                BY <1>6, <3>2 DEF AttemptInv, TypeOK
            <4>2. /\ item.event \in Events /\ item.told \in Nat
                  /\ source.told \in Nat /\ source' = source
                BY <4>1 DEF ClaimOutbox, TypeOK, Source, Claimed
            <4>3. rows'[item.event].attempts \in Nat
                BY <1>2, <4>2 DEF Row
            <4>4. rows[item.event].attempts \in Nat
                  /\ rows'[item.event].attempts >= rows[item.event].attempts
                BY <2>3, <4>2
            <4> QED BY <4>1, <4>2, <4>3, <4>4
        <3> QED BY <3>1, <3>2
    <2> QED BY <2>1, <2>2 DEF ClaimOutbox, AttemptInv
<1> QED BY <1>7, <1>9, <1>10, <1>11

\* An append puts the event in the log before the dispatcher goes on to publish it.
LEMMA AppendKeeps == ASSUME IInv, NEW d \in Dispatchers, Append(d) PROVE IInv'
<1> USE DEF IInv
<1>1. PICK item \in batch[d] :
         /\ First(d, item)
         /\ \/ log' = Appended(item.event) /\ Goes(d, "publish") /\ UNCHANGED faults
            \/ log' \in {log, Appended(item.event)} /\ Goes(d, "fail") /\ Fault
    BY DEF Append
<1>2. UNCHANGED <<source, rows, batch>> /\ item.event \in Events
    BY DEF Append, TypeOK, Claimed
<1>3. /\ log' \in [Events -> Nat]
      /\ \A e \in Events : log'[e] <= 1 /\ (log[e] = 1 => log'[e] = 1)
    BY <1>1 DEF Appended, TypeOK, LogInv, PublishedIsLogged
<1>4. /\ step' \in [Dispatchers -> {"append", "publish", "fail"}]
      /\ \A c \in Dispatchers : c # d => step'[c] = step[c]
      /\ faults' \in 0..MaxFaults
    BY <1>1, FaultBounded DEF Goes, TypeOK
<1>5. TypeOK'
    BY <1>2, <1>3, <1>4 DEF TypeOK
<1>6. StepInv'
    BY <1>1, <1>2, <1>4 DEF StepInv
<1>7. LogInv'
    <2>1. PublishedIsLogged'
        BY <1>2, <1>3 DEF LogInv, PublishedIsLogged
    <2>2. ASSUME NEW c \in Dispatchers, NEW other \in batch[c],
                 step'[c] = "publish", First(c, other)
          PROVE  log'[other.event] = 1
        <3>1. CASE c = d
            <4>1. other.event = item.event
                BY <1>1, <2>2, <3>1, FirstIsOneEvent
            <4>2. log' = Appended(item.event)
                BY <1>1, <2>2, <3>1 DEF Goes, TypeOK
            <4> QED BY <1>2, <4>1, <4>2 DEF Appended, TypeOK
        <3>2. CASE c # d
            <4>1. other.event \in Events /\ log[other.event] = 1
                BY <1>4, <2>2, <3>2 DEF LogInv, TypeOK, Claimed
            <4> QED BY <1>3, <4>1
        <3> QED BY <3>1, <3>2
    <2> QED BY <1>2, <2>1, <2>2 DEF LogInv, First
<1>8. AttemptInv'
    BY <1>2 DEF AttemptInv, DeadWasTried
<1> QED BY <1>5, <1>6, <1>7, <1>8

\* What the two marks have in common: a row that keeps its attempts and is published only if
\* its event is in the log, dead only if it was tried often enough.
LEMMA MarkKeeps ==
    ASSUME IInv, NEW d \in Dispatchers, NEW item \in batch[d], NEW row \in Row,
           Marks(d, item, row),
           row.attempts = rows[item.event].attempts,
           row.state = "published" => log[item.event] = 1,
           row.state = "dead" => row.attempts >= Limit
    PROVE  IInv'
<1> USE DEF IInv
<1>1. UNCHANGED <<source, log>> /\ item.event \in Events
    BY DEF Marks, TypeOK, Claimed
<1>2. /\ rows' \in [Events -> Row]
      /\ \A e \in Events : rows'[e] \in {rows[e], row} /\ rows'[e].attempts = rows[e].attempts
      /\ \A e \in Events : e # item.event => rows'[e] = rows[e]
      /\ faults' \in 0..MaxFaults
    BY <1>1, FaultBounded DEF Marks, TypeOK, Row
<1>3. /\ step' \in [Dispatchers -> {"append", "publish", "fail"}]
      /\ step'[d] = "append"
      /\ \A c \in Dispatchers : c # d => step'[c] = step[c] /\ batch'[c] = batch[c]
      /\ batch'[d] = batch[d] \ {item}
      /\ batch' \in [Dispatchers -> SUBSET Claimed]
    BY DEF Marks, Goes, TypeOK
<1>4. TypeOK'
    BY <1>1, <1>2, <1>3 DEF TypeOK
<1>5. StepInv'
    BY <1>3 DEF StepInv
<1>6. LogInv'
    <2>1. PublishedIsLogged'
        BY <1>1, <1>2 DEF LogInv, PublishedIsLogged
    <2>2. ASSUME NEW c \in Dispatchers, NEW other \in batch'[c],
                 step'[c] = "publish", First(c, other)'
          PROVE  log'[other.event] = 1
        <3>1. c # d
            BY <1>3, <2>2
        <3> QED BY <1>1, <1>3, <2>2, <3>1 DEF LogInv, First
    <2> QED BY <2>1, <2>2 DEF LogInv
<1>7. AttemptInv'
    <2>1. DeadWasTried'
        BY <1>2 DEF AttemptInv, DeadWasTried
    <2>2. ASSUME NEW c \in Dispatchers, NEW other \in batch'[c]
          PROVE  other.told + 1 <= rows'[other.event].attempts + source'.told
        <3>1. other \in batch[c]
            BY <1>3
        <3>2. other.event \in Events
            BY <3>1 DEF TypeOK, Claimed
        <3>3. other.told + 1 <= rows[other.event].attempts + source.told
            BY <3>1 DEF AttemptInv
        <3> QED BY <1>1, <1>2, <3>2, <3>3
    <2> QED BY <1>1, <2>1, <2>2 DEF AttemptInv
<1> QED BY <1>4, <1>5, <1>6, <1>7

\* The dispatcher publishes a row whose event it has appended.
LEMMA PublishKeeps == ASSUME IInv, NEW d \in Dispatchers, MarkOutboxPublished(d) PROVE IInv'
<1>1. PICK item \in batch[d] :
         First(d, item) /\ Marks(d, item, [rows[item.event] EXCEPT !.state = "published"])
    BY DEF MarkOutboxPublished
<1>2. item.event \in Events /\ log[item.event] = 1
    BY <1>1 DEF MarkOutboxPublished, IInv, TypeOK, Claimed, LogInv
<1>3. [rows[item.event] EXCEPT !.state = "published"] \in Row
    BY <1>2 DEF IInv, TypeOK, Row
<1> QED BY <1>1, <1>2, <1>3, MarkKeeps DEF IInv, TypeOK, Row

\* The dispatcher gives an event up by an attempt that its row counts.
LEMMA FailKeeps == ASSUME IInv, NEW d \in Dispatchers, MarkOutboxFailed(d) PROVE IInv'
<1> USE DEF IInv
<1>1. PICK item \in batch[d] : First(d, item) /\ Marks(d, item, FailedRow(item))
    BY DEF MarkOutboxFailed
<1>2. item \in Claimed /\ rows[item.event] \in Row /\ source \in Source
    <2>1. item \in Claimed
        BY DEF TypeOK
    <2> QED BY <2>1 DEF TypeOK, Claimed
<1> DEFINE row == FailedRow(item)
<1>3. row \in Row /\ row.attempts = rows[item.event].attempts
    BY <1>2 DEF FailedRow, ReopenedRow, Row
<1>4. row.state = "published" => log[item.event] = 1
    BY <1>2 DEF FailedRow, ReopenedRow, Row, Claimed, LogInv, PublishedIsLogged
<1>5. row.state = "dead" => row.attempts >= Limit
    <2>1. SUFFICES ASSUME row.state = "dead" PROVE rows[item.event].attempts >= Limit
        BY <1>3
    <2>2. Dead(item)
        BY <1>2, <2>1 DEF FailedRow, ReopenedRow, Row
    <2>3. /\ item.told + 1 <= rows[item.event].attempts + source.told
          /\ source.dead + 1 >= Limit + source.told
        BY DEF AttemptInv
    <2> QED BY <1>2, <2>2, <2>3 DEF Dead, Claimed, Row, Source
<1> HIDE DEF row
<1> QED BY <1>1, <1>3, <1>4, <1>5, MarkKeeps DEF row

\* A dispatcher that stops forgets its rows.
LEMMA StopKeeps == ASSUME IInv, NEW d \in Dispatchers, Stop(d) PROVE IInv'
<1> USE DEF IInv
<1>1. /\ UNCHANGED <<source, rows, log>> /\ faults' \in 0..MaxFaults
      /\ batch' \in [Dispatchers -> SUBSET Claimed] /\ batch'[d] = {}
      /\ step' \in [Dispatchers -> {"append", "publish", "fail"}] /\ step'[d] = "append"
      /\ \A c \in Dispatchers : c # d => step'[c] = step[c] /\ batch'[c] = batch[c]
    BY FaultBounded DEF Stop, Goes, TypeOK
<1>2. TypeOK' /\ StepInv'
    BY <1>1 DEF TypeOK, StepInv
<1>3. LogInv'
    BY <1>1 DEF LogInv, PublishedIsLogged, First
<1>4. AttemptInv'
    BY <1>1 DEF AttemptInv, DeadWasTried
<1> QED BY <1>2, <1>3, <1>4

\* Nothing changes when no step is taken.
LEMMA StutterKeeps == ASSUME IInv, UNCHANGED vars PROVE IInv'
BY DEF IInv, vars, TypeOK, StepInv, LogInv, PublishedIsLogged, First, AttemptInv, DeadWasTried

-----------------------------------------------------------------------------
\* The state of the outbox, the log and the dispatchers agrees at all times.
THEOREM DeliveryCorrect == Spec => []IInv
<1>1. IInv /\ [Next]_vars => IInv'
    BY InsertKeeps, DueKeeps, ClaimKeeps, AppendKeeps, PublishKeeps, FailKeeps, StopKeeps,
       StutterKeeps DEF Next, Dispatch
<1> QED BY InitHolds, <1>1, PTL DEF Spec

\* The variables have the values they are declared with.
THEOREM TypeCorrect == Spec => []TypeOK
BY DeliveryCorrect, PTL DEF IInv

\* An event that is published is in the log, and no event is in the log twice.
THEOREM PublishedEventsAreLogged == Spec => []PublishedIsLogged
BY DeliveryCorrect, PTL DEF IInv, LogInv

\* No event is given up before it was tried Limit times.
THEOREM DeadEventsWereTried == Spec => []DeadWasTried
BY DeliveryCorrect, PTL DEF IInv, AttemptInv

\* A published event is delivered no more, except by Identity's outbox.
THEOREM PublishedEventsStay == Spec => PublishedStays
<1> DEFINE Stays == \A e \in Events :
       (~source.reopens /\ rows[e].state = "published") => rows'[e].state = "published"
<1>1. IInv /\ [Next]_vars => [Stays]_vars
    <2> SUFFICES ASSUME IInv, Next, NEW e \in Events, ~source.reopens, rows[e].state = "published"
                 PROVE  rows'[e].state = "published"
        BY DEF vars
    <2> USE DEF IInv, TypeOK
    <2>1. ASSUME NEW f \in Events, insertOutbox(f) \/ BecomesDue(f)
          PROVE  rows'[e].state = "published"
        BY <2>1 DEF insertOutbox, BecomesDue, Row
    <2>2. ASSUME NEW d \in Dispatchers, ClaimOutbox(d)
          PROVE  rows'[e].state = "published"
        BY <2>2 DEF ClaimOutbox, Oldest, Claimable
    <2>3. ASSUME NEW d \in Dispatchers, Append(d) \/ Stop(d)
          PROVE  rows'[e].state = "published"
        BY <2>3 DEF Append, Stop
    <2>4. ASSUME NEW d \in Dispatchers, MarkOutboxPublished(d)
          PROVE  rows'[e].state = "published"
        BY <2>4 DEF MarkOutboxPublished, Marks, Claimed, Row
    <2>5. ASSUME NEW d \in Dispatchers, MarkOutboxFailed(d)
          PROVE  rows'[e].state = "published"
        BY <2>5 DEF MarkOutboxFailed, Marks, FailedRow, Claimed, Row
    <2> QED BY <2>1, <2>2, <2>3, <2>4, <2>5 DEF Next, Dispatch
<1> QED BY DeliveryCorrect, <1>1, PTL DEF Spec, PublishedStays
=============================================================================
