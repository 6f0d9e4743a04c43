------------------------------ MODULE Migrations ------------------------------
(***************************************************************************)
(* The migrations runner: processes of one or of several releases bring    *)
(* one database up to the migrations of their release, or take all of them *)
(* back, each once.  An advisory lock of the database is held while a      *)
(* runner works; every migration is a transaction with its row of history. *)
(*                                                                         *)
(* A file is [version, name, direction, content]; its content stands for   *)
(* its checksum too.  MaxFaults bounds the crashes and failing statements. *)
(***************************************************************************)
EXTENDS Naturals, Sequences, FiniteSets, SequencesExt

CONSTANTS Processes, Files, Direction, None, MaxFaults

ASSUME MigrationsAssumption ==
    /\ Direction \in [Processes -> {"up", "down"}]
    /\ None \notin Processes
    /\ MaxFaults \in Nat
    /\ \A p \in Processes :
          /\ IsFiniteSet(Files[p])
          /\ \A f, g \in Files[p] :
                (f.version = g.version /\ f.name = g.name /\ f.direction = g.direction) => f = g
          /\ \A f \in Files[p] : f.version \in Nat

VARIABLES lock,     \* the process that holds the advisory lock
          table,    \* whether platform_meta.schema_migrations exists
          history,  \* its rows, each a migration
          schema,   \* the migrations whose objects the database has, in their order
          process,  \* per process, where it is, the history it read, and its position
          faults

vars == <<lock, table, history, schema, process, faults>>

-----------------------------------------------------------------------------
(* Load.                                                                   *)

FilesOf(p, v) == {f \in Files[p] : f.version = v}
Versions(p) == {f.version : f \in Files[p]}

\* The files of a version have one name and are a pair.
Paired(p, v) ==
    /\ \A f, g \in FilesOf(p, v) : f.name = g.name
    /\ {f.direction : f \in FilesOf(p, v)} = {"up", "down"}

Loads(p) == \A v \in Versions(p) : Paired(p, v)

ContentOf(p, v, direction) ==
    (CHOOSE f \in FilesOf(p, v) : f.direction = direction).content

MigrationOf(p, v) ==
    [version |-> v, name |-> (CHOOSE f \in FilesOf(p, v) : TRUE).name,
     up |-> ContentOf(p, v, "up"), down |-> ContentOf(p, v, "down")]

\* The migrations of a release by their versions.
Load ==
    [p \in {p \in Processes : Loads(p)} |->
        SetToSortSeq({MigrationOf(p, v) : v \in Versions(p)}, LAMBDA a, b : a.version < b.version)]

InVersionOrder(migrations) ==
    \A i, j \in DOMAIN migrations : i < j => migrations[i].version < migrations[j].version

\* What sort.Slice does.
ASSUME LoadAssumption ==
    \A p \in DOMAIN Load :
        /\ Load[p] \in Seq(ToSet(Load[p])) /\ InVersionOrder(Load[p])
        /\ \A m \in ToSet(Load[p]) : m.version \in Nat

-----------------------------------------------------------------------------
At(pc, applied, next) == [pc |-> pc, applied |-> applied, next |-> next]

Ended == {"done", "failed", "crashed"}

\* The database was migrated by some release, in part or not at all.
Init ==
    /\ \E p \in DOMAIN Load :
          \E n \in 0 .. Len(Load[p]) : schema = SubSeq(Load[p], 1, n)
    /\ history = ToSet(schema)
    /\ table \in BOOLEAN /\ (history # {} => table)
    /\ lock = None
    /\ process = [p \in Processes |-> At("idle", {}, 0)]
    /\ faults = 0

Goes(p, to) == process' = [process EXCEPT ![p] = to]

\* The runner returns, and its connection gives the lock back.  Instead: only a
\* runner that succeeds gives it back.
ReturnsWithLock(p, outcome) ==
    /\ Goes(p, At(outcome, {}, 0))
    /\ lock' = IF lock = p /\ outcome = "done" THEN None ELSE lock
Returns(p, outcome) ==
    /\ Goes(p, At(outcome, {}, 0))
    /\ lock' = IF lock = p THEN None ELSE lock

\* The files are loaded before the lock is asked for.
Start(p) ==
    /\ process[p].pc = "idle"
    /\ Goes(p, IF p \in DOMAIN Load /\ (Direction[p] = "up" => Files[p] # {})
               THEN At("waiting", {}, 0) ELSE At("failed", {}, 0))
    /\ UNCHANGED <<lock, table, history, schema, faults>>

\* Whether pg_advisory_lock returns.  Instead: nothing is locked.
NotLocking == TRUE
LockIsFree == lock = None

Acquire(p) ==
    /\ process[p].pc = "waiting"
    /\ LockIsFree
    /\ lock' = p
    /\ Goes(p, At("locked", {}, 0))
    /\ UNCHANGED <<table, history, schema, faults>>

EnsureHistory(p) ==
    /\ process[p].pc = "locked"
    /\ table' = TRUE
    /\ Goes(p, At("reading", {}, 0))
    /\ UNCHANGED <<lock, history, schema, faults>>

\* The history has the first migrations of the release, unchanged, and no other.
\* Instead: it may have others too, of a later release.
AcceptsNewer(p) ==
    \E n \in 0 .. Len(Load[p]) : ToSet(SubSeq(Load[p], 1, n)) = history \intersect ToSet(Load[p])
ValidateHistory(p) ==
    \E n \in 0 .. Len(Load[p]) : ToSet(SubSeq(Load[p], 1, n)) = history

ReadHistory(p) ==
    /\ process[p].pc = "reading"
    /\ IF ValidateHistory(p)
       THEN /\ Goes(p, At("working", history, IF Direction[p] = "up" THEN 1 ELSE Len(Load[p])))
            /\ UNCHANGED lock
       ELSE Returns(p, "failed")
    /\ UNCHANGED <<table, history, schema, faults>>

Pending(p) == process[p].pc = "working" /\ process[p].next \in DOMAIN Load[p]
Current(p) == Load[p][process[p].next]
IsApplied(p) == \E row \in process[p].applied : row.version = Current(p).version

\* The transaction of one migration: its statements and its row of history,
\* which must be new.
ApplyUp(p) ==
    /\ Direction[p] = "up" /\ Pending(p)
    /\ IF IsApplied(p)
       THEN /\ Goes(p, [process[p] EXCEPT !.next = @ + 1])
            /\ UNCHANGED <<lock, history, schema>>
       ELSE IF ~table \/ \E row \in history : row.version = Current(p).version
       THEN Returns(p, "failed") /\ UNCHANGED <<history, schema>>
       ELSE /\ schema' = Append(schema, Current(p))
            /\ history' = history \union {Current(p)}
            /\ Goes(p, [process[p] EXCEPT !.next = @ + 1])
            /\ UNCHANGED lock
    /\ UNCHANGED <<table, faults>>

\* The objects of a migration are dropped.
Undone(m) ==
    IF \E i \in DOMAIN schema : schema[i] = m
    THEN RemoveAt(schema, CHOOSE i \in DOMAIN schema : schema[i] = m) ELSE schema

\* The transaction that takes one back; with the first goes the table of history.
ApplyDown(p) ==
    /\ Direction[p] = "down" /\ Pending(p)
    /\ IF IsApplied(p)
       THEN /\ schema' = Undone(Current(p))
            /\ table' = (process[p].next # 1)
            /\ history' = IF process[p].next = 1 THEN {}
                          ELSE {row \in history : row.version # Current(p).version}
       ELSE UNCHANGED <<table, history, schema>>
    /\ Goes(p, [process[p] EXCEPT !.next = @ - 1])
    /\ UNCHANGED <<lock, faults>>

Finish(p) ==
    /\ process[p].pc = "working" /\ ~Pending(p)
    /\ Returns(p, "done")
    /\ UNCHANGED <<table, history, schema, faults>>

\* A statement fails, a transaction is rolled back, or the process dies.
Fault(p) ==
    /\ process[p].pc \notin Ended \union {"idle"}
    /\ faults < MaxFaults
    /\ faults' = faults + 1
    /\ \E outcome \in {"failed", "crashed"} : Returns(p, outcome)
    /\ UNCHANGED <<table, history, schema>>

Step(p) ==
    \/ Start(p) \/ Acquire(p) \/ EnsureHistory(p) \/ ReadHistory(p)
    \/ ApplyUp(p) \/ ApplyDown(p) \/ Finish(p)

Next == \E p \in Processes : Step(p) \/ Fault(p)

Spec == Init /\ [][Next]_vars

\* A process that is started goes on.
FairSpec == Spec /\ \A p \in Processes : WF_vars(Step(p))

-----------------------------------------------------------------------------
\* However runners of several releases overlap and die, the database has the
\* first migrations of one release, applied in the order of their versions, and
\* its history tells exactly those.  (ApplyUp, ApplyDownAll, validateHistory)
AppliedInOrder ==
    /\ history = ToSet(schema)
    /\ \E p \in DOMAIN Load : IsPrefix(schema, Load[p])

\* A runner that reports success leaves the database at its own release: not
\* before it, and not after it.  (ApplyUp, "database migrations are current")
DoneIsCurrent ==
    [][\A p \in Processes :
          (process[p].pc # "done" /\ process'[p].pc = "done")
          => schema' = IF Direction[p] = "up" THEN Load[p] ELSE <<>>]_vars

\* No runner waits for ever: one that failed or died is not in the way of the next.
\* (withLockedConnection)
RunnersEnd == \A p \in Processes : <>(process[p].pc \in Ended)
=============================================================================
