-------------------------- MODULE MigrationsProofs --------------------------
(***************************************************************************)
(* The database is at every moment a beginning of one release, and a       *)
(* runner that succeeds leaves its own, for any number of processes,       *)
(* releases and faults.                                                    *)
(***************************************************************************)
EXTENDS Migrations, FiniteSetTheorems, SequenceTheorems, TLAPS

Before(s, i) == {m \in ToSet(s) : m.version < s[i].version}

\* In a sorted sequence the place of an element is the number of those below it.
LEMMA PlaceOfElement ==
  ASSUME NEW T, NEW s \in Seq(T), InVersionOrder(s), \A m \in ToSet(s) : m.version \in Nat,
         NEW i \in DOMAIN s
  PROVE  Cardinality(Before(s, i)) = i - 1
  <1> DEFINE f == [j \in 1..(i - 1) |-> s[j]]
  <1>1. DOMAIN s = 1..Len(s) /\ Len(s) \in Nat
      OBVIOUS
  <1>2. \A j \in DOMAIN s : s[j].version \in Nat /\ s[j] \in ToSet(s)
      BY DEF ToSet
  <1>3. f \in [1..(i - 1) -> Before(s, i)]
      BY <1>1, <1>2 DEF Before, InVersionOrder
  <1>4. \A j, k \in 1..(i - 1) : f[j] = f[k] => j = k
    <2> SUFFICES ASSUME NEW j \in 1..(i - 1), NEW k \in 1..(i - 1), j # k
                 PROVE  f[j] # f[k]
        OBVIOUS
    <2>1. s[j].version < s[k].version \/ s[k].version < s[j].version
        BY <1>1 DEF InVersionOrder
    <2> QED
        BY <1>1, <1>2, <2>1
  <1>5. \A m \in Before(s, i) : \E j \in 1..(i - 1) : f[j] = m
    <2> SUFFICES ASSUME NEW m \in Before(s, i)
                 PROVE  \E j \in 1..(i - 1) : s[j] = m
        OBVIOUS
    <2>1. PICK j \in DOMAIN s : s[j] = m
        BY DEF Before, ToSet
    <2>2. s[j].version < s[i].version
        BY <2>1 DEF Before
    <2>3. j < i
        BY <1>1, <1>2, <2>2 DEF InVersionOrder
    <2> QED
        BY <1>1, <2>1, <2>3
  <1>6. f \in Bijection(1..(i - 1), Before(s, i))
    <2>1. IsInjective(f)
        BY <1>4 DEF IsInjective
    <2> QED
        BY <1>3, <1>5, <2>1 DEF Bijection, Injection, Surjection
  <1>7. IsFiniteSet(1..(i - 1)) /\ Cardinality(1..(i - 1)) = i - 1
    <2>1. 1 \in Int /\ i - 1 \in Int /\ i >= 1
        BY <1>1
    <2>2. Cardinality(1..(i - 1)) = IF 1 > i - 1 THEN 0 ELSE (i - 1) - 1 + 1
        BY <2>1, FS_Interval
    <2>3. IsFiniteSet(1..(i - 1))
        BY <2>1, FS_Interval
    <2> QED
        BY <2>1, <2>2, <2>3
  <1> QED
      BY <1>6, <1>7, FS_Bijection DEF ExistsBijection

\* Sorted sequences of the same elements are the same.
LEMMA SortedAreSame ==
  ASSUME NEW T, NEW s \in Seq(T), InVersionOrder(s), \A m \in ToSet(s) : m.version \in Nat,
         NEW U, NEW t \in Seq(U), InVersionOrder(t), ToSet(s) = ToSet(t)
  PROVE  s = t
  <1>1. \A i \in DOMAIN s : i \in DOMAIN t /\ s[i] = t[i]
    <2> SUFFICES ASSUME NEW i \in DOMAIN s PROVE i \in DOMAIN t /\ s[i] = t[i]
        OBVIOUS
    <2>1. PICK j \in DOMAIN t : t[j] = s[i]
        BY DEF ToSet
    <2>2. Before(s, i) = Before(t, j)
        BY <2>1 DEF Before
    <2>3. Cardinality(Before(s, i)) = i - 1 /\ Cardinality(Before(t, j)) = j - 1
        BY PlaceOfElement
    <2> QED
        BY <2>1, <2>2, <2>3
  <1>2. \A j \in DOMAIN t : j \in DOMAIN s
    <2> SUFFICES ASSUME NEW j \in DOMAIN t PROVE j \in DOMAIN s
        OBVIOUS
    <2>1. PICK i \in DOMAIN s : s[i] = t[j]
        BY DEF ToSet
    <2>2. Before(s, i) = Before(t, j)
        BY <2>1 DEF Before
    <2>3. Cardinality(Before(s, i)) = i - 1 /\ Cardinality(Before(t, j)) = j - 1
        BY PlaceOfElement
    <2> QED
        BY <2>2, <2>3
  <1>3. Len(s) = Len(t)
      BY <1>1, <1>2
  <1> QED
      BY <1>1, <1>3

-----------------------------------------------------------------------------
(* The beginnings of releases.                                             *)

First(p, n) == SubSeq(Load[p], 1, n)

LEMMA FirstFacts ==
  ASSUME NEW p \in DOMAIN Load, NEW n \in 0..Len(Load[p])
  PROVE  /\ Load[p] \in Seq(ToSet(Load[p])) /\ Len(Load[p]) \in Nat
         /\ First(p, n) \in Seq(ToSet(Load[p])) /\ Len(First(p, n)) = n
         /\ \A i \in 1..n : First(p, n)[i] = Load[p][i]
         /\ ToSet(First(p, n)) = {Load[p][i] : i \in 1..n}
  <1>1. Load[p] \in Seq(ToSet(Load[p])) /\ Len(Load[p]) \in Nat
      BY LoadAssumption
  <1>2. First(p, n) \in Seq(ToSet(Load[p])) /\ Len(First(p, n)) = n
      BY <1>1 DEF First
  <1>3. \A i \in 1..n : First(p, n)[i] = Load[p][i]
      BY <1>1 DEF First
  <1>4. DOMAIN First(p, n) = 1..n
      BY <1>2
  <1> QED
      BY <1>1, <1>2, <1>3, <1>4 DEF ToSet

LEMMA FirstSorted ==
  ASSUME NEW p \in DOMAIN Load, NEW n \in 0..Len(Load[p])
  PROVE  InVersionOrder(First(p, n)) /\ \A m \in ToSet(First(p, n)) : m.version \in Nat
  <1>1. InVersionOrder(Load[p]) /\ \A m \in ToSet(Load[p]) : m.version \in Nat
      BY LoadAssumption
  <1>2. DOMAIN First(p, n) = 1..n /\ DOMAIN Load[p] = 1..Len(Load[p])
      BY FirstFacts
  <1>3. 1..n \subseteq 1..Len(Load[p])
      BY FirstFacts
  <1>4. \A i \in 1..n : First(p, n)[i] = Load[p][i]
      BY FirstFacts
  <1>5. InVersionOrder(First(p, n))
      BY <1>1, <1>2, <1>3, <1>4 DEF InVersionOrder
  <1> QED
      BY <1>1, <1>2, <1>3, <1>4, <1>5 DEF ToSet

\* Two releases with the same migrations at their beginnings have them in the
\* same order.
LEMMA SameBeginning ==
  ASSUME NEW p \in DOMAIN Load, NEW m \in 0..Len(Load[p]),
         NEW q \in DOMAIN Load, NEW n \in 0..Len(Load[q]),
         ToSet(First(p, m)) = ToSet(First(q, n))
  PROVE  First(p, m) = First(q, n)
  BY FirstFacts, FirstSorted, SortedAreSame

LEMMA NextOfFirst ==
  ASSUME NEW p \in DOMAIN Load, NEW n \in 1..Len(Load[p])
  PROVE  /\ n - 1 \in 0..Len(Load[p])
         /\ First(p, n) = Append(First(p, n - 1), Load[p][n])
         /\ ToSet(First(p, n)) = ToSet(First(p, n - 1)) \union {Load[p][n]}
  <1>1. n - 1 \in 0..Len(Load[p]) /\ n \in 0..Len(Load[p])
      BY LoadAssumption
  <1>2. ToSet(First(p, n)) = ToSet(First(p, n - 1)) \union {Load[p][n]}
    <2>2. ToSet(First(p, n)) = {Load[p][i] : i \in 1..n}
        BY <1>1, FirstFacts
    <2>3. ToSet(First(p, n - 1)) = {Load[p][i] : i \in 1..(n - 1)}
        BY <1>1, FirstFacts
    <2>1. 1..n = (1..(n - 1)) \union {n}
        BY <1>1
    <2> QED
        BY <2>1, <2>2, <2>3
  <1>3. First(p, n) = Append(First(p, n - 1), Load[p][n])
    <2> DEFINE s == First(p, n)
               t == Append(First(p, n - 1), Load[p][n])
    <2>1. Load[p][n] \in ToSet(Load[p])
        BY LoadAssumption DEF ToSet
    <2>2. t \in Seq(ToSet(Load[p])) /\ Len(t) = n
        BY <1>1, <2>1, FirstFacts
    <2>3. s \in Seq(ToSet(Load[p])) /\ Len(s) = n
        BY <1>1, FirstFacts
    <2>4. \A i \in 1..n : s[i] = t[i]
      <3> SUFFICES ASSUME NEW i \in 1..n PROVE s[i] = t[i]
          OBVIOUS
      <3>1. s[i] = Load[p][i]
          BY <1>1, FirstFacts
      <3>2. CASE i = n
          BY <1>1, <2>1, <3>1, <3>2, FirstFacts
      <3>3. CASE i # n
        <4>1. i \in 1..(n - 1)
            BY <3>3
        <4> QED
            BY <1>1, <2>1, <3>1, <4>1, FirstFacts
      <3> QED
          BY <3>2, <3>3
    <2> QED
        BY <2>2, <2>3, <2>4
  <1> QED
      BY <1>1, <1>2, <1>3

\* Whether a migration is among the first ones is told by its version.
LEMMA AmongFirst ==
  ASSUME NEW p \in DOMAIN Load, NEW n \in 0..Len(Load[p]), NEW i \in 1..Len(Load[p])
  PROVE  (\E row \in ToSet(First(p, n)) : row.version = Load[p][i].version) <=> i <= n
  <1>1. InVersionOrder(Load[p]) /\ DOMAIN Load[p] = 1..Len(Load[p]) /\ Len(Load[p]) \in Nat
      BY LoadAssumption
  <1>2. \A j \in 1..Len(Load[p]) : Load[p][j].version \in Nat
      BY <1>1, LoadAssumption DEF ToSet
  <1>3. \A j \in 1..Len(Load[p]) : Load[p][j].version = Load[p][i].version => j = i
    <2> SUFFICES ASSUME NEW j \in 1..Len(Load[p]), j # i
                 PROVE  Load[p][j].version # Load[p][i].version
        OBVIOUS
    <2>1. j < i \/ i < j
        OBVIOUS
    <2> QED
        BY <1>1, <1>2, <2>1 DEF InVersionOrder
  <1>4. ToSet(First(p, n)) = {Load[p][j] : j \in 1..n}
      BY FirstFacts
  <1>5. 1..n \subseteq 1..Len(Load[p])
      BY <1>1
  <1> QED
      BY <1>1, <1>3, <1>4, <1>5

-----------------------------------------------------------------------------
(* The inductive invariant.                                                *)

Rows == UNION {ToSet(Load[p]) : p \in DOMAIN Load}

TypeInv ==
    /\ lock \in Processes \union {None}
    /\ table \in BOOLEAN
    /\ process \in [Processes ->
            [pc: {"idle", "waiting", "locked", "reading", "working"} \union Ended,
             applied: SUBSET Rows, next: Nat]]

\* The database is a beginning of a release.
SchemaInv ==
    /\ history = ToSet(schema)
    /\ \E p \in DOMAIN Load : \E n \in 0..Len(Load[p]) : schema = First(p, n)

\* How far a runner is that found the first k migrations applied.
Progress(p, k) ==
    LET next == process[p].next
    IN  /\ process[p].applied = ToSet(First(p, k))
        /\ IF Direction[p] = "up"
           THEN /\ next \in 1..(Len(Load[p]) + 1)
                /\ schema = First(p, IF k > next - 1 THEN k ELSE next - 1)
           ELSE /\ next \in 0..Len(Load[p])
                /\ schema = First(p, IF k < next THEN k ELSE next)

Holding == {"locked", "reading", "working"}

RunnerInv(p) ==
    /\ process[p].pc \in Holding => lock = p
    /\ process[p].pc \in {"waiting"} \union Holding => p \in DOMAIN Load
    /\ process[p].pc = "working" => \E k \in 0..Len(Load[p]) : Progress(p, k)

IInv == TypeInv /\ SchemaInv /\ \A p \in Processes : RunnerInv(p)

LEMMA RowsOfFirst ==
  ASSUME NEW p \in DOMAIN Load, NEW n \in 0..Len(Load[p])
  PROVE  ToSet(First(p, n)) \subseteq Rows
  <1>1. ToSet(First(p, n)) = {Load[p][i] : i \in 1..n}
      BY FirstFacts
  <1>2. 1..n \subseteq DOMAIN Load[p]
      BY FirstFacts
  <1>3. ToSet(First(p, n)) \subseteq ToSet(Load[p])
      BY <1>1, <1>2 DEF ToSet
  <1> QED
      BY <1>3 DEF Rows

LEMMA MigrationsInit == Init => IInv
  <1> SUFFICES ASSUME Init PROVE IInv
      OBVIOUS
  <1>1. TypeInv
      BY DEF Init, TypeInv, At
  <1>2. SchemaInv
      BY DEF Init, SchemaInv, First
  <1>3. \A p \in Processes : RunnerInv(p)
      BY DEF Init, RunnerInv, At, Holding
  <1> QED
      BY <1>1, <1>2, <1>3 DEF IInv

\* A step of one runner leaves the others where they are: only the holder of the
\* lock changes the schema, and only it gives the lock back.
LEMMA OthersKeep ==
  ASSUME IInv, NEW p \in Processes, NEW to, process' = [process EXCEPT ![p] = to],
         schema' = schema \/ lock = p, lock' = lock \/ lock \in {p, None}
  PROVE  \A q \in Processes \ {p} : RunnerInv(q)'
  <1> SUFFICES ASSUME NEW q \in Processes \ {p} PROVE RunnerInv(q)'
      OBVIOUS
  <1>1. process'[q] = process[q] /\ q # None /\ RunnerInv(q)
      BY MigrationsAssumption DEF IInv, TypeInv
  <1>2. CASE process[q].pc \in Holding
    <2>1. lock = q /\ lock' = q /\ schema' = schema
        BY <1>1, <1>2 DEF RunnerInv
    <2>2. \A k \in 0..Len(Load[q]) : Progress(q, k) => Progress(q, k)'
        BY <1>1, <2>1 DEF Progress
    <2> QED
        BY <1>1, <2>1, <2>2 DEF RunnerInv
  <1>3. CASE process[q].pc \notin Holding
      BY <1>1, <1>3 DEF RunnerInv, Holding
  <1> QED
      BY <1>2, <1>3

LEMMA EndKeeps ==
  ASSUME IInv, NEW p \in Processes, NEW outcome \in Ended, Goes(p, At(outcome, {}, 0)),
         lock' = lock \/ (lock = p /\ lock' = None),
         UNCHANGED <<table, history, schema>>
  PROVE  IInv'
  <1> USE DEF Goes, At
  <1>1. TypeInv'
      BY DEF IInv, TypeInv
  <1>2. SchemaInv'
      BY DEF IInv, SchemaInv
  <1>3. RunnerInv(p)'
      BY DEF IInv, TypeInv, RunnerInv, Ended, Holding
  <1>4. \A q \in Processes \ {p} : RunnerInv(q)'
      BY OthersKeep
  <1> QED
      BY <1>1, <1>2, <1>3, <1>4 DEF IInv

LEMMA ReturnKeeps ==
  ASSUME IInv, NEW p \in Processes, NEW outcome \in Ended, Returns(p, outcome),
         UNCHANGED <<table, history, schema>>
  PROVE  IInv'
  BY EndKeeps DEF Returns

\* The runner goes to another place before it works, and keeps or gets the lock.
LEMMA AdvanceKeeps ==
  ASSUME IInv, NEW p \in Processes, NEW pc \in {"waiting", "locked", "reading"},
         Goes(p, At(pc, {}, 0)), p \in DOMAIN Load,
         lock' = IF pc = "locked" THEN p ELSE lock,
         pc = "locked" => lock = None, pc = "reading" => lock = p,
         table' \in BOOLEAN, UNCHANGED <<history, schema>>
  PROVE  IInv'
  <1> USE DEF Goes, At
  <1>1. TypeInv'
      BY DEF IInv, TypeInv
  <1>2. SchemaInv'
      BY DEF IInv, SchemaInv
  <1>3. RunnerInv(p)'
      BY DEF IInv, TypeInv, RunnerInv, Holding
  <1>4. \A q \in Processes \ {p} : RunnerInv(q)'
      BY OthersKeep
  <1> QED
      BY <1>1, <1>2, <1>3, <1>4 DEF IInv

LEMMA ReadHistoryKeeps ==
  ASSUME IInv, NEW p \in Processes, ReadHistory(p)
  PROVE  IInv'
  <1>1. process[p].pc = "reading" /\ lock = p /\ p \in DOMAIN Load
      BY DEF ReadHistory, IInv, RunnerInv, Holding
  <1>2. CASE ~ValidateHistory(p)
      BY <1>2, ReturnKeeps DEF ReadHistory, Ended
  <1>3. CASE ValidateHistory(p)
    <2> DEFINE to == At("working", history, IF Direction[p] = "up" THEN 1 ELSE Len(Load[p]))
    <2>1. process' = [process EXCEPT ![p] = to] /\ UNCHANGED <<lock, table, history, schema>>
        BY <1>3 DEF ReadHistory, Goes
    <2>2. PICK k \in 0..Len(Load[p]) : ToSet(First(p, k)) = history
        BY <1>3 DEF ValidateHistory, First
    <2>3. PICK r \in DOMAIN Load : \E n \in 0..Len(Load[r]) : schema = First(r, n)
        BY DEF IInv, SchemaInv
    <2>4. schema = First(p, k)
        BY <1>1, <2>2, <2>3, SameBeginning DEF IInv, SchemaInv
    <2>5. Len(Load[p]) \in Nat
        BY <1>1, FirstFacts
    <2>6. process'[p] = to /\ to.pc = "working" /\ to.applied = history
          /\ to.next = IF Direction[p] = "up" THEN 1 ELSE Len(Load[p])
        BY <2>1 DEF IInv, TypeInv, At
    <2>7. Progress(p, k)'
        BY <2>1, <2>2, <2>4, <2>5, <2>6 DEF Progress
    <2>8. RunnerInv(p)'
        BY <1>1, <2>1, <2>6, <2>7 DEF RunnerInv
    <2>9. history \subseteq Rows
        BY <1>1, <2>2, RowsOfFirst
    <2>10. TypeInv'
        BY <2>1, <2>5, <2>9 DEF IInv, TypeInv, At
    <2>11. SchemaInv'
        BY <2>1 DEF IInv, SchemaInv
    <2>12. \A q \in Processes \ {p} : RunnerInv(q)'
        BY <2>1, OthersKeep
    <2> QED
        BY <2>8, <2>10, <2>11, <2>12 DEF IInv
  <1> QED
      BY <1>2, <1>3

\* A runner at work has found the first k migrations applied, and has all that it
\* applied or took back since.
LEMMA ApplyUpKeeps ==
  ASSUME IInv, NEW p \in Processes, ApplyUp(p)
  PROVE  IInv'
  <1> DEFINE next == process[p].next
             to == [process[p] EXCEPT !.next = @ + 1]
  <1>1. process[p].pc = "working" /\ lock = p /\ p \in DOMAIN Load /\ Direction[p] = "up"
      BY DEF ApplyUp, Pending, IInv, RunnerInv, Holding
  <1>2. Len(Load[p]) \in Nat /\ next \in 1..Len(Load[p])
    <2>1. next \in DOMAIN Load[p] /\ DOMAIN Load[p] = 1..Len(Load[p])
        BY <1>1, LoadAssumption DEF ApplyUp, Pending
    <2> QED
        BY <1>1, <2>1, LoadAssumption
  <1>3. PICK k \in 0..Len(Load[p]) : Progress(p, k)
      BY <1>1 DEF IInv, RunnerInv
  <1>4. IsApplied(p) <=> next <= k
      BY <1>1, <1>2, <1>3, AmongFirst DEF IsApplied, Current, Progress
  <1>5. CASE IsApplied(p)
    <2>1. process' = [process EXCEPT ![p] = to] /\ UNCHANGED <<lock, table, history, schema>>
        BY <1>5 DEF ApplyUp, Goes
    <2>2. process'[p] = to /\ to.pc = "working" /\ to.applied = process[p].applied /\ to.next = next + 1
        BY <1>1, <2>1 DEF IInv, TypeInv
    <2>3. Progress(p, k)'
        BY <1>1, <1>2, <1>3, <1>4, <1>5, <2>1, <2>2 DEF Progress
    <2>4. RunnerInv(p)'
        BY <1>1, <2>1, <2>2, <2>3 DEF RunnerInv
    <2>5. TypeInv' /\ SchemaInv'
        BY <1>2, <2>1, <2>2 DEF IInv, TypeInv, SchemaInv
    <2>6. \A q \in Processes \ {p} : RunnerInv(q)'
        BY <2>1, OthersKeep
    <2> QED
        BY <2>4, <2>5, <2>6 DEF IInv
  <1>6. CASE ~IsApplied(p) /\ UNCHANGED schema /\ Returns(p, "failed")
      BY <1>6, ReturnKeeps DEF ApplyUp, Ended
  <1>7. CASE /\ ~IsApplied(p)
             /\ schema' = Append(schema, Current(p))
             /\ history' = history \union {Current(p)}
             /\ Goes(p, to)
             /\ UNCHANGED lock
    <2>1. process' = [process EXCEPT ![p] = to] /\ UNCHANGED <<lock, table>>
        BY <1>7 DEF ApplyUp, Goes
    <2>2. process'[p] = to /\ to.pc = "working" /\ to.applied = process[p].applied /\ to.next = next + 1
        BY <1>1, <2>1 DEF IInv, TypeInv
    <2>3. schema = First(p, next - 1) /\ next \in 0..Len(Load[p])
        BY <1>1, <1>2, <1>3, <1>4, <1>7 DEF Progress
    <2>4. schema' = First(p, next) /\ history' = ToSet(First(p, next))
        BY <1>1, <1>2, <1>7, <2>3, NextOfFirst DEF Current, IInv, SchemaInv
    <2>5. Progress(p, k)'
        BY <1>1, <1>2, <1>3, <1>4, <1>7, <2>2, <2>4 DEF Progress
    <2>6. RunnerInv(p)'
        BY <1>1, <2>1, <2>2, <2>5 DEF RunnerInv
    <2>7. TypeInv'
        BY <1>2, <2>1, <2>2 DEF IInv, TypeInv
    <2>8. SchemaInv'
        BY <1>1, <2>3, <2>4 DEF SchemaInv
    <2>9. \A q \in Processes \ {p} : RunnerInv(q)'
        BY <1>1, <2>1, OthersKeep
    <2> QED
        BY <2>6, <2>7, <2>8, <2>9 DEF IInv
  <1> QED
      BY <1>5, <1>6, <1>7 DEF ApplyUp

\* The last migration of a beginning is the only one of its kind.
LEMMA LastUndone ==
  ASSUME NEW p \in DOMAIN Load, NEW n \in 1..Len(Load[p]), schema = First(p, n)
  PROVE  Undone(Load[p][n]) = First(p, n - 1)
  <1>1. /\ Load[p] \in Seq(ToSet(Load[p])) /\ Len(Load[p]) \in Nat
        /\ n \in 0..Len(Load[p]) /\ n - 1 \in 0..Len(Load[p])
      BY FirstFacts, LoadAssumption
  <1>2. schema \in Seq(ToSet(Load[p])) /\ Len(schema) = n
      BY <1>1, FirstFacts
  <1>3. \A i \in 1..n : schema[i] = Load[p][i]
      BY <1>1, FirstFacts
  <1>4. \A i \in 1..n : schema[i] = Load[p][n] => i = n
    <2> SUFFICES ASSUME NEW i \in 1..n, i # n PROVE schema[i] # Load[p][n]
        OBVIOUS
    <2>1. InVersionOrder(Load[p]) /\ DOMAIN Load[p] = 1..Len(Load[p])
        BY <1>1, LoadAssumption
    <2>2. Load[p][i].version < Load[p][n].version
        BY <1>1, <2>1 DEF InVersionOrder
    <2>3. Load[p][n].version \in Nat
        BY <1>1, LoadAssumption DEF ToSet
    <2> QED
        BY <1>3, <2>2, <2>3
  <1>5. DOMAIN schema = 1..n /\ schema[n] = Load[p][n]
      BY <1>1, <1>2, <1>3
  <1>6. Undone(Load[p][n]) = RemoveAt(schema, n)
      BY <1>4, <1>5 DEF Undone
  <1>7. RemoveAt(schema, n) = SubSeq(schema, 1, n - 1)
      BY <1>1, <1>2 DEF RemoveAt
  <1>8. SubSeq(schema, 1, n - 1) = First(p, n - 1)
    <2> DEFINE s == SubSeq(schema, 1, n - 1)
               t == First(p, n - 1)
    <2>1. s \in Seq(ToSet(Load[p])) /\ Len(s) = n - 1 /\ \A i \in 1..(n - 1) : s[i] = schema[i]
        BY <1>1, <1>2
    <2>2. t \in Seq(ToSet(Load[p])) /\ Len(t) = n - 1 /\ \A i \in 1..(n - 1) : t[i] = Load[p][i]
        BY <1>1, FirstFacts
    <2>3. \A i \in 1..(n - 1) : s[i] = t[i]
        BY <1>1, <1>3, <2>1, <2>2
    <2> QED
        BY <2>1, <2>2, <2>3
  <1> QED
      BY <1>6, <1>7, <1>8

LEMMA ApplyDownKeeps ==
  ASSUME IInv, NEW p \in Processes, ApplyDown(p)
  PROVE  IInv'
  <1> DEFINE next == process[p].next
             to == [process[p] EXCEPT !.next = @ - 1]
  <1>1. process[p].pc = "working" /\ lock = p /\ p \in DOMAIN Load /\ Direction[p] # "up"
      BY DEF ApplyDown, Pending, IInv, RunnerInv, Holding
  <1>2. Len(Load[p]) \in Nat /\ next \in 1..Len(Load[p])
    <2>1. next \in DOMAIN Load[p] /\ DOMAIN Load[p] = 1..Len(Load[p])
        BY <1>1, LoadAssumption DEF ApplyDown, Pending
    <2> QED
        BY <1>1, <2>1, LoadAssumption
  <1>3. PICK k \in 0..Len(Load[p]) : Progress(p, k)
      BY <1>1 DEF IInv, RunnerInv
  <1>4. IsApplied(p) <=> next <= k
      BY <1>1, <1>2, <1>3, AmongFirst DEF IsApplied, Current, Progress
  <1>5. process' = [process EXCEPT ![p] = to] /\ UNCHANGED lock
      BY DEF ApplyDown, Goes
  <1>6. process'[p] = to /\ to.pc = "working" /\ to.applied = process[p].applied /\ to.next = next - 1
      BY <1>1, <1>5 DEF IInv, TypeInv
  <1>7. table' \in BOOLEAN
      BY DEF ApplyDown, IInv, TypeInv
  <1>8. TypeInv'
    <2>1. next - 1 \in Nat
        BY <1>2
    <2>2. to \in [pc: {"idle", "waiting", "locked", "reading", "working"} \union Ended,
                  applied: SUBSET Rows, next: Nat]
        BY <2>1 DEF IInv, TypeInv
    <2> QED
        BY <1>5, <1>7, <2>2 DEF IInv, TypeInv
  <1>9. \A q \in Processes \ {p} : RunnerInv(q)'
      BY <1>1, <1>5, OthersKeep
  <1>10. CASE ~IsApplied(p)
    <2>1. UNCHANGED <<history, schema>>
        BY <1>10 DEF ApplyDown
    <2>2. Progress(p, k)'
        BY <1>1, <1>2, <1>3, <1>4, <1>6, <1>10, <2>1 DEF Progress
    <2>3. RunnerInv(p)'
        BY <1>1, <1>5, <1>6, <2>2 DEF RunnerInv
    <2>4. SchemaInv'
        BY <2>1 DEF IInv, SchemaInv
    <2> QED
        BY <1>8, <1>9, <2>3, <2>4 DEF IInv
  <1>11. CASE IsApplied(p)
    <2>1. schema = First(p, next) /\ history = ToSet(First(p, next))
        BY <1>1, <1>2, <1>3, <1>4, <1>11 DEF Progress, IInv, SchemaInv
    <2>2. schema' = First(p, next - 1)
        BY <1>1, <1>2, <1>11, <2>1, LastUndone DEF ApplyDown, Current
    <2>3. history' = ToSet(First(p, next - 1))
      <3>1. ToSet(First(p, next)) = ToSet(First(p, next - 1)) \union {Load[p][next]}
          BY <1>1, <1>2, NextOfFirst
      <3>2. \A row \in ToSet(First(p, next - 1)) : row.version # Load[p][next].version
          BY <1>1, <1>2, AmongFirst, NextOfFirst
      <3>3. {row \in history : row.version # Load[p][next].version} = ToSet(First(p, next - 1))
          BY <2>1, <3>1, <3>2
      <3>4. next = 1 => ToSet(First(p, next - 1)) = {}
          BY <1>1, <1>2, FirstFacts, NextOfFirst
      <3> QED
          BY <1>11, <3>3, <3>4 DEF ApplyDown, Current
    <2>4. Progress(p, k)'
        BY <1>1, <1>2, <1>3, <1>4, <1>6, <1>11, <2>2 DEF Progress
    <2>5. RunnerInv(p)'
        BY <1>1, <1>5, <1>6, <2>4 DEF RunnerInv
    <2>6. SchemaInv'
        BY <1>1, <1>2, <2>2, <2>3, NextOfFirst DEF SchemaInv
    <2> QED
        BY <1>8, <1>9, <2>5, <2>6 DEF IInv
  <1> QED
      BY <1>10, <1>11

\* A runner that comes to its end has brought the database to its release, or back.
LEMMA FinishCurrent ==
  ASSUME IInv, NEW p \in Processes, Finish(p)
  PROVE  schema = IF Direction[p] = "up" THEN Load[p] ELSE <<>>
  <1> DEFINE next == process[p].next
  <1>1. p \in DOMAIN Load /\ next \notin DOMAIN Load[p] /\ process[p].pc = "working"
      BY DEF Finish, Pending, IInv, RunnerInv, Holding
  <1>2. Load[p] \in Seq(ToSet(Load[p])) /\ Len(Load[p]) \in Nat /\ DOMAIN Load[p] = 1..Len(Load[p])
      BY <1>1, LoadAssumption
  <1>3. PICK k \in 0..Len(Load[p]) : Progress(p, k)
      BY <1>1 DEF IInv, RunnerInv
  <1>4. CASE Direction[p] = "up"
    <2>1. next = Len(Load[p]) + 1
        BY <1>1, <1>2, <1>3, <1>4 DEF Progress
    <2>2. schema = First(p, Len(Load[p]))
        BY <1>2, <1>3, <1>4, <2>1 DEF Progress
    <2>3. First(p, Len(Load[p])) = Load[p]
        BY <1>2 DEF First
    <2> QED
        BY <1>4, <2>2, <2>3
  <1>5. CASE Direction[p] # "up"
    <2>1. next = 0
        BY <1>1, <1>2, <1>3, <1>5 DEF Progress
    <2>2. schema = First(p, 0)
        BY <1>2, <1>3, <1>5, <2>1 DEF Progress
    <2>3. First(p, 0) = <<>>
        BY <1>1, <1>2, FirstFacts
    <2> QED
        BY <1>5, <2>2, <2>3
  <1> QED
      BY <1>4, <1>5

LEMMA MigrationsStep == IInv /\ [Next]_vars => IInv'
  <1> SUFFICES ASSUME IInv, [Next]_vars PROVE IInv'
      OBVIOUS
  <1>1. CASE UNCHANGED vars
    <2>1. TypeInv' /\ SchemaInv'
        BY <1>1 DEF vars, IInv, TypeInv, SchemaInv
    <2>2. ASSUME NEW p \in Processes PROVE RunnerInv(p)'
        BY <1>1 DEF vars, IInv, RunnerInv, Progress
    <2> QED
        BY <2>1, <2>2 DEF IInv
  <1>2. ASSUME NEW p \in Processes, Step(p) \/ Fault(p) PROVE IInv'
    <2>1. CASE Start(p)
      <3>1. CASE Goes(p, At("failed", {}, 0))
          BY <2>1, <3>1, EndKeeps DEF Start, Ended
      <3>2. CASE Goes(p, At("waiting", {}, 0)) /\ p \in DOMAIN Load
          BY <2>1, <3>2, AdvanceKeeps DEF Start, IInv, TypeInv
      <3> QED
          BY <2>1, <3>1, <3>2 DEF Start
    <2>2. CASE Acquire(p)
        BY <2>2, AdvanceKeeps DEF Acquire, LockIsFree, IInv, TypeInv, RunnerInv
    <2>3. CASE EnsureHistory(p)
        BY <2>3, AdvanceKeeps DEF EnsureHistory, IInv, RunnerInv, Holding
    <2>4. CASE ReadHistory(p)
        BY <2>4, ReadHistoryKeeps
    <2>5. CASE ApplyUp(p)
        BY <2>5, ApplyUpKeeps
    <2>6. CASE ApplyDown(p)
        BY <2>6, ApplyDownKeeps
    <2>7. CASE Finish(p)
        BY <2>7, ReturnKeeps DEF Finish, Ended
    <2>8. CASE Fault(p)
        BY <2>8, ReturnKeeps DEF Fault, Ended
    <2> QED
        BY <1>2, <2>1, <2>2, <2>3, <2>4, <2>5, <2>6, <2>7, <2>8 DEF Step
  <1> QED
      BY <1>1, <1>2 DEF Next

-----------------------------------------------------------------------------
(* The theorems.                                                           *)

\* The database is a beginning of a release in every state, and a runner at work
\* has what it found and what it did since.
THEOREM MigrationsCorrect == Spec => []IInv
  BY MigrationsInit, MigrationsStep, PTL DEF Spec

\* However many runners of however many releases overlap and die, the database has
\* the first migrations of one release, in order, and its history tells those.
THEOREM HistoryIsTrue == Spec => []AppliedInOrder
  <1>1. IInv => AppliedInOrder
    <2> SUFFICES ASSUME IInv PROVE AppliedInOrder
        OBVIOUS
    <2>1. PICK p \in DOMAIN Load : \E n \in 0..Len(Load[p]) : schema = First(p, n)
        BY DEF IInv, SchemaInv
    <2>2. PICK n \in 0..Len(Load[p]) : schema = First(p, n)
        BY <2>1
    <2>3. Len(Load[p]) \in Nat /\ Len(schema) = n /\ schema \in Seq(ToSet(Load[p]))
        BY <2>2, FirstFacts
    <2>4. SubSeq(schema, 1, Len(schema)) = schema
        BY <2>3
    <2>5. IsPrefix(schema, Load[p])
        BY <2>2, <2>3, <2>4 DEF IsPrefix, First
    <2> QED
        BY <2>5 DEF IInv, SchemaInv, AppliedInOrder
  <1> QED
      BY <1>1, MigrationsCorrect, PTL

\* A runner that reports success leaves the database at its release, or empty.
THEOREM SuccessIsCurrent == Spec => DoneIsCurrent
  <1>1. IInv /\ [Next]_vars =>
          [\A p \in Processes :
             (process[p].pc # "done" /\ process'[p].pc = "done")
             => schema' = IF Direction[p] = "up" THEN Load[p] ELSE <<>>]_vars
    <2> SUFFICES ASSUME IInv, NEW q \in Processes, Step(q) \/ Fault(q),
                        NEW p \in Processes, process[p].pc # "done", process'[p].pc = "done"
                 PROVE  schema' = IF Direction[p] = "up" THEN Load[p] ELSE <<>>
        BY DEF Next
    <2>1. Finish(q) /\ q = p
      <3>1. CASE Start(q)
          BY <3>1 DEF Start, Goes, At, IInv, TypeInv
      <3>2. CASE Acquire(q)
          BY <3>2 DEF Acquire, Goes, At, IInv, TypeInv
      <3>3. CASE EnsureHistory(q)
          BY <3>3 DEF EnsureHistory, Goes, At, IInv, TypeInv
      <3>4. CASE ReadHistory(q)
          BY <3>4 DEF ReadHistory, Returns, Goes, At, IInv, TypeInv
      <3>5. CASE ApplyUp(q)
          BY <3>5 DEF ApplyUp, Pending, Returns, Goes, At, IInv, TypeInv
      <3>6. CASE ApplyDown(q)
          BY <3>6 DEF ApplyDown, Pending, Goes, IInv, TypeInv
      <3>7. CASE Finish(q)
          BY <3>7 DEF Finish, Returns, Goes, At, IInv, TypeInv
      <3>8. CASE Fault(q)
          BY <3>8 DEF Fault, Returns, Goes, At, IInv, TypeInv
      <3> QED
          BY <3>1, <3>2, <3>3, <3>4, <3>5, <3>6, <3>7, <3>8 DEF Step
    <2> QED
        BY <2>1, FinishCurrent DEF Finish
  <1> QED
      BY <1>1, MigrationsCorrect, PTL DEF Spec, DoneIsCurrent
=============================================================================
