------------------------ MODULE MCAssemblyExecution ------------------------
(***************************************************************************)
(* Small instances of AssemblyExecution.  The readings 2 and 3 fall into   *)
(* one stored microsecond, 2 on its start, and so do 4 and 5.              *)
(***************************************************************************)
EXTENDS AssemblyExecution, TLC

FirstWorker == CHOOSE w \in Workers : TRUE

\* Clocks that never read the same nanosecond, and clocks that may.  Of the
\* former, one reads a whole microsecond.
MCDistinctClocks == [w \in Workers |-> IF w = FirstWorker THEN {2} ELSE {5}]
MCCommonClock == [w \in Workers |-> {2, 3}]
MCWholeMicroseconds == [w \in Workers |-> {2}]
=============================================================================
