---------------------------- MODULE MCWorkerPool ----------------------------
(* Instances of WorkerPool: tasks of a type that gets a limit, of a type   *)
(* that workers register on their own, and of no type.                     *)
EXTENDS WorkerPool

MCTypeOf == [t \in Tasks |-> IF t <= 2 THEN "heavy" ELSE IF t = 3 THEN "light" ELSE NoType]
=============================================================================
