----------------------------- MODULE MCJobQueue -----------------------------
(* Two workers, one client and two coroutines.  One job of each type may run *)
(* at a time, so that jobs are deferred.                                     *)
EXTENDS JobQueue

CONSTANTS w1, w2, cl, c1, c2

MCWorker == {w1, w2}
MCClient == {cl}
MCType == {1, 2}
MCLimit == [type \in Type |-> 1]
=============================================================================
