------------------------------ MODULE MCDeadlock ------------------------------
(***************************************************************************)
(* Three threads around a ring of three mutexes; and, to check the search  *)
(* on more graphs than they produce, threads that have finished and left   *)
(* behind any graph of four vertices.                                      *)
(***************************************************************************)
EXTENDS DeadlockDetector, TLC

CONSTANTS t1, t2, t3, t4, l1, l2, l3

RingThreads == {t1, t2, t3, t4}
RingLocks == {l1, l2, l3}
RingFirst == t1 :> l1 @@ t2 :> l2 @@ t3 :> l3 @@ t4 :> l1
RingSecond == t1 :> l2 @@ t2 :> l3 @@ t3 :> l1 @@ t4 :> l3
RingRounds == t1 :> 2 @@ t2 :> 1 @@ t3 :> 1 @@ t4 :> 0

Graphs ==
    {[v \in 1 .. 4 |-> [id |-> <<t1, t2, t3, t4>>[v], next |-> SetToSeq(to[v])]] :
        to \in {f \in [1 .. 4 -> SUBSET RingThreads] : \A v \in 1 .. 4 : <<t1, t2, t3, t4>>[v] \notin f[v]}}

LeftBehind ==
    /\ prompt = FALSE
    /\ holder = [l \in Locks |-> Nobody]
    /\ pc = [t \in Threads |-> "run"]
    /\ next = [t \in Threads |-> 4 * Rounds[t]]
    /\ locklist = [i \in Slots |-> [id |-> Nobody, lock_id |-> Nobody, degree |-> 0]]
    /\ lock_idx = 0
    /\ list \in Graphs
    /\ deadlock = 0

MCSpec == (Init \/ LeftBehind) /\ [][Next]_vars
=============================================================================
