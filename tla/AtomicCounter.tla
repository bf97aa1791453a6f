---------------------------- MODULE AtomicCounter ----------------------------
(***************************************************************************)
(* Atomic & Lock/autoinc.cc built with USE_ATOMIC: threads that add 1 to   *)
(* one std::atomic<int> a given number of times.  It is also what the      *)
(* build with USE_SPINLOCK is meant to implement.                          *)
(***************************************************************************)
EXTENDS Naturals, Functions

CONSTANTS Threads, Num

VARIABLES count,  \* the counter
          todo    \* the iterations every thread has left

counterVars == <<count, todo>>

CounterInit ==
    /\ count = 0
    /\ todo = [t \in Threads |-> Num]

FetchAdd(t) ==
    /\ todo[t] > 0
    /\ count' = count + 1
    /\ todo' = [todo EXCEPT ![t] = @ - 1]

CounterNext == \E t \in Threads : FetchAdd(t)

CounterSpec == CounterInit /\ [][CounterNext]_counterVars
=============================================================================
