------------------------------ MODULE FifoQueue ------------------------------
(***************************************************************************)
(* What every queue of Queue_Design promises its callers, whatever its     *)
(* locking: objects come out once, in the order in which they went in.     *)
(* The concrete queues are shown to implement this specification through a *)
(* refinement mapping; the position at which an operation of a concrete    *)
(* queue takes effect (an atomic exchange, a critical section) is the step *)
(* that is mapped to Put or Get.                                           *)
(***************************************************************************)
EXTENDS Sequences

CONSTANTS Items,    \* the objects callers pass by pointer
          None      \* "nothing was returned yet"

VARIABLES q,        \* the objects in the queue, oldest first
          out       \* the object the last successful removal returned

fifoVars == <<q, out>>

FifoInit ==
    /\ q = <<>>
    /\ out = None

Put(m) ==
    /\ q' = Append(q, m)
    /\ UNCHANGED out

Get ==
    /\ q # <<>>
    /\ out' = Head(q)
    /\ q' = Tail(q)

\* The queue is cancelled: what it holds is released without being returned.
Drop ==
    /\ q' = <<>>
    /\ UNCHANGED out

FifoNext == (\E m \in Items : Put(m)) \/ Get

\* A queue that nobody can cancel.
FifoSpec == FifoInit /\ [][FifoNext]_fifoVars

\* A queue with a Cancel operation.
CancellableSpec == FifoInit /\ [][FifoNext \/ Drop]_fifoVars
=============================================================================
