------------------------------- MODULE MCQueues -------------------------------
(***************************************************************************)
(* The two queues behind one mutex: ProducerConsumerQueue.h, and           *)
(* LockedQueue.h with the work of test_LockedQueue.cpp.  A behaviour runs  *)
(* one of them; the variables of the other keep their initial values.      *)
(***************************************************************************)
EXTENDS ProducerConsumerQueue

CONSTANTS Adders, Checkers, WorkItems, Work(_), Accepts(_), BatchMax   \* of LockedQueue

ASSUME WorkAssumption == \A a \in Adders : Work(a) \in Seq(WorkItems)

\* The producers of test_LockedQueue.cpp and its two checkers.
CONSTANTS a1, c1
TestItems == {10, 2, 3, 4, 5, 6, 7, 8}
TestWork(a) == IF a = a1 THEN <<10, 2, 3, 4>> ELSE <<5, 6, 7, 8>>
Parity(c) == {v \in TestItems : v % 2 = (IF c = c1 THEN 0 ELSE 1)}

VARIABLES running,   \* "waiting", ProducerConsumerQueue.h, or "locked", LockedQueue.h
          consumer, looping, _lock, items, _canceled, left, ref, hand, working, done

locked == <<consumer, looping, _lock, items, _canceled, left, ref, hand, working, done>>
Locked == INSTANCE LockedQueue
            WITH Items <- WorkItems, _queue <- items, todo <- left, out <- done

MCInit ==
    /\ running \in {"waiting", "locked"}
    /\ Init /\ Locked!Init
    /\ running = "waiting" => consumer = "checkers"

MCNext ==
    \/ running = "waiting" /\ Next /\ UNCHANGED <<running, locked>>
    \/ running = "locked" /\ Locked!Next /\ UNCHANGED <<running, vars>>

\* ProducerConsumerQueue.h: a woken consumer gets the lock in the end, and the
\* consumers, together, keep calling WaitAndPop.
WaitingFairness ==
    /\ \A c \in Consumers : WF_vars(running = "waiting" /\ pc[c] = "woken" /\ WaitAndPop(c))
    /\ WF_vars(running = "waiting" /\ \E c \in Consumers : WaitAndPop(c))

\* LockedQueue.h: threads keep running, and the mutex lets each of them in.
LockedFairness ==
    /\ \A a \in Adders : SF_locked(running = "locked" /\ Locked!add(a))
    /\ \A c \in Checkers :
          SF_locked(running = "locked" /\ (Locked!nextChecked(c) \/ Locked!nextRefused(c)))
    /\ SF_locked(running = "locked" /\ Locked!next)
    /\ WF_locked(running = "locked" /\ Locked!WorkOne)
    /\ SF_locked(running = "locked" /\ Locked!readd)
    /\ SF_locked(running = "locked" /\ \E au \in BOOLEAN : Locked!peek(au))
    /\ WF_locked(running = "locked" /\ Locked!unlock)
    /\ SF_locked(running = "locked" /\ Locked!pop_front)

MCSpec ==
    /\ MCInit
    /\ [][MCNext]_<<running, vars, locked>>
    /\ WaitingFairness
    /\ LockedFairness

\* LockedQueue.h: consumers are done with every item once and in the order of the adds,
\* and the item that peek returned a reference to stays until pop_front().
ItemsInOrder == Locked!Fifo!FifoSpec /\ [](Locked!TypeOK /\ Locked!ReferenceLives)

\* ProducerConsumerQueue.h: consumers that keep calling receive every object, and all
\* return once the queue is cancelled.  LockedQueue.h: every item is done in the end when
\* the consumers call again after a false: the one a checker refuses is taken by another, no
\* return leaves the mutex locked, and batches given back come again.  The loops of
\* test_LockedQueue.cpp stop at a false and may leave items; all threads there return.
AllTaken == Delivered /\ (running = "locked" => <>Locked!Finished)
=============================================================================
