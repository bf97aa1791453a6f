------------------------------- MODULE SpinLock -------------------------------
(***************************************************************************)
(* Atomic & Lock/spinlock.h (the C11 build) protecting the plain counter   *)
(* of autoinc.cc built with USE_SPINLOCK.                                  *)
(*                                                                         *)
(* The lock word is one atomic location.  The counter is a plain int, so   *)
(* what a thread reads from it depends on what happens before: writes is   *)
(* the history of its values and view[t] the newest write thread t is      *)
(* bound to see.  A release store of the lock publishes the view of its    *)
(* thread, an acquire exchange joins the published view to that of its     *)
(* thread; a read returns any value from the thread's view on.             *)
(***************************************************************************)
EXTENDS Naturals, Sequences, Functions

CONSTANTS Threads, Num,  \* the threads, and the increments of each
          Tryers         \* threads that use spinlock_trylock

ASSUME SpinLockAssumption == Tryers \subseteq Threads /\ Num \in Nat

VARIABLES lock,      \* the lock word, 0 or 1
          lockView,  \* the view published by the last store to it
          writes,    \* the values of count, oldest first
          view,      \* of every thread, an index of writes
          point,     \* of every thread, its place in incrby
          val,       \* of every thread, the register of ++count
          todo       \* iterations of incrby every thread has left

lockVars == <<lock, lockView, writes, view, point, val, todo>>

Later(i, j) == IF i >= j THEN i ELSE j

\* main: spinlock_init, count = 0, start the threads.
LockInit ==
    /\ lock = 0
    /\ lockView = 1
    /\ writes = <<0>>
    /\ view = [t \in Threads |-> 1]
    /\ point = [t \in Threads |-> "idle"]
    /\ val = [t \in Threads |-> 0]
    /\ todo = [t \in Threads |-> Num]

Goto(t, place) == point' = [point EXCEPT ![t] = place]

\* The next iteration of incrby, by spinlock_lock or spinlock_trylock.
Iterate(t) ==
    /\ point[t] = "idle"
    /\ todo[t] > 0
    /\ Goto(t, IF t \in Tryers THEN "try" ELSE "exchange")
    /\ UNCHANGED <<lock, lockView, writes, view, val, todo>>

\* atomic_exchange_explicit(ptr, 1, memory_order_acquire): what the thread sees
\* afterwards, and whether the lock was free.
RelaxedView(t) == view[t]
AcquiredView(t) == Later(view[t], lockView)

AlwaysFree == TRUE
WasFree == lock = 0

Exchange(t, otherwise) ==
    /\ lock' = 1
    /\ view' = [view EXCEPT ![t] = AcquiredView(t)]
    /\ Goto(t, IF WasFree THEN "load" ELSE otherwise)
    /\ UNCHANGED <<lockView, writes, val, todo>>

LockExchange(t) == point[t] = "exchange" /\ Exchange(t, "spin")

\* The relaxed load of the waiting loop sees the lock free.  (It may see it late;
\* acting on a 0 that is no longer there only leads back to this loop, which the
\* step of another thread between Spin and LockExchange shows too.)
Spin(t) ==
    /\ point[t] = "spin"
    /\ lock = 0
    /\ Goto(t, "exchange")
    /\ UNCHANGED <<lock, lockView, writes, view, val, todo>>

\* spinlock_trylock: a relaxed load, then the exchange if the lock looked free.
TryLoad(t) ==
    /\ point[t] = "try"
    /\ Goto(t, IF lock = 0 THEN "tryexchange" ELSE "idle")
    /\ UNCHANGED <<lock, lockView, writes, view, val, todo>>

TryExchange(t) == point[t] = "tryexchange" /\ Exchange(t, "idle")

\* ++count, the read and the write.
Load(t) ==
    /\ point[t] = "load"
    /\ \E i \in view[t] .. Len(writes) :
          /\ val' = [val EXCEPT ![t] = writes[i]]
          /\ view' = [view EXCEPT ![t] = i]
    /\ Goto(t, "store")
    /\ UNCHANGED <<lock, lockView, writes, todo>>

Store(t) ==
    /\ point[t] = "store"
    /\ writes' = Append(writes, val[t] + 1)
    /\ view' = [view EXCEPT ![t] = Len(writes) + 1]
    /\ val' = [val EXCEPT ![t] = 0]
    /\ Goto(t, "unlock")
    /\ UNCHANGED <<lock, lockView, todo>>

\* atomic_store_explicit(ptr, 0, memory_order_release): the view it publishes.
ReleasedView(t) == view[t]

\* The lock word after spinlock_unlock.
UnlockForgotten == 1
Unlocked == 0

Unlock(t) ==
    /\ point[t] = "unlock"
    /\ lock' = Unlocked
    /\ lockView' = ReleasedView(t)
    /\ todo' = [todo EXCEPT ![t] = @ - 1]
    /\ Goto(t, "idle")
    /\ UNCHANGED <<writes, view, val>>

Step(t) ==
    \/ Iterate(t)
    \/ LockExchange(t)
    \/ Spin(t)
    \/ TryLoad(t)
    \/ TryExchange(t)
    \/ Load(t)
    \/ Store(t)
    \/ Unlock(t)

LockNext == \E t \in Threads : Step(t)

LockSpec == LockInit /\ [][LockNext]_lockVars

-----------------------------------------------------------------------------
(* Properties *)

Places == {"idle", "exchange", "spin", "try", "tryexchange", "load", "store", "unlock"}

InCritical(t) == point[t] \in {"load", "store", "unlock"}

\* Every variable holds a value of its declared type.
LockTypeOK ==
    /\ lock \in {0, 1}
    /\ writes \in Seq(Nat) /\ writes # <<>>
    /\ lockView \in 1 .. Len(writes)
    /\ view \in [Threads -> 1 .. Len(writes)]
    /\ point \in [Threads -> Places]
    /\ val \in [Threads -> Nat]
    /\ todo \in [Threads -> Nat]

\* At most one thread is between spinlock_lock or a successful spinlock_trylock
\* and spinlock_unlock.
MutualExclusion == \A t, u \in Threads : InCritical(t) /\ InCritical(u) => t = u

\* The holder of the lock has seen every earlier write of count: its plain
\* accesses race with nobody's.
NoDataRace == \A t \in Threads : InCritical(t) => view[t] = Len(writes)

\* The plain counter under the spin lock implements an atomic counter: the
\* write of ++count is the fetch_add.
Counter == INSTANCE AtomicCounter WITH
    Threads <- Threads, Num <- Num,
    count <- writes[Len(writes)],
    todo <- [t \in Threads |-> IF point[t] = "unlock" THEN todo[t] - 1 ELSE todo[t]]
RefinesCounter == Counter!CounterSpec

\* The inductive invariant of the proofs: a free lock publishes the newest write
\* and nobody is between lock and unlock; a thread about to store holds the
\* newest value.
LockInv ==
    /\ LockTypeOK
    /\ MutualExclusion
    /\ NoDataRace
    /\ lock = 0 => lockView = Len(writes) /\ \A t \in Threads : ~ InCritical(t)
    /\ \A t \in Threads : point[t] = "store" => val[t] = writes[Len(writes)]
    /\ \A t \in Threads : point[t] # "idle" => todo[t] > 0

\* All threads get the lock often enough to finish.
Termination == <>(\A t \in Threads : todo[t] = 0)
=============================================================================
