----------------------------- MODULE LockedQueue -----------------------------
(***************************************************************************)
(* Queue_Design/LockedQueue.h with the callers its interface is made for:  *)
(* threads that add, and on the other side either threads that take what   *)
(* their checker accepts, or one that looks with peek before it pops, or   *)
(* one that takes a batch with next and gives what it cannot finish back   *)
(* with readd.  Threads with a checker stop at the first false, as those   *)
(* of test_LockedQueue.cpp ("checkers"), or call again ("pollers").  Every *)
(* method runs under _lock, so a method is one step, except peek, which    *)
(* keeps the lock until the caller calls unlock.                           *)
(***************************************************************************)
EXTENDS Naturals, Sequences

CONSTANTS Adders, Checkers,  \* threads
          Items, None,
          Work(_),     \* what an adder adds, in order
          Accepts(_),  \* what a checker's Process accepts
          BatchMax     \* the most the batcher takes before it works

Kinds == {"checkers", "pollers", "peeker", "batcher"}

VARIABLES consumer,    \* who takes the items
          looping,     \* the threads whose loop of calls with a checker goes on
          _lock,       \* "peeker" if that thread holds it, or None
          _queue,      \* oldest item first
          _canceled,
          todo,        \* of every adder, what is left of its work
          ref,         \* the item the peeker's reference denotes, or None
          hand,        \* the items the batcher has taken and not done
          working,     \* the batcher has begun to work on its batch
          out          \* the item a consumer was last done with

vars == <<consumer, looping, _lock, _queue, _canceled, todo, ref, hand, working, out>>
client == <<consumer, looping, todo, ref, hand, working>>

Init ==
    /\ consumer \in Kinds
    /\ looping = Checkers
    /\ _lock = None
    /\ _queue = <<>>
    /\ _canceled = FALSE
    /\ todo = [a \in Adders |-> Work(a)]
    /\ ref = None
    /\ hand = <<>>
    /\ working = FALSE
    /\ out = None

\* lock_guard, or lock(): the method waits until the mutex is free.
Lockable == _lock = None

AddAtBack(v) == Append(_queue, v)

add(a) ==
    /\ Lockable
    /\ todo[a] # <<>>
    /\ _queue' = AddAtBack(Head(todo[a]))
    /\ todo' = [todo EXCEPT ![a] = Tail(@)]
    /\ UNCHANGED <<consumer, looping, _lock, _canceled, ref, hand, working, out>>

\* next(result): the front item, if any, into the batch.
next ==
    /\ consumer = "batcher" /\ Lockable
    /\ ~working
    /\ Len(hand) < BatchMax
    /\ _queue # <<>>
    /\ hand' = Append(hand, Head(_queue))
    /\ _queue' = Tail(_queue)
    /\ UNCHANGED <<consumer, looping, _lock, _canceled, todo, ref, working, out>>

\* next(result, check): the front item, unless the checker refuses it.
\* while (queue.next(v, check)) { ... }: the loop of the test ends at the first false,
\* be it that the queue is empty or that the item is refused.
Calls(c) == consumer \in {"checkers", "pollers"} /\ c \in looping /\ Lockable
Taken(c) == _queue # <<>> /\ Head(_queue) \in Accepts(c)
AfterFalse(c) == IF consumer = "checkers" THEN looping \ {c} ELSE looping

nextChecked(c) ==
    /\ Calls(c)
    /\ Taken(c)
    /\ _queue' = Tail(_queue)
    /\ out' = Head(_queue)
    /\ UNCHANGED <<_lock, _canceled, client>>

\* The early returns leave through lock_guard.
KeepsLock(c) == c
Unlocks(c) == None

nextRefused(c) ==
    /\ Calls(c)
    /\ ~Taken(c)
    /\ _lock' = Unlocks(c)
    /\ looping' = AfterFalse(c)
    /\ UNCHANGED <<consumer, _queue, _canceled, todo, ref, hand, working, out>>

\* The batcher does the first item of its batch.
WorkOne ==
    /\ hand # <<>>
    /\ working' = TRUE
    /\ out' = Head(hand)
    /\ hand' = Tail(hand)
    /\ UNCHANGED <<consumer, looping, _lock, _queue, _canceled, todo, ref>>

\* readd(begin, end): _queue.insert(_queue.begin(), begin, end).
InsertedAtEnd(items) == _queue \o items
Inserted(items) == items \o _queue

readd ==
    /\ Lockable
    /\ working
    /\ _queue' = Inserted(hand)
    /\ hand' = <<>>
    /\ working' = FALSE
    /\ UNCHANGED <<consumer, looping, _lock, _canceled, todo, ref, out>>

\* The peeker: if (!empty()) peek(autoUnlock); it uses the reference, calls unlock()
\* if it holds the lock, and removes the item with pop_front().  Nobody else
\* removes items, so after empty() has said no there still is a front.
peek(autoUnlock) ==
    /\ consumer = "peeker" /\ Lockable
    /\ ref = None
    /\ _queue # <<>>
    /\ ref' = Head(_queue)
    /\ _lock' = IF autoUnlock THEN None ELSE "peeker"
    /\ UNCHANGED <<consumer, looping, _queue, _canceled, todo, hand, working, out>>

unlock ==
    /\ _lock = "peeker"
    /\ _lock' = None
    /\ UNCHANGED <<_queue, _canceled, client, out>>

pop_front ==
    /\ Lockable
    /\ ref # None
    /\ _queue' = Tail(_queue)
    /\ out' = ref
    /\ ref' = None
    /\ UNCHANGED <<consumer, looping, _lock, _canceled, todo, hand, working>>

\* Only cancelled() looks at the flag: no method stops at it.
cancel ==
    /\ Lockable
    /\ ~_canceled
    /\ _canceled' = TRUE
    /\ UNCHANGED <<_lock, _queue, client, out>>

Next ==
    \/ \E a \in Adders : add(a)
    \/ \E c \in Checkers : nextChecked(c) \/ nextRefused(c)
    \/ next \/ WorkOne \/ readd
    \/ (\E au \in BOOLEAN : peek(au)) \/ unlock \/ pop_front
    \/ cancel

Spec == Init /\ [][Next]_vars

-----------------------------------------------------------------------------
\* Every variable keeps its type.
TypeOK ==
    /\ consumer \in Kinds /\ looping \subseteq Checkers
    /\ _lock \in {"peeker", None}
    /\ _queue \in Seq(Items) /\ hand \in Seq(Items)
    /\ _canceled \in BOOLEAN /\ working \in BOOLEAN
    /\ todo \in [Adders -> Seq(Items)]
    /\ ref \in Items \cup {None} /\ out \in Items \cup {None}

\* Whoever consumes is done with every item once and in the order of the adds:
\* checkers that refuse items, a caller that pops what it peeked at, and one that
\* gives the rest of a batch back, which resumes its place before what was added
\* meanwhile.
Fifo == INSTANCE FifoQueue WITH q <- hand \o _queue

\* What peek returned a reference to stays at the front until the caller is done
\* with it, in pop_front(): through unlock() or without the lock, while others add.
ReferenceLives == ref # None => _queue # <<>> /\ Head(_queue) = ref

\* All threads have ended: consumers that go on have done all items, and the loops of
\* the test have met a false, which may leave items behind.
Finished ==
    /\ \A a \in Adders : todo[a] = <<>>
    /\ IF consumer = "checkers" THEN looping = {} ELSE _queue = <<>> /\ hand = <<>> /\ ref = None
=============================================================================
